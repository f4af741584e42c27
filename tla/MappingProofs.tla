--------------------------- MODULE MappingProofs ---------------------------
(***************************************************************************)
(* Proofs about the mapping engine, for every memory layout, every word    *)
(* size, every table of rules and every table a reload installs.           *)
(*                                                                         *)
(*   Typing       Spec => []TypeOK                                         *)
(*   DeadBranch   Spec => []OutOfSyncNeverTaken                            *)
(*   LoneWrite    Spec => []LoneWriteSurvives, for tables whose rules join *)
(*                existing cells of one kind                               *)
(*   StarsConverge, LoneWriteArrives                                       *)
(*                Spec => []QuietConverged, Spec => []LoneWritePropagates, *)
(*                for tables of stars (StarTables)                         *)
(***************************************************************************)
EXTENDS MappingHistory, SequenceTheorems, TLAPS

(***************************************************************************)
(* The memory.                                                             *)
(***************************************************************************)

\* Every cell is a MemoryRef: its area is a string and its index a number.
LEMMA CellIsRef == Cell \subseteq MemoryRef
  <1> SUFFICES ASSUME NEW c \in Cell PROVE c \in MemoryRef
    OBVIOUS
  <1>1. PICK a \in Area : c \in {Ref(a, i) : i \in 0 .. (Size[a] - 1)}
    BY DEF Cell
  <1>2. Size[a] \in Nat /\ a \in STRING
    BY MemoryAssumption
  <1>3. PICK i \in 0 .. (Size[a] - 1) : c = Ref(a, i)
    BY <1>1
  <1> QED
    BY <1>2, <1>3 DEF Ref, MemoryRef

\* A read returns a word, whatever the reference (PlcMemory::readValue).
LEMMA ReadType ==
  ASSUME NEW m \in MemoryType, NEW ref
  PROVE  ReadValue(m, ref) \in Word
  BY MemoryAssumption DEF ReadValue, MemoryType, Word

\* A write keeps the type of the memory, and bits stay bits
\* (PlcMemory::writeValue).
LEMMA WriteType ==
  ASSUME NEW m \in MemoryType, NEW ref, NEW v \in Word
  PROVE  WriteValue(m, ref, v) \in MemoryType
  <1>1. CASE ref \notin Cell
    BY <1>1 DEF WriteValue
  <1>2. CASE ref \in Cell
    <2>1. Narrow(ref, v) \in Word
      BY MemoryAssumption DEF Narrow, Word
    <2>2. ref \in BitCell => Narrow(ref, v) \in Bit
      BY DEF Narrow, Bit
    <2>3. [m EXCEPT ![ref] = Narrow(ref, v)] \in [Cell -> Word]
      BY <1>2, <2>1 DEF MemoryType
    <2>4. \A c \in BitCell : [m EXCEPT ![ref] = Narrow(ref, v)][c] \in Bit
      BY <1>2, <2>2 DEF MemoryType, BitCell
    <2> QED
      BY <1>2, <2>3, <2>4 DEF WriteValue, MemoryType
  <1> QED
    BY <1>1, <1>2

(***************************************************************************)
(* Loading rules.                                                          *)
(***************************************************************************)

\* A fresh rule has the ends its entry names and is not initialized.
LEMMA FreshType ==
  ASSUME NEW entry \in Entry
  PROVE  /\ Fresh(entry) \in MappingRule
         /\ Fresh(entry).src = entry.src
         /\ Fresh(entry).dst = entry.dst
         /\ Fresh(entry).initialized = FALSE
  <1>1. 0 \in Word
    BY MemoryAssumption DEF Word
  <1> QED
    BY <1>1 DEF Fresh, MappingRule, Entry

\* loadMappings builds one uninitialized rule per entry, in order.
LEMMA LoadType ==
  ASSUME NEW table \in Seq(Entry)
  PROVE  /\ Load(table) \in Seq(MappingRule)
         /\ Len(Load(table)) = Len(table)
         /\ \A k \in 1 .. Len(table) :
              /\ Load(table)[k].src = table[k].src
              /\ Load(table)[k].dst = table[k].dst
              /\ Load(table)[k].initialized = FALSE
  <1>1. Len(table) \in Nat
    OBVIOUS
  <1>2. \A k \in 1 .. Len(table) :
          /\ Fresh(table[k]) \in MappingRule
          /\ Fresh(table[k]).src = table[k].src
          /\ Fresh(table[k]).dst = table[k].dst
          /\ Fresh(table[k]).initialized = FALSE
    BY ElementOfSeq, FreshType
  <1>3. Load(table) \in [1 .. Len(table) -> MappingRule]
    BY <1>2 DEF Load
  <1>4. Load(table) \in Seq(MappingRule)
    BY <1>1, <1>3, SeqDef
  <1>5. Len(Load(table)) = Len(table)
    BY <1>1, <1>3, <1>4, LenProperties
  <1>6. \A k \in 1 .. Len(table) : Load(table)[k] = Fresh(table[k])
    BY DEF Load
  <1> QED
    BY <1>2, <1>4, <1>5, <1>6

\* Remembering a value keeps a rule's ends and its type.
LEMMA RememberType ==
  ASSUME NEW r \in MappingRule, NEW v \in Word
  PROVE  /\ Remember(r, v) \in MappingRule
         /\ Remember(r, v).src = r.src
         /\ Remember(r, v).dst = r.dst
         /\ Remember(r, v).last_src = v
         /\ Remember(r, v).last_dst = v
         /\ Remember(r, v).initialized
  BY DEF Remember, MappingRule

\* What applying one rule does to the memory and to the rules: the rule
\* remembers the value its pass settled on, and at most one cell is written.
LEMMA ApplyEffect ==
  ASSUME mem \in MemoryType, rules \in Seq(MappingRule),
         at \in 1 .. Len(rules), curr_src \in Word, curr_dst \in Word,
         NEW t, SyncRule(t)
  PROVE  \E v \in Word :
           /\ v \in {curr_src, curr_dst}
           /\ rules' = [rules EXCEPT ![at] = Remember(rules[at], v)]
           /\ mem' \in MemoryType
           /\ rules' \in Seq(MappingRule)
           /\ Len(rules') = Len(rules)
           /\ rules'[at] = Remember(rules[at], v)
           /\ \A k \in 1 .. Len(rules) : k # at => rules'[k] = rules[k]
  <1>0. rules[at] \in MappingRule
    BY ElementOfSeq
  <1>1. \E v \in Word :
           /\ v \in {curr_src, curr_dst}
           /\ rules' = [rules EXCEPT ![at] = Remember(rules[at], v)]
           /\ mem' \in MemoryType
    <2>1. CASE PropagateToDst(rules[at])
      BY <2>1, WriteType DEF PropagateToDst
    <2>2. CASE PropagateToSrc(rules[at])
      BY <2>2, WriteType DEF PropagateToSrc
    <2>3. CASE NothingToDo(rules[at])
      BY <2>3 DEF NothingToDo
    <2> QED
      BY <2>1, <2>2, <2>3 DEF SyncRule
  <1>2. PICK v \in Word :
           /\ v \in {curr_src, curr_dst}
           /\ rules' = [rules EXCEPT ![at] = Remember(rules[at], v)]
           /\ mem' \in MemoryType
    BY <1>1
  <1>3. Remember(rules[at], v) \in MappingRule
    BY <1>0, RememberType
  <1>4. /\ rules' \in Seq(MappingRule)
        /\ Len(rules') = Len(rules)
        /\ \A j \in 1 .. Len(rules) :
              rules'[j] = IF j = at THEN Remember(rules[at], v) ELSE rules[j]
    BY <1>2, <1>3, ExceptSeq
  <1> QED
    BY <1>2, <1>4

(***************************************************************************)
(* Typing.                                                                 *)
(***************************************************************************)

LEMMA InitTypeOK == Init => TypeOK
  <1> SUFFICES ASSUME Init PROVE TypeOK
    OBVIOUS
  <1> USE DEF Init, EngineInit, SyncInit
  <1>1. 0 \in Word /\ 0 \in Bit
    BY MemoryAssumption DEF Word, Bit
  <1>2. mem \in MemoryType
    BY <1>1 DEF MemoryType, ZeroMemory, BitCell
  <1>3. rules \in Seq(MappingRule) /\ Len(rules) \in Nat
    BY LoadType, EngineAssumption, LenProperties
  <1>4. call \in [Thread -> {"idle", "waiting", "inside"}]
    OBVIOUS
  <1>5. at = 1 /\ at \in 1 .. (Len(rules) + 1) /\ step = "src"
    BY <1>3
  <1>6. curr_src \in Word /\ curr_dst \in Word
    BY <1>1
  <1>7a. quiet \in 0 .. Passes
    BY PassesAssumption
  <1>7. traffic \in BOOLEAN /\ clean \in BOOLEAN
    OBVIOUS
  <1>8. lone \in LoneType
    BY DEF LoneType, Nothing
  <1> QED
    BY <1>2, <1>3, <1>4, <1>5, <1>6, <1>7, <1>7a, <1>8 DEF TypeOK

\* Recording a client write keeps the types of the history.
LEMMA RecordType ==
  ASSUME lone \in LoneType, traffic \in BOOLEAN,
         NEW c \in Cell, NEW v \in Word, Record(c, v)
  PROVE  /\ lone' \in LoneType
         /\ traffic' \in BOOLEAN
         /\ quiet' \in 0 .. Passes
         /\ clean' \in BOOLEAN
  <1>1. Narrow(c, v) \in Word
    BY MemoryAssumption DEF Narrow, Word
  <1>2. Contended \in LoneType
    BY DEF Contended, Nothing, LoneType
  <1>3. [kind |-> "lone", cell |-> c, value |-> Narrow(c, v)] \in LoneType
    BY <1>1 DEF LoneType
  <1>4. lone' \in LoneType
    BY <1>2, <1>3 DEF Record
  <1>5. quiet' \in 0 .. Passes
    BY PassesAssumption DEF Record
  <1> QED
    BY <1>4, <1>5 DEF Record

LEMMA NextTypeOK == TypeOK /\ [Next]_vars => TypeOK'
  <1> SUFFICES ASSUME TypeOK, [Next]_vars PROVE TypeOK'
    OBVIOUS
  <1>0. Len(rules) \in Nat
    BY LenProperties DEF TypeOK
  <1> DEFINE EngineType ==
        /\ mem \in MemoryType
        /\ rules \in Seq(MappingRule)
        /\ call \in [Thread -> {"idle", "waiting", "inside"}]
        /\ at \in 1 .. (Len(rules) + 1)
        /\ step \in {"src", "dst", "apply"}
        /\ step # "src" => at \in 1 .. Len(rules)
        /\ MappingsUnlocked => at = 1 /\ step = "src"
        /\ curr_src \in Word
        /\ curr_dst \in Word
      HistoryType ==
        /\ traffic \in BOOLEAN
        /\ lone \in LoneType
        /\ quiet \in 0 .. Passes
        /\ clean \in BOOLEAN
  <1>1. EngineType /\ HistoryType
    BY DEF TypeOK
  <1>2. EngineType' /\ HistoryType' => TypeOK'
    BY DEF TypeOK
  <1> HIDE DEF HistoryType
  <1>a. ASSUME UNCHANGED historyVars PROVE HistoryType'
    BY <1>a, <1>1 DEF historyVars, HistoryType
  <1>3. CASE Call
    <2>1. EngineType'
      BY <1>3, <1>1 DEF Call, SyncCall, passVars, MappingsUnlocked
    <2>2. HistoryType'
      BY <1>3, <1>a DEF Call
    <2> QED
      BY <2>1, <2>2, <1>2
  <1>4. ASSUME NEW t \in Thread, Lock(t) PROVE TypeOK'
    <2>1. EngineType'
      BY <1>4, <1>1, <1>0 DEF Lock, LockMappings, MappingsUnlocked
    <2>2. HistoryType'
      BY <1>4, <1>1 DEF Lock, HistoryType
    <2> QED
      BY <2>1, <2>2, <1>2
  <1>5. ASSUME NEW t \in Thread, Access(t) PROVE TypeOK'
    <2>1. HistoryType'
      BY <1>5, <1>a DEF Access
    <2>2. call[t] = "inside"
      BY <1>5 DEF Access, ReadSrc, ReadDst, SyncRule
    <2>3. ASSUME call' = call PROVE ~MappingsUnlocked'
      BY <2>2, <2>3 DEF MappingsUnlocked
    <2>4. CASE ReadSrc(t)
      <3>1. curr_src' \in Word
        BY <2>4, <1>1, ReadType DEF ReadSrc
      <3> QED
        BY <3>1, <2>1, <2>3, <2>4, <1>0, <1>1, <1>2 DEF ReadSrc
    <2>5. CASE ReadDst(t)
      <3>1. curr_dst' \in Word
        BY <2>5, <1>1, ReadType DEF ReadDst
      <3> QED
        BY <3>1, <2>1, <2>3, <2>5, <1>0, <1>1, <1>2 DEF ReadDst
    <2>6. CASE SyncRule(t)
      <3>1. at \in 1 .. Len(rules)
        BY <2>6, <1>1 DEF SyncRule
      <3>2. /\ mem' \in MemoryType
            /\ rules' \in Seq(MappingRule)
            /\ Len(rules') = Len(rules)
        BY <3>1, <2>6, <1>1, ApplyEffect
      <3>3. at' \in 1 .. (Len(rules') + 1) /\ step' = "src"
        BY <3>1, <3>2, <2>6, <1>0 DEF SyncRule
      <3>4. curr_src' \in Word /\ curr_dst' \in Word
        BY <2>6, MemoryAssumption DEF SyncRule, Word
      <3>5. call' = call
        BY <2>6 DEF SyncRule
      <3> QED
        BY <3>2, <3>3, <3>4, <3>5, <2>1, <2>3, <1>1, <1>2
    <2> QED
      BY <1>5, <2>4, <2>5, <2>6 DEF Access
  <1>6. ASSUME NEW t \in Thread, Return(t) PROVE TypeOK'
    <2>1. EngineType'
      BY <1>6, <1>1, <1>0 DEF Return, SyncReturn, MappingsUnlocked
    <2>2. quiet' \in 0 .. Passes
      BY <1>6, <1>1, PassesAssumption DEF Return, HistoryType
    <2>3. HistoryType'
      BY <1>6, <1>1, <2>2 DEF Return, HistoryType
    <2> QED
      BY <2>1, <2>3, <1>2
  <1>7. ASSUME NEW c \in Cell, NEW v \in Word, Write(c, v) PROVE TypeOK'
    <2>1. EngineType'
      BY <1>7, <1>1, WriteType
         DEF Write, ClientWrite, passVars, MappingsUnlocked
    <2>2. HistoryType'
      BY <1>7, <1>1, RecordType DEF Write, HistoryType
    <2> QED
      BY <2>1, <2>2, <1>2
  <1>8. ASSUME NEW c \in Cell, NEW v \in Word, PostWrite(c, v) PROVE TypeOK'
    <2>1. mem' \in MemoryType
      BY <1>8, <1>1, WriteType DEF PostWrite, WebWrite
    <2>2. EngineType'
      BY <1>8, <1>1, <2>1 DEF PostWrite, WebWrite, passVars, MappingsUnlocked
    <2>3. HistoryType'
      BY <1>8, <1>1, RecordType DEF PostWrite, HistoryType
    <2> QED
      BY <2>2, <2>3, <1>2
  <1>9. ASSUME NEW table \in Tables, Reload(table) PROVE TypeOK'
    <2>1. rules' \in Seq(MappingRule) /\ Len(rules') \in Nat
      BY <1>9, LoadType, EngineAssumption, LenProperties DEF Reload, LoadMappings
    <2>2. EngineType'
      BY <1>9, <1>1, <2>1 DEF Reload, LoadMappings, passVars, MappingsUnlocked
    <2>3. lone' \in LoneType
      BY <1>9, <1>1 DEF Reload, LoneType, HistoryType, Contended, Nothing
    <2>4. quiet' \in 0 .. Passes
      BY <1>9, PassesAssumption DEF Reload
    <2>5. HistoryType'
      BY <1>9, <1>1, <2>3, <2>4 DEF Reload, HistoryType
    <2> QED
      BY <2>2, <2>5, <1>2
  <1>10. CASE TrafficEnds
    <2>1. EngineType'
      BY <1>10, <1>1 DEF TrafficEnds, engineVars, MappingsUnlocked
    <2>2. HistoryType'
      BY <1>10, <1>1 DEF TrafficEnds, HistoryType
    <2> QED
      BY <2>1, <2>2, <1>2
  <1>11. CASE UNCHANGED vars
    <2>1. EngineType'
      BY <1>11, <1>1 DEF vars, engineVars, MappingsUnlocked
    <2> QED
      BY <2>1, <1>11, <1>a, <1>2 DEF vars
  <1> QED
    BY <1>3, <1>4, <1>5, <1>6, <1>7, <1>8, <1>9, <1>10, <1>11 DEF Next

\* Every variable keeps its type, for every table and word size: bits stay
\* bits through propagation, and a pass never leaves its table of rules even
\* when a reload installs a shorter one (PlcMemory.cpp:450-528).
THEOREM Typing == Spec => []TypeOK
  <1>1. Init => TypeOK
    BY InitTypeOK
  <1>2. TypeOK /\ [Next]_vars => TypeOK'
    BY NextTypeOK
  <1> QED
    BY <1>1, <1>2, PTL DEF Spec

(***************************************************************************)
(* The dead branch.                                                        *)
(***************************************************************************)

\* Between passes and inside them, an initialized rule remembers one value
\* for both of its ends.
RulesAgree ==
    \A k \in 1 .. Len(rules) :
        rules[k].initialized => rules[k].last_src = rules[k].last_dst

LEMMA InitRulesAgree == Init => RulesAgree
  <1> SUFFICES ASSUME Init PROVE RulesAgree
    OBVIOUS
  <1>1. /\ Len(rules) = Len(InitTable)
        /\ \A k \in 1 .. Len(InitTable) : rules[k].initialized = FALSE
    BY LoadType, EngineAssumption DEF Init, EngineInit, SyncInit
  <1> QED
    BY <1>1 DEF RulesAgree

LEMMA NextRulesAgree == TypeOK /\ RulesAgree /\ [Next]_vars => RulesAgree'
  <1> SUFFICES ASSUME TypeOK, RulesAgree, [Next]_vars PROVE RulesAgree'
    OBVIOUS
  <1>1. CASE UNCHANGED rules
    BY <1>1 DEF RulesAgree
  <1>2. ASSUME NEW t \in Thread, SyncRule(t) PROVE RulesAgree'
    <2>1. at \in 1 .. Len(rules)
      BY <1>2 DEF TypeOK, SyncRule
    <2>2. PICK v \in Word :
            /\ Len(rules') = Len(rules)
            /\ rules'[at] = Remember(rules[at], v)
            /\ \A k \in 1 .. Len(rules) : k # at => rules'[k] = rules[k]
      BY <2>1, <1>2, ApplyEffect DEF TypeOK
    <2>3. rules[at] \in MappingRule
      BY <2>1, ElementOfSeq DEF TypeOK
    <2>4. Remember(rules[at], v).last_src = Remember(rules[at], v).last_dst
      BY <2>3, RememberType
    <2> QED
      BY <2>2, <2>4 DEF RulesAgree
  <1>3. ASSUME NEW table \in Tables, Reload(table) PROVE RulesAgree'
    <2>1. /\ Len(rules') = Len(table)
          /\ \A k \in 1 .. Len(table) : rules'[k].initialized = FALSE
      BY <1>3, LoadType, EngineAssumption DEF Reload, LoadMappings
    <2> QED
      BY <2>1 DEF RulesAgree
  <1> QED
    BY <1>1, <1>2, <1>3
       DEF Next, Call, SyncCall, Lock, LockMappings, Access, ReadSrc, ReadDst,
           Return, SyncReturn, Write, ClientWrite, PostWrite, WebWrite,
           TrafficEnds, vars, engineVars

\* The third branch of syncMappings (PlcMemory.cpp:517-522) is dead code: no
\* interleaving of client writes, passes and reloads ever reaches it.
THEOREM DeadBranch == Spec => []OutOfSyncNeverTaken
  <1>1. Init => TypeOK /\ RulesAgree
    BY InitTypeOK, InitRulesAgree
  <1>2. TypeOK /\ RulesAgree /\ [Next]_vars => TypeOK' /\ RulesAgree'
    BY NextTypeOK, NextRulesAgree
  <1>3. TypeOK /\ RulesAgree => OutOfSyncNeverTaken
    <2> SUFFICES ASSUME TypeOK, RulesAgree, step = "apply"
                 PROVE  ~OutOfSync(rules[at])
      BY DEF OutOfSyncNeverTaken
    <2>1. at \in 1 .. Len(rules)
      BY DEF TypeOK
    <2> QED
      BY <2>1 DEF RulesAgree, OutOfSync
  <1> QED
    BY <1>1, <1>2, <1>3, PTL DEF Spec

(***************************************************************************)
(* The lone write.                                                         *)
(*                                                                         *)
(* While one client write v has the engine to itself, each end of every    *)
(* rule holds either what the rule remembers or v, a pass has read one or  *)
(* the other of them, and an end it read v from still holds v: whatever    *)
(* the rule then writes is v, so no cell that holds v ever loses it.       *)
(***************************************************************************)

RulesMatched == \A k \in 1 .. Len(rules) : Matched(rules[k])

LoneRule(k) ==
    /\ rules[k].initialized
    /\ mem[rules[k].src] \in {rules[k].last_src, lone.value}
    /\ mem[rules[k].dst] \in {rules[k].last_src, lone.value}
    /\ at = k /\ step # "src" =>
          \/ curr_src = rules[k].last_src
          \/ curr_src = lone.value /\ mem[rules[k].src] = lone.value
    /\ at = k /\ step = "apply" =>
          \/ curr_dst = rules[k].last_src
          \/ curr_dst = lone.value /\ mem[rules[k].dst] = lone.value

LoneInv ==
    lone.kind = "lone" =>
        /\ mem[lone.cell] = lone.value
        /\ \A k \in 1 .. Len(rules) : LoneRule(k)

IInv == TypeOK /\ RulesAgree /\ RulesMatched /\ LoneInv

\* Between cells of one kind a value arrives as it left.
LEMMA StoredExactly ==
  ASSUME mem \in MemoryType, NEW from \in Cell, NEW to \in Cell,
         from \in BitCell <=> to \in BitCell
  PROVE  Narrow(to, mem[from]) = mem[from]
  BY DEF Narrow, MemoryType, Bit

LEMMA InitIInv ==
  ASSUME MatchedTable(InitTable), Init
  PROVE  IInv
  <1>1. /\ Len(rules) = Len(InitTable)
        /\ \A k \in 1 .. Len(InitTable) :
              /\ rules[k].src = InitTable[k].src
              /\ rules[k].dst = InitTable[k].dst
    BY LoadType, EngineAssumption DEF Init, EngineInit, SyncInit
  <1>2. RulesMatched
    BY <1>1 DEF RulesMatched, MatchedTable, Matched
  <1>3. LoneInv
    BY DEF LoneInv, Init, Nothing
  <1> QED
    BY <1>2, <1>3, InitTypeOK, InitRulesAgree DEF IInv

LEMMA NextRulesMatched ==
  ASSUME \A table \in Tables : MatchedTable(table),
         TypeOK, RulesMatched, [Next]_vars
  PROVE  RulesMatched'
  <1>1. CASE UNCHANGED rules
    BY <1>1 DEF RulesMatched
  <1>2. ASSUME NEW t \in Thread, SyncRule(t) PROVE RulesMatched'
    <2>1. at \in 1 .. Len(rules)
      BY <1>2 DEF TypeOK, SyncRule
    <2>2. PICK v \in Word :
            /\ Len(rules') = Len(rules)
            /\ rules'[at] = Remember(rules[at], v)
            /\ \A k \in 1 .. Len(rules) : k # at => rules'[k] = rules[k]
      BY <2>1, <1>2, ApplyEffect DEF TypeOK
    <2>3. rules[at] \in MappingRule
      BY <2>1, ElementOfSeq DEF TypeOK
    <2>4. rules'[at].src = rules[at].src /\ rules'[at].dst = rules[at].dst
      BY <2>2, <2>3, RememberType
    <2> QED
      BY <2>2, <2>4 DEF RulesMatched, Matched
  <1>3. ASSUME NEW table \in Tables, Reload(table) PROVE RulesMatched'
    <2>1. /\ Len(rules') = Len(table)
          /\ \A k \in 1 .. Len(table) :
                /\ rules'[k].src = table[k].src
                /\ rules'[k].dst = table[k].dst
      BY <1>3, LoadType, EngineAssumption DEF Reload, LoadMappings
    <2> QED
      BY <2>1 DEF RulesMatched, MatchedTable, Matched
  <1> QED
    BY <1>1, <1>2, <1>3
       DEF Next, Call, SyncCall, Lock, LockMappings, Access, ReadSrc, ReadDst,
           Return, SyncReturn, Write, ClientWrite, PostWrite, WebWrite,
           TrafficEnds, vars, engineVars

\* Applying a rule during a lone write: every cell keeps its value or takes
\* the lone value, and both ends of the rule are within what it remembers.
LEMMA LoneApply ==
  ASSUME IInv, lone.kind = "lone", NEW t \in Thread, SyncRule(t)
  PROVE  /\ at \in 1 .. Len(rules)
         /\ \A c \in Cell : mem'[c] \in {mem[c], lone.value}
         /\ rules'[at].initialized
         /\ mem'[rules[at].src] \in {rules'[at].last_src, lone.value}
         /\ mem'[rules[at].dst] \in {rules'[at].last_src, lone.value}
  <1> DEFINE r == rules[at]
             v == lone.value
  <1>1. at \in 1 .. Len(rules) /\ r \in MappingRule
    BY ElementOfSeq DEF IInv, TypeOK, SyncRule
  <1>2. step = "apply"
    BY DEF SyncRule
  <1>3. LoneRule(at) /\ mem \in MemoryType /\ Matched(r)
    BY <1>1 DEF IInv, LoneInv, TypeOK, RulesMatched
  <1>4. /\ r.initialized
        /\ mem[r.src] \in {r.last_src, v}
        /\ mem[r.dst] \in {r.last_src, v}
        /\ curr_src = r.last_src \/ (curr_src = v /\ mem[r.src] = v)
        /\ curr_dst = r.last_src \/ (curr_dst = v /\ mem[r.dst] = v)
    BY <1>2, <1>3 DEF LoneRule
  <1>5. r.last_dst = r.last_src
    BY <1>1, <1>4 DEF IInv, RulesAgree
  <1>6. r.src \in Cell /\ r.dst \in Cell /\ (r.src \in BitCell <=> r.dst \in BitCell)
    BY <1>3 DEF Matched
  <1>7. curr_src \in Word /\ curr_dst \in Word
    BY DEF IInv, TypeOK
  <1>8. ASSUME NEW w \in Word, rules' = [rules EXCEPT ![at] = Remember(r, w)]
        PROVE  rules'[at].initialized /\ rules'[at].last_src = w
    <2>1. Remember(r, w) \in MappingRule /\ rules \in Seq(MappingRule)
      BY <1>1, RememberType DEF IInv, TypeOK
    <2>2. rules'[at] = Remember(r, w)
      BY <2>1, <1>1, <1>8, ExceptSeq
    <2> QED
      BY <2>2, <1>1, RememberType
  <1>9. CASE NothingToDo(r)
    <2>1. curr_src = r.last_src /\ mem' = mem
      BY <1>9, <1>4 DEF NothingToDo, FirstPass
    <2>2. rules'[at].initialized /\ rules'[at].last_src = curr_src
      BY <1>9, <1>7, <1>8 DEF NothingToDo
    <2> QED
      BY <2>1, <2>2, <1>1, <1>4
  <1>10. CASE PropagateToSrc(r)
    <2>1. curr_dst = v /\ mem[r.dst] = v
      BY <1>10, <1>4, <1>5 DEF PropagateToSrc, DstChanged
    <2>2. Narrow(r.src, v) = v
      BY <2>1, <1>3, <1>6, StoredExactly
    <2>3. mem' = [mem EXCEPT ![r.src] = v]
      BY <2>1, <2>2, <1>6, <1>10 DEF PropagateToSrc, WriteValue
    <2>4. rules'[at].initialized /\ rules'[at].last_src = v
      BY <2>1, <1>10, <1>7, <1>8 DEF PropagateToSrc
    <2> QED
      BY <2>1, <2>3, <2>4, <1>1, <1>3, <1>6 DEF MemoryType
  <1>11. CASE PropagateToDst(r)
    <2>1. SrcChanged(r)
      BY <1>11, <1>4, <1>5 DEF PropagateToDst, FirstPass, OutOfSync
    <2>2. curr_src = v /\ mem[r.src] = v
      BY <2>1, <1>4 DEF SrcChanged
    <2>3. Narrow(r.dst, v) = v
      BY <2>2, <1>3, <1>6, StoredExactly
    <2>4. mem' = [mem EXCEPT ![r.dst] = v]
      BY <2>2, <2>3, <1>6, <1>11 DEF PropagateToDst, WriteValue
    <2>5. rules'[at].initialized /\ rules'[at].last_src = v
      BY <2>2, <1>11, <1>7, <1>8 DEF PropagateToDst
    <2> QED
      BY <2>2, <2>4, <2>5, <1>1, <1>3, <1>6 DEF MemoryType
  <1> QED
    BY <1>9, <1>10, <1>11 DEF SyncRule

\* A recorded write that starts a lone write finds every rule settled.
LEMMA LoneStart ==
  ASSUME IInv, NEW c \in Cell, NEW v \in Word, Record(c, v),
         mem' = WriteValue(mem, c, v), UNCHANGED <<rules, passVars>>,
         lone'.kind = "lone"
  PROVE  LoneInv'
  <1>1. Settled /\ lone' = [kind |-> "lone", cell |-> c, value |-> Narrow(c, v)]
    BY DEF Record, Contended
  <1>2. mem \in [Cell -> Word]
    BY DEF IInv, TypeOK, MemoryType
  <1>3. mem' = [mem EXCEPT ![c] = lone'.value] /\ lone'.cell = c
    BY <1>1 DEF WriteValue
  <1>4. ASSUME NEW k \in 1 .. Len(rules) PROVE LoneRule(k)'
    <2>1. SettledRule(k)
      BY <1>1 DEF Settled
    <2>2. rules[k].src \in Cell /\ rules[k].dst \in Cell
      BY DEF IInv, RulesMatched, Matched
    <2>3. mem[rules[k].src] = rules[k].last_src /\ mem[rules[k].dst] = rules[k].last_src
      BY <2>1, <2>2 DEF SettledRule, ReadValue
    <2>4. /\ mem'[rules[k].src] \in {rules[k].last_src, lone'.value}
          /\ mem'[rules[k].dst] \in {rules[k].last_src, lone'.value}
      BY <2>2, <2>3, <1>2, <1>3
    <2>5. /\ rules[k].initialized
          /\ at = k /\ step # "src" => curr_src = rules[k].last_src
          /\ at = k /\ step = "apply" => curr_dst = rules[k].last_src
      BY <2>1 DEF SettledRule
    <2> QED
      BY <2>4, <2>5 DEF LoneRule, passVars
  <1> QED
    BY <1>2, <1>3, <1>4 DEF LoneInv

LEMMA NextLoneInv ==
  ASSUME IInv, [Next]_vars
  PROVE  LoneInv'
  <1> SUFFICES ASSUME lone'.kind = "lone" PROVE LoneInv'
    BY DEF LoneInv
  <1>0. /\ mem \in [Cell -> Word]
        /\ Len(rules) \in Nat
        /\ lone \in LoneType
        /\ \A k \in 1 .. Len(rules) : rules[k].src \in Cell /\ rules[k].dst \in Cell
    BY LenProperties DEF IInv, TypeOK, MemoryType, RulesMatched, Matched
  <1>1. ASSUME UNCHANGED <<mem, rules, lone>>, step' = "src" PROVE LoneInv'
    BY <1>1 DEF IInv, LoneInv, LoneRule
  <1>2. ASSUME UNCHANGED <<mem, rules, lone, passVars>> PROVE LoneInv'
    BY <1>2 DEF IInv, LoneInv, LoneRule, passVars
  <1>3. CASE Call
    BY <1>3, <1>2 DEF Call, SyncCall, historyVars
  <1>4. ASSUME NEW t \in Thread, Lock(t) PROVE LoneInv'
    BY <1>4, <1>1 DEF Lock, LockMappings
  <1>5. ASSUME NEW t \in Thread, Access(t) PROVE LoneInv'
    <2>1. lone' = lone /\ lone.kind = "lone" /\ LoneInv
      BY <1>5 DEF Access, historyVars, IInv
    <2>2. \A k \in 1 .. Len(rules) : LoneRule(k)
      BY <2>1 DEF LoneInv
    <2>3. CASE ReadSrc(t)
      <3>1. at \in 1 .. Len(rules)
        BY <2>3, <1>0 DEF ReadSrc, IInv, TypeOK
      <3>2. curr_src' = mem[rules[at].src]
        BY <2>3, <3>1, <1>0 DEF ReadSrc, ReadValue
      <3>3. UNCHANGED <<mem, rules, at>> /\ step' = "dst"
        BY <2>3 DEF ReadSrc
      <3> QED
        BY <2>1, <2>2, <3>1, <3>2, <3>3 DEF LoneInv, LoneRule
    <2>4. CASE ReadDst(t)
      <3>1. at \in 1 .. Len(rules) /\ step = "dst"
        BY <2>4 DEF ReadDst, IInv, TypeOK
      <3>2. curr_dst' = mem[rules[at].dst]
        BY <2>4, <3>1, <1>0 DEF ReadDst, ReadValue
      <3>3. UNCHANGED <<mem, rules, at, curr_src>>
        BY <2>4 DEF ReadDst
      <3> QED
        BY <2>1, <2>2, <3>1, <3>2, <3>3 DEF LoneInv, LoneRule
    <2>5. CASE SyncRule(t)
      <3>1. /\ at \in 1 .. Len(rules)
            /\ \A c \in Cell : mem'[c] \in {mem[c], lone.value}
            /\ rules'[at].initialized
            /\ mem'[rules[at].src] \in {rules'[at].last_src, lone.value}
            /\ mem'[rules[at].dst] \in {rules'[at].last_src, lone.value}
        BY <2>1, <2>5, LoneApply
      <3>2. PICK v \in Word :
              /\ Len(rules') = Len(rules)
              /\ rules'[at] = Remember(rules[at], v)
              /\ \A k \in 1 .. Len(rules) : k # at => rules'[k] = rules[k]
        BY <3>1, <2>5, ApplyEffect DEF IInv, TypeOK
      <3>3. rules[at] \in MappingRule
        BY <3>1, ElementOfSeq DEF IInv, TypeOK
      <3>4. rules'[at].src = rules[at].src /\ rules'[at].dst = rules[at].dst
        BY <3>2, <3>3, RememberType
      <3>5. step' = "src"
        BY <2>5 DEF SyncRule
      <3>6. lone.cell \in Cell /\ mem[lone.cell] = lone.value
        BY <2>1, <1>0 DEF LoneType, LoneInv
      <3>7. mem'[lone.cell] = lone.value
        BY <3>1, <3>6
      <3>8. ASSUME NEW k \in 1 .. Len(rules) PROVE LoneRule(k)'
        <4>1. CASE k = at
          BY <4>1, <3>1, <3>4, <3>5, <2>1 DEF LoneRule
        <4>2. CASE k # at
          <5>1. rules'[k] = rules[k] /\ LoneRule(k)
            BY <4>2, <3>2, <2>2
          <5>2. /\ mem'[rules[k].src] \in {mem[rules[k].src], lone.value}
                /\ mem'[rules[k].dst] \in {mem[rules[k].dst], lone.value}
            BY <3>1, <1>0
          <5> QED
            BY <5>1, <5>2, <3>5, <2>1 DEF LoneRule
        <4> QED
          BY <4>1, <4>2
      <3> QED
        BY <3>2, <3>7, <3>8, <2>1 DEF LoneInv
    <2> QED
      BY <1>5, <2>3, <2>4, <2>5 DEF Access
  <1>6. ASSUME NEW t \in Thread, Return(t) PROVE LoneInv'
    BY <1>6, <1>1 DEF Return, SyncReturn
  <1>7. ASSUME NEW c \in Cell, NEW v \in Word, Write(c, v) PROVE LoneInv'
    BY <1>7, LoneStart DEF Write, ClientWrite
  <1>8. ASSUME NEW c \in Cell, NEW v \in Word, PostWrite(c, v) PROVE LoneInv'
    BY <1>8, LoneStart DEF PostWrite, WebWrite
  <1>9. ASSUME NEW table \in Tables, Reload(table) PROVE LoneInv'
    <2>1. lone' = IF lone.kind = "lone" THEN Contended ELSE lone
      BY <1>9 DEF Reload
    <2>2. lone'.kind # "lone"
      BY <2>1, <1>0 DEF LoneType, Contended
    <2> QED
      BY <2>2
  <1>10. CASE TrafficEnds
    BY <1>10, <1>2 DEF TrafficEnds, engineVars, passVars
  <1>11. CASE UNCHANGED vars
    BY <1>11, <1>2 DEF vars, engineVars, passVars, historyVars
  <1> QED
    BY <1>3, <1>4, <1>5, <1>6, <1>7, <1>8, <1>9, <1>10, <1>11 DEF Next

\* A client write that finds the engine settled is never overwritten by
\* syncMappings, wherever a running pass stands when it arrives, for every
\* table whose rules join existing cells of one kind (PlcMemory.cpp:491-528).
THEOREM LoneWrite ==
  ASSUME MatchedTable(InitTable), \A table \in Tables : MatchedTable(table)
  PROVE  Spec => []LoneWriteSurvives
  <1>1. Init => IInv
    BY InitIInv
  <1>2. IInv /\ [Next]_vars => IInv'
    BY NextTypeOK, NextRulesAgree, NextRulesMatched, NextLoneInv DEF IInv
  <1>3. IInv => LoneWriteSurvives
    BY DEF IInv, LoneInv, LoneWriteSurvives
  <1> QED
    BY <1>1, <1>2, <1>3, PTL DEF Spec
(***************************************************************************)
(* Convergence of tables of stars.                                         *)
(*                                                                         *)
(* The first undisturbed pass anchors every rule: its spokes, which no     *)
(* other rule writes, hold what it remembers.  From then on a rule differs *)
(* from its memory at its hub only, so the second pass writes spokes, the  *)
(* hubs stand still and a rule, once its ends agree, stays in agreement.   *)
(***************************************************************************)

StarTables == \A table \in Tables \cup {InitTable} : StarTable(table, {})

RulesStar == StarTable(rules, {})

\* One thread at a time is in a pass.
OneInside == \A t, u \in Thread : call[t] = "inside" /\ call[u] = "inside" => t = u

\* What the running pass has read is still what the cells hold.
ReadsFresh ==
    /\ step # "src" => curr_src = mem[rules[at].src]
    /\ step = "apply" => curr_dst = mem[rules[at].dst]

Anchored(k) ==
    /\ rules[k].initialized
    /\ \A c \in Cell : SpokeOf(rules, k, c) => mem[c] = rules[k].last_src

Agrees(k) == mem[rules[k].src] = mem[rules[k].dst]

\* How far the passes since the last disturbance have come.
QuietInv ==
    /\ clean => ReadsFresh /\ ~MappingsUnlocked
    /\ clean => \A k \in 1 .. Len(rules) : k < at => Anchored(k)
    /\ quiet > 0 => \A k \in 1 .. Len(rules) : Anchored(k)
    /\ quiet > 0 /\ ~MappingsUnlocked => clean
    /\ quiet > 0 /\ clean => \A k \in 1 .. Len(rules) : k < at => Agrees(k)
    /\ quiet > 1 => \A k \in 1 .. Len(rules) : Agrees(k)

StarInv == TypeOK /\ RulesAgree /\ RulesStar /\ OneInside /\ QuietInv

\* A rule applied to what its ends still hold leaves both at one value and
\* remembers it; if it was anchored, only its spoke can have changed.
LEMMA FreshApply ==
  ASSUME TypeOK, RulesAgree, RulesStar, ReadsFresh, NEW t \in Thread, SyncRule(t)
  PROVE  /\ at \in 1 .. Len(rules) /\ Len(rules') = Len(rules)
         /\ \A k \in 1 .. Len(rules) :
              /\ rules'[k].src = rules[k].src /\ rules'[k].dst = rules[k].dst
              /\ k # at => rules'[k] = rules[k]
         /\ rules'[at].initialized
         /\ mem'[rules[at].src] = rules'[at].last_src
         /\ mem'[rules[at].dst] = rules'[at].last_src
         /\ \A c \in Cell : mem'[c] # mem[c] =>
              /\ c \in {rules[at].src, rules[at].dst}
              /\ Anchored(at) => SpokeOf(rules, at, c)
  <1> DEFINE r == rules[at]
  <1>1. at \in 1 .. Len(rules) /\ step = "apply"
    BY DEF SyncRule, TypeOK
  <1>2. r \in MappingRule /\ mem \in [Cell -> Word]
    BY <1>1, ElementOfSeq DEF TypeOK, MemoryType
  <1>3. /\ r.src \in Cell /\ r.dst \in Cell /\ r.src # r.dst
        /\ r.src \in BitCell <=> r.dst \in BitCell
    BY <1>1 DEF RulesStar, StarTable, MatchedTable, Matched
  <1>4. PICK s \in Cell : SpokeOf(rules, at, s)
    BY <1>1 DEF RulesStar, StarTable
  <1>5. s \in {r.src, r.dst}
    BY <1>4 DEF SpokeOf
  <1>6. /\ curr_src = mem[r.src] /\ curr_dst = mem[r.dst]
        /\ r.initialized => r.last_src = r.last_dst
    BY <1>1 DEF ReadsFresh, RulesAgree
  <1>7. Narrow(r.dst, curr_src) = curr_src /\ Narrow(r.src, curr_dst) = curr_dst
    BY <1>3, <1>6, StoredExactly DEF TypeOK
  <1>8. PICK v \in Word :
          /\ rules' = [rules EXCEPT ![at] = Remember(r, v)]
          /\ Len(rules') = Len(rules)
          /\ rules'[at] = Remember(r, v)
          /\ \A k \in 1 .. Len(rules) : k # at => rules'[k] = rules[k]
    BY <1>1, ApplyEffect DEF TypeOK
  <1>9. rules'[at].src = r.src /\ rules'[at].dst = r.dst /\ rules'[at].initialized
    BY <1>2, <1>8, RememberType
  <1>10. rules'[at].last_src = v
    BY <1>2, <1>8, RememberType
  <1>11. ASSUME NEW w \in Word, rules' = [rules EXCEPT ![at] = Remember(r, w)]
         PROVE  rules'[at].last_src = w
    <2>1. Remember(r, w) \in MappingRule /\ Remember(r, w).last_src = w
      BY <1>2, RememberType
    <2>2. rules'[at] = Remember(r, w)
      BY <1>1, <1>11, <2>1, ExceptSeq DEF TypeOK
    <2> QED
      BY <2>1, <2>2
  <1>12. Anchored(at) => r.initialized /\ mem[s] = r.last_src
    BY <1>4 DEF Anchored
  <1>13. CASE PropagateToDst(r)
    <2>1. mem' = [mem EXCEPT ![r.dst] = curr_src] /\ rules'[at].last_src = curr_src
      BY <1>13, <1>3, <1>6, <1>7, <1>2, <1>11 DEF PropagateToDst, WriteValue
    <2>2. Anchored(at) => s # r.src
      BY <1>13, <1>6, <1>12 DEF PropagateToDst, FirstPass, SrcChanged, OutOfSync
    <2> QED
      BY <2>1, <2>2, <1>1, <1>2, <1>3, <1>4, <1>5, <1>6, <1>8, <1>9
  <1>14. CASE PropagateToSrc(r)
    <2>1. mem' = [mem EXCEPT ![r.src] = curr_dst] /\ rules'[at].last_src = curr_dst
      BY <1>14, <1>3, <1>6, <1>7, <1>2, <1>11 DEF PropagateToSrc, WriteValue
    <2>2. Anchored(at) => s # r.dst
      BY <1>14, <1>6, <1>12 DEF PropagateToSrc, DstChanged
    <2> QED
      BY <2>1, <2>2, <1>1, <1>2, <1>3, <1>4, <1>5, <1>6, <1>8, <1>9
  <1>15. CASE NothingToDo(r)
    <2>1. mem' = mem /\ rules'[at].last_src = curr_src /\ curr_src = curr_dst
      BY <1>15, <1>6, <1>11 DEF NothingToDo, TypeOK
    <2> QED
      BY <2>1, <1>1, <1>6, <1>8, <1>9
  <1> QED
    BY <1>13, <1>14, <1>15 DEF SyncRule

\* A clean pass applies a rule: the rule is anchored and its ends agree, what
\* was anchored stays so, and in a second pass agreement stays too.
LEMMA CleanApply ==
  ASSUME TypeOK, RulesAgree, RulesStar, ReadsFresh, NEW t \in Thread, SyncRule(t)
  PROVE  /\ ReadsFresh'
         /\ \A k \in 1 .. Len(rules) : k < at' => k < at \/ k = at
         /\ \A k \in 1 .. Len(rules) : Anchored(k) \/ k = at => Anchored(k)'
         /\ Anchored(at) => \A k \in 1 .. Len(rules) : Agrees(k) \/ k = at => Agrees(k)'
  <1> USE FreshApply
  <1>1. at' = at + 1 /\ step' = "src" /\ at \in Nat /\ Len(rules) \in Nat
    BY LenProperties DEF SyncRule, TypeOK
  <1>2. \A k \in 1 .. Len(rules), c \in Cell : SpokeOf(rules', k, c) => SpokeOf(rules, k, c)
    BY DEF SpokeOf
  <1>3. ASSUME NEW k \in 1 .. Len(rules), k = at PROVE Anchored(k)'
    BY <1>2, <1>3 DEF Anchored, SpokeOf
  <1>4. ASSUME NEW k \in 1 .. Len(rules), k # at, Anchored(k) PROVE Anchored(k)'
    <2>1. \A c \in Cell : SpokeOf(rules, k, c) => mem'[c] = mem[c]
      BY <1>4 DEF SpokeOf
    <2> QED
      BY <1>2, <1>4, <2>1 DEF Anchored
  <1>5. ASSUME Anchored(at), NEW k \in 1 .. Len(rules), k # at, Agrees(k) PROVE Agrees(k)'
    <2>1. rules[k].src \in Cell /\ rules[k].dst \in Cell
      BY DEF RulesStar, StarTable, MatchedTable, Matched
    <2>2. mem'[rules[k].src] = mem[rules[k].src] /\ mem'[rules[k].dst] = mem[rules[k].dst]
      BY <1>5, <2>1 DEF SpokeOf
    <2> QED
      BY <1>5, <2>2 DEF Agrees
  <1>6. ASSUME NEW k \in 1 .. Len(rules), k = at PROVE Agrees(k)'
    BY <1>6 DEF Agrees
  <1> QED
    BY <1>1, <1>3, <1>4, <1>5, <1>6 DEF ReadsFresh

\* Nothing has been passed yet.
LEMMA InitStar ==
  ASSUME StarTables, Init
  PROVE  RulesStar /\ OneInside /\ QuietInv
  <1>1. /\ Len(rules) = Len(InitTable)
        /\ \A k \in 1 .. Len(InitTable) :
              rules[k].src = InitTable[k].src /\ rules[k].dst = InitTable[k].dst
    BY LoadType, EngineAssumption DEF Init, EngineInit, SyncInit
  <1>2. StarTable(InitTable, {})
    BY DEF StarTables
  <1>3. RulesStar
    BY <1>1, <1>2 DEF RulesStar, StarTable, MatchedTable, Matched, SpokeOf
  <1>4. OneInside
    BY DEF Init, EngineInit, SyncInit, OneInside
  <1>5. quiet = 0 /\ clean = FALSE
    BY DEF Init
  <1> QED
    BY <1>3, <1>4, <1>5 DEF QuietInv

\* Rules keep their ends, and a reload installs another table of stars.
LEMMA NextStar ==
  ASSUME StarTables, TypeOK, RulesStar, [Next]_vars
  PROVE  RulesStar'
  <1>1. CASE UNCHANGED rules
    BY <1>1 DEF RulesStar
  <1>2. ASSUME NEW t \in Thread, SyncRule(t) PROVE RulesStar'
    <2>1. at \in 1 .. Len(rules)
      BY <1>2 DEF TypeOK, SyncRule
    <2>2. PICK v \in Word :
            /\ Len(rules') = Len(rules)
            /\ rules'[at] = Remember(rules[at], v)
            /\ \A k \in 1 .. Len(rules) : k # at => rules'[k] = rules[k]
      BY <2>1, <1>2, ApplyEffect DEF TypeOK
    <2>3. rules[at] \in MappingRule
      BY <2>1, ElementOfSeq DEF TypeOK
    <2>4. \A k \in 1 .. Len(rules) : rules'[k].src = rules[k].src /\ rules'[k].dst = rules[k].dst
      BY <2>2, <2>3, RememberType
    <2> QED
      BY <2>2, <2>4 DEF RulesStar, StarTable, MatchedTable, Matched, SpokeOf
  <1>3. ASSUME NEW table \in Tables, Reload(table) PROVE RulesStar'
    <2>1. /\ Len(rules') = Len(table)
          /\ \A k \in 1 .. Len(table) :
                rules'[k].src = table[k].src /\ rules'[k].dst = table[k].dst
      BY <1>3, LoadType, EngineAssumption DEF Reload, LoadMappings
    <2>2. StarTable(table, {})
      BY DEF StarTables
    <2> QED
      BY <2>1, <2>2 DEF RulesStar, StarTable, MatchedTable, Matched, SpokeOf
  <1> QED
    BY <1>1, <1>2, <1>3
       DEF Next, Call, SyncCall, Lock, LockMappings, Access, ReadSrc, ReadDst,
           Return, SyncReturn, Write, ClientWrite, PostWrite, WebWrite,
           TrafficEnds, vars, engineVars

\* mappings_mutex_ keeps the passes apart (PlcMemory.cpp:483).
LEMMA NextOneInside ==
  ASSUME TypeOK, OneInside, [Next]_vars
  PROVE  OneInside'
  <1>1. call \in [Thread -> {"idle", "waiting", "inside"}]
    BY DEF TypeOK
  <1>2. \/ call' = call
        \/ \E t \in Thread :
             \/ call' = [call EXCEPT ![t] = "waiting"]
             \/ call' = [call EXCEPT ![t] = "idle"]
             \/ MappingsUnlocked /\ call' = [call EXCEPT ![t] = "inside"]
    BY DEF Next, Call, SyncCall, Lock, LockMappings, Access, ReadSrc, ReadDst, SyncRule,
           Return, SyncReturn, Write, ClientWrite, PostWrite, WebWrite, Reload, LoadMappings,
           TrafficEnds, vars, engineVars, Thread
  <1> QED
    BY <1>1, <1>2 DEF OneInside, MappingsUnlocked

\* Each step of a pass takes the rules one further.
LEMMA NextQuiet ==
  ASSUME StarInv, [Next]_vars
  PROVE  QuietInv'
  <1> USE DEF StarInv
  <1>0. /\ Len(rules) \in Nat /\ at \in Nat /\ mem \in [Cell -> Word] /\ quiet \in Nat
        /\ \A k \in 1 .. Len(rules) : rules[k].src \in Cell /\ rules[k].dst \in Cell
    BY LenProperties
       DEF TypeOK, MemoryType, RulesStar, StarTable, MatchedTable, Matched
  <1>1. ASSUME quiet' = 0, clean' = FALSE PROVE QuietInv'
    BY <1>1 DEF QuietInv
  <1>2. ASSUME UNCHANGED <<mem, rules, passVars, quiet, clean>>, MappingsUnlocked' <=> MappingsUnlocked
        PROVE  QuietInv'
    BY <1>2 DEF QuietInv, ReadsFresh, Anchored, Agrees, passVars
  <1>3. CASE Call
    <2>1. MappingsUnlocked' <=> MappingsUnlocked
      BY <1>3 DEF Call, SyncCall, MappingsUnlocked, TypeOK
    <2> QED
      BY <1>2, <1>3, <2>1 DEF Call, SyncCall, historyVars
  <1>4. ASSUME NEW t \in Thread, Lock(t) PROVE QuietInv'
    <2>1. /\ at' = 1 /\ step' = "src" /\ clean' = TRUE /\ quiet' = quiet
          /\ UNCHANGED <<mem, rules>> /\ ~MappingsUnlocked'
      BY <1>4 DEF Lock, LockMappings, MappingsUnlocked, TypeOK
    <2>2. \A k \in 1 .. Len(rules) : ~(k < 1)
      BY <1>0
    <2> QED
      BY <2>1, <2>2 DEF QuietInv, ReadsFresh, Anchored, Agrees
  <1>5. ASSUME NEW t \in Thread, Access(t) PROVE QuietInv'
    <2>1. /\ quiet' = quiet /\ clean' = clean /\ call' = call /\ call[t] = "inside"
          /\ ~MappingsUnlocked /\ ~MappingsUnlocked'
      BY <1>5 DEF Access, ReadSrc, ReadDst, SyncRule, historyVars, MappingsUnlocked
    <2>2. CASE ~clean
      BY <2>1, <2>2, <1>1, <1>0 DEF QuietInv
    <2>3. CASE clean /\ ReadSrc(t)
      <3>1. /\ curr_src' = mem[rules[at].src] /\ UNCHANGED <<mem, rules, at>> /\ step' = "dst"
        BY <2>3, <1>0 DEF ReadSrc, ReadValue, TypeOK
      <3> QED
        BY <2>1, <2>3, <3>1 DEF QuietInv, ReadsFresh, Anchored, Agrees
    <2>4. CASE clean /\ ReadDst(t)
      <3>1. at \in 1 .. Len(rules) /\ step = "dst"
        BY <2>4 DEF ReadDst, TypeOK
      <3>2. /\ curr_dst' = mem[rules[at].dst]
            /\ UNCHANGED <<mem, rules, at, curr_src>> /\ step' = "apply"
        BY <2>4, <3>1, <1>0 DEF ReadDst, ReadValue
      <3> QED
        BY <2>1, <2>4, <3>1, <3>2 DEF QuietInv, ReadsFresh, Anchored, Agrees
    <2>5. CASE clean /\ SyncRule(t)
      <3>1. ReadsFresh
        BY <2>5 DEF QuietInv
      <3>2. at \in 1 .. Len(rules) /\ Len(rules') = Len(rules)
        BY <2>5, <3>1, FreshApply
      <3>3. /\ ReadsFresh'
            /\ \A k \in 1 .. Len(rules) : k < at' => k < at \/ k = at
            /\ \A k \in 1 .. Len(rules) : Anchored(k) \/ k = at => Anchored(k)'
            /\ Anchored(at) => \A k \in 1 .. Len(rules) : Agrees(k) \/ k = at => Agrees(k)'
        BY <2>5, <3>1, CleanApply
      <3>4. \A k \in 1 .. Len(rules') : k < at' => Anchored(k)'
        BY <2>5, <3>2, <3>3 DEF QuietInv
      <3>5. quiet > 0 => /\ \A k \in 1 .. Len(rules') : Anchored(k)'
                         /\ \A k \in 1 .. Len(rules') : k < at' => Agrees(k)'
        BY <2>5, <3>2, <3>3 DEF QuietInv
      <3>6. quiet > 1 => \A k \in 1 .. Len(rules') : Agrees(k)'
        BY <2>5, <3>2, <3>3, <1>0 DEF QuietInv
      <3> QED
        BY <2>1, <2>5, <3>3, <3>4, <3>5, <3>6 DEF QuietInv
    <2> QED
      BY <1>5, <2>2, <2>3, <2>4, <2>5 DEF Access
  <1>6. ASSUME NEW t \in Thread, Return(t) PROVE QuietInv'
    <2>1. /\ call[t] = "inside" /\ call' = [call EXCEPT ![t] = "idle"] /\ clean' = FALSE
          /\ at > Len(rules) /\ UNCHANGED <<mem, rules>> /\ step' = "src"
          /\ quiet' = IF clean /\ quiet < Passes THEN quiet + 1 ELSE quiet
      BY <1>6 DEF Return, SyncReturn, TypeOK
    <2>2. MappingsUnlocked' /\ ~MappingsUnlocked
      BY <2>1 DEF MappingsUnlocked, OneInside, TypeOK
    <2>3. ASSUME quiet' > 0 PROVE \A k \in 1 .. Len(rules') : Anchored(k)'
      <3>1. \A k \in 1 .. Len(rules) : Anchored(k)
        BY <2>1, <2>3, <1>0 DEF QuietInv
      <3> QED
        BY <3>1, <2>1 DEF Anchored
    <2>4. ASSUME quiet' > 1 PROVE \A k \in 1 .. Len(rules') : Agrees(k)'
      <3>1. quiet > 0 /\ clean
        BY <2>1, <2>2, <2>4, <1>0 DEF QuietInv
      <3>2. \A k \in 1 .. Len(rules) : Agrees(k)
        BY <3>1, <2>1, <1>0 DEF QuietInv
      <3> QED
        BY <3>2, <2>1 DEF Agrees
    <2> QED
      BY <2>1, <2>2, <2>3, <2>4 DEF QuietInv
  <1>7. ASSUME NEW c \in Cell, NEW v \in Word, Write(c, v) \/ PostWrite(c, v) PROVE QuietInv'
    BY <1>7, <1>1 DEF Write, PostWrite, Record
  <1>8. ASSUME NEW table \in Tables, Reload(table) PROVE QuietInv'
    BY <1>8, <1>1 DEF Reload
  <1>9. CASE TrafficEnds \/ UNCHANGED vars
    <2>1. UNCHANGED <<mem, rules, call, passVars, quiet, clean>>
      BY <1>9 DEF TrafficEnds, vars, engineVars, historyVars, passVars
    <2> QED
      BY <2>1, <1>2 DEF MappingsUnlocked
  <1> QED
    BY <1>3, <1>4, <1>5, <1>6, <1>7, <1>8, <1>9 DEF Next

\* The invariant of tables of stars.
LEMMA StarInvariant ==
  ASSUME StarTables
  PROVE  Spec => []StarInv
  <1>1. Init => StarInv
    BY InitTypeOK, InitRulesAgree, InitStar DEF StarInv
  <1>2. StarInv /\ [Next]_vars => StarInv'
    BY NextTypeOK, NextRulesAgree, NextStar, NextOneInside, NextQuiet DEF StarInv
  <1> QED
    BY <1>1, <1>2, PTL DEF Spec

\* After two or more whole passes in which no client wrote, the ends of every
\* rule agree: for every table of stars, whoever had been writing before and
\* whichever table was loaded (PlcMemory.cpp:480-530).
THEOREM StarsConverge ==
  ASSUME StarTables, Passes > 1
  PROVE  Spec => []QuietConverged
  <1>1. StarInv => QuietConverged
    BY PassesAssumption
       DEF StarInv, QuietInv, QuietConverged, Converged, Agrees, ReadValue, RulesStar, StarTable,
           MatchedTable, Matched
  <1> QED
    BY <1>1, StarInvariant, PTL

\* A lone write has then reached both ends of every rule that names its cell:
\* it survives (LoneWrite), and the ends agree.
THEOREM LoneWriteArrives ==
  ASSUME StarTables, Passes > 1
  PROVE  Spec => []LoneWritePropagates
  <1>1. MatchedTable(InitTable) /\ \A table \in Tables : MatchedTable(table)
    BY DEF StarTables, StarTable
  <1>2. StarInv /\ LoneWriteSurvives /\ QuietConverged => LoneWritePropagates
    BY DEF StarInv, RulesStar, StarTable, MatchedTable, Matched, LoneWriteSurvives,
           QuietConverged, Converged, LoneWritePropagates, ReadValue
  <1> QED
    BY <1>1, <1>2, LoneWrite, StarInvariant, StarsConverge, PTL
=============================================================================
