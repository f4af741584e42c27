----------------------------- MODULE ScanProofs ----------------------------
(***************************************************************************)
(* Proofs about the scan cycle, for every memory layout, list of bindings, *)
(* logic library and set of writers:                                       *)
(*   ScanTyping          the types, with no premise;                       *)
(*   Heals               one undisturbed cycle brings every linked cell    *)
(*                       and every published cell together;                *)
(*   CommandsHold,       in MANUAL a lone command is neither overwritten   *)
(*   CommandsReachLogic  nor withheld from the logic.                      *)
(* Their premises (StarTables, SwitchUntouched, SwitchFirst,               *)
(* ManualIsRespected) are named where each theorem needs them.             *)
(***************************************************************************)
EXTENDS ScanHistory, SequenceTheorems, TLAPS

(***************************************************************************)
(* The invariants.                                                         *)
(***************************************************************************)

\* The engine's types; what a pass has read is a value its cell can hold, and
\* one thread at a time is inside a pass.
EngineType ==
    /\ mem \in MemoryType
    /\ rules \in Seq(MappingRule)
    /\ call \in [Thread -> {"idle", "waiting", "inside"}]
    /\ at \in 1 .. (Len(rules) + 1)
    /\ step \in {"src", "dst", "apply"}
    /\ curr_src \in Word /\ curr_dst \in Word
    /\ step # "src" => at <= Len(rules) /\ Narrow(rules[at].src, curr_src) = curr_src
    /\ step = "apply" => Narrow(rules[at].dst, curr_dst) = curr_dst
    /\ MappingsUnlocked => at = 1 /\ step = "src"
    /\ ~(call[Scheduler] = "inside" /\ call[Web] = "inside")

\* The scan thread's types, and which phases are calls of syncMappings.
ScanType ==
    /\ image \in Image
    /\ phase \in {"start", "idle", "syncIn", "copyIn", "copyOut", "syncOut"}
    /\ b \in 1 .. (Len(Bindings) + 1)
    /\ auto_mode \in {"unread", "manual"}
    /\ auto_mode = "manual" =>
          phase = "copyIn" /\ b <= Len(Bindings) /\ Bindings[b].area = "COIL"
    /\ call[Scheduler] = "idle" <=> phase \notin {"syncIn", "syncOut"}

Command == [kind : {"cold", "none", "lone", "many"}, cell : Cell,
            value : Word, exposed : BOOLEAN]

HistoryType ==
    /\ cmd \in Command
    /\ runs \in 0 .. 2
    /\ undisturbed \in BOOLEAN
    /\ phase = "start" => cmd.kind = "cold" /\ ~undisturbed

TypeOK == EngineType /\ ScanType /\ HistoryType

\* A rule remembers one value for both of its ends.
RulesAgree == \A k \in 1 .. Len(rules) : rules[k].last_src = rules[k].last_dst

\* The rules are a table of stars, whichever reload installed them.
RulesStar == StarTable(rules, BoundCell)

BaseInv == TypeOK /\ RulesAgree /\ RulesStar

-----------------------------------------------------------------------------
\* What the running pass has read is still what the cells hold.
ReadsFresh ==
    /\ step # "src" => curr_src = mem[rules[at].src]
    /\ step = "apply" => curr_dst = mem[rules[at].dst]

\* Rule k has run, its spokes hold what it remembers, and what a running
\* pass has read of them is that value too.
Anchored(k) ==
    /\ rules[k].initialized
    /\ \A c \in Cell \ BoundCell : SpokeOf(rules, k, c) =>
          /\ mem[c] = rules[k].last_src
          /\ at = k /\ step # "src" /\ c = rules[k].src => curr_src = rules[k].last_src
          /\ at = k /\ step = "apply" /\ c = rules[k].dst => curr_dst = rules[k].last_src

Agrees(k) == mem[rules[k].src] = mem[rules[k].dst]

Inside == call[Scheduler] = "inside"

\* How far an undisturbed cycle has come: the first pass anchors the rules
\* one by one, copying out settles the bound cells, the second pass brings
\* the spokes to their hubs, and after it nothing changes any more.
HealInv ==
    undisturbed =>
        /\ phase = "syncIn" /\ Inside =>
              ReadsFresh /\ \A k \in 1 .. Len(rules) : k < at => Anchored(k)
        /\ phase \in {"copyIn", "copyOut", "syncOut", "idle"} =>
              \A k \in 1 .. Len(rules) : Anchored(k)
        /\ phase = "copyOut" =>
              \A i \in 1 .. Len(Bindings) :
                  i < b /\ Published(Bindings[i]) => mem[Bindings[i]] = image[Bindings[i]]
        /\ phase \in {"syncOut", "idle"} =>
              \A c \in BoundCell : Published(c) => mem[c] = image[c]
        /\ phase = "syncOut" /\ Inside =>
              ReadsFresh /\ \A k \in 1 .. Len(rules) : k < at => Agrees(k)
        /\ phase = "idle" =>
              ReadsFresh /\ \A k \in 1 .. Len(rules) : Agrees(k)

-----------------------------------------------------------------------------
\* No rule names the mode switch, no coil is copied in while it says AUTO,
\* and once it has been copied the library's variable agrees with it.
ModeInv ==
    /\ \A k \in 1 .. Len(rules) : ModeSwitch \notin {rules[k].src, rules[k].dst}
    /\ auto_mode = "manual" => mem[ModeSwitch] = 0
    /\ phase = "copyIn" /\ b > 1 => image[ModeSwitch] = mem[ModeSwitch]

-----------------------------------------------------------------------------
Joined(k) == Target \in {rules[k].src, rules[k].dst}

\* Each end of a rule of Target holds what the rule remembers or the command;
\* a pass has read one or the other, and an end it read the command from
\* still holds it.
CommandRule(k) ==
    /\ rules[k].initialized
    /\ mem[rules[k].src] \in {rules[k].last_src, cmd.value}
    /\ mem[rules[k].dst] \in {rules[k].last_src, cmd.value}
    /\ at = k /\ step # "src" =>
          \/ curr_src = rules[k].last_src
          \/ curr_src = cmd.value /\ mem[rules[k].src] = cmd.value
    /\ at = k /\ step = "apply" =>
          \/ curr_dst = rules[k].last_src
          \/ curr_dst = cmd.value /\ mem[rules[k].dst] = cmd.value

\* Where a command is on its way from a linked cell to Target in the pass
\* that ends a cycle: read at the cell, then carried.
CommandCarried(k) ==
    Joined(k) /\ cmd.cell \in {rules[k].src, rules[k].dst} =>
        /\ k < at => mem[Target] = cmd.value
        /\ at = k /\ step # "src" /\ rules[k].src = cmd.cell => curr_src = cmd.value
        /\ at = k /\ step = "apply" /\ rules[k].dst = cmd.cell => curr_dst = cmd.value

CommandInv ==
    cmd.kind = "lone" /\ ~cmd.exposed =>
        /\ cmd.cell \in Group
        /\ mem[cmd.cell] = cmd.value
        /\ mem[ModeSwitch] = 0
        /\ \A k \in 1 .. Len(rules) : Joined(k) => CommandRule(k)
        /\ WindowOpen => image[Target] = mem[Target]
        /\ runs # 0 /\ phase \in {"idle", "syncIn", "copyIn"} => mem[Target] = cmd.value
        /\ runs # 0 /\ phase = "syncOut" /\ Inside =>
              \A k \in 1 .. Len(rules) : CommandCarried(k)
        /\ runs = 2 => mem[Target] = cmd.value /\ image[Target] = cmd.value
(***************************************************************************)
(* The memory and the rules.                                               *)
(***************************************************************************)

\* A read returns a word, and one the cell can hold (PlcMemory::readValue).
LEMMA ReadFits ==
  ASSUME NEW m \in MemoryType, NEW ref
  PROVE  /\ ReadValue(m, ref) \in Word
         /\ Narrow(ref, ReadValue(m, ref)) = ReadValue(m, ref)
         /\ ref \in Cell => ReadValue(m, ref) = m[ref]
         /\ ref \in BitCell => ReadValue(m, ref) \in Bit
  <1>1. 0 \in Word
    BY MemoryAssumption DEF Word
  <1>2. BitCell \subseteq Cell
    BY DEF BitCell
  <1> QED
    BY <1>1, <1>2 DEF ReadValue, MemoryType, Narrow, Bit

\* A write changes at most the one cell it names, to a value of its kind
\* (PlcMemory::writeValue).
LEMMA WriteEffect ==
  ASSUME NEW m \in MemoryType, NEW ref, NEW v \in Word
  PROVE  /\ WriteValue(m, ref, v) \in MemoryType
         /\ \A c \in Cell : c # ref => WriteValue(m, ref, v)[c] = m[c]
         /\ Narrow(ref, v) \in Word
  <1>1. Narrow(ref, v) \in Word /\ (ref \in BitCell => Narrow(ref, v) \in Bit)
    BY MemoryAssumption DEF Narrow, Word, Bit
  <1>2. CASE ref \in Cell
    <2>1. [m EXCEPT ![ref] = Narrow(ref, v)] \in [Cell -> Word]
      BY <1>1, <1>2 DEF MemoryType
    <2>2. \A d \in BitCell : [m EXCEPT ![ref] = Narrow(ref, v)][d] \in Bit
      BY <1>1, <1>2 DEF MemoryType, BitCell
    <2> QED
      BY <1>1, <1>2, <2>1, <2>2 DEF WriteValue, MemoryType
  <1> QED
    BY <1>1, <1>2 DEF WriteValue

\* Between cells of one kind a value arrives as it left.
LEMMA SameKind ==
  ASSUME NEW c \in Cell, NEW d \in Cell, c \in BitCell <=> d \in BitCell,
         NEW v \in Word, Narrow(c, v) = v
  PROVE  Narrow(d, v) = v
  BY DEF Narrow

\* loadMappings builds one uninitialized rule per entry, in order, with 0
\* remembered for both ends.
LEMMA LoadEffect ==
  ASSUME NEW table \in Seq(Entry)
  PROVE  /\ Load(table) \in Seq(MappingRule)
         /\ Len(Load(table)) = Len(table)
         /\ \A k \in 1 .. Len(table) :
              /\ Load(table)[k].src = table[k].src
              /\ Load(table)[k].dst = table[k].dst
              /\ Load(table)[k].last_src = Load(table)[k].last_dst
  <1>0. Len(table) \in Nat /\ 0 \in Word
    BY MemoryAssumption DEF Word
  <1>1. \A k \in 1 .. Len(table) : table[k] \in Entry
    BY ElementOfSeq
  <1>2. \A k \in 1 .. Len(table) :
          /\ Fresh(table[k]) \in MappingRule
          /\ Fresh(table[k]).src = table[k].src
          /\ Fresh(table[k]).dst = table[k].dst
          /\ Fresh(table[k]).last_src = Fresh(table[k]).last_dst
    BY <1>0, <1>1 DEF Fresh, MappingRule, Entry
  <1>3. Load(table) \in [1 .. Len(table) -> MappingRule]
    BY <1>2 DEF Load
  <1>4. Load(table) \in Seq(MappingRule) /\ Len(Load(table)) = Len(table)
    BY <1>0, <1>3, SeqDef, LenProperties
  <1> QED
    BY <1>2, <1>4 DEF Load

\* Two tables that name the same ends are stars together.
LEMMA SameEnds ==
  ASSUME NEW old, NEW new, Len(new) = Len(old),
         \A k \in 1 .. Len(old) : new[k].src = old[k].src /\ new[k].dst = old[k].dst
  PROVE  /\ StarTable(old, BoundCell) => StarTable(new, BoundCell)
         /\ \A k \in 1 .. Len(old), c \in Cell : SpokeOf(new, k, c) <=> SpokeOf(old, k, c)
  <1>1. \A k \in 1 .. Len(old), c \in Cell : SpokeOf(new, k, c) <=> SpokeOf(old, k, c)
    BY DEF SpokeOf
  <1>2. MatchedTable(old) => MatchedTable(new)
    BY DEF MatchedTable, Matched
  <1> QED
    BY <1>1, <1>2 DEF StarTable

\* Applying one rule, PlcMemory::syncMappings: the rule remembers a value the
\* pass has read for both of its ends, and only those can change.
LEMMA RuleTypes ==
  ASSUME TypeOK, NEW t \in Thread, SyncRule(t)
  PROVE  /\ step = "apply" /\ call[t] = "inside" /\ call' = call
         /\ at \in 1 .. Len(rules) /\ at' = at + 1 /\ step' = "src"
         /\ curr_src' \in Word /\ curr_dst' \in Word
         /\ rules' \in Seq(MappingRule)
         /\ Len(rules') = Len(rules)
         /\ \A k \in 1 .. Len(rules) :
              /\ rules'[k].src = rules[k].src
              /\ rules'[k].dst = rules[k].dst
              /\ k # at => rules'[k] = rules[k]
         /\ rules'[at].initialized
         /\ rules'[at].last_dst = rules'[at].last_src
         /\ rules'[at].last_src = IF PropagateToSrc(rules[at]) THEN curr_dst ELSE curr_src
         /\ mem' \in MemoryType
         /\ \A c \in Cell : c \notin {rules[at].src, rules[at].dst} => mem'[c] = mem[c]
  <1> DEFINE r == rules[at]
             w == IF PropagateToSrc(r) THEN curr_dst ELSE curr_src
  <1>1. /\ step = "apply" /\ call[t] = "inside" /\ call' = call
        /\ at' = at + 1 /\ step' = "src" /\ curr_src' = 0 /\ curr_dst' = 0
    BY DEF SyncRule
  <1>2. /\ at \in 1 .. Len(rules) /\ Len(rules) \in Nat
        /\ mem \in MemoryType /\ rules \in Seq(MappingRule)
        /\ curr_src \in Word /\ curr_dst \in Word /\ 0 \in Word
    BY <1>1, LenProperties, MemoryAssumption DEF TypeOK, EngineType, Word
  <1>3. r \in MappingRule
    BY <1>2, ElementOfSeq
  <1>4. rules' = [rules EXCEPT ![at] = Remember(r, w)]
    BY DEF SyncRule, PropagateToDst, PropagateToSrc, NothingToDo
  <1>5. w \in Word
    BY <1>2
  <1> HIDE DEF w
  <1>6. /\ Remember(r, w) \in MappingRule
        /\ Remember(r, w).src = r.src /\ Remember(r, w).dst = r.dst
        /\ Remember(r, w).last_src = w /\ Remember(r, w).last_dst = w
        /\ Remember(r, w).initialized
    BY <1>3, <1>5 DEF Remember, MappingRule
  <1>7. /\ rules' \in Seq(MappingRule) /\ Len(rules') = Len(rules)
        /\ \A k \in 1 .. Len(rules) :
              rules'[k] = IF k = at THEN Remember(r, w) ELSE rules[k]
    BY <1>2, <1>4, <1>6, ExceptSeq
  <1>8. /\ mem' \in MemoryType
        /\ \A c \in Cell : c \notin {r.src, r.dst} => mem'[c] = mem[c]
    <2>1. CASE mem' = WriteValue(mem, r.dst, curr_src)
      BY <2>1, <1>2, WriteEffect
    <2>2. CASE mem' = WriteValue(mem, r.src, curr_dst)
      BY <2>2, <1>2, WriteEffect
    <2> QED
      BY <2>1, <2>2, <1>2 DEF SyncRule, PropagateToDst, PropagateToSrc, NothingToDo
  <1> QED
    BY <1>1, <1>2, <1>6, <1>7, <1>8 DEF w

\* What the rules of a running system are: each joins two existing cells of
\* one kind.
LEMMA RuleEnds ==
  ASSUME BaseInv, NEW k \in 1 .. Len(rules)
  PROVE  /\ rules[k] \in MappingRule
         /\ rules[k].src \in Cell
         /\ rules[k].dst \in Cell
         /\ rules[k].src # rules[k].dst
         /\ rules[k].src \in BitCell <=> rules[k].dst \in BitCell
         /\ rules[k].last_src \in Word
         /\ rules[k].last_dst = rules[k].last_src
  <1>1. rules[k] \in MappingRule
    BY ElementOfSeq DEF BaseInv, TypeOK, EngineType
  <1> QED
    BY <1>1 DEF BaseInv, RulesStar, StarTable, MatchedTable, Matched, RulesAgree, MappingRule

\* Between such cells the value a rule remembers is the value it stores: in
\* the destination, in the source if only the destination has changed, or in
\* neither if the two agree.
LEMMA RuleEffect ==
  ASSUME BaseInv, NEW t \in Thread, SyncRule(t)
  PROVE  \/ /\ rules'[at].last_src = curr_src
            /\ mem' = [mem EXCEPT ![rules[at].dst] = curr_src]
            /\ rules[at].initialized => curr_src # rules[at].last_src
         \/ /\ rules'[at].last_src = curr_dst
            /\ mem' = [mem EXCEPT ![rules[at].src] = curr_dst]
            /\ curr_src = rules[at].last_src
            /\ curr_dst # rules[at].last_src
         \/ /\ rules'[at].last_src = curr_src
            /\ mem' = mem
            /\ curr_src = curr_dst
            /\ rules[at].initialized => curr_src = rules[at].last_src
  <1> DEFINE r == rules[at]
  <1>1. /\ at \in 1 .. Len(rules) /\ step = "apply"
        /\ rules'[at].last_src = IF PropagateToSrc(r) THEN curr_dst ELSE curr_src
    BY RuleTypes DEF BaseInv
  <1>2. /\ mem \in MemoryType
        /\ curr_src \in Word /\ curr_dst \in Word
        /\ Narrow(r.src, curr_src) = curr_src
        /\ Narrow(r.dst, curr_dst) = curr_dst
    BY <1>1 DEF BaseInv, TypeOK, EngineType
  <1>3. /\ r.src \in Cell /\ r.dst \in Cell
        /\ r.src \in BitCell <=> r.dst \in BitCell
        /\ r.last_dst = r.last_src
    BY <1>1, RuleEnds
  <1>4. Narrow(r.dst, curr_src) = curr_src /\ Narrow(r.src, curr_dst) = curr_dst
    BY <1>2, <1>3, SameKind
  <1>5. CASE PropagateToSrc(r)
    <2>1. WriteValue(mem, r.src, curr_dst) = [mem EXCEPT ![r.src] = Narrow(r.src, curr_dst)]
      BY <1>3 DEF WriteValue
    <2>2. rules'[at].last_src = curr_dst
      BY <1>1, <1>5
    <2>3. /\ mem' = [mem EXCEPT ![r.src] = curr_dst]
          /\ curr_src = r.last_src /\ curr_dst # r.last_src
      BY <2>1, <1>3, <1>4, <1>5 DEF PropagateToSrc, DstChanged
    <2> QED
      BY <2>2, <2>3
  <1>6. CASE PropagateToDst(r) /\ ~PropagateToSrc(r)
    <2>1. WriteValue(mem, r.dst, curr_src) = [mem EXCEPT ![r.dst] = Narrow(r.dst, curr_src)]
      BY <1>3 DEF WriteValue
    <2>2. rules'[at].last_src = curr_src
      BY <1>1, <1>6
    <2>3. /\ mem' = [mem EXCEPT ![r.dst] = curr_src]
          /\ r.initialized => curr_src # r.last_src
      BY <2>1, <1>3, <1>4, <1>6 DEF PropagateToDst, FirstPass, SrcChanged, OutOfSync
    <2> QED
      BY <2>2, <2>3
  <1>7. CASE NothingToDo(r) /\ ~PropagateToSrc(r)
    BY <1>1, <1>7 DEF NothingToDo, FirstPass
  <1> QED
    BY <1>5, <1>6, <1>7 DEF SyncRule

(***************************************************************************)
(* Typing.                                                                 *)
(***************************************************************************)

\* A binding names a bound cell, and the library's variable holds a value
\* that cell can hold.
LEMMA BoundValue ==
  ASSUME image \in Image, NEW c \in BoundCell
  PROVE  /\ c \in Cell
         /\ image[c] \in Word
         /\ Narrow(c, image[c]) = image[c]
  <1>1. Len(Bindings) \in Nat /\ \A i \in 1 .. Len(Bindings) : Bindings[i] \in Cell
    BY ScanAssumption, LenProperties, ElementOfSeq
  <1> QED
    BY <1>1 DEF BoundCell, Image, Narrow, Bit

\* The bound cells are the elements of the list of bindings.
LEMMA BindingsBound ==
  /\ Len(Bindings) \in Nat
  /\ \A i \in 1 .. Len(Bindings) : Bindings[i] \in BoundCell
  /\ BoundCell \subseteq Cell
  /\ Target \in BoundCell /\ Published(Target)
  /\ \A c \in BoundCell : \E i \in 1 .. Len(Bindings) : Bindings[i] = c
  <1>1. Len(Bindings) \in Nat /\ \A i \in 1 .. Len(Bindings) : Bindings[i] \in Cell
    BY ScanAssumption, LenProperties, ElementOfSeq
  <1> QED
    BY <1>1, TargetAssumption DEF BoundCell

\* One iteration of syncOutputsFromDll stores the library's variable as it is.
LEMMA CopyOutEffect ==
  ASSUME TypeOK, CopyOut
  PROVE  /\ b \in 1 .. Len(Bindings) /\ Bindings[b] \in BoundCell
         /\ IF Published(Bindings[b])
            THEN /\ ClientWrite(Bindings[b], image[Bindings[b]])
                 /\ image[Bindings[b]] \in Word
                 /\ mem' = [mem EXCEPT ![Bindings[b]] = image[Bindings[b]]]
            ELSE UNCHANGED engineVars
         /\ mem' \in MemoryType
  <1>1. b \in 1 .. Len(Bindings) /\ Bindings[b] \in BoundCell
    BY BindingsBound DEF CopyOut, TypeOK, ScanType
  <1>2. /\ Bindings[b] \in Cell
        /\ image[Bindings[b]] \in Word
        /\ Narrow(Bindings[b], image[Bindings[b]]) = image[Bindings[b]]
    BY <1>1, BoundValue DEF TypeOK, ScanType
  <1>3. mem \in MemoryType
    BY DEF TypeOK, EngineType
  <1>4. CASE Published(Bindings[b])
    <2>1. mem' = WriteValue(mem, Bindings[b], image[Bindings[b]])
      BY <1>4 DEF CopyOut
    <2>2. mem' \in MemoryType
      BY <1>2, <1>3, <2>1, WriteEffect
    <2>4. WriteValue(mem, Bindings[b], image[Bindings[b]])
             = [mem EXCEPT ![Bindings[b]] = Narrow(Bindings[b], image[Bindings[b]])]
      BY <1>2 DEF WriteValue
    <2>3. ClientWrite(Bindings[b], image[Bindings[b]])
      BY <2>1 DEF CopyOut, ClientWrite
    <2> QED
      BY <1>1, <1>2, <1>4, <2>1, <2>2, <2>3, <2>4
  <1>5. CASE ~Published(Bindings[b])
    BY <1>1, <1>3, <1>5 DEF CopyOut, engineVars, passVars
  <1> QED
    BY <1>4, <1>5

\* Whatever the threads do, the memory and the rules change as the mapping
\* engine's own steps change them.
LEMMA EngineSteps ==
  ASSUME TypeOK, [Next]_vars
  PROVE  \/ UNCHANGED engineVars
         \/ SyncCall(Scheduler)
         \/ \E t \in Thread : SyncStep(t)
         \/ \E c \in Cell, v \in Word : ClientWrite(c, v) \/ WebWrite(c, v)
         \/ \E table \in Tables : LoadMappings(table)
  <1>0. Scheduler \in Thread /\ Web \in Thread
    BY DEF Thread
  <1>1. CASE Scan
    <2>1. CASE CopyOut
      <3>1. \/ UNCHANGED engineVars
            \/ ClientWrite(Bindings[b], image[Bindings[b]]) /\ image[Bindings[b]] \in Word
        BY <2>1, CopyOutEffect
      <3>2. Bindings[b] \in Cell
        BY <2>1, CopyOutEffect, BindingsBound
      <3> QED
        BY <3>1, <3>2
    <2>2. CASE SyncWork \/ SyncReturned
      BY <2>2, <1>0 DEF SyncWork, SyncReturned, SyncStep
    <2>3. CASE Begin \/ EndCopyOut
      BY <2>3 DEF Begin, BeginCycle, EndCopyOut, CallSync
    <2>4. CASE InitLogic \/ CopyIn \/ ReadMode \/ CopyCoil \/ Run
      BY <2>4 DEF InitLogic, CopyIn, ReadMode, CopyCoil, Run, RunLogic
    <2> QED
      BY <1>1, <2>1, <2>2, <2>3, <2>4 DEF Scan, Proceed
  <1>2. CASE WebPass
    BY <1>2, <1>0 DEF WebPass, WebSync
  <1>3. CASE \E c \in Cell, v \in Word : Write(c, v) \/ Post(c, v)
    BY <1>3 DEF Write, ExternalWrite, Post, WebPost
  <1>4. CASE \E table \in Tables : Reload(table)
    BY <1>4 DEF Reload, HotReload
  <1>5. CASE UNCHANGED vars
    BY <1>5 DEF vars
  <1> QED
    BY <1>1, <1>2, <1>3, <1>4, <1>5 DEF Next

\* The engine's steps keep its types, and the one remembered value of a rule.
LEMMA NextEngine ==
  ASSUME TypeOK, RulesAgree, [Next]_vars
  PROVE  EngineType' /\ RulesAgree'
  <1> USE DEF TypeOK
  <1>0. EngineType /\ Len(rules) \in Nat /\ RulesAgree
    BY LenProperties DEF EngineType
  <1>1. CASE UNCHANGED engineVars
    <2>1. EngineType'
      BY <1>1, <1>0 DEF engineVars, EngineType, MappingsUnlocked
    <2> QED
      BY <2>1, <1>1, <1>0 DEF engineVars, RulesAgree
  <1>2. CASE SyncCall(Scheduler)
    <2>1. EngineType'
      BY <1>2, <1>0 DEF SyncCall, passVars, EngineType, MappingsUnlocked, Thread
    <2> QED
      BY <2>1, <1>2, <1>0 DEF SyncCall, RulesAgree
  <1>3. ASSUME NEW t \in Thread, SyncStep(t) PROVE EngineType' /\ RulesAgree'
    <2>1. CASE LockMappings(t)
      <3>1. EngineType'
        BY <2>1, <1>0, EngineAssumption DEF LockMappings, EngineType, MappingsUnlocked, Thread
      <3> QED
        BY <3>1, <2>1, <1>0 DEF LockMappings, RulesAgree
    <2>2. CASE ReadSrc(t)
      <3>1. at \in 1 .. Len(rules) /\ UNCHANGED <<mem, rules, call, at, curr_dst>>
        BY <2>2, <1>0 DEF ReadSrc, EngineType
      <3>2. curr_src' \in Word /\ Narrow(rules[at].src, curr_src') = curr_src'
        BY <2>2, ReadFits DEF ReadSrc, EngineType
      <3>3. step' = "dst" /\ ~MappingsUnlocked
        BY <2>2 DEF ReadSrc, MappingsUnlocked
      <3>4. EngineType'
        BY <3>1, <3>2, <3>3, <1>0 DEF EngineType, MappingsUnlocked
      <3> QED
        BY <3>1, <3>4, <1>0 DEF RulesAgree
    <2>3. CASE ReadDst(t)
      <3>1. at \in 1 .. Len(rules) /\ UNCHANGED <<mem, rules, call, at, curr_src>>
        BY <2>3, <1>0 DEF ReadDst, EngineType
      <3>2. curr_dst' \in Word /\ Narrow(rules[at].dst, curr_dst') = curr_dst'
        BY <2>3, ReadFits DEF ReadDst, EngineType
      <3>3. step = "dst" /\ step' = "apply" /\ ~MappingsUnlocked
        BY <2>3 DEF ReadDst, MappingsUnlocked
      <3>4. EngineType'
        BY <3>1, <3>2, <3>3, <1>0 DEF EngineType, MappingsUnlocked
      <3> QED
        BY <3>1, <3>4, <1>0 DEF RulesAgree
    <2>4. CASE SyncRule(t)
      <3>1. /\ call[t] = "inside" /\ call' = call
            /\ at \in 1 .. Len(rules) /\ at' = at + 1 /\ step' = "src"
            /\ curr_src' \in Word /\ curr_dst' \in Word
            /\ rules' \in Seq(MappingRule) /\ Len(rules') = Len(rules)
            /\ mem' \in MemoryType
        BY <2>4, RuleTypes
      <3>2. /\ \A k \in 1 .. Len(rules) :
                 /\ rules'[k].src = rules[k].src
                 /\ rules'[k].dst = rules[k].dst
                 /\ k # at => rules'[k] = rules[k]
            /\ rules'[at].last_dst = rules'[at].last_src
        BY <2>4, RuleTypes
      <3>3. ~MappingsUnlocked'
        BY <3>1 DEF MappingsUnlocked
      <3>4. EngineType'
        BY <3>1, <3>3, <1>0 DEF EngineType
      <3>5. RulesAgree'
        BY <3>1, <3>2, <1>0 DEF RulesAgree
      <3> QED
        BY <3>4, <3>5
    <2>5. CASE SyncReturn(t)
      <3>1. EngineType'
        BY <2>5, <1>0 DEF SyncReturn, EngineType, MappingsUnlocked, Thread
      <3> QED
        BY <3>1, <2>5, <1>0 DEF SyncReturn, RulesAgree
    <2> QED
      BY <1>3, <2>1, <2>2, <2>3, <2>4, <2>5 DEF SyncStep
  <1>4. ASSUME NEW c \in Cell, NEW v \in Word, ClientWrite(c, v) \/ WebWrite(c, v)
        PROVE  EngineType' /\ RulesAgree'
    <2>1. mem' = WriteValue(mem, c, v) /\ UNCHANGED <<rules, passVars>>
      BY <1>4 DEF ClientWrite, WebWrite
    <2>2. mem' \in MemoryType
      BY <2>1, <1>0, WriteEffect DEF EngineType
    <2>3. \/ call' = call
          \/ call[Web] = "idle" /\ call' = [call EXCEPT ![Web] = "waiting"]
      BY <1>4 DEF ClientWrite, WebWrite
    <2>4. EngineType'
      BY <2>1, <2>2, <2>3, <1>0 DEF passVars, EngineType, MappingsUnlocked, Thread
    <2> QED
      BY <2>1, <2>4, <1>0 DEF RulesAgree
  <1>5. ASSUME NEW table \in Tables, LoadMappings(table)
        PROVE  EngineType' /\ RulesAgree'
    <2>1. table \in Seq(Entry)
      BY EngineAssumption
    <2>2. /\ rules' \in Seq(MappingRule) /\ Len(rules') = Len(table)
          /\ \A k \in 1 .. Len(table) :
               /\ rules'[k].src = table[k].src
               /\ rules'[k].dst = table[k].dst
               /\ rules'[k].last_src = rules'[k].last_dst
      BY <1>5, <2>1, LoadEffect DEF LoadMappings
    <2>3. MappingsUnlocked /\ UNCHANGED <<mem, call, passVars>>
      BY <1>5 DEF LoadMappings
    <2>4. EngineType'
      BY <2>2, <2>3, <1>0, <2>1, LenProperties DEF passVars, EngineType, MappingsUnlocked
    <2> QED
      BY <2>2, <2>4 DEF RulesAgree
  <1> QED
    BY <1>1, <1>2, <1>3, <1>4, <1>5, EngineSteps

\* The scan thread's steps keep its own types.
LEMMA NextScanType ==
  ASSUME TypeOK, [Next]_vars
  PROVE  ScanType'
  <1> USE DEF TypeOK
  <1>0. ScanType /\ Len(Bindings) \in Nat /\ call \in [Thread -> {"idle", "waiting", "inside"}]
    BY BindingsBound DEF EngineType
  <1>T. Scheduler \in Thread /\ Web \in Thread /\ Scheduler # Web
    BY EngineAssumption DEF Thread
  <1>1. CASE BeginCycle \/ EndCopyOut
    BY <1>1, <1>0, <1>T DEF BeginCycle, EndCopyOut, CallSync, SyncCall, ScanType
  <1>2. CASE SyncWork
    <2>1. call'[Scheduler] # "idle" /\ call[Scheduler] # "idle"
      BY <1>2, <1>0, <1>T DEF SyncWork, LockMappings, ReadSrc, ReadDst, SyncRule
    <2> QED
      BY <1>2, <2>1, <1>0 DEF SyncWork, scanVars, ScanType
  <1>3. CASE SyncReturned
    BY <1>3, <1>0, <1>T DEF SyncReturned, SyncReturn, ScanType
  <1>4. CASE InitLogic
    BY <1>4, <1>0, ScanAssumption DEF InitLogic, engineVars, ScanType
  <1>5. CASE CopyIn
    <2>1. b \in 1 .. Len(Bindings) /\ Bindings[b] \in BoundCell /\ Bindings[b] \in Cell
      BY <1>5, <1>0, BindingsBound DEF CopyIn, ScanType
    <2>2. /\ ReadValue(mem, Bindings[b]) \in Word
          /\ Bindings[b] \in BitCell => ReadValue(mem, Bindings[b]) \in Bit
      BY <2>1, ReadFits DEF EngineType, MemoryType
    <2>3. [image EXCEPT ![Bindings[b]] = ReadValue(mem, Bindings[b])] \in Image
      BY <2>1, <2>2, <1>0 DEF ScanType, Image
    <2>4. image' \in Image
      BY <1>5, <2>3, <1>0 DEF CopyIn, ScanType
    <2> QED
      BY <1>5, <2>1, <2>4, <1>0 DEF CopyIn, engineVars, ScanType
  <1>6. CASE ReadMode
    BY <1>6, <1>0 DEF ReadMode, engineVars, ScanType
  <1>7. CASE CopyCoil
    <2>1. b \in 1 .. Len(Bindings) /\ Bindings[b] \in BoundCell /\ Bindings[b] \in Cell
      BY <1>7, <1>0, BindingsBound DEF CopyCoil, ScanType
    <2>2. /\ ReadValue(mem, Bindings[b]) \in Word
          /\ Bindings[b] \in BitCell => ReadValue(mem, Bindings[b]) \in Bit
      BY <2>1, ReadFits DEF EngineType, MemoryType
    <2>3. [image EXCEPT ![Bindings[b]] = ReadValue(mem, Bindings[b])] \in Image
      BY <2>1, <2>2, <1>0 DEF ScanType, Image
    <2> QED
      BY <1>7, <2>1, <2>3, <1>0 DEF CopyCoil, engineVars, ScanType
  <1>8. CASE RunLogic
    <2>1. image' \in Image
      BY <1>8, <1>0, ScanAssumption DEF RunLogic, ScanType
    <2> QED
      BY <1>8, <2>1, <1>0 DEF RunLogic, engineVars, ScanType
  <1>9. CASE CopyOut
    BY <1>9, <1>0 DEF CopyOut, passVars, ScanType
  <1>10. ASSUME UNCHANGED scanVars, call'[Scheduler] = call[Scheduler] PROVE ScanType'
    BY <1>10, <1>0 DEF scanVars, ScanType
  <1>11. CASE WebPass
    <2>1. UNCHANGED scanVars /\ SyncStep(Web)
      BY <1>11 DEF WebPass, WebSync
    <2>2. call'[Scheduler] = call[Scheduler]
      BY <2>1, <1>0, <1>T DEF SyncStep, LockMappings, ReadSrc, ReadDst, SyncRule, SyncReturn
    <2> QED
      BY <2>1, <2>2, <1>10
  <1>12. ASSUME NEW c \in Cell, NEW v \in Word, Write(c, v) \/ Post(c, v) PROVE ScanType'
    <2>1. UNCHANGED scanVars
      BY <1>12 DEF Write, ExternalWrite, Post, WebPost
    <2>2. call'[Scheduler] = call[Scheduler]
      BY <1>12, <1>0, <1>T DEF Write, ExternalWrite, ClientWrite, Post, WebPost, WebWrite
    <2> QED
      BY <2>1, <2>2, <1>10
  <1>13. ASSUME NEW table \in Tables, Reload(table) PROVE ScanType'
    BY <1>13, <1>10 DEF Reload, HotReload, LoadMappings
  <1>14. CASE UNCHANGED vars
    BY <1>14, <1>10 DEF vars, engineVars
  <1> QED
    BY <1>1, <1>2, <1>3, <1>4, <1>5, <1>6, <1>7, <1>8, <1>9, <1>11, <1>12, <1>13, <1>14
       DEF Next, Scan, Begin, Run, Proceed

\* The cells of Target and of the rules that join it exist.
LEMMA GroupCells ==
  ASSUME BaseInv
  PROVE  Group \subseteq Cell
  <1>1. \A k \in 1 .. Len(rules) : rules[k].src \in Cell /\ rules[k].dst \in Cell
    BY RuleEnds
  <1> QED
    BY <1>1, BindingsBound DEF Group

\* The observer's marks are commands of their kinds.
LEMMA CommandTypes ==
  /\ Cold \in Command /\ Cold.kind = "cold"
  /\ NoCommand \in Command /\ NoCommand.kind = "none"
  /\ Contended \in Command /\ Contended.kind = "many"
  <1>1. Target \in Cell /\ 0 \in Word
    BY BindingsBound, MemoryAssumption DEF Word
  <1>2. Cold \in Command /\ Cold.kind = "cold"
    BY <1>1 DEF Cold, Command
  <1>3. \A c \in Command : /\ [c EXCEPT !.kind = "none"] \in Command
                           /\ [c EXCEPT !.kind = "none"].kind = "none"
                           /\ [c EXCEPT !.kind = "many"] \in Command
                           /\ [c EXCEPT !.kind = "many"].kind = "many"
    BY DEF Command
  <1> QED
    BY <1>2, <1>3 DEF NoCommand, Contended

\* What the observer remembers keeps its types.
LEMMA NextHistoryType ==
  ASSUME TypeOK, [Next]_vars
  PROVE  HistoryType'
  <1>0. HistoryType /\ Target \in Cell
    BY BindingsBound DEF TypeOK
  <1>1. /\ NoCommand \in Command /\ Contended \in Command
        /\ NoCommand.kind = "none" /\ Contended.kind = "many"
    BY CommandTypes
  <1>3. CASE Begin
    BY <1>3, <1>0, <1>1 DEF Begin, BeginCycle, CallSync, HistoryType
  <1>4. CASE Run
    BY <1>4, <1>0 DEF Run, RunLogic, HistoryType
  <1>5. CASE Proceed
    <2>1. phase' # "start" \/ phase' = phase
      BY <1>5 DEF Proceed, InitLogic, SyncWork, SyncReturned, CopyIn, ReadMode, CopyCoil,
                  CopyOut, EndCopyOut, CallSync, scanVars
    <2> QED
      BY <1>5, <2>1, <1>0 DEF Proceed, historyVars, HistoryType
  <1>6. CASE WebPass
    <2>1. Exposure \in Command /\ Exposure.kind = cmd.kind
      BY <1>0 DEF HistoryType, Exposure, Command
    <2>2. phase' = phase
      BY <1>6 DEF WebPass, WebSync, scanVars
    <2> QED
      BY <1>6, <2>1, <2>2, <1>0 DEF WebPass, HistoryType
  <1>7. ASSUME NEW c \in Cell, NEW v \in Word, Write(c, v) \/ Post(c, v) PROVE HistoryType'
    <2>1. Observe(c, v) /\ phase' = phase
      BY <1>7 DEF Write, Post, ExternalWrite, WebPost, scanVars
    <2>2. Narrow(c, v) \in Word
      BY MemoryAssumption DEF Narrow, Word
    <2>3. [kind |-> "lone", cell |-> c, value |-> Narrow(c, v),
           exposed |-> c = Target /\ WindowOpen] \in Command
      BY <2>2 DEF Command
    <2>4. cmd' \in Command /\ (cmd.kind = "cold" => cmd' = cmd)
      BY <2>1, <2>3, <1>0, <1>1 DEF Observe, HistoryType
    <2>5. runs' \in 0 .. 2 /\ undisturbed' = FALSE
      BY <2>1, <1>0 DEF Observe, HistoryType
    <2> QED
      BY <2>1, <2>4, <2>5, <1>0 DEF HistoryType
  <1>8. ASSUME NEW table \in Tables, Reload(table) PROVE HistoryType'
    BY <1>8, <1>0, <1>1 DEF Reload, HotReload, scanVars, HistoryType
  <1>9. CASE UNCHANGED vars
    BY <1>9, <1>0 DEF vars, scanVars, historyVars, HistoryType
  <1> QED
    BY <1>3, <1>4, <1>5, <1>6, <1>7, <1>8, <1>9 DEF Next, Scan

\* main leaves the memory, the rules and the idle scan thread well typed
\* (main.cpp:184-206).
LEMMA InitTypes ==
  ASSUME Init
  PROVE  TypeOK /\ RulesAgree
  <1> USE DEF Init, ScanInit, SyncInit
  <1>0. 0 \in Word /\ 1 \in Word /\ 0 \in Bit /\ Bit \subseteq Word
    BY MemoryAssumption DEF Word, Bit
  <1>1. PICK auto \in AutoAtStart : mem = [ZeroMemory EXCEPT ![ModeSwitch] = auto]
    OBVIOUS
  <1>2. auto \in Bit /\ auto \in Word
    BY <1>0, ScanAssumption
  <1>3. mem \in MemoryType
    BY <1>0, <1>1, <1>2 DEF MemoryType, ZeroMemory, BitCell
  <1>4. /\ rules \in Seq(MappingRule) /\ Len(rules) = Len(InitTable)
        /\ Len(rules) \in Nat
        /\ \A k \in 1 .. Len(InitTable) :
             /\ rules[k].src = InitTable[k].src
             /\ rules[k].dst = InitTable[k].dst
             /\ rules[k].last_src = rules[k].last_dst
    BY LoadEffect, EngineAssumption, LenProperties
  <1>5. EngineType
    BY <1>0, <1>3, <1>4 DEF EngineType, Thread
  <1>6. image \in Image
    BY <1>0 DEF Image
  <1>7. ScanType
    BY <1>6, BindingsBound DEF ScanType, Thread
  <1>8. HistoryType
    <2>1. undisturbed \in BOOLEAN /\ ~undisturbed
      OBVIOUS
    <2>2. cmd \in Command /\ cmd.kind = "cold" /\ runs \in 0 .. 2
      BY CommandTypes
    <2> QED
      BY <2>1, <2>2 DEF HistoryType
  <1>9. RulesAgree
    BY <1>4 DEF RulesAgree
  <1> QED
    BY <1>5, <1>7, <1>8, <1>9 DEF TypeOK

\* Every step of the cycle, of a web thread, of a client or of a reload keeps
\* the types: the three lemmas above, put together.
LEMMA NextTypes ==
  ASSUME TypeOK, RulesAgree, [Next]_vars
  PROVE  TypeOK' /\ RulesAgree'
  BY NextEngine, NextScanType, NextHistoryType DEF TypeOK

\* The ends of the rules change only when a reload installs another table.
LEMMA EndsKept ==
  ASSUME TypeOK, [Next]_vars
  PROVE  \/ /\ Len(rules') = Len(rules)
            /\ \A k \in 1 .. Len(rules) :
                 rules'[k].src = rules[k].src /\ rules'[k].dst = rules[k].dst
         \/ \E table \in Tables :
              /\ LoadMappings(table)
              /\ Len(rules') = Len(table)
              /\ \A k \in 1 .. Len(table) :
                   rules'[k].src = table[k].src /\ rules'[k].dst = table[k].dst
  <1>1. ASSUME NEW t \in Thread, SyncRule(t)
        PROVE  /\ Len(rules') = Len(rules)
               /\ \A k \in 1 .. Len(rules) :
                    rules'[k].src = rules[k].src /\ rules'[k].dst = rules[k].dst
    BY <1>1, RuleTypes
  <1>2. ASSUME NEW table \in Tables, LoadMappings(table)
        PROVE  /\ Len(rules') = Len(table)
               /\ \A k \in 1 .. Len(table) :
                    rules'[k].src = table[k].src /\ rules'[k].dst = table[k].dst
    BY <1>2, LoadEffect, EngineAssumption DEF LoadMappings
  <1>3. \/ UNCHANGED rules
        \/ \E t \in Thread : SyncRule(t)
        \/ \E table \in Tables : LoadMappings(table)
    BY EngineSteps
       DEF engineVars, SyncCall, SyncStep, LockMappings, ReadSrc, ReadDst, SyncReturn,
           ClientWrite, WebWrite
  <1> QED
    BY <1>1, <1>2, <1>3

\* Tables of stars stay so.
LEMMA InitBase ==
  ASSUME StarTables, Init
  PROVE  BaseInv
  <1>1. /\ Len(rules) = Len(InitTable)
        /\ \A k \in 1 .. Len(InitTable) :
             rules[k].src = InitTable[k].src /\ rules[k].dst = InitTable[k].dst
    BY LoadEffect, EngineAssumption DEF Init, ScanInit, SyncInit
  <1>2. RulesStar
    BY <1>1, SameEnds DEF RulesStar, StarTables
  <1> QED
    BY <1>2, InitTypes DEF BaseInv

\* The tables a reload installs are tables of stars, and rules keep their ends
\* and the one value they remember for both (PlcMemory.cpp:294-307, 470-478).
LEMMA NextBase ==
  ASSUME StarTables, BaseInv, [Next]_vars
  PROVE  BaseInv'
  <1>1. TypeOK' /\ RulesAgree'
    BY NextTypes DEF BaseInv
  <1>2. RulesStar'
    BY EndsKept, SameEnds DEF BaseInv, RulesStar, StarTables
  <1> QED
    BY <1>1, <1>2 DEF BaseInv

\* The scan cycle keeps its types for every table of rules, list of bindings
\* and logic library: bits stay bits on their way into the library and back
\* (PlcLoader.cpp:84-143), and a coil is only ever copied in its own step.
THEOREM ScanTyping == Spec => []TypeOK
  <1>1. Init => TypeOK /\ RulesAgree
    BY InitTypes
  <1>2. TypeOK /\ RulesAgree /\ [Next]_vars => TypeOK' /\ RulesAgree'
    BY NextTypes
  <1> QED
    BY <1>1, <1>2, PTL DEF Spec

(***************************************************************************)
(* The mode switch.                                                        *)
(***************************************************************************)

\* Who changes a cell: a rule that names it, the write-back of its binding,
\* or a client.
LEMMA WhoWrites ==
  ASSUME TypeOK, [Next]_vars, NEW c \in Cell, mem'[c] # mem[c]
  PROVE  \/ \E t \in Thread : SyncRule(t) /\ c \in {rules[at].src, rules[at].dst}
         \/ CopyOut /\ c = Bindings[b] /\ Published(c) /\ mem'[c] = image[c]
         \/ \E v \in Word :
              /\ Write(c, v) \/ Post(c, v)
              /\ c \in Writable \cup WebWritable
              /\ mem' = WriteValue(mem, c, v)
  <1>0. mem \in MemoryType /\ mem \in [Cell -> Word] /\ Scheduler \in Thread /\ Web \in Thread
    BY DEF TypeOK, EngineType, MemoryType, Thread
  <1>1. ASSUME NEW t \in Thread, SyncRule(t) PROVE c \in {rules[at].src, rules[at].dst}
    BY <1>1, RuleTypes
  <1>2. CASE Scan
    <2>1. SyncRule(Scheduler) \/ CopyOut
      BY <1>2 DEF Scan, Begin, Run, Proceed, BeginCycle, RunLogic, InitLogic, SyncWork,
                  SyncReturned, CopyIn, ReadMode, CopyCoil, EndCopyOut, CallSync, SyncCall,
                  LockMappings, ReadSrc, ReadDst, SyncReturn, engineVars
    <2>2. ASSUME CopyOut
          PROVE  c = Bindings[b] /\ Published(c) /\ mem'[c] = image[c]
      <3>1. Published(Bindings[b])
        BY <2>2, CopyOutEffect DEF engineVars
      <3>2. mem' = [mem EXCEPT ![Bindings[b]] = image[Bindings[b]]]
        BY <2>2, <3>1, CopyOutEffect
      <3> QED
        BY <3>1, <3>2, <1>0
    <2> QED
      BY <1>0, <1>1, <2>1, <2>2
  <1>3. CASE WebPass
    BY <1>3, <1>0, <1>1
       DEF WebPass, WebSync, SyncStep, LockMappings, ReadSrc, ReadDst, SyncReturn
  <1>4. ASSUME NEW d \in Cell, NEW v \in Word, Write(d, v) \/ Post(d, v)
        PROVE  d = c /\ d \in Writable \cup WebWritable /\ mem' = WriteValue(mem, d, v)
    <2>1. d \in Writable \cup WebWritable /\ mem' = WriteValue(mem, d, v)
      BY <1>4 DEF Write, Post, ExternalWrite, WebPost, ClientWrite, WebWrite
    <2> QED
      BY <2>1, <1>0, WriteEffect
  <1>5. ~ \E table \in Tables : Reload(table)
    BY DEF Reload, HotReload, LoadMappings
  <1>6. ~ UNCHANGED vars
    BY DEF vars, engineVars
  <1> QED
    BY <1>2, <1>3, <1>4, <1>5, <1>6 DEF Next

\* The mode switch is a cell no rule writes and nobody publishes.
LEMMA SwitchStays ==
  ASSUME SwitchUntouched, TypeOK, ModeInv, [Next]_vars
  PROVE  ModeSwitch \in Cell /\ mem'[ModeSwitch] = mem[ModeSwitch]
  <1>1. ModeSwitch \in Cell
    BY ScanAssumption DEF BitCell
  <1>2. ~Published(ModeSwitch)
    BY DEF Published, ExternalControl, ModeSwitch, Ref
  <1>3. ASSUME NEW t \in Thread, SyncRule(t) PROVE ModeSwitch \notin {rules[at].src, rules[at].dst}
    BY <1>3, RuleTypes DEF ModeInv
  <1> QED
    BY <1>1, <1>2, <1>3, WhoWrites DEF SwitchUntouched

\* The image starts with the library's initial values and no mode read.
LEMMA InitMode ==
  ASSUME SwitchUntouched, Init
  PROVE  ModeInv
  <1>1. /\ Len(rules) = Len(InitTable)
        /\ \A k \in 1 .. Len(InitTable) :
             rules[k].src = InitTable[k].src /\ rules[k].dst = InitTable[k].dst
    BY LoadEffect, EngineAssumption DEF Init, ScanInit, SyncInit
  <1> QED
    BY <1>1 DEF ModeInv, SwitchUntouched, Init, ScanInit

\* While a pass over the inputs is past the switch, the image holds the switch
\* as it is (PlcLoader.cpp:84-115).
LEMMA NextMode ==
  ASSUME SwitchUntouched, SwitchFirst, TypeOK, ModeInv, [Next]_vars
  PROVE  ModeInv'
  <1>1. ModeSwitch \in Cell /\ mem'[ModeSwitch] = mem[ModeSwitch]
    BY SwitchStays
  <1>2. \A k \in 1 .. Len(rules') : ModeSwitch \notin {rules'[k].src, rules'[k].dst}
    BY EndsKept DEF ModeInv, SwitchUntouched
  <1>3. b \in Nat /\ ModeSwitch \in BoundCell
    BY BindingsBound DEF TypeOK, ScanType, SwitchFirst
  <1>4. /\ auto_mode' = "manual" => mem[ModeSwitch] = 0
        /\ phase' = "copyIn" /\ b' > 1 => image'[ModeSwitch] = mem[ModeSwitch]
    <2>1. CASE UNCHANGED scanVars
      BY <2>1 DEF scanVars, ModeInv
    <2>2. CASE UNCHANGED auto_mode /\ (phase' # "copyIn" \/ b' = 1)
      BY <2>2 DEF ModeInv
    <2>3. CASE CopyIn
      <3>1. CASE b = 1
        <4>1. Bindings[b] = ModeSwitch /\ AlwaysCopied(ModeSwitch)
          BY <3>1 DEF SwitchFirst, AlwaysCopied, ExternalControl, ModeSwitch, Ref
        <4>2. image' = [image EXCEPT ![ModeSwitch] = ReadValue(mem, ModeSwitch)]
          BY <2>3, <4>1 DEF CopyIn
        <4>3. image'[ModeSwitch] = mem[ModeSwitch]
          BY <4>2, <1>1, <1>3 DEF ReadValue, TypeOK, ScanType, Image
        <4> QED
          BY <2>3, <4>3 DEF CopyIn, ModeInv
      <3>2. CASE b # 1
        <4>1. image[ModeSwitch] = mem[ModeSwitch] /\ b > 1
          BY <2>3, <3>2, <1>3 DEF CopyIn, ModeInv, TypeOK, ScanType
        <4>2. image' = image \/ image' = [image EXCEPT ![Bindings[b]] = ReadValue(mem, Bindings[b])]
          BY <2>3 DEF CopyIn
        <4>3. image'[ModeSwitch] = mem[ModeSwitch]
          BY <4>1, <4>2, <1>1, <1>3 DEF ReadValue, TypeOK, ScanType, Image
        <4> QED
          BY <2>3, <4>3 DEF CopyIn, ModeInv
      <3> QED
        BY <3>1, <3>2
    <2>4. CASE ReadMode
      <3>1. Bindings[b].area = "COIL"
        BY <2>4 DEF ReadMode
      <3>2. b # 1
        BY <3>1 DEF SwitchFirst, ModeSwitch, Ref
      <3>3. ReadValue(mem, ModeSwitch) = mem[ModeSwitch]
        BY <1>1 DEF ReadValue
      <3> QED
        BY <2>4, <3>2, <3>3, <1>3 DEF ReadMode, ModeInv, TypeOK, ScanType
    <2>5. CASE CopyCoil
      <3>1. Bindings[b].area = "COIL" /\ auto_mode' = "unread"
        BY <2>5 DEF CopyCoil, TypeOK, ScanType
      <3>2. b # 1 /\ Bindings[b] # ModeSwitch
        BY <3>1 DEF SwitchFirst, ModeSwitch, Ref
      <3>3. image[ModeSwitch] = mem[ModeSwitch]
        BY <2>5, <3>2, <1>3 DEF CopyCoil, ModeInv, TypeOK, ScanType
      <3>4. image'[ModeSwitch] = image[ModeSwitch]
        BY <2>5, <3>2, <1>3 DEF CopyCoil, TypeOK, ScanType, Image
      <3> QED
        BY <3>1, <3>3, <3>4
    <2> QED
      BY <2>1, <2>2, <2>3, <2>4, <2>5
         DEF Next, Scan, Begin, Run, Proceed, BeginCycle, RunLogic, InitLogic, SyncWork,
             SyncReturned, CopyOut, EndCopyOut, CallSync, WebPass, WebSync, Write,
             ExternalWrite, Post, WebPost, Reload, HotReload, vars, TypeOK, ScanType
  <1> QED
    BY <1>1, <1>2, <1>4 DEF ModeInv

(***************************************************************************)
(* The cycle heals.                                                        *)
(***************************************************************************)

\* No two rules share a spoke, so applying one rule leaves the spokes of the
\* others alone.
LEMMA OtherAnchorsStay ==
  ASSUME BaseInv, NEW t \in Thread, SyncRule(t),
         NEW k \in 1 .. Len(rules), k # at, Anchored(k)
  PROVE  Anchored(k)'
  <1>1. /\ rules'[k] = rules[k] /\ Len(rules') = Len(rules) /\ step' = "src"
        /\ at \in 1 .. Len(rules)
        /\ \A j \in 1 .. Len(rules) :
             rules'[j].src = rules[j].src /\ rules'[j].dst = rules[j].dst
        /\ \A c \in Cell : c \notin {rules[at].src, rules[at].dst} => mem'[c] = mem[c]
    BY RuleTypes DEF BaseInv
  <1>2. \A c \in Cell : SpokeOf(rules', k, c) => SpokeOf(rules, k, c)
    BY <1>1, SameEnds
  <1>3. \A c \in Cell : SpokeOf(rules, k, c) => mem'[c] = mem[c]
    BY <1>1 DEF SpokeOf
  <1> QED
    BY <1>1, <1>2, <1>3 DEF Anchored

\* An anchored rule whose turn it is writes nothing but its own spoke, and
\* stays anchored: a difference can only be its hub's.
LEMMA AnchoredApply ==
  ASSUME BaseInv, NEW t \in Thread, SyncRule(t),
         NEW k \in 1 .. Len(rules), k = at, Anchored(k)
  PROVE  /\ Anchored(k)'
         /\ \A c \in Cell : mem'[c] # mem[c] => c \notin BoundCell /\ SpokeOf(rules, at, c)
  <1> DEFINE r == rules[at]
  <1>1. /\ at \in 1 .. Len(rules) /\ at' = at + 1 /\ step = "apply" /\ step' = "src"
        /\ Len(rules') = Len(rules)
        /\ \A j \in 1 .. Len(rules) :
             rules'[j].src = rules[j].src /\ rules'[j].dst = rules[j].dst
        /\ rules'[at].initialized
    BY RuleTypes DEF BaseInv
  <1>2. mem \in [Cell -> Word] /\ r.src \in Cell /\ r.dst \in Cell /\ r.src # r.dst
    BY <1>1, RuleEnds DEF BaseInv, TypeOK, EngineType, MemoryType
  <1>3. PICK s \in Cell \ BoundCell : SpokeOf(rules, at, s)
    BY <1>1 DEF BaseInv, RulesStar, StarTable
  <1>4. s \in {r.src, r.dst}
    BY <1>3 DEF SpokeOf
  <1>5. r.initialized
    BY DEF Anchored
  <1>6. \A c \in Cell \ BoundCell : SpokeOf(rules, at, c) =>
          /\ mem[c] = r.last_src
          /\ c = r.src => curr_src = r.last_src
          /\ c = r.dst => curr_dst = r.last_src
    BY <1>1 DEF Anchored
  <1>7. /\ \A c \in Cell \ BoundCell : SpokeOf(rules, at, c) => mem'[c] = rules'[at].last_src
        /\ \A c \in Cell : mem'[c] # mem[c] => c = s
    <2>0. \A c : SpokeOf(rules, at, c) => c = r.src \/ c = r.dst
      BY DEF SpokeOf
    <2>1. CASE s = r.src
      <3>1. curr_src = r.last_src
        BY <2>1, <1>3, <1>6
      <3>2. \/ /\ rules'[at].last_src = curr_dst
               /\ mem' = [mem EXCEPT ![r.src] = curr_dst]
               /\ curr_dst # r.last_src
            \/ rules'[at].last_src = r.last_src /\ mem' = mem
        BY <3>1, <1>5, RuleEffect
      <3> QED
        BY <2>0, <2>1, <3>2, <1>2, <1>6
    <2>2. CASE s = r.dst
      <3>1. curr_dst = r.last_src
        BY <2>2, <1>3, <1>6
      <3>2. \/ /\ rules'[at].last_src = curr_src
               /\ mem' = [mem EXCEPT ![r.dst] = curr_src]
               /\ curr_src # r.last_src
            \/ rules'[at].last_src = r.last_src /\ mem' = mem
        BY <3>1, <1>5, RuleEffect
      <3> QED
        BY <2>0, <2>2, <3>2, <1>2, <1>6
    <2> QED
      BY <1>4, <2>1, <2>2
  <1>8. \A c \in Cell : SpokeOf(rules', at, c) => SpokeOf(rules, at, c)
    BY <1>1, SameEnds
  <1> QED
    BY <1>1, <1>3, <1>7, <1>8 DEF Anchored

\* A rule applied to what its ends still hold leaves them equal, and anchored
\* even if it had never run.
LEMMA FreshApply ==
  ASSUME BaseInv, NEW t \in Thread, SyncRule(t), ReadsFresh,
         NEW k \in 1 .. Len(rules), k = at
  PROVE  /\ Anchored(k)'
         /\ mem'[rules[at].src] = mem'[rules[at].dst]
  <1> DEFINE r == rules[at]
  <1>1. /\ at \in 1 .. Len(rules) /\ at' = at + 1 /\ step = "apply"
        /\ Len(rules') = Len(rules)
        /\ \A j \in 1 .. Len(rules) :
             rules'[j].src = rules[j].src /\ rules'[j].dst = rules[j].dst
        /\ rules'[at].initialized
    BY RuleTypes DEF BaseInv
  <1>2. mem \in [Cell -> Word] /\ r.src \in Cell /\ r.dst \in Cell /\ r.src # r.dst
    BY <1>1, RuleEnds DEF BaseInv, TypeOK, EngineType, MemoryType
  <1>3. curr_src = mem[r.src] /\ curr_dst = mem[r.dst]
    BY <1>1 DEF ReadsFresh
  <1>4. mem'[r.src] = rules'[at].last_src /\ mem'[r.dst] = rules'[at].last_src
    <2>1. CASE rules'[at].last_src = curr_src /\ mem' = [mem EXCEPT ![r.dst] = curr_src]
      BY <2>1, <1>2, <1>3
    <2>2. CASE rules'[at].last_src = curr_dst /\ mem' = [mem EXCEPT ![r.src] = curr_dst]
      BY <2>2, <1>2, <1>3
    <2>3. CASE rules'[at].last_src = curr_src /\ mem' = mem /\ curr_src = curr_dst
      BY <2>3, <1>3
    <2> QED
      BY <2>1, <2>2, <2>3, RuleEffect
  <1>5. \A c \in Cell : SpokeOf(rules', at, c) => c = r.src \/ c = r.dst
    BY <1>1 DEF SpokeOf
  <1>6. at' # at
    BY <1>1
  <1> QED
    BY <1>1, <1>4, <1>5, <1>6 DEF Anchored

\* Once every rule is anchored, a pass keeps it so, whoever runs it and
\* however old its reads of the hubs are, and writes no bound cell.
LEMMA PassKeepsAnchors ==
  ASSUME BaseInv, NEW t \in Thread, SyncStep(t),
         \A k \in 1 .. Len(rules) : Anchored(k)
  PROVE  /\ \A k \in 1 .. Len(rules') : Anchored(k)'
         /\ \A c \in BoundCell : mem'[c] = mem[c]
  <1>0. Len(rules) \in Nat
    BY LenProperties DEF BaseInv, TypeOK, EngineType
  <1>1. ASSUME UNCHANGED <<mem, rules>>, step' = "src"
        PROVE  \A k \in 1 .. Len(rules') : Anchored(k)'
    BY <1>1 DEF Anchored
  <1>2. CASE LockMappings(t) \/ SyncReturn(t)
    BY <1>1, <1>2 DEF LockMappings, SyncReturn
  <1>3. CASE ReadSrc(t)
    <2>1. curr_src' = mem[rules[at].src] /\ UNCHANGED <<mem, rules, at>> /\ step' = "dst"
      BY <1>3, RuleEnds, <1>0 DEF ReadSrc, ReadValue, BaseInv, TypeOK, EngineType
    <2> QED
      BY <2>1 DEF Anchored
  <1>4. CASE ReadDst(t)
    <2>1. at \in 1 .. Len(rules) /\ step = "dst"
      BY <1>4, <1>0 DEF ReadDst, BaseInv, TypeOK, EngineType
    <2>2. /\ curr_dst' = mem[rules[at].dst]
          /\ UNCHANGED <<mem, rules, at, curr_src>> /\ step' = "apply"
      BY <1>4, <2>1, RuleEnds DEF ReadDst, ReadValue
    <2> QED
      BY <2>1, <2>2 DEF Anchored
  <1>5. CASE SyncRule(t)
    <2>1. at \in 1 .. Len(rules) /\ Len(rules') = Len(rules)
      BY <1>5, RuleTypes DEF BaseInv
    <2>2. ASSUME NEW k \in 1 .. Len(rules), k = at
          PROVE  Anchored(k)' /\ \A c \in Cell : mem'[c] # mem[c] => c \notin BoundCell
      BY <1>5, <2>2, AnchoredApply
    <2>3. \A k \in 1 .. Len(rules) : k # at => Anchored(k)'
      BY <1>5, OtherAnchorsStay
    <2> QED
      BY <2>1, <2>2, <2>3, BindingsBound
  <1> QED
    BY <1>2, <1>3, <1>4, <1>5 DEF SyncStep, LockMappings, ReadSrc, ReadDst, SyncReturn

\* While the hubs stand still, reads stay current and rules in agreement do
\* too; the rule just applied joins them.
LEMMA PassAgrees ==
  ASSUME BaseInv, NEW t \in Thread, SyncStep(t), ReadsFresh,
         \A k \in 1 .. Len(rules) : Anchored(k)
  PROVE  /\ ReadsFresh'
         /\ \A k \in 1 .. Len(rules) :
              Agrees(k) \/ (SyncRule(t) /\ k = at) => Agrees(k)'
  <1>0. Len(rules) \in Nat
    BY LenProperties DEF BaseInv, TypeOK, EngineType
  <1>1. CASE LockMappings(t) \/ SyncReturn(t)
    BY <1>1 DEF LockMappings, SyncReturn, SyncRule, ReadsFresh, Agrees
  <1>2. CASE ReadSrc(t)
    <2>1. curr_src' = mem[rules[at].src] /\ UNCHANGED <<mem, rules, at>> /\ step' = "dst"
      BY <1>2, RuleEnds, <1>0 DEF ReadSrc, ReadValue, BaseInv, TypeOK, EngineType
    <2> QED
      BY <2>1, <1>2 DEF ReadsFresh, Agrees, ReadSrc, SyncRule
  <1>3. CASE ReadDst(t)
    <2>1. at \in 1 .. Len(rules) /\ step = "dst"
      BY <1>3, <1>0 DEF ReadDst, BaseInv, TypeOK, EngineType
    <2>2. /\ curr_dst' = mem[rules[at].dst]
          /\ UNCHANGED <<mem, rules, at, curr_src>> /\ step' = "apply"
      BY <1>3, <2>1, RuleEnds DEF ReadDst, ReadValue
    <2> QED
      BY <2>1, <2>2 DEF ReadsFresh, Agrees, SyncRule
  <1>4. CASE SyncRule(t)
    <2>1. /\ at \in 1 .. Len(rules) /\ step' = "src"
          /\ \A j \in 1 .. Len(rules) :
               rules'[j].src = rules[j].src /\ rules'[j].dst = rules[j].dst
      BY <1>4, RuleTypes DEF BaseInv
    <2>2. ASSUME NEW k \in 1 .. Len(rules), k = at
          PROVE  mem'[rules[k].src] = mem'[rules[k].dst]
      BY <1>4, <2>2, FreshApply
    <2>3. \A c \in Cell : mem'[c] # mem[c] => SpokeOf(rules, at, c)
      BY <1>4, <2>1, AnchoredApply
    <2>4. ASSUME NEW k \in 1 .. Len(rules), k # at
          PROVE  mem'[rules[k].src] = mem[rules[k].src] /\ mem'[rules[k].dst] = mem[rules[k].dst]
      BY <2>3, <2>4, RuleEnds DEF SpokeOf
    <2> QED
      BY <2>1, <2>2, <2>4 DEF ReadsFresh, Agrees
  <1> QED
    BY <1>1, <1>2, <1>3, <1>4 DEF SyncStep

\* Nothing is claimed before the first cycle begins.
LEMMA InitHeal == Init => HealInv
  BY DEF Init, HealInv

\* Each step of an undisturbed cycle takes it one stage further.
LEMMA NextHeal ==
  ASSUME BaseInv, HealInv, [Next]_vars
  PROVE  HealInv'
  <1> SUFFICES ASSUME undisturbed' PROVE HealInv'
    BY DEF HealInv
  <1> DEFINE K == 1 .. Len(rules)
  <1>0. /\ Len(rules) \in Nat /\ Len(Bindings) \in Nat /\ at \in Nat /\ b \in Nat
        /\ call \in [Thread -> {"idle", "waiting", "inside"}]
        /\ Scheduler \in Thread /\ Web \in Thread /\ Scheduler # Web
        /\ step # "src" => at \in K
        /\ phase = "start" => ~undisturbed
        /\ call[Scheduler] = "idle" <=> phase \notin {"syncIn", "syncOut"}
        /\ phase \in {"start", "idle", "syncIn", "copyIn", "copyOut", "syncOut"}
    BY LenProperties, BindingsBound, EngineAssumption
       DEF BaseInv, TypeOK, EngineType, ScanType, HistoryType, Thread
  <1>1. CASE Begin
    <2>1. phase' = "syncIn" /\ ~Inside'
      BY <1>1, <1>0 DEF Begin, BeginCycle, CallSync, SyncCall, Inside
    <2> QED
      BY <2>1 DEF HealInv
  <1> SUFFICES ASSUME undisturbed, ~Begin PROVE HealInv'
    <2>1. ~ \E c \in Cell, v \in Word : Write(c, v) \/ Post(c, v)
      BY DEF Write, Post, Observe
    <2>2. ~ \E table \in Tables : Reload(table)
      BY DEF Reload
    <2> QED
      BY <1>1, <2>1, <2>2 DEF Next, Scan, Run, Proceed, WebPass, vars, historyVars
  <1>2. CASE InitLogic \/ phase = "start"
    BY <1>2, <1>0 DEF InitLogic
  <1>3. ASSUME UNCHANGED <<engineVars, phase>>, phase # "copyOut",
               phase \in {"syncOut", "idle"} => UNCHANGED image
        PROVE  HealInv'
    BY <1>3 DEF HealInv, engineVars, Inside, ReadsFresh, Anchored, Agrees
  <1>4. CASE CopyIn \/ ReadMode \/ CopyCoil
    BY <1>4, <1>3 DEF CopyIn, ReadMode, CopyCoil, TypeOK, BaseInv, ScanType
  <1>5. CASE Run
    <2>1. /\ phase = "copyIn" /\ phase' = "copyOut" /\ b' = 1 /\ UNCHANGED engineVars
          /\ \A k \in K : Anchored(k)
      BY <1>5 DEF Run, RunLogic, HealInv
    <2>2. \A i \in 1 .. Len(Bindings) : ~(i < b')
      BY <2>1, <1>0
    <2> QED
      BY <2>1, <2>2 DEF HealInv, engineVars, Anchored
  <1>6. CASE CopyOut
    <2>1. /\ phase = "copyOut" /\ phase' = phase /\ b' = b + 1 /\ b \in 1 .. Len(Bindings)
          /\ UNCHANGED <<rules, call, passVars, image>>
      BY <1>6, CopyOutEffect DEF CopyOut, BaseInv
    <2>2. \A k \in K : Anchored(k)
      BY <2>1 DEF HealInv
    <2>3. /\ mem' = IF Published(Bindings[b]) THEN [mem EXCEPT ![Bindings[b]] = image[Bindings[b]]]
                                              ELSE mem
          /\ Bindings[b] \in BoundCell
          /\ mem \in [Cell -> Word]
      BY <1>6, CopyOutEffect DEF BaseInv, TypeOK, EngineType, MemoryType, engineVars
    <2>4. \A k \in K : Anchored(k)'
      BY <2>1, <2>2, <2>3 DEF Anchored, passVars
    <2>5. ASSUME NEW i \in 1 .. Len(Bindings), i < b', Published(Bindings[i])
          PROVE  mem'[Bindings[i]] = image'[Bindings[i]]
      <3>1. Bindings[i] \in Cell
        BY BindingsBound
      <3>2. i = b \/ mem[Bindings[i]] = image[Bindings[i]]
        BY <2>1, <2>5, <1>0 DEF HealInv
      <3> QED
        BY <2>1, <2>3, <2>5, <3>1, <3>2
    <2> QED
      BY <2>1, <2>4, <2>5 DEF HealInv
  <1>7. CASE EndCopyOut
    <2>1. /\ phase = "copyOut" /\ phase' = "syncOut" /\ ~Inside' /\ b > Len(Bindings)
          /\ UNCHANGED <<mem, rules, passVars, image>>
      BY <1>7, <1>0 DEF EndCopyOut, CallSync, SyncCall, Inside
    <2>2. \A k \in K : Anchored(k)
      BY <2>1 DEF HealInv
    <2>3. \A c \in BoundCell : Published(c) => mem[c] = image[c]
      BY <2>1, <1>0, BindingsBound DEF HealInv
    <2> QED
      BY <2>1, <2>2, <2>3 DEF HealInv, Anchored, passVars
  <1>8. ASSUME NEW t \in Thread, SyncStep(t), t = Scheduler \/ ~Inside,
               t = Scheduler => phase \in {"syncIn", "syncOut"},
               UNCHANGED <<image, phase>>, b' = b,
               Inside' => t = Scheduler,
               Inside' => Inside \/ LockMappings(t)
        PROVE  HealInv'
    <2>0. Len(rules') = Len(rules)
      BY <1>8, RuleTypes DEF SyncStep, LockMappings, ReadSrc, ReadDst, SyncReturn, BaseInv
    <2>1. CASE phase \in {"copyIn", "copyOut", "syncOut", "idle"}
      <3>1. \A k \in K : Anchored(k)
        BY <2>1 DEF HealInv
      <3>2. /\ \A k \in K : Anchored(k)'
            /\ \A c \in BoundCell : mem'[c] = mem[c]
        BY <3>1, <2>0, <1>8, PassKeepsAnchors
      <3>3. phase = "copyOut" => \A i \in 1 .. Len(Bindings) :
              i < b' /\ Published(Bindings[i]) => mem'[Bindings[i]] = image'[Bindings[i]]
        BY <3>2, <1>8, BindingsBound DEF HealInv
      <3>4. phase \in {"syncOut", "idle"} =>
              \A c \in BoundCell : Published(c) => mem'[c] = image'[c]
        BY <3>2, <1>8 DEF HealInv
      <3>5. CASE LockMappings(t)
        <4>1. at' = 1 /\ step' = "src" /\ UNCHANGED <<mem, rules>>
          BY <3>5 DEF LockMappings
        <4>2. ReadsFresh' /\ \A k \in K : ~(k < at')
          BY <4>1, <1>0 DEF ReadsFresh
        <4>3. phase = "idle" => \A k \in K : Agrees(k)'
          BY <4>1 DEF HealInv, Agrees
        <4> QED
          BY <3>2, <3>3, <3>4, <4>2, <4>3, <2>0, <2>1, <1>8 DEF HealInv
      <3>6. CASE ~LockMappings(t)
        <4>1. ReadsFresh => ReadsFresh' /\ \A k \in K : Agrees(k) \/ (SyncRule(t) /\ k = at) => Agrees(k)'
          BY <1>8, <3>1, PassAgrees
        <4>2. phase = "idle" => ReadsFresh' /\ \A k \in K : Agrees(k)'
          BY <4>1 DEF HealInv
        <4>3. CASE phase = "syncOut" /\ Inside'
          <5>1. ReadsFresh /\ \A k \in K : k < at => Agrees(k)
            BY <4>3, <3>6, <1>8 DEF HealInv
          <5>2. \/ at' = at
                \/ at' = at + 1 /\ SyncRule(t)
                \/ at' = 1
            BY <1>8 DEF SyncStep, LockMappings, ReadSrc, ReadDst, SyncRule, SyncReturn
          <5>3. \A k \in K : k < at' => k < at \/ (SyncRule(t) /\ k = at)
            BY <5>2, <1>0
          <5>4. ReadsFresh' /\ \A k \in K : k < at' => Agrees(k)'
            BY <4>1, <5>1, <5>3
          <5> QED
            BY <3>2, <3>3, <3>4, <4>2, <5>4, <2>0, <2>1, <1>8 DEF HealInv
        <4>4. CASE ~(phase = "syncOut" /\ Inside')
          BY <4>4, <3>2, <3>3, <3>4, <4>2, <2>0, <2>1, <1>8 DEF HealInv
        <4> QED
          BY <4>3, <4>4
      <3> QED
        BY <3>5, <3>6
    <2>2. CASE phase = "syncIn" /\ ~Inside'
      BY <2>2, <1>8 DEF HealInv
    <2>3. CASE phase = "syncIn" /\ Inside'
      <3>1. CASE LockMappings(t)
        <4>1. at' = 1 /\ step' = "src"
          BY <3>1 DEF LockMappings
        <4>2. ReadsFresh' /\ \A k \in K : ~(k < at')
          BY <4>1, <1>0 DEF ReadsFresh
        <4> QED
          BY <4>2, <2>0, <2>3, <1>8 DEF HealInv
      <3>2. CASE ~LockMappings(t)
        <4>1. ReadsFresh /\ \A k \in K : k < at => Anchored(k)
          BY <3>2, <2>3, <1>8 DEF HealInv
        <4>2. CASE ReadSrc(t)
          <5>1. curr_src' = mem[rules[at].src] /\ UNCHANGED <<mem, rules, at>> /\ step' = "dst"
            BY <4>2, RuleEnds, <1>0 DEF ReadSrc, ReadValue, BaseInv, TypeOK, EngineType
          <5>2. ReadsFresh' /\ \A k \in K : k < at' => Anchored(k)'
            BY <4>1, <5>1, <1>0 DEF ReadsFresh, Anchored
          <5> QED
            BY <5>2, <2>0, <2>3, <1>8 DEF HealInv
        <4>3. CASE ReadDst(t)
          <5>1. at \in K /\ step = "dst"
            BY <4>3, <1>0 DEF ReadDst
          <5>2. /\ curr_dst' = mem[rules[at].dst]
                /\ UNCHANGED <<mem, rules, at, curr_src>> /\ step' = "apply"
            BY <4>3, <5>1, RuleEnds DEF ReadDst, ReadValue
          <5>3. ReadsFresh' /\ \A k \in K : k < at' => Anchored(k)'
            BY <4>1, <5>1, <5>2, <1>0 DEF ReadsFresh, Anchored
          <5> QED
            BY <5>3, <2>0, <2>3, <1>8 DEF HealInv
        <4>4. CASE SyncRule(t)
          <5>1. at' = at + 1 /\ step' = "src"
            BY <4>4, RuleTypes DEF BaseInv
          <5>2. ASSUME NEW k \in K, k < at' PROVE Anchored(k)'
            <6>1. CASE k = at
              BY <6>1, <4>4, <4>1, FreshApply
            <6>2. CASE k # at
              <7>1. k < at
                BY <6>2, <5>1, <5>2, <1>0
              <7> QED
                BY <7>1, <6>2, <4>4, <4>1, OtherAnchorsStay
            <6> QED
              BY <6>1, <6>2
          <5> QED
            BY <5>1, <5>2, <2>0, <2>3, <1>8 DEF HealInv, ReadsFresh
        <4>5. ~SyncReturn(t)
          BY <2>3, <1>8, <1>0 DEF SyncReturn, Inside
        <4> QED
          BY <4>2, <4>3, <4>4, <4>5, <3>2, <1>8 DEF SyncStep
      <3> QED
        BY <3>1, <3>2
    <2> QED
      BY <2>1, <2>2, <2>3, <1>2, <1>0
  <1>9. CASE SyncWork
    <2>1. /\ LockMappings(Scheduler) \/ ReadSrc(Scheduler) \/ ReadDst(Scheduler) \/ SyncRule(Scheduler)
          /\ UNCHANGED scanVars
      BY <1>9 DEF SyncWork
    <2>2. /\ SyncStep(Scheduler)
          /\ Inside' => Inside \/ LockMappings(Scheduler)
          /\ phase \in {"syncIn", "syncOut"}
      BY <2>1, <1>0 DEF SyncStep, LockMappings, ReadSrc, ReadDst, SyncRule, Inside
    <2> QED
      BY <2>1, <2>2, <1>8, <1>0 DEF scanVars
  <1>10. CASE SyncReturned
    <2>1. /\ Inside /\ step = "src" /\ at > Len(rules)
          /\ step' = "src" /\ UNCHANGED <<mem, rules, image>>
          /\ \/ phase = "syncIn" /\ phase' = "copyIn"
             \/ phase = "syncOut" /\ phase' = "idle"
      BY <1>10 DEF SyncReturned, SyncReturn, Inside
    <2>2. \A k \in K : k < at
      BY <2>1, <1>0
    <2>3. \A k \in K : Anchored(k)
      BY <2>1, <2>2 DEF HealInv
    <2>4. ReadsFresh' /\ \A k \in K : Anchored(k)'
      BY <2>1, <2>3 DEF ReadsFresh, Anchored
    <2>5. phase' = "idle" =>
            /\ \A k \in K : Agrees(k)'
            /\ \A c \in BoundCell : Published(c) => mem'[c] = image'[c]
      BY <2>1, <2>2 DEF HealInv, Agrees
    <2> QED
      BY <2>1, <2>4, <2>5 DEF HealInv
  <1>11. CASE WebPass
    <2>1. SyncStep(Web) /\ UNCHANGED scanVars
      BY <1>11 DEF WebPass, WebSync
    <2>2. ~Inside /\ ~Inside'
      BY <2>1, <1>0
         DEF SyncStep, LockMappings, ReadSrc, ReadDst, SyncRule, SyncReturn, Inside,
             MappingsUnlocked, BaseInv, TypeOK, EngineType
    <2> QED
      BY <2>1, <2>2, <1>8, <1>0 DEF scanVars
  <1>12. CASE UNCHANGED vars
    BY <1>12 DEF vars, engineVars, scanVars, HealInv, Inside, ReadsFresh, Anchored, Agrees
  <1>13. ~ \E c \in Cell, v \in Word : Write(c, v) \/ Post(c, v)
    BY DEF Write, Post, Observe
  <1>14. ~ \E table \in Tables : Reload(table)
    BY DEF Reload
  <1> QED
    BY <1>2, <1>4, <1>5, <1>6, <1>7, <1>9, <1>10, <1>11, <1>12, <1>13, <1>14
       DEF Next, Scan, Proceed

\* After a cycle in which nobody else wrote, memory holds what the logic left
\* and both ends of every rule agree, for every table of stars whose spokes
\* the library is not bound to, whatever the web thread's passes and the
\* library do meanwhile (PlcScheduler.cpp:49-61).
THEOREM Heals ==
  ASSUME StarTables
  PROVE  Spec => []CycleHeals
  <1>1. Init => BaseInv /\ HealInv
    BY InitBase, InitHeal
  <1>2. BaseInv /\ HealInv /\ [Next]_vars => (BaseInv /\ HealInv)'
    BY NextBase, NextHeal
  <1>3. BaseInv /\ HealInv => CycleHeals
    <2> SUFFICES ASSUME BaseInv, HealInv, phase = "idle", undisturbed
                 PROVE  /\ \A c \in BoundCell : Published(c) => mem[c] = image[c]
                        /\ Converged
      BY DEF CycleHeals
    <2>1. \A k \in 1 .. Len(rules) : Agrees(k)
      BY DEF HealInv
    <2>2. Converged
      BY <2>1, RuleEnds DEF Converged, ReadValue, Agrees
    <2>3. \A c \in BoundCell : Published(c) => mem[c] = image[c]
      BY DEF HealInv
    <2> QED
      BY <2>2, <2>3
  <1> QED
    BY <1>1, <1>2, <1>3, PTL DEF Spec

(***************************************************************************)
(* Commands hold, and reach the logic.                                     *)
(***************************************************************************)

\* The cells of Target's group: Target, and the far ends of its rules.
LEMMA GroupMembers ==
  ASSUME NEW c
  PROVE  c \in Group <=>
           \/ c = Target
           \/ \E k \in 1 .. Len(rules) : Joined(k) /\ c \in {rules[k].src, rules[k].dst}
  BY DEF Group, Joined

\* Rules that keep their ends keep the group of Target.
LEMMA GroupStays ==
  ASSUME Len(rules') = Len(rules),
         \A k \in 1 .. Len(rules) :
            rules'[k].src = rules[k].src /\ rules'[k].dst = rules[k].dst
  PROVE  /\ Group' = Group
         /\ \A k \in 1 .. Len(rules) : Joined(k)' <=> Joined(k)
  BY DEF Group, Joined

\* Target is bound, so in a rule that joins it the other end is the spoke:
\* no binding and no other rule names that cell.
LEMMA FarEnds ==
  ASSUME BaseInv, NEW k \in 1 .. Len(rules), Joined(k),
         NEW c \in {rules[k].src, rules[k].dst}, c # Target
  PROVE  c \in Cell \ BoundCell /\ SpokeOf(rules, k, c)
  <1>1. PICK s \in Cell \ BoundCell : SpokeOf(rules, k, s)
    BY DEF BaseInv, RulesStar, StarTable
  <1>2. s \in {rules[k].src, rules[k].dst} /\ s # Target
    BY <1>1, BindingsBound DEF SpokeOf
  <1>3. s = c
    BY <1>2 DEF Joined
  <1> QED
    BY <1>1, <1>3

\* A rule that does not join Target changes no cell of its group.
LEMMA OutsideGroup ==
  ASSUME BaseInv, NEW t \in Thread, SyncRule(t), ~Joined(at), NEW c \in Group
  PROVE  mem'[c] = mem[c]
  <1>1. /\ at \in 1 .. Len(rules)
        /\ \A d \in Cell : d \notin {rules[at].src, rules[at].dst} => mem'[d] = mem[d]
    BY RuleTypes DEF BaseInv
  <1>2. c \in Cell
    BY GroupCells
  <1>3. c \notin {rules[at].src, rules[at].dst}
    BY <1>1, GroupMembers, FarEnds DEF SpokeOf, Joined
  <1> QED
    BY <1>1, <1>2, <1>3

\* Applying a rule of Target while a command is on its own: whatever the rule
\* writes is the command, and an end it read the command from has carried it
\* to the other.
LEMMA CommandApply ==
  ASSUME BaseInv, NEW t \in Thread, SyncRule(t), cmd'.value = cmd.value,
         NEW k \in 1 .. Len(rules), k = at, CommandRule(k)
  PROVE  /\ CommandRule(k)'
         /\ \A c \in Cell : mem'[c] \in {mem[c], cmd.value}
         /\ curr_src = cmd.value => mem'[rules[k].dst] = cmd.value
         /\ curr_dst = cmd.value => mem'[rules[k].src] = cmd.value
  <1> DEFINE r == rules[k]
             v == cmd.value
  <1>1. /\ at' = at + 1 /\ step = "apply" /\ step' = "src"
        /\ rules'[k].src = r.src /\ rules'[k].dst = r.dst
        /\ rules'[k].initialized
    BY RuleTypes DEF BaseInv
  <1>2. mem \in [Cell -> Word] /\ r.src \in Cell /\ r.dst \in Cell /\ r.src # r.dst
    BY RuleEnds DEF BaseInv, TypeOK, EngineType, MemoryType
  <1>3. /\ r.initialized
        /\ mem[r.src] \in {r.last_src, v}
        /\ mem[r.dst] \in {r.last_src, v}
        /\ curr_src = r.last_src \/ (curr_src = v /\ mem[r.src] = v)
        /\ curr_dst = r.last_src \/ (curr_dst = v /\ mem[r.dst] = v)
    BY <1>1 DEF CommandRule
  <1> DEFINE Done ==
        /\ mem'[r.src] \in {rules'[k].last_src, v}
        /\ mem'[r.dst] \in {rules'[k].last_src, v}
        /\ \A c \in Cell : mem'[c] \in {mem[c], v}
        /\ curr_src = v => mem'[r.dst] = v
        /\ curr_dst = v => mem'[r.src] = v
  <1>4. CASE /\ rules'[at].last_src = curr_src
             /\ mem' = [mem EXCEPT ![rules[at].dst] = curr_src]
             /\ rules[at].initialized => curr_src # rules[at].last_src
    <2>1. curr_src = v /\ mem[r.src] = v
      BY <1>3, <1>4
    <2>2. mem' = [mem EXCEPT ![r.dst] = v] /\ rules'[k].last_src = v
      BY <2>1, <1>4
    <2> QED
      BY <2>1, <2>2, <1>1, <1>2 DEF CommandRule
  <1>5. CASE /\ rules'[at].last_src = curr_dst
             /\ mem' = [mem EXCEPT ![rules[at].src] = curr_dst]
             /\ curr_src = rules[at].last_src
             /\ curr_dst # rules[at].last_src
    <2>1. curr_dst = v /\ mem[r.dst] = v
      BY <1>3, <1>5
    <2>2. mem' = [mem EXCEPT ![r.src] = v] /\ rules'[k].last_src = v
      BY <2>1, <1>5
    <2>3. Done
      BY <2>1, <2>2, <1>2
    <2> QED
      BY <2>3, <1>1 DEF CommandRule
  <1>6. CASE /\ rules'[at].last_src = curr_src
             /\ mem' = mem
             /\ curr_src = curr_dst
             /\ rules[at].initialized => curr_src = rules[at].last_src
    <2>1. curr_src = r.last_src /\ curr_dst = r.last_src /\ rules'[k].last_src = r.last_src
      BY <1>3, <1>6
    <2>2. Done
      BY <2>1, <1>3, <1>6
    <2> QED
      BY <2>2, <1>1 DEF CommandRule
  <1> QED
    BY <1>4, <1>5, <1>6, RuleEffect

\* A pass, whoever runs it, keeps a command that is on its own: its cell and
\* Target never lose it.
LEMMA CommandPass ==
  ASSUME BaseInv, NEW t \in Thread, SyncStep(t),
         cmd'.value = cmd.value, cmd'.cell = cmd.cell, cmd.cell \in Group,
         mem[cmd.cell] = cmd.value,
         \A k \in 1 .. Len(rules) : Joined(k) => CommandRule(k)
  PROVE  /\ Len(rules') = Len(rules)
         /\ \A k \in 1 .. Len(rules) :
              rules'[k].src = rules[k].src /\ rules'[k].dst = rules[k].dst
         /\ mem'[cmd.cell] = cmd.value
         /\ \A k \in 1 .. Len(rules) : Joined(k) => CommandRule(k)'
         /\ mem[Target] = cmd.value => mem'[Target] = cmd.value
  <1>0. Len(rules) \in Nat /\ Target \in Cell /\ cmd.cell \in Cell /\ Target \in Group
    BY LenProperties, BindingsBound, GroupCells, GroupMembers DEF BaseInv, TypeOK, EngineType
  <1>1. CASE LockMappings(t) \/ SyncReturn(t)
    <2>1. UNCHANGED <<mem, rules>> /\ step' = "src"
      BY <1>1 DEF LockMappings, SyncReturn
    <2> QED
      BY <2>1 DEF CommandRule
  <1>2. CASE ReadSrc(t)
    <2>1. curr_src' = mem[rules[at].src] /\ UNCHANGED <<mem, rules, at>> /\ step' = "dst"
      BY <1>2, RuleEnds, <1>0 DEF ReadSrc, ReadValue, BaseInv, TypeOK, EngineType
    <2> QED
      BY <2>1 DEF CommandRule
  <1>3. CASE ReadDst(t)
    <2>1. at \in 1 .. Len(rules) /\ step = "dst"
      BY <1>3, <1>0 DEF ReadDst, BaseInv, TypeOK, EngineType
    <2>2. /\ curr_dst' = mem[rules[at].dst]
          /\ UNCHANGED <<mem, rules, at, curr_src>> /\ step' = "apply"
      BY <1>3, <2>1, RuleEnds DEF ReadDst, ReadValue
    <2> QED
      BY <2>1, <2>2 DEF CommandRule
  <1>4. CASE SyncRule(t)
    <2>1. /\ at \in 1 .. Len(rules) /\ step' = "src" /\ Len(rules') = Len(rules)
          /\ \A k \in 1 .. Len(rules) :
               /\ rules'[k].src = rules[k].src
               /\ rules'[k].dst = rules[k].dst
               /\ k # at => rules'[k] = rules[k]
      BY <1>4, RuleTypes DEF BaseInv
    <2>2. \A c \in Group : mem'[c] \in {mem[c], cmd.value}
      <3>1. CASE Joined(at)
        <4>1. \A k \in 1 .. Len(rules) : k = at =>
                \A c \in Cell : mem'[c] \in {mem[c], cmd.value}
          BY <3>1, <1>4, CommandApply
        <4> QED
          BY <4>1, <2>1, GroupCells
      <3>2. CASE ~Joined(at)
        BY <3>2, <1>4, OutsideGroup
      <3> QED
        BY <3>1, <3>2
    <2>3. ASSUME NEW k \in 1 .. Len(rules), Joined(k) PROVE CommandRule(k)'
      <3>1. CASE k = at
        BY <3>1, <2>3, <1>4, CommandApply
      <3>2. CASE k # at
        <4>1. rules'[k] = rules[k] /\ CommandRule(k)
          BY <3>2, <2>1, <2>3
        <4>2. rules[k].src \in Group /\ rules[k].dst \in Group
          BY <2>3, GroupMembers
        <4>3. /\ mem'[rules[k].src] \in {mem[rules[k].src], cmd.value}
              /\ mem'[rules[k].dst] \in {mem[rules[k].dst], cmd.value}
          BY <4>2, <2>2
        <4> QED
          BY <4>1, <4>3, <2>1 DEF CommandRule
      <3> QED
        BY <3>1, <3>2
    <2>4. mem'[cmd.cell] = cmd.value /\ (mem[Target] = cmd.value => mem'[Target] = cmd.value)
      BY <2>2, <1>0
    <2> QED
      BY <2>1, <2>3, <2>4
  <1> QED
    BY <1>1, <1>2, <1>3, <1>4 DEF SyncStep

\* The pass that ends a cycle in which the logic ran after the command reads
\* the command at its cell and carries it to Target.
LEMMA CommandTravels ==
  ASSUME BaseInv, SyncStep(Scheduler), ~SyncReturn(Scheduler),
         cmd' = cmd, cmd.cell \in Group, mem[cmd.cell] = cmd.value,
         \A k \in 1 .. Len(rules) : Joined(k) => CommandRule(k),
         Inside => \A k \in 1 .. Len(rules) : CommandCarried(k)
  PROVE  \A k \in 1 .. Len(rules') : CommandCarried(k)'
  <1>0. Len(rules) \in Nat /\ at \in Nat /\ Scheduler \in Thread
    BY LenProperties DEF BaseInv, TypeOK, EngineType, Thread
  <1>1. CASE LockMappings(Scheduler)
    BY <1>0, <1>1 DEF LockMappings, CommandCarried
  <1>2. CASE ReadSrc(Scheduler)
    <2>1. /\ curr_src' = mem[rules[at].src] /\ UNCHANGED <<mem, rules, at>> /\ step' = "dst"
          /\ Inside
      BY <1>2, RuleEnds, <1>0 DEF ReadSrc, ReadValue, BaseInv, TypeOK, EngineType, Inside
    <2> QED
      BY <2>1 DEF CommandCarried, Joined
  <1>3. CASE ReadDst(Scheduler)
    <2>1. at \in 1 .. Len(rules) /\ step = "dst" /\ Inside
      BY <1>3, <1>0 DEF ReadDst, BaseInv, TypeOK, EngineType, Inside
    <2>2. /\ curr_dst' = mem[rules[at].dst]
          /\ UNCHANGED <<mem, rules, at, curr_src>> /\ step' = "apply"
      BY <1>3, <2>1, RuleEnds DEF ReadDst, ReadValue
    <2> QED
      BY <2>1, <2>2 DEF CommandCarried, Joined
  <1>4. CASE SyncRule(Scheduler)
    <2>1. /\ Len(rules') = Len(rules) /\ at' = at + 1 /\ step = "apply" /\ step' = "src" /\ Inside
          /\ \A k \in 1 .. Len(rules) :
               rules'[k].src = rules[k].src /\ rules'[k].dst = rules[k].dst
      BY <1>4, <1>0, RuleTypes DEF BaseInv, Inside
    <2>2. mem'[cmd.cell] = cmd.value /\ (mem[Target] = cmd.value => mem'[Target] = cmd.value)
      BY <1>0, CommandPass
    <2>3. ASSUME NEW k \in 1 .. Len(rules), Joined(k), k < at',
                 cmd.cell \in {rules[k].src, rules[k].dst}
          PROVE  mem'[Target] = cmd.value
      <3>1. CASE k = at
        <4>1. /\ rules[k].src = cmd.cell => curr_src = cmd.value
              /\ rules[k].dst = cmd.cell => curr_dst = cmd.value
          BY <3>1, <2>1, <2>3 DEF CommandCarried
        <4>2. /\ curr_src = cmd.value => mem'[rules[k].dst] = cmd.value
              /\ curr_dst = cmd.value => mem'[rules[k].src] = cmd.value
          BY <3>1, <2>3, <1>0, <1>4, CommandApply
        <4> QED
          BY <4>1, <4>2, <2>2, <2>3 DEF Joined
      <3>2. CASE k # at
        <4>1. k < at
          BY <3>2, <2>1, <2>3, <1>0
        <4> QED
          BY <4>1, <2>1, <2>2, <2>3 DEF CommandCarried
      <3> QED
        BY <3>1, <3>2
    <2> QED
      BY <2>1, <2>3 DEF CommandCarried, Joined
  <1> QED
    BY <1>1, <1>2, <1>3, <1>4 DEF SyncStep

\* A command that finds the system calm starts out on its own: every rule
\* remembers what its ends hold, and the copy of Target is up to date.
LEMMA CommandStarts ==
  ASSUME BaseInv, SwitchUntouched, ModeInv, [Next]_vars,
         NEW c \in Group, NEW v \in Word, Calm,
         cmd' = [kind |-> "lone", cell |-> c, value |-> Narrow(c, v),
                 exposed |-> c = Target /\ WindowOpen],
         ~cmd'.exposed, runs' = 0, mem' = WriteValue(mem, c, v),
         UNCHANGED <<rules, passVars, scanVars>>
  PROVE  CommandInv'
  <1>1. c \in Cell /\ Target \in Cell /\ mem \in [Cell -> Word]
    BY GroupCells, BindingsBound DEF BaseInv, TypeOK, EngineType, MemoryType
  <1>2. cmd'.cell = c /\ cmd'.value = Narrow(c, v) /\ (c = Target => ~WindowOpen)
    OBVIOUS
  <1>3. mem' = [mem EXCEPT ![c] = cmd'.value]
    BY <1>1, <1>2 DEF WriteValue
  <1>4. mem'[ModeSwitch] = 0
    BY <1>1, SwitchStays DEF Calm, ReadValue, BaseInv
  <1>5. ASSUME NEW k \in 1 .. Len(rules) PROVE CommandRule(k)'
    <2>1. SettledRule(k) /\ rules[k].src \in Cell /\ rules[k].dst \in Cell
      BY RuleEnds DEF Calm, Settled
    <2>2. mem[rules[k].src] = rules[k].last_src /\ mem[rules[k].dst] = rules[k].last_src
      BY <2>1 DEF SettledRule, ReadValue
    <2>3. /\ mem'[rules[k].src] \in {rules[k].last_src, cmd'.value}
          /\ mem'[rules[k].dst] \in {rules[k].last_src, cmd'.value}
      BY <2>1, <2>2, <1>1, <1>3
    <2>4. /\ rules[k].initialized
          /\ at = k /\ step # "src" => curr_src = rules[k].last_src
          /\ at = k /\ step = "apply" => curr_dst = rules[k].last_src
      BY <2>1 DEF SettledRule
    <2> QED
      BY <2>3, <2>4 DEF CommandRule, passVars
  <1>6. WindowOpen => image[Target] = mem'[Target]
    BY <1>1, <1>2, <1>3 DEF Calm
  <1>7. Group' = Group /\ (WindowOpen' <=> WindowOpen)
    BY DEF Group, WindowOpen, scanVars
  <1>8. mem'[c] = cmd'.value
    BY <1>1, <1>3
  <1> QED
    BY <1>2, <1>4, <1>5, <1>6, <1>7, <1>8 DEF CommandInv, scanVars

\* Each step keeps a lone command alive: the cycle copies a coil the logic
\* left alone, and a pass applies the command or what its rules remember.
LEMMA NextCommand ==
  ASSUME SwitchUntouched, SwitchFirst, ManualIsRespected,
         BaseInv, ModeInv, CommandInv, [Next]_vars
  PROVE  CommandInv'
  <1> SUFFICES ASSUME cmd'.kind = "lone", ~cmd'.exposed PROVE CommandInv'
    BY DEF CommandInv
  <1> DEFINE Lone == cmd.kind = "lone" /\ ~cmd.exposed
             v == cmd.value
  <1>0. /\ Len(rules) \in Nat /\ Len(Bindings) \in Nat /\ at \in Nat /\ b \in Nat \ {0}
        /\ Target \in BoundCell /\ Target \in Cell /\ Published(Target) /\ Target \in Group
        /\ Group \subseteq Cell
        /\ mem \in [Cell -> Word]
        /\ call \in [Thread -> {"idle", "waiting", "inside"}]
        /\ Scheduler \in Thread /\ Web \in Thread /\ Scheduler # Web
        /\ phase = "start" => cmd.kind = "cold"
        /\ call[Scheduler] = "idle" <=> phase \notin {"syncIn", "syncOut"}
        /\ runs \in 0 .. 2 /\ cmd \in Command
        /\ image \in [BoundCell -> Word]
    BY LenProperties, BindingsBound, EngineAssumption, GroupCells, GroupMembers
       DEF BaseInv, TypeOK, EngineType, ScanType, HistoryType, Thread, MemoryType, Image
  <1>S. mem'[ModeSwitch] = mem[ModeSwitch]
    BY SwitchStays DEF BaseInv
  <1>I. Lone =>
          /\ cmd.cell \in Group /\ mem[cmd.cell] = v /\ mem[ModeSwitch] = 0
          /\ \A k \in 1 .. Len(rules) : Joined(k) => CommandRule(k)
          /\ WindowOpen => image[Target] = mem[Target]
          /\ runs # 0 /\ phase \in {"idle", "syncIn", "copyIn"} => mem[Target] = v
          /\ runs # 0 /\ phase = "syncOut" /\ Inside =>
                \A k \in 1 .. Len(rules) : CommandCarried(k)
          /\ runs = 2 => mem[Target] = v /\ image[Target] = v
    BY DEF CommandInv
  <1>W. WindowOpen <=>
          \E i \in 1 .. Len(Bindings) :
             Bindings[i] = Target /\ ((phase = "copyIn" /\ b > i) \/ (phase = "copyOut" /\ b <= i))
    BY DEF WindowOpen
  \* Steps after which the cells of the group, and what the rules and a pass
  \* know of them, are as they were.
  <1>1. ASSUME Lone, UNCHANGED <<rules, passVars, cmd>>,
               \A c \in Group : mem'[c] = mem[c]
        PROVE  /\ cmd'.cell \in Group' /\ mem'[cmd'.cell] = cmd'.value /\ mem'[ModeSwitch] = 0
               /\ \A k \in 1 .. Len(rules') : Joined(k)' => CommandRule(k)'
               /\ mem'[Target] = mem[Target] /\ cmd'.value = v
    <2>1. \A k \in 1 .. Len(rules) : Joined(k) =>
            mem'[rules[k].src] = mem[rules[k].src] /\ mem'[rules[k].dst] = mem[rules[k].dst]
      BY <1>1, GroupMembers
    <2>2. Group' = Group /\ \A k \in 1 .. Len(rules) : Joined(k)' <=> Joined(k)
      BY <1>1, GroupStays
    <2> QED
      BY <1>1, <2>1, <2>2, <1>0, <1>S, <1>I DEF CommandRule, passVars
  \* The rest of the invariant when the scan thread stays where it is.
  <1>2. ASSUME Lone, UNCHANGED <<rules, passVars, cmd, scanVars, runs>>, Inside' => Inside,
               \A c \in Group : mem'[c] = mem[c]
        PROVE  CommandInv'
    <2>1. WindowOpen' <=> WindowOpen
      BY <1>2 DEF WindowOpen, scanVars
    <2>2. \A k \in 1 .. Len(rules) : CommandCarried(k) => CommandCarried(k)'
      BY <1>2, <1>0 DEF CommandCarried, Joined, passVars
    <2>3. Lone /\ UNCHANGED <<rules, passVars, cmd, image, phase, runs>>
      BY <1>2 DEF scanVars
    <2>4. \A k \in 1 .. Len(rules') : Joined(k)' => CommandRule(k)'
      BY <1>1, <1>2
    <2>5. /\ cmd'.cell \in Group' /\ mem'[cmd'.cell] = cmd'.value /\ mem'[ModeSwitch] = 0
          /\ mem'[Target] = mem[Target] /\ cmd'.value = v
      BY <1>1, <1>2
    <2>6. /\ WindowOpen' => image'[Target] = mem'[Target]
          /\ runs' # 0 /\ phase' \in {"idle", "syncIn", "copyIn"} => mem'[Target] = v
          /\ runs' = 2 => mem'[Target] = v /\ image'[Target] = v
      BY <2>1, <2>3, <2>5, <1>I
    <2>7. runs' # 0 /\ phase' = "syncOut" /\ Inside' =>
            \A k \in 1 .. Len(rules') : CommandCarried(k)'
      BY <2>2, <2>3, <1>2, <1>I
    <2> QED
      BY <2>4, <2>5, <2>6, <2>7 DEF CommandInv
  <1>3. CASE Begin
    <2>1. /\ cmd.kind # "cold" /\ cmd' = cmd /\ phase = "idle" /\ phase' = "syncIn"
          /\ UNCHANGED <<mem, rules, passVars, image, runs>>
      BY <1>3, CommandTypes DEF Begin, BeginCycle, CallSync, SyncCall
    <2>2. ~WindowOpen'
      BY <2>1 DEF WindowOpen
    <2> QED
      BY <2>1, <2>2, <1>1, <1>I DEF CommandInv
  <1>4. CASE Run
    <2>1. /\ Lone /\ cmd' = cmd /\ phase = "copyIn" /\ phase' = "copyOut" /\ b > Len(Bindings)
          /\ UNCHANGED <<mem, rules, passVars>> /\ image' \in Logic(image)
          /\ runs' = IF runs < 2 THEN runs + 1 ELSE runs
      BY <1>4 DEF Run, RunLogic, engineVars, passVars
    <2>2. WindowOpen
      <3>1. PICK i \in 1 .. Len(Bindings) : Bindings[i] = Target
        BY BindingsBound
      <3>2. b > i
        BY <3>1, <2>1, <1>0
      <3> QED
        BY <3>1, <3>2, <2>1, <1>W
    <2>3. image[ModeSwitch] = 0
      BY <2>1, <1>0, <1>I DEF ModeInv, SwitchFirst
    <2>4. image'[Target] = image[Target]
      BY <2>1, <2>3 DEF ManualIsRespected, BaseInv, TypeOK, ScanType
    <2>5. runs' = 2 => mem[Target] = v /\ image'[Target] = v
      BY <2>1, <2>2, <2>4, <1>0, <1>I
    <2> QED
      BY <2>1, <2>2, <2>4, <2>5, <1>1, <1>I DEF CommandInv
  <1>5. CASE Proceed
    <2>0. UNCHANGED historyVars /\ Lone /\ cmd' = cmd /\ runs' = runs
      BY <1>5 DEF Proceed, historyVars
    <2>1. ~InitLogic
      BY <2>0, <1>0 DEF InitLogic
    <2>2. CASE CopyIn
      <3>1. /\ phase = "copyIn" /\ phase' = phase /\ UNCHANGED engineVars
            /\ b <= Len(Bindings) /\ b' = b + 1 /\ Bindings[b] # Target
            /\ image' = image \/ image' = [image EXCEPT ![Bindings[b]] = ReadValue(mem, Bindings[b])]
        BY <2>2 DEF CopyIn, ManualIsRespected
      <3>2. image'[Target] = image[Target]
        BY <3>1, <1>0
      <3>3. WindowOpen' => WindowOpen
        BY <3>1, <1>0, <1>W DEF WindowOpen
      <3> QED
        BY <2>0, <3>1, <3>2, <3>3, <1>1, <1>I DEF CommandInv, engineVars, passVars
    <2>3. CASE ReadMode
      <3>1. /\ phase = "copyIn" /\ phase' = phase /\ b' = b /\ UNCHANGED <<engineVars, image>>
        BY <2>3, <2>0, <1>I, ScanAssumption DEF ReadMode, ReadValue, BitCell
      <3>2. WindowOpen' <=> WindowOpen
        BY <3>1 DEF WindowOpen
      <3> QED
        BY <2>0, <3>1, <3>2, <1>1, <1>I DEF CommandInv, engineVars, passVars
    <2>4. CASE CopyCoil
      <3>1. /\ phase = "copyIn" /\ phase' = phase /\ UNCHANGED engineVars /\ b' = b + 1
            /\ image' = [image EXCEPT ![Bindings[b]] = ReadValue(mem, Bindings[b])]
        BY <2>4 DEF CopyCoil
      <3>2. /\ image'[Target] = IF Bindings[b] = Target THEN mem[Target] ELSE image[Target]
        BY <3>1, <1>0 DEF ReadValue
      <3>3. WindowOpen' => WindowOpen \/ Bindings[b] = Target
        BY <3>1, <1>0, <1>W DEF WindowOpen
      <3> QED
        BY <2>0, <3>1, <3>2, <3>3, <1>1, <1>I DEF CommandInv, engineVars, passVars
    <2>5. CASE CopyOut
      <3>1. /\ phase = "copyOut" /\ phase' = phase /\ b \in 1 .. Len(Bindings) /\ b' = b + 1
            /\ UNCHANGED <<rules, call, passVars, image>>
        BY <2>5, CopyOutEffect DEF CopyOut, BaseInv
      <3>2. /\ Bindings[b] \in BoundCell
            /\ \/ mem' = mem
               \/ mem' = [mem EXCEPT ![Bindings[b]] = image[Bindings[b]]]
        BY <2>5, CopyOutEffect DEF BaseInv, engineVars
      <3>3. Bindings[b] = Target => image[Target] = mem[Target]
        BY <3>1, <2>0, <1>0, <1>I, <1>W
      <3>4. ASSUME NEW c \in Group PROVE mem'[c] = mem[c]
        <4>1. c = Target \/ c \notin BoundCell
          BY GroupMembers, FarEnds
        <4> QED
          BY <4>1, <3>2, <3>3, <1>0
      <3>5. WindowOpen' => WindowOpen
        BY <3>1, <1>0, <1>W DEF WindowOpen
      <3> QED
        BY <2>0, <3>1, <3>4, <3>5, <1>1, <1>I DEF CommandInv
    <2>6. CASE EndCopyOut
      <3>1. /\ phase' = "syncOut" /\ ~Inside'
            /\ UNCHANGED <<mem, rules, passVars, image>>
        BY <2>6, <1>0 DEF EndCopyOut, CallSync, SyncCall, Inside
      <3>2. ~WindowOpen'
        BY <3>1 DEF WindowOpen
      <3> QED
        BY <2>0, <3>1, <3>2, <1>1, <1>I DEF CommandInv
    <2>7. CASE SyncWork
      <3>1. /\ SyncStep(Scheduler) /\ ~SyncReturn(Scheduler) /\ UNCHANGED scanVars
            /\ phase \in {"syncIn", "syncOut"}
        BY <2>7, <1>0
           DEF SyncWork, SyncStep, LockMappings, ReadSrc, ReadDst, SyncRule, SyncReturn,
               BaseInv, TypeOK, EngineType
      <3>2. /\ Len(rules') = Len(rules)
            /\ \A k \in 1 .. Len(rules) :
                 rules'[k].src = rules[k].src /\ rules'[k].dst = rules[k].dst
            /\ mem'[cmd.cell] = v
            /\ \A k \in 1 .. Len(rules) : Joined(k) => CommandRule(k)'
            /\ mem[Target] = v => mem'[Target] = v
        BY <2>0, <3>1, <1>0, <1>I, CommandPass
      <3>3. Group' = Group /\ \A k \in 1 .. Len(rules) : Joined(k)' <=> Joined(k)
        BY <3>2, GroupStays
      <3>4. ~WindowOpen'
        BY <3>1 DEF WindowOpen, scanVars
      <3>5. runs # 0 /\ phase = "syncOut" => \A k \in 1 .. Len(rules') : CommandCarried(k)'
        BY <2>0, <3>1, <1>I, CommandTravels
      <3> QED
        BY <2>0, <3>1, <3>2, <3>3, <3>4, <3>5, <1>S, <1>I DEF CommandInv, scanVars
    <2>8. CASE SyncReturned
      <3>1. /\ Inside /\ at > Len(rules) /\ step = "src" /\ step' = "src" /\ b' = 1
            /\ UNCHANGED <<mem, rules, image>>
            /\ \/ phase = "syncIn" /\ phase' = "copyIn"
               \/ phase = "syncOut" /\ phase' = "idle"
        BY <2>8 DEF SyncReturned, SyncReturn, Inside
      <3>2. runs # 0 /\ phase = "syncOut" => mem[Target] = v
        <4> SUFFICES ASSUME runs # 0, phase = "syncOut" PROVE mem[Target] = v
          OBVIOUS
        <4>1. CASE cmd.cell = Target
          BY <4>1, <2>0, <1>I
        <4>2. CASE cmd.cell # Target
          <5>1. PICK k \in 1 .. Len(rules) : Joined(k) /\ cmd.cell \in {rules[k].src, rules[k].dst}
            BY <4>2, <2>0, <1>I, GroupMembers
          <5>2. k < at
            BY <3>1, <1>0
          <5> QED
            BY <5>1, <5>2, <3>1, <2>0, <1>I DEF CommandCarried
        <4> QED
          BY <4>1, <4>2
      <3>3. ~WindowOpen'
        BY <3>1 DEF WindowOpen
      <3>4. Group' = Group /\ \A k \in 1 .. Len(rules) : Joined(k)' <=> Joined(k)
        BY <3>1, GroupStays
      <3>5. \A k \in 1 .. Len(rules) : Joined(k) => CommandRule(k)'
        BY <3>1, <2>0, <1>I DEF CommandRule
      <3> QED
        BY <2>0, <3>1, <3>2, <3>3, <3>4, <3>5, <1>S, <1>I DEF CommandInv
    <2> QED
      BY <1>5, <2>1, <2>2, <2>3, <2>4, <2>5, <2>6, <2>7, <2>8 DEF Proceed
  <1>6. CASE WebPass
    <2>1. /\ SyncStep(Web) /\ UNCHANGED <<scanVars, runs>>
          /\ cmd' = IF cmd.kind = "lone" THEN Exposure ELSE cmd
      BY <1>6 DEF WebPass, WebSync
    <2>2. /\ Lone /\ cmd'.cell = cmd.cell /\ cmd'.value = v
          /\ WindowOpen => mem'[Target] = mem[Target]
      BY <2>1, <1>0 DEF Exposure, Command
    <2>3. /\ Len(rules') = Len(rules)
          /\ \A k \in 1 .. Len(rules) :
               rules'[k].src = rules[k].src /\ rules'[k].dst = rules[k].dst
          /\ mem'[cmd.cell] = v
          /\ \A k \in 1 .. Len(rules) : Joined(k) => CommandRule(k)'
          /\ mem[Target] = v => mem'[Target] = v
      BY <2>1, <2>2, <1>0, <1>I, CommandPass
    <2>4. Group' = Group /\ \A k \in 1 .. Len(rules) : Joined(k)' <=> Joined(k)
      BY <2>3, GroupStays
    <2>5. ~Inside'
      BY <2>1, <1>0
         DEF SyncStep, LockMappings, ReadSrc, ReadDst, SyncRule, SyncReturn, Inside,
             MappingsUnlocked, BaseInv, TypeOK, EngineType
    <2>6. WindowOpen' <=> WindowOpen
      BY <2>1 DEF WindowOpen, scanVars
    <2> QED
      BY <2>1, <2>2, <2>3, <2>4, <2>5, <2>6, <1>S, <1>I DEF CommandInv, scanVars
  <1>7. ASSUME NEW c \in Cell, NEW w \in Word, Write(c, w) \/ Post(c, w) PROVE CommandInv'
    <2>1. /\ Observe(c, w) /\ mem' = WriteValue(mem, c, w)
          /\ UNCHANGED <<rules, passVars, scanVars>>
      BY <1>7 DEF Write, Post, ExternalWrite, WebPost, ClientWrite, WebWrite
    <2>2. Inside' = Inside
      BY <1>7, <1>0 DEF Write, Post, ExternalWrite, WebPost, ClientWrite, WebWrite, Inside
    <2>3. CASE c \in Group /\ cmd.kind # "cold"
      <3>1. Calm /\ cmd' = [kind |-> "lone", cell |-> c, value |-> Narrow(c, w),
                            exposed |-> c = Target /\ WindowOpen]
        BY <2>1, <2>3, CommandTypes DEF Observe
      <3>2. runs' = 0
        BY <2>1, <2>3 DEF Observe
      <3> QED
        BY <2>1, <2>3, <3>1, <3>2, CommandStarts
    <2>4. CASE ~(c \in Group /\ cmd.kind # "cold")
      <3>1. Lone /\ cmd' = cmd /\ runs' = runs
        BY <2>1, <2>4 DEF Observe
      <3>2. c \notin Group
        BY <3>1, <2>4
      <3>3. \A d \in Group : mem'[d] = mem[d]
        BY <2>1, <3>2, <1>0, WriteEffect DEF BaseInv, TypeOK, EngineType
      <3> QED
        BY <2>1, <2>2, <3>1, <3>3, <1>2
    <2> QED
      BY <2>3, <2>4
  <1>8. ASSUME NEW table \in Tables, Reload(table) PROVE CommandInv'
    BY <1>8, CommandTypes DEF Reload
  <1>9. CASE UNCHANGED vars
    BY <1>9, <1>2 DEF vars, engineVars, scanVars, historyVars, passVars, Inside
  <1> QED
    BY <1>3, <1>4, <1>5, <1>6, <1>7, <1>8, <1>9 DEF Next, Scan

\* The invariant of the two theorems below.
LEMMA CommandInvariant ==
  ASSUME StarTables, SwitchUntouched, SwitchFirst, ManualIsRespected
  PROVE  Spec => [](BaseInv /\ ModeInv /\ CommandInv)
  <1>1. Init => BaseInv /\ ModeInv /\ CommandInv
    BY InitBase, InitMode, CommandTypes DEF Init, CommandInv
  <1>2. BaseInv /\ ModeInv /\ CommandInv /\ [Next]_vars => (BaseInv /\ ModeInv /\ CommandInv)'
    BY NextBase, NextMode, NextCommand DEF BaseInv
  <1> QED
    BY <1>1, <1>2, PTL DEF Spec

\* In MANUAL a command that finds the system calm is never overwritten by the
\* cycle, whichever cell of the group it is for and wherever the scan thread
\* and a web thread's pass stand, unless it changes the coil inside the copy
\* window (PlcLoader.cpp:84-143): for every table of stars and every library
\* that respects the switch.
THEOREM CommandsHold ==
  ASSUME StarTables, SwitchUntouched, SwitchFirst, ManualIsRespected
  PROVE  Spec => []CommandHolds
  <1>1. CommandInv => CommandHolds
    BY DEF CommandInv, CommandHolds
  <1> QED
    BY <1>1, CommandInvariant, PTL

\* Such a command has reached the logic by its second run: the pass between
\* the two runs has read it at its cell and carried it to the coil
\* (PlcScheduler.cpp:55-58).
THEOREM CommandsReachLogic ==
  ASSUME StarTables, SwitchUntouched, SwitchFirst, ManualIsRespected
  PROVE  Spec => []CommandReachesLogic
  <1>1. CommandInv => CommandReachesLogic
    BY DEF CommandInv, CommandReachesLogic
  <1> QED
    BY <1>1, CommandInvariant, PTL
=============================================================================
