--------------------------- MODULE MappingEngine ---------------------------
(***************************************************************************)
(* The bidirectional mapping engine, PlcMemory::syncMappings and           *)
(* PlcMemory::loadMappings.                                                *)
(*                                                                         *)
(* syncMappings holds mappings_mutex_ for a whole pass over the rules, but *)
(* mutex_, which guards the cells, only inside each read and each write.   *)
(* Clients therefore write cells between any two accesses of a pass.  The  *)
(* scan thread calls syncMappings twice a cycle; POST /api/memory/write    *)
(* calls it from a web thread after its own write; POST /api/mappings      *)
(* replaces the rules under mappings_mutex_.                               *)
(***************************************************************************)
EXTENDS PlcMemory, Sequences

CONSTANTS
    Scheduler,   \* the scan thread
    Web,         \* a thread of the web server
    InitTable,   \* the rules the constructor loads from mappings.json
    Tables       \* the rule tables a hot reload may install

Thread == {Scheduler, Web}

\* What one object of mappings.json names: two parsed addresses.
Entry == [src : MemoryRef, dst : MemoryRef]

ASSUME EngineAssumption ==
    /\ Scheduler # Web
    /\ InitTable \in Seq(Entry)
    /\ \A table \in Tables : table \in Seq(Entry)

VARIABLES
    mem,       \* the cells
    rules,     \* mappings_: the rules with their change-detection state
    call,      \* call[t]: where thread t is in its call of syncMappings
    at,        \* index of the rule the running pass is at
    step,      \* next access of that rule: "src", "dst" or "apply"
    curr_src,  \* local curr_src of the running pass, once read
    curr_dst   \* local curr_dst of the running pass, once read

passVars == <<at, step, curr_src, curr_dst>>
engineVars == <<mem, rules, call, at, step, curr_src, curr_dst>>

-----------------------------------------------------------------------------
MappingRule ==
    [src : MemoryRef, dst : MemoryRef,
     last_src : Word, last_dst : Word, initialized : BOOLEAN]

\* A rule as loadMappings builds it: nothing remembered, not initialized.
Fresh(entry) ==
    [src |-> entry.src, dst |-> entry.dst,
     last_src |-> 0, last_dst |-> 0, initialized |-> FALSE]

Load(table) == [k \in 1 .. Len(table) |-> Fresh(table[k])]

SyncInit ==
    /\ rules = Load(InitTable)
    /\ call = [t \in Thread |-> "idle"]
    /\ at = 1
    /\ step = "src"
    /\ curr_src = 0
    /\ curr_dst = 0

EngineInit == mem = ZeroMemory /\ SyncInit

\* mappings_mutex_ is free: no thread is inside a pass.
MappingsUnlocked == \A t \in Thread : call[t] # "inside"

\* Thread t calls syncMappings and waits for mappings_mutex_.
SyncCall(t) ==
    /\ call[t] = "idle"
    /\ call' = [call EXCEPT ![t] = "waiting"]
    /\ UNCHANGED <<mem, rules, passVars>>

\* Mutant: the pass starts at the second rule.
LockMappingsSkipsFirst(t) ==
    /\ call[t] = "waiting"
    /\ MappingsUnlocked
    /\ call' = [call EXCEPT ![t] = "inside"]
    /\ at' = 2
    /\ step' = "src"
    /\ UNCHANGED <<mem, rules, curr_src, curr_dst>>

\* Thread t obtains mappings_mutex_ and starts its pass at the first rule.
LockMappings(t) ==
    /\ call[t] = "waiting"
    /\ MappingsUnlocked
    /\ call' = [call EXCEPT ![t] = "inside"]
    /\ at' = 1
    /\ step' = "src"
    /\ UNCHANGED <<mem, rules, curr_src, curr_dst>>

ReadSrc(t) ==
    /\ call[t] = "inside"
    /\ at <= Len(rules)
    /\ step = "src"
    /\ curr_src' = ReadValue(mem, rules[at].src)
    /\ step' = "dst"
    /\ UNCHANGED <<mem, rules, call, at, curr_dst>>

ReadDst(t) ==
    /\ call[t] = "inside"
    /\ step = "dst"
    /\ curr_dst' = ReadValue(mem, rules[at].dst)
    /\ step' = "apply"
    /\ UNCHANGED <<mem, rules, call, at, curr_src>>

-----------------------------------------------------------------------------
\* The four outcomes of one rule, decided on the values it has read.
\* Only this thread sees last_src and last_dst, so a write of a cell and the
\* update of the rule that follows it are one step.
FirstPass(r)  == ~r.initialized
SrcChanged(r) == r.initialized /\ curr_src # r.last_src
DstChanged(r) == r.initialized /\ curr_src = r.last_src /\ curr_dst # r.last_dst

\* Mutant: any difference counts, whoever made it.
OutOfSyncAnyDifference(r) == r.initialized /\ curr_src # curr_dst

\* "Out of sync but neither changed exclusively", the third branch.
OutOfSync(r) ==
    /\ r.initialized
    /\ curr_src = r.last_src
    /\ curr_dst = r.last_dst
    /\ curr_src # curr_dst

\* Mutant: the value the engine wrote to the other end is not remembered.
RememberSrcOnly(r, v) == [r EXCEPT !.last_src = v, !.initialized = TRUE]

\* The rule with both last values set to v and the initialized flag up.
Remember(r, v) == [r EXCEPT !.last_src = v, !.last_dst = v, !.initialized = TRUE]

PropagateToDst(r) ==
    /\ \/ FirstPass(r) /\ curr_src # curr_dst
       \/ SrcChanged(r)
       \/ OutOfSync(r)
    /\ mem' = WriteValue(mem, r.dst, curr_src)
    /\ rules' = [rules EXCEPT ![at] = Remember(r, curr_src)]

\* Mutants: the write is missing; the wrong local is written.
PropagateToSrcForgetsWrite(r) ==
    /\ DstChanged(r)
    /\ rules' = [rules EXCEPT ![at] = Remember(r, curr_dst)]
    /\ UNCHANGED mem

PropagateToSrcWritesSrc(r) ==
    /\ DstChanged(r)
    /\ mem' = WriteValue(mem, r.src, curr_src)
    /\ rules' = [rules EXCEPT ![at] = Remember(r, curr_src)]

PropagateToSrc(r) ==
    /\ DstChanged(r)
    /\ mem' = WriteValue(mem, r.src, curr_dst)
    /\ rules' = [rules EXCEPT ![at] = Remember(r, curr_dst)]

NothingToDo(r) ==
    /\ curr_src = curr_dst
    /\ FirstPass(r) \/ (curr_src = r.last_src /\ curr_dst = r.last_dst)
    /\ rules' = [rules EXCEPT ![at] = Remember(r, curr_src)]
    /\ UNCHANGED mem

SyncRule(t) ==
    /\ call[t] = "inside"
    /\ step = "apply"
    /\ \/ PropagateToDst(rules[at])
       \/ PropagateToSrc(rules[at])
       \/ NothingToDo(rules[at])
    /\ at' = at + 1
    /\ step' = "src"
    /\ curr_src' = 0    \* the locals go out of scope
    /\ curr_dst' = 0
    /\ UNCHANGED call

\* Mutant: a web thread's pass starts over instead of returning.
SyncReturnKeepsLock(t) ==
    /\ call[t] = "inside"
    /\ step = "src"
    /\ at > Len(rules)
    /\ call' = IF t = Web THEN call ELSE [call EXCEPT ![t] = "idle"]
    /\ at' = 1
    /\ UNCHANGED <<mem, rules, step, curr_src, curr_dst>>

\* The pass is over: mappings_mutex_ is released and the call returns.
SyncReturn(t) ==
    /\ call[t] = "inside"
    /\ step = "src"
    /\ at > Len(rules)
    /\ call' = [call EXCEPT ![t] = "idle"]
    /\ at' = 1
    /\ UNCHANGED <<mem, rules, step, curr_src, curr_dst>>

SyncStep(t) == LockMappings(t) \/ ReadSrc(t) \/ ReadDst(t) \/ SyncRule(t) \/ SyncReturn(t)

-----------------------------------------------------------------------------
\* A server, the TUI or the scan thread writes one cell.
ClientWrite(c, v) ==
    /\ mem' = WriteValue(mem, c, v)
    /\ UNCHANGED <<rules, call, passVars>>

\* POST /api/memory/write: writeValue, then syncMappings on the web thread.
WebWrite(c, v) ==
    /\ call[Web] = "idle"
    /\ mem' = WriteValue(mem, c, v)
    /\ call' = [call EXCEPT ![Web] = "waiting"]
    /\ UNCHANGED <<rules, passVars>>

\* Mutant: the rules are swapped without mappings_mutex_.
LoadMappingsUnlocked(table) ==
    /\ call[Web] = "idle"
    /\ rules' = Load(table)
    /\ UNCHANGED <<mem, call, passVars>>

\* loadMappings on the web thread: mappings_mutex_ is held from opening the
\* file to the swap, so the replacement is atomic to every pass.  A file that
\* does not parse leaves the old rules (and returns false): no step.
LoadMappings(table) ==
    /\ call[Web] = "idle"
    /\ MappingsUnlocked
    /\ rules' = Load(table)
    /\ UNCHANGED <<mem, call, passVars>>

-----------------------------------------------------------------------------
\* Rule k has run once, both ends hold what it remembers, and what a running
\* pass has read of them is that value too.
SettledRule(k) ==
    /\ rules[k].initialized
    /\ ReadValue(mem, rules[k].src) = rules[k].last_src
    /\ ReadValue(mem, rules[k].dst) = rules[k].last_dst
    /\ rules[k].last_src = rules[k].last_dst
    /\ at = k /\ step # "src" => curr_src = rules[k].last_src
    /\ at = k /\ step = "apply" => curr_dst = rules[k].last_dst

Settled == \A k \in 1 .. Len(rules) : SettledRule(k)

\* Both ends of every rule hold the same value.
Converged ==
    \A k \in 1 .. Len(rules) :
        ReadValue(mem, rules[k].src) = ReadValue(mem, rules[k].dst)

\* The ends of a rule exist and are both bits or both words, as the mapping
\* guide asks: a write of one end's value to the other stores that value.
Matched(entry) ==
    /\ entry.src \in Cell
    /\ entry.dst \in Cell
    /\ entry.src \in BitCell <=> entry.dst \in BitCell

MatchedTable(table) == \A k \in 1 .. Len(table) : Matched(table[k])

\* A table of stars, the shape the mapping guide asks for: every rule joins
\* two cells of one kind, one of which (its spoke) no other rule names and
\* nobody but clients and this rule writes.
SpokeOf(table, k, c) ==
    /\ c \in {table[k].src, table[k].dst}
    /\ \A j \in 1 .. Len(table) : c \in {table[j].src, table[j].dst} => j = k

StarTable(table, hubs) ==
    /\ MatchedTable(table)
    /\ \A k \in 1 .. Len(table) :
         /\ table[k].src # table[k].dst
         /\ \E c \in Cell \ hubs : SpokeOf(table, k, c)

-----------------------------------------------------------------------------
EngineNext ==
    \/ SyncCall(Scheduler)
    \/ \E t \in Thread : SyncStep(t)
    \/ \E c \in Cell, v \in Word : ClientWrite(c, v) \/ WebWrite(c, v)
    \/ \E table \in Tables : LoadMappings(table)

\* The scan loop calls syncMappings for as long as the runtime is up, and a
\* pass that has started is never blocked: every call completes.
EngineFairness ==
    /\ WF_engineVars(SyncCall(Scheduler))
    /\ \A t \in Thread : WF_engineVars(SyncStep(t))

EngineSpec == EngineInit /\ [][EngineNext]_engineVars /\ EngineFairness
=============================================================================
