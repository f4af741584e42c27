--------------------------- MODULE MappingHistory --------------------------
(***************************************************************************)
(* The mapping engine with what an observer remembers of a run: which      *)
(* client write, if any, the engine has had to itself since it was last    *)
(* settled, and how many undisturbed passes have completed.  The history   *)
(* variables never enable or disable a step of the engine; traffic lets    *)
(* the clients fall silent for good, which is when convergence is due.     *)
(***************************************************************************)
EXTENDS MappingEngine

CONSTANT Passes   \* undisturbed passes after which the rules must agree

ASSUME PassesAssumption == Passes \in Nat \ {0}

VARIABLES
    traffic,   \* clients may still write
    lone,      \* the only client write since the engine was settled, if any
    quiet,     \* complete passes since the last disturbance, up to Passes
    clean      \* the running pass began after the last disturbance

historyVars == <<traffic, lone, quiet, clean>>
vars == <<engineVars, historyVars>>

Nothing == [kind |-> "none", cell |-> Ref("", 0), value |-> 0]
Contended == [kind |-> "many", cell |-> Ref("", 0), value |-> 0]

Init ==
    /\ EngineInit
    /\ traffic = TRUE
    /\ lone = Nothing
    /\ quiet = 0
    /\ clean = FALSE

\* A write that finds the engine settled is on its own until the next write.
Record(c, v) ==
    /\ traffic
    /\ lone' = IF Settled THEN [kind |-> "lone", cell |-> c, value |-> Narrow(c, v)]
                          ELSE Contended
    /\ quiet' = 0
    /\ clean' = FALSE
    /\ UNCHANGED traffic

Write(c, v) == ClientWrite(c, v) /\ Record(c, v)

PostWrite(c, v) == WebWrite(c, v) /\ Record(c, v)

\* A reload forgets the last values, and with them which end was written:
\* the first pass over a new rule copies src to dst, so no write is followed
\* across it.
Reload(table) ==
    /\ traffic
    /\ LoadMappings(table)
    /\ lone' = IF lone.kind = "lone" THEN Contended ELSE lone
    /\ quiet' = 0
    /\ clean' = FALSE
    /\ UNCHANGED traffic

Call == SyncCall(Scheduler) /\ UNCHANGED historyVars

Lock(t) ==
    /\ LockMappings(t)
    /\ clean' = TRUE
    /\ UNCHANGED <<traffic, lone, quiet>>

Access(t) ==
    /\ ReadSrc(t) \/ ReadDst(t) \/ SyncRule(t)
    /\ UNCHANGED historyVars

Return(t) ==
    /\ SyncReturn(t)
    /\ quiet' = IF clean /\ quiet < Passes THEN quiet + 1 ELSE quiet
    /\ clean' = FALSE
    /\ UNCHANGED <<traffic, lone>>

TrafficEnds ==
    /\ traffic
    /\ traffic' = FALSE
    /\ UNCHANGED <<engineVars, lone, quiet, clean>>

Next ==
    \/ Call
    \/ \E t \in Thread : Lock(t) \/ Access(t) \/ Return(t)
    \/ \E c \in Cell, v \in Word : Write(c, v) \/ PostWrite(c, v)
    \/ \E table \in Tables : Reload(table)
    \/ TrafficEnds

Fairness ==
    /\ WF_vars(Call)
    /\ \A t \in Thread : WF_vars(Lock(t) \/ Access(t) \/ Return(t))

Spec == Init /\ [][Next]_vars

FairSpec == Spec /\ Fairness
-----------------------------------------------------------------------------
LoneType ==
    [kind : {"none", "many"}, cell : {Nothing.cell}, value : {0}]
        \cup [kind : {"lone"}, cell : Cell, value : Word]

\* Every variable has its type, bit cells hold bits, a pass never runs past
\* its rules, and only the holder of mappings_mutex_ has a pass under way.
TypeOK ==
    /\ mem \in MemoryType
    /\ rules \in Seq(MappingRule)
    /\ call \in [Thread -> {"idle", "waiting", "inside"}]
    /\ at \in 1 .. (Len(rules) + 1)
    /\ step \in {"src", "dst", "apply"}
    /\ step # "src" => at \in 1 .. Len(rules)
    /\ MappingsUnlocked => at = 1 /\ step = "src"
    /\ curr_src \in Word
    /\ curr_dst \in Word
    /\ traffic \in BOOLEAN
    /\ lone \in LoneType
    /\ quiet \in 0 .. Passes
    /\ clean \in BOOLEAN

\* The branch "out of sync but neither changed" (PlcMemory.cpp:517) is never
\* taken, whatever the clients write between the two reads of a rule.
OutOfSyncNeverTaken ==
    step = "apply" => ~OutOfSync(rules[at])

\* A client write that finds the engine settled is never overwritten by the
\* engine, wherever a running pass stands when the write arrives and on
\* whichever end of a rule it lands: the pass propagates it, or leaves it to
\* the next one, but never answers it with the old value of the other end.
LoneWriteSurvives ==
    lone.kind = "lone" => mem[lone.cell] = lone.value

\* A lone write has reached every cell a rule links to it once Passes whole
\* passes have run: "when src changes, the value is propagated to dst
\* automatically; when dst changes, it is propagated back to src"
\* (docs/mapping_engine_guide.md:13-14).
LoneWritePropagates ==
    lone.kind = "lone" /\ quiet = Passes =>
        \A k \in 1 .. Len(rules) :
            lone.cell \in {rules[k].src, rules[k].dst} =>
                /\ ReadValue(mem, rules[k].src) = lone.value
                /\ ReadValue(mem, rules[k].dst) = lone.value

\* After Passes whole passes in which no client wrote, every rule's ends
\* agree, however many clients had been writing before (two passes are a
\* scan cycle: syncMappings runs before and after the logic).
QuietConverged == quiet = Passes => Converged

\* Once the clients fall silent the scan thread's passes bring all linked
\* cells together for good: conflicting writes never keep circulating.
EventuallyConverged == ~traffic ~> []Converged
=============================================================================
