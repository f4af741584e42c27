---------------------------- MODULE MappingFile ----------------------------
(***************************************************************************)
(* POST /api/mappings on the web server's handler threads: mappings.json   *)
(* is opened (and truncated), written, closed, and read back into the      *)
(* engine under mappings_mutex_.  No lock covers the file, so requests mix *)
(* in it; PlcMemory's constructor reads it again when the process starts.  *)
(* What the engine does with the rules is module MappingEngine's.          *)
(***************************************************************************)
EXTENDS Naturals

CONSTANTS
    Handler,     \* threads of the web server's pool
    Table,       \* JSON arrays that clients post
    Mistyped,    \* those with an entry that is no object of strings
    NoRules,     \* an engine without rules: not in Table
    Broken,      \* what no parser gets a value from: not in Table
    Length       \* Length[t]: how long the text of t is

VARIABLES
    mapFile,     \* mappings.json: the value at its head, and how long it is
    table,       \* the rules in mappings_
    step,        \* step[h]: "idle", "write" or "load"
    posted,      \* posted[h]: the array h writes
    mapFault     \* history: the last text was not written, or not read since

mapVars == <<mapFile, table, step, posted, mapFault>>

Empty == [head |-> Broken, size |-> 0]
TextOf(t) == [head |-> t, size |-> Length[t]]

\* loadMappings stops at the end of the first JSON value: what a longer text
\* has left behind it is not read.  Where there is no value, or item.value throws
\* on an entry, the rules in force stay, all of them.
RulesOf(f, old) == IF f.head = Broken \/ f.head \in Mistyped THEN old ELSE f.head

Idle == [h \in Handler |-> "idle"]
Nothing == [h \in Handler |-> Broken]

MapInit ==
    /\ mapFile \in {Empty} \cup {TextOf(t) : t \in Table}
    /\ table = RulesOf(mapFile, NoRules)
    /\ step = Idle /\ posted = Nothing
    /\ mapFault = (mapFile.head = Broken)

Moves(h, s) == step' = [step EXCEPT ![h] = s]

\* A body that is no array, and a file that cannot be opened, change nothing.
\* What the array holds is not looked at before it is saved.
OpenMappings(h, t) ==
    /\ step[h] = "idle"
    /\ posted' = [posted EXCEPT ![h] = t]
    /\ mapFile' = Empty
    /\ Moves(h, "write")
    /\ UNCHANGED <<table, mapFault>>

\* Mutant: the stream is not closed before loadMappings opens the file; its
\* buffer reaches the disk when the handler returns.
WriteAfterLoad(h) ==
    /\ step[h] = "write"
    /\ table' = RulesOf(mapFile, table)
    /\ mapFile' = TextOf(posted[h])
    /\ posted' = [posted EXCEPT ![h] = Broken]
    /\ mapFault' = FALSE
    /\ Moves(h, "idle")

\* The text goes to the start of the file, over what another handler may have
\* written since this one has truncated it.
WriteMappings(h) ==
    /\ step[h] = "write"
    /\ mapFile' = [head |-> posted[h],
                   size |-> IF mapFile.size > Length[posted[h]]
                            THEN mapFile.size ELSE Length[posted[h]]]
    /\ posted' = [posted EXCEPT ![h] = Broken]
    /\ mapFault' = FALSE
    /\ Moves(h, "load")
    /\ UNCHANGED table

\* A full disk: the stream goes bad, which nobody asks.
WriteMappingsFails(h) ==
    /\ step[h] = "write"
    /\ posted' = [posted EXCEPT ![h] = Broken]
    /\ mapFault' = TRUE
    /\ Moves(h, "load")
    /\ UNCHANGED <<mapFile, table>>

\* loadMappings, true or false: "Failed to parse some mappings, but saved file."
LoadMappings(h) ==
    /\ step[h] = "load"
    /\ table' = RulesOf(mapFile, table)
    /\ Moves(h, "idle")
    /\ UNCHANGED <<mapFile, posted, mapFault>>

\* The process ends without a further step and starts again.
MapKilled ==
    /\ table' = RulesOf(mapFile, NoRules)
    /\ step' = Idle /\ posted' = Nothing
    /\ mapFault' = (mapFile.head = Broken)
    /\ UNCHANGED mapFile

MapStep(h) ==
    \/ \E t \in Table : OpenMappings(h, t)
    \/ WriteMappings(h) \/ WriteMappingsFails(h) \/ LoadMappings(h)

MapNext == MapKilled \/ \E h \in Handler : MapStep(h)

MapSpec == MapInit /\ [][MapNext]_mapVars
-----------------------------------------------------------------------------
Opened == {h \in Handler : step[h] = "write"}
Unread == {h \in Handler : step[h] = "load"}

\* Types.
MapTypeOK ==
    /\ mapFile.head \in Table \cup {Broken} /\ mapFile.size \in Nat
    /\ mapFile.head = Broken <=> mapFile.size = 0
    /\ table \in (Table \ Mistyped) \cup {NoRules}
    /\ step \in [Handler -> {"idle", "write", "load"}]
    /\ posted \in [Handler -> Table \cup {Broken}]
    /\ \A h \in Handler : step[h] = "write" <=> posted[h] # Broken
    /\ mapFault \in BOOLEAN

\* "POST /api/mappings ... hot reload" (README.md:79): the engine runs the
\* table that was written last, or a request that will still read the file is
\* under way, however requests mix in the file, unless that table is one the
\* loader throws on and the server has saved all the same
\* (WebServer.cpp:138-152, PlcMemory.cpp:464, 485).
EngineFollowsFile ==
    \/ mapFault \/ Opened # {} \/ Unread # {}
    \/ mapFile.head \in Mistyped
    \/ mapFile.head = table
=============================================================================
