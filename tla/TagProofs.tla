----------------------------- MODULE TagProofs -----------------------------
(***************************************************************************)
(* For any number of handler threads, names and places: saves of tags.json *)
(* that overlap write the same text, the file follows the tags, a tag that *)
(* was found is there when its cell is written, and PlcTagManager          *)
(* implements TagDirectory.  The reason is the shared lock: no change of   *)
(* tags_ can begin while a handler holds it, and saveConfig holds it from  *)
(* the list it builds to the text it writes, writeTagValue from the search *)
(* to the write.  For the mappings, which no lock protects, the engine     *)
(* follows the file because every request that writes it reads it later.   *)
(***************************************************************************)
EXTENDS WebFiles, TLAPS

\* Every step of the server on tags, whichever request or kill it is.
LEMMA TagSteps ==
    ASSUME [TagNext]_tagVars
    PROVE  \/ Killed
           \/ \E h \in Handler, n \in Name, p \in Place : AddTag(h, n, p)
           \/ \E h \in Handler, n \in Name : RemoveTag(h, n) \/ FindTag(h, n)
           \/ \E h \in Handler : \/ OpenTags(h) \/ OpenTagsFails(h) \/ BuildText(h)
                                 \/ WriteTags(h) \/ WriteTagsFails(h)
           \/ \E h \in Handler, v \in Value, bad \in BOOLEAN : PokeTag(h, v, bad)
           \/ UNCHANGED tagVars
BY DEF TagNext, TagStep, TagRequest, TagSave

\* What a restart reads of a file.
LEMMA LoadedType ==
    ASSUME NEW f \in [Name -> Place \cup {NoTag}] \cup {Unreadable}
    PROVE  Loaded(f) \in [Name -> Place \cup {NoTag}]
BY DEF Loaded, NoTags

\* Types, and who holds the lock, in every reachable state.
THEOREM TagTyping == TagSpec => []TagTypeOK
<1> USE TagAssumption DEF TagAssumption, TagTypeOK, Goes
<1>1. TagInit => TagTypeOK
    <2> SUFFICES ASSUME TagInit PROVE TagTypeOK
        OBVIOUS
    <2>1. tagFile \in [Name -> Place \cup {NoTag}] \cup {Unreadable}
        BY DEF TagInit
    <2>2. tags \in [Name -> Place \cup {NoTag}]
        BY <2>1, LoadedType DEF TagInit
    <2> QED
        BY <2>1, <2>2 DEF TagInit, NoHolder, NoText, NoTags, NoTarget, ZeroMem
<1>2. TagTypeOK /\ [TagNext]_tagVars => TagTypeOK'
    <2> SUFFICES ASSUME TagTypeOK, [TagNext]_tagVars PROVE TagTypeOK'
        OBVIOUS
    <2>1. CASE Killed
        <3>1. Loaded(tagFile) \in [Name -> Place \cup {NoTag}]
            BY LoadedType
        <3> QED
            BY <2>1, <3>1 DEF Killed, NoHolder, NoText, NoTags, NoTarget, ZeroMem
    <2>2. ASSUME NEW h \in Handler, NEW n \in Name, NEW p \in Place, AddTag(h, n, p)
          PROVE  TagTypeOK'
        BY <2>2 DEF AddTag
    <2>3. ASSUME NEW h \in Handler, NEW n \in Name, RemoveTag(h, n) PROVE TagTypeOK'
        BY <2>3 DEF RemoveTag
    <2>4. ASSUME NEW h \in Handler, NEW n \in Name, FindTag(h, n) PROVE TagTypeOK'
        BY <2>4 DEF FindTag
    <2>5. ASSUME NEW h \in Handler, OpenTags(h) \/ OpenTagsFails(h) PROVE TagTypeOK'
        <3>1. CASE OpenTags(h)
            BY <3>1 DEF OpenTags
        <3>2. CASE OpenTagsFails(h)
            BY <3>2 DEF OpenTagsFails
        <3> QED
            BY <2>5, <3>1, <3>2
    <2>6. ASSUME NEW h \in Handler, BuildText(h) PROVE TagTypeOK'
        BY <2>6 DEF BuildText
    <2>7. ASSUME NEW h \in Handler, WriteTags(h) \/ WriteTagsFails(h) PROVE TagTypeOK'
        <3>1. NoTags \in [Name -> Place \cup {NoTag}]
            BY DEF NoTags
        <3>2. CASE WriteTags(h)
            <4>1. tagFile' \in [Name -> Place \cup {NoTag}]
                BY <3>2 DEF WriteTags
            <4>2. text' \in [Handler -> [Name -> Place \cup {NoTag}]]
                BY <3>1, <3>2 DEF WriteTags
            <4>3. shared' = {g \in Handler : at'[g] \in {"build", "write", "poke"}}
                BY <3>2 DEF WriteTags
            <4> QED
                BY <3>2, <4>1, <4>2, <4>3 DEF WriteTags
        <3>3. CASE WriteTagsFails(h)
            <4>1. text' \in [Handler -> [Name -> Place \cup {NoTag}]]
                BY <3>1, <3>3 DEF WriteTagsFails
            <4>2. shared' = {g \in Handler : at'[g] \in {"build", "write", "poke"}}
                BY <3>3 DEF WriteTagsFails
            <4> QED
                BY <3>3, <4>1, <4>2 DEF WriteTagsFails
        <3> QED
            BY <2>7, <3>2, <3>3
    <2>8. ASSUME NEW h \in Handler, NEW v \in Value, NEW bad \in BOOLEAN, PokeTag(h, v, bad)
          PROVE  TagTypeOK'
        BY <2>8 DEF PokeTag
    <2>9. CASE UNCHANGED tagVars
        BY <2>9 DEF tagVars
    <2> QED
        BY <2>1, <2>2, <2>3, <2>4, <2>5, <2>6, <2>7, <2>8, <2>9, TagSteps
<1> QED
    BY <1>1, <1>2, PTL DEF TagSpec

-----------------------------------------------------------------------------
\* For any number of handlers, overlapping saves write the same text
\* (PlcTagManager.cpp:144-162).
THEOREM TagText == TagSpec => []TextIsCurrent
<1> USE DEF TextIsCurrent, Goes
<1>1. TagInit => TextIsCurrent
    BY DEF TagInit, NoHolder
<1>2. TagTypeOK /\ TextIsCurrent /\ [TagNext]_tagVars => TextIsCurrent'
    <2> SUFFICES ASSUME TagTypeOK, TextIsCurrent, [TagNext]_tagVars PROVE TextIsCurrent'
        OBVIOUS
    <2>1. CASE Killed
        BY <2>1 DEF Killed, NoHolder
    <2>2. ASSUME NEW h \in Handler, NEW n \in Name,
                 RemoveTag(h, n) \/ \E p \in Place : AddTag(h, n, p)
          PROVE  TextIsCurrent'
        <3>1. /\ \A g \in Handler : at[g] # "write"
              /\ at' = [at EXCEPT ![h] = "save"]
            BY <2>2 DEF AddTag, RemoveTag, TagTypeOK
        <3> QED
            BY <3>1 DEF TagTypeOK
    <2>3. ASSUME NEW h \in Handler, NEW n \in Name, FindTag(h, n) PROVE TextIsCurrent'
        BY <2>3 DEF FindTag, TagTypeOK
    <2>4. ASSUME NEW h \in Handler, OpenTags(h) \/ OpenTagsFails(h) PROVE TextIsCurrent'
        BY <2>4 DEF OpenTags, OpenTagsFails, TagTypeOK
    <2>5. ASSUME NEW h \in Handler, BuildText(h) PROVE TextIsCurrent'
        BY <2>5 DEF BuildText, TagTypeOK
    <2>6. ASSUME NEW h \in Handler, WriteTags(h) \/ WriteTagsFails(h) PROVE TextIsCurrent'
        BY <2>6 DEF WriteTags, WriteTagsFails, TagTypeOK
    <2>7. ASSUME NEW h \in Handler, NEW v \in Value, NEW bad \in BOOLEAN, PokeTag(h, v, bad)
          PROVE  TextIsCurrent'
        BY <2>7 DEF PokeTag, TagTypeOK
    <2>8. CASE UNCHANGED tagVars
        BY <2>8 DEF tagVars
    <2> QED
        BY <2>1, <2>2, <2>3, <2>4, <2>5, <2>6, <2>7, <2>8, TagSteps
<1> QED
    BY <1>1, <1>2, TagTyping, PTL DEF TagSpec

\* For any number of handlers, the file lists the tags there are or will be
\* written again (docs/implementation_plan.md:48).
THEOREM TagFollows == TagSpec => []FileFollowsTags
<1> USE DEF FileFollowsTags, Saving, Goes
<1>1. TagInit => FileFollowsTags
    BY DEF TagInit, Loaded
<1>2. TagTypeOK /\ TextIsCurrent /\ FileFollowsTags /\ [TagNext]_tagVars => FileFollowsTags'
    <2> SUFFICES ASSUME TagTypeOK, TextIsCurrent, FileFollowsTags, [TagNext]_tagVars
                 PROVE  FileFollowsTags'
        OBVIOUS
    <2>1. CASE Killed
        BY <2>1 DEF Killed, Loaded
    <2>2. ASSUME NEW h \in Handler, NEW n \in Name,
                 RemoveTag(h, n) \/ \E p \in Place : AddTag(h, n, p)
          PROVE  FileFollowsTags'
        BY <2>2 DEF AddTag, RemoveTag, TagTypeOK
    <2>3. ASSUME NEW h \in Handler, OpenTags(h) PROVE FileFollowsTags'
        BY <2>3 DEF OpenTags, TagTypeOK
    <2>4. ASSUME NEW h \in Handler, WriteTags(h) PROVE FileFollowsTags'
        BY <2>4 DEF WriteTags, TextIsCurrent
    <2>5. ASSUME NEW h \in Handler, OpenTagsFails(h) \/ WriteTagsFails(h) PROVE FileFollowsTags'
        BY <2>5 DEF OpenTagsFails, WriteTagsFails
    <2>6. ASSUME NEW h \in Handler, BuildText(h) PROVE FileFollowsTags'
        BY <2>6 DEF BuildText, TagTypeOK
    <2>7. ASSUME NEW h \in Handler,
                 \/ \E n \in Name : FindTag(h, n)
                 \/ \E v \in Value, bad \in BOOLEAN : PokeTag(h, v, bad)
          PROVE  FileFollowsTags'
        BY <2>7 DEF FindTag, PokeTag, TagTypeOK
    <2>8. CASE UNCHANGED tagVars
        BY <2>8 DEF tagVars
    <2> QED
        BY <2>1, <2>2, <2>3, <2>4, <2>5, <2>6, <2>7, <2>8, TagSteps
<1> QED
    BY <1>1, <1>2, TagTyping, TagText, PTL DEF TagSpec

-----------------------------------------------------------------------------
\* The tag a handler is about to write through has not been removed.
FoundStays == \A h \in Handler : at[h] = "poke" => \E n \in Name : tags[n] = target[h]

\* Changes of tags_ need the lock that such a handler shares.
LEMMA TagFound == TagSpec => []FoundStays
<1> USE DEF FoundStays, Goes
<1>1. TagInit => FoundStays
    BY DEF TagInit, NoHolder
<1>2. TagTypeOK /\ FoundStays /\ [TagNext]_tagVars => FoundStays'
    <2> SUFFICES ASSUME TagTypeOK, FoundStays, [TagNext]_tagVars PROVE FoundStays'
        OBVIOUS
    <2>1. CASE Killed
        BY <2>1 DEF Killed, NoHolder
    <2>2. ASSUME NEW h \in Handler, NEW n \in Name,
                 RemoveTag(h, n) \/ \E p \in Place : AddTag(h, n, p)
          PROVE  FoundStays'
        <3>1. /\ \A g \in Handler : at[g] # "poke"
              /\ at' = [at EXCEPT ![h] = "save"]
            BY <2>2 DEF AddTag, RemoveTag, TagTypeOK
        <3> QED
            BY <3>1 DEF TagTypeOK
    <2>3. ASSUME NEW h \in Handler, NEW n \in Name, FindTag(h, n) PROVE FoundStays'
        BY <2>3 DEF FindTag, TagTypeOK
    <2>4. ASSUME NEW h \in Handler, OpenTags(h) \/ OpenTagsFails(h) \/ BuildText(h)
          PROVE  FoundStays'
        BY <2>4 DEF OpenTags, OpenTagsFails, BuildText, TagTypeOK
    <2>5. ASSUME NEW h \in Handler, WriteTags(h) \/ WriteTagsFails(h) PROVE FoundStays'
        BY <2>5 DEF WriteTags, WriteTagsFails, TagTypeOK
    <2>6. ASSUME NEW h \in Handler, NEW v \in Value, NEW bad \in BOOLEAN, PokeTag(h, v, bad)
          PROVE  FoundStays'
        BY <2>6 DEF PokeTag, TagTypeOK
    <2>7. CASE UNCHANGED tagVars
        BY <2>7 DEF tagVars
    <2> QED
        BY <2>1, <2>2, <2>3, <2>4, <2>5, <2>6, <2>7, TagSteps
<1> QED
    BY <1>1, <1>2, TagTyping, PTL DEF TagSpec

\* For any number of handlers, writeTagValue writes a cell only while a tag
\* names it (PlcTagManager.cpp:79-102).
THEOREM TagLands == TagSpec => WritesLandOnTags
<1>1. TagTypeOK /\ FoundStays /\ [TagNext]_tagVars =>
        [\A p \in Mapped : mem'[p] \notin {mem[p], 0} => \E n \in Name : tags[n] = p]_tagVars
    <2> SUFFICES ASSUME TagTypeOK, FoundStays, [TagNext]_tagVars, NEW p \in Mapped,
                        mem'[p] \notin {mem[p], 0}
                 PROVE  \E n \in Name : tags[n] = p
        OBVIOUS
    <2>1. CASE Killed
        BY <2>1 DEF Killed, ZeroMem
    <2>2. ASSUME NEW h \in Handler, NEW v \in Value, NEW bad \in BOOLEAN, PokeTag(h, v, bad)
          PROVE  \E n \in Name : tags[n] = p
        <3>1. target[h] = p
            BY <2>2 DEF PokeTag, TagTypeOK
        <3> QED
            BY <2>2, <3>1 DEF PokeTag, FoundStays
    <2>3. CASE UNCHANGED mem
        BY <2>3
    <2> QED
        BY <2>1, <2>2, <2>3, TagSteps DEF AddTag, RemoveTag, FindTag, OpenTags, OpenTagsFails,
           BuildText, WriteTags, WriteTagsFails, tagVars
<1> QED
    BY <1>1, TagTyping, TagFound, PTL DEF TagSpec, WritesLandOnTags

-----------------------------------------------------------------------------
\* PlcTagManager implements TagDirectory, for any number of handlers and
\* however requests, failing saves and kills interleave.
THEOREM TagRefines == TagSpec => IsDirectory
<1> USE DEF Directory!Tags, Directory!NoTags, Directory!Loaded, NoTags, Loaded
<1>1. TagInit => Directory!Init
    BY DEF TagInit, Directory!Init
<1>2. TagTypeOK /\ TextIsCurrent /\ [TagNext]_tagVars => [Directory!Next]_<<tags, tagFile>>
    <2> SUFFICES ASSUME TagTypeOK, TextIsCurrent, [TagNext]_tagVars
                 PROVE  Directory!Next \/ UNCHANGED <<tags, tagFile>>
        OBVIOUS
    <2>1. CASE Killed
        BY <2>1 DEF Killed, Directory!Next, Directory!Restart
    <2>2. ASSUME NEW h \in Handler, NEW n \in Name, NEW p \in Place, AddTag(h, n, p)
          PROVE  Directory!Next
        BY <2>2 DEF AddTag, Directory!Next, Directory!Change
    <2>3. ASSUME NEW h \in Handler, NEW n \in Name, RemoveTag(h, n) PROVE Directory!Next
        BY <2>3 DEF RemoveTag, Directory!Next, Directory!Change
    <2>4. ASSUME NEW h \in Handler, OpenTags(h) PROVE Directory!Next
        BY <2>4 DEF OpenTags, Directory!Next, Directory!Spoil
    <2>5. ASSUME NEW h \in Handler, WriteTags(h) PROVE Directory!Next
        BY <2>5 DEF WriteTags, TextIsCurrent, Directory!Next, Directory!Save
    <2>6. ASSUME NEW h \in Handler,
                 \/ OpenTagsFails(h) \/ WriteTagsFails(h) \/ BuildText(h)
                 \/ \E n \in Name : FindTag(h, n)
                 \/ \E v \in Value, bad \in BOOLEAN : PokeTag(h, v, bad)
          PROVE  UNCHANGED <<tags, tagFile>>
        BY <2>6 DEF OpenTagsFails, WriteTagsFails, BuildText, FindTag, PokeTag
    <2>7. CASE UNCHANGED tagVars
        BY <2>7 DEF tagVars
    <2> QED
        BY <2>1, <2>2, <2>3, <2>4, <2>5, <2>6, <2>7, TagSteps
<1> QED
    BY <1>1, <1>2, TagTyping, TagText, PTL DEF TagSpec, IsDirectory, Directory!Spec

\* The composed web server's steps on tags are TagStore's, so all of the above
\* holds of the server with its mappings requests (WebServer.cpp:47-158).
THEOREM WebIsTags == WebSpec => TagSpec
<1>1. WebInit => TagInit
    BY DEF WebInit
<1>2. [WebNext]_webVars => [TagNext]_tagVars
    BY DEF WebNext, WebKilled, WebHandler, TagNext, webVars
<1> QED
    BY <1>1, <1>2, PTL DEF WebSpec, TagSpec

-----------------------------------------------------------------------------
\* Every step of the server on mappings.json.
LEMMA MapSteps ==
    ASSUME [WebNext]_webVars
    PROVE  \/ Maps!MapKilled
           \/ \E h \in Handler, t \in Table : Maps!OpenMappings(h, t)
           \/ \E h \in Handler : \/ Maps!WriteMappings(h) \/ Maps!WriteMappingsFails(h)
                                 \/ Maps!LoadMappings(h)
           \/ UNCHANGED fileVars
BY DEF WebNext, WebKilled, WebHandler, Maps!MapStep, webVars

\* An unreadable mappings.json is about to be written, or has been spoilt by a
\* full disk or a kill.
SpoiltIsKnown == Maps!MapTypeOK /\ (mapFile.head = Broken => mapFault \/ Maps!Opened # {})

LEMMA SpoiltInv == WebSpec => []SpoiltIsKnown
<1> USE FileAssumption DEF SpoiltIsKnown, Maps!MapTypeOK, Maps!Opened, Maps!Moves, FileAssumption
<1>1. WebInit => SpoiltIsKnown
    <2> SUFFICES ASSUME WebInit PROVE SpoiltIsKnown
        OBVIOUS
    <2>1. \/ mapFile = Maps!Empty
          \/ \E t \in Table : mapFile = Maps!TextOf(t)
        BY DEF WebInit, Maps!MapInit
    <2>2. /\ mapFile.head \in Table \cup {Broken} /\ mapFile.size \in Nat
          /\ mapFile.head = Broken <=> mapFile.size = 0
        <3>1. CASE mapFile = Maps!Empty
            BY <3>1 DEF Maps!Empty
        <3>2. ASSUME NEW t \in Table, mapFile = Maps!TextOf(t)
              PROVE  /\ mapFile.head = t /\ mapFile.size = Length[t]
                     /\ Length[t] \in Nat \ {0}
            BY <3>2 DEF Maps!TextOf
        <3> QED
            BY <2>1, <3>1, <3>2
    <2>3. /\ table \in (Table \ Mistyped) \cup {NoRules}
          /\ mapFault = (mapFile.head = Broken)
          /\ step = [h \in Handler |-> "idle"] /\ posted = [h \in Handler |-> Broken]
        BY <2>2 DEF WebInit, Maps!MapInit, Maps!RulesOf, Maps!Idle, Maps!Nothing
    <2> QED
        BY <2>2, <2>3
<1>2. SpoiltIsKnown /\ [WebNext]_webVars => SpoiltIsKnown'
    <2> SUFFICES ASSUME SpoiltIsKnown, [WebNext]_webVars PROVE SpoiltIsKnown'
        OBVIOUS
    <2>1. CASE Maps!MapKilled
        BY <2>1 DEF Maps!MapKilled, Maps!RulesOf, Maps!Idle, Maps!Nothing
    <2>2. ASSUME NEW h \in Handler, NEW t \in Table, Maps!OpenMappings(h, t)
          PROVE  SpoiltIsKnown'
        BY <2>2 DEF Maps!OpenMappings, Maps!Empty
    <2>3. ASSUME NEW h \in Handler, Maps!WriteMappings(h) PROVE SpoiltIsKnown'
        <3>1. posted[h] \in Table /\ Length[posted[h]] \in Nat \ {0}
            BY <2>3 DEF Maps!WriteMappings
        <3>2. /\ mapFile'.head = posted[h]
              /\ mapFile'.size \in {mapFile.size, Length[posted[h]]}
              /\ mapFile'.size >= Length[posted[h]]
            BY <2>3, <3>1 DEF Maps!WriteMappings
        <3>3. mapFile'.size \in Nat \ {0}
            BY <3>1, <3>2
        <3> QED
            BY <2>3, <3>1, <3>2, <3>3 DEF Maps!WriteMappings
    <2>4. ASSUME NEW h \in Handler, Maps!WriteMappingsFails(h) PROVE SpoiltIsKnown'
        BY <2>4 DEF Maps!WriteMappingsFails
    <2>5. ASSUME NEW h \in Handler, Maps!LoadMappings(h) PROVE SpoiltIsKnown'
        BY <2>5 DEF Maps!LoadMappings, Maps!RulesOf
    <2>6. CASE UNCHANGED fileVars
        BY <2>6 DEF fileVars
    <2> QED
        BY <2>1, <2>2, <2>3, <2>4, <2>5, <2>6, MapSteps
<1> QED
    BY <1>1, <1>2, PTL DEF WebSpec

\* Types of the whole server, for any number of handlers, names and tables.
THEOREM WebTyping == WebSpec => []WebTypeOK
BY WebIsTags, TagTyping, SpoiltInv, PTL DEF WebTypeOK, SpoiltIsKnown

\* For any number of handlers and tables, the engine runs what mappings.json
\* holds or a request that will read it is under way, unless the table is one
\* that was saved although loadMappings throws on it (WebServer.cpp:138-152).
THEOREM WebEngine == WebSpec => []EngineFollowsFile
<1> USE DEF EngineFollowsFile, Maps!EngineFollowsFile, Maps!Opened, Maps!Unread, Maps!Moves
<1>1. WebInit => EngineFollowsFile
    BY DEF WebInit, Maps!MapInit, Maps!RulesOf
<1>2. SpoiltIsKnown /\ EngineFollowsFile /\ [WebNext]_webVars => EngineFollowsFile'
    <2> SUFFICES ASSUME SpoiltIsKnown, EngineFollowsFile, [WebNext]_webVars
                 PROVE  EngineFollowsFile'
        OBVIOUS
    <2> USE DEF SpoiltIsKnown, Maps!MapTypeOK
    <2>1. CASE Maps!MapKilled
        BY <2>1 DEF Maps!MapKilled, Maps!RulesOf
    <2>2. ASSUME NEW h \in Handler, NEW t \in Table, Maps!OpenMappings(h, t)
          PROVE  EngineFollowsFile'
        BY <2>2 DEF Maps!OpenMappings
    <2>3. ASSUME NEW h \in Handler, Maps!WriteMappings(h) PROVE EngineFollowsFile'
        BY <2>3 DEF Maps!WriteMappings
    <2>4. ASSUME NEW h \in Handler, Maps!WriteMappingsFails(h) PROVE EngineFollowsFile'
        BY <2>4 DEF Maps!WriteMappingsFails
    <2>5. ASSUME NEW h \in Handler, Maps!LoadMappings(h) PROVE EngineFollowsFile'
        BY <2>5 DEF Maps!LoadMappings, Maps!RulesOf
    <2>6. CASE UNCHANGED fileVars
        BY <2>6 DEF fileVars
    <2> QED
        BY <2>1, <2>2, <2>3, <2>4, <2>5, <2>6, MapSteps
<1> QED
    BY <1>1, <1>2, SpoiltInv, PTL DEF WebSpec
=============================================================================
