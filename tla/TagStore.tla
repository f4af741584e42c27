------------------------------ MODULE TagStore ------------------------------
(***************************************************************************)
(* PlcTagManager as the web server's handler threads use it: addTag and    *)
(* removeTag change tags_ under mutex_, let go of it and save tags.json    *)
(* under a shared lock; writeTagValue finds the tag and writes its memory  *)
(* under one shared lock.  The process may be killed at any point and      *)
(* started again; the disk may refuse the file or the text.                *)
(***************************************************************************)
EXTENDS Naturals

CONSTANTS
    Handler,     \* threads of the web server's pool
    Name, Place, NoTag, Unreadable,
    Beyond,      \* places past the end of an area: refused by addTag
    Mapped,      \* places of the memory; others are in areas nobody knows
    Value        \* what the cells hold

ASSUME TagAssumption ==
    /\ NoTag \notin Place
    /\ Unreadable \notin [Name -> Place \cup {NoTag}]
    /\ Mapped \subseteq Place \ Beyond /\ 0 \in Value

VARIABLES
    tags,        \* tags_: where each name's tag is
    tagFile,     \* tags.json: the tags it lists, or Unreadable
    mem,         \* the cells tags are about
    shared,      \* handlers that hold mutex_ shared
    at,          \* at[h]: "idle", "save", "build", "write" or "poke"
    text,        \* text[h]: the list saveConfig has built
    target,      \* target[h]: the place of the tag writeTagValue has found
    tagFault     \* history: the last save was not completed

tagVars == <<tags, tagFile, mem, shared, at, text, target, tagFault>>

NoTags == [n \in Name |-> NoTag]
Loaded(f) == IF f = Unreadable THEN NoTags ELSE f

\* The values of an idle process.
NoHolder == [h \in Handler |-> "idle"]
NoText == [h \in Handler |-> NoTags]
NoTarget == [h \in Handler |-> NoTag]
ZeroMem == [p \in Mapped |-> 0]

\* The constructor has run loadConfig on any file an earlier life of the
\* process may have left.
TagInit ==
    /\ tagFile \in [Name -> (Place \ Beyond) \cup {NoTag}] \cup {Unreadable}
    /\ tags = Loaded(tagFile)
    /\ mem = ZeroMem
    /\ shared = {} /\ at = NoHolder /\ text = NoText /\ target = NoTarget
    /\ tagFault = (tagFile = Unreadable)

Goes(h, step) == at' = [at EXCEPT ![h] = step]

-----------------------------------------------------------------------------
\* Mutant: the search for a duplicate has been left out: the name moves.
AddTagReplaces(h, n, p) ==
    /\ at[h] = "idle"
    /\ shared = {}
    /\ p \notin Beyond
    /\ tags' = [tags EXCEPT ![n] = p]
    /\ Goes(h, "save")
    /\ UNCHANGED <<tagFile, mem, shared, text, target, tagFault>>

\* addTag up to saveConfig.  A request for a duplicate name or for an address
\* past its area's end is refused and changes nothing, so it is no step.
AddTag(h, n, p) ==
    /\ at[h] = "idle"
    /\ shared = {}
    /\ tags[n] = NoTag
    /\ p \notin Beyond
    /\ tags' = [tags EXCEPT ![n] = p]
    /\ Goes(h, "save")
    /\ UNCHANGED <<tagFile, mem, shared, text, target, tagFault>>

\* Mutant: a removal is left to the next save.
RemoveTagUnsaved(h, n) ==
    /\ at[h] = "idle"
    /\ shared = {}
    /\ tags[n] # NoTag
    /\ tags' = [tags EXCEPT ![n] = NoTag]
    /\ UNCHANGED <<tagFile, mem, shared, at, text, target, tagFault>>

RemoveTag(h, n) ==
    /\ at[h] = "idle"
    /\ shared = {}
    /\ tags[n] # NoTag
    /\ tags' = [tags EXCEPT ![n] = NoTag]
    /\ Goes(h, "save")
    /\ UNCHANGED <<tagFile, mem, shared, text, target, tagFault>>

\* saveConfig: the shared lock is held from the opening, which truncates the
\* file, to the end; its result is ignored and the request answers success.
OpenTags(h) ==
    /\ at[h] = "save"
    /\ shared' = shared \cup {h}
    /\ tagFile' = Unreadable
    /\ Goes(h, "build")
    /\ UNCHANGED <<tags, mem, text, target, tagFault>>

OpenTagsFails(h) ==
    /\ at[h] = "save"
    /\ tagFault' = TRUE
    /\ Goes(h, "idle")
    /\ UNCHANGED <<tags, tagFile, mem, shared, text, target>>

\* Mutant: the lock only covers the copy of tags_.
BuildTextUnlocks(h) ==
    /\ at[h] = "build"
    /\ text' = [text EXCEPT ![h] = tags]
    /\ shared' = shared \ {h}
    /\ Goes(h, "write")
    /\ UNCHANGED <<tags, tagFile, mem, target, tagFault>>

BuildText(h) ==
    /\ at[h] = "build"
    /\ text' = [text EXCEPT ![h] = tags]
    /\ Goes(h, "write")
    /\ UNCHANGED <<tags, tagFile, mem, shared, target, tagFault>>

\* The buffered text reaches the file, or it does not and nobody looks.
WriteTags(h) ==
    /\ at[h] = "write"
    /\ tagFile' = text[h]
    /\ tagFault' = FALSE
    /\ shared' = shared \ {h}
    /\ Goes(h, "idle")
    /\ text' = [text EXCEPT ![h] = NoTags]
    /\ UNCHANGED <<tags, mem, target>>

WriteTagsFails(h) ==
    /\ at[h] = "write"
    /\ tagFault' = TRUE
    /\ shared' = shared \ {h}
    /\ Goes(h, "idle")
    /\ text' = [text EXCEPT ![h] = NoTags]
    /\ UNCHANGED <<tags, tagFile, mem, target>>

-----------------------------------------------------------------------------
\* writeTagValue: the shared lock is held from the search to the write.
\* Mutant: it is given back once the tag is found.
FindTagUnlocks(h, n) ==
    /\ at[h] = "idle"
    /\ tags[n] # NoTag
    /\ target' = [target EXCEPT ![h] = tags[n]]
    /\ Goes(h, "poke")
    /\ UNCHANGED <<tags, tagFile, mem, shared, text, tagFault>>

FindTag(h, n) ==
    /\ at[h] = "idle"
    /\ tags[n] # NoTag
    /\ shared' = shared \cup {h}
    /\ target' = [target EXCEPT ![h] = tags[n]]
    /\ Goes(h, "poke")
    /\ UNCHANGED <<tags, tagFile, mem, text, tagFault>>

\* The value goes where the tag is; in an area nobody knows it goes nowhere,
\* and a text that is no number (bad) is refused.
PokeTag(h, v, bad) ==
    /\ at[h] = "poke"
    /\ LET p == target[h]
       IN  mem' = IF bad \/ p \notin Mapped THEN mem ELSE [mem EXCEPT ![p] = v]
    /\ target' = [target EXCEPT ![h] = NoTag]
    /\ shared' = shared \ {h}
    /\ Goes(h, "idle")
    /\ UNCHANGED <<tags, tagFile, text, tagFault>>

\* The process ends without a further step and starts again.
Killed ==
    /\ tags' = Loaded(tagFile)
    /\ mem' = ZeroMem
    /\ shared' = {} /\ at' = NoHolder /\ text' = NoText /\ target' = NoTarget
    /\ tagFault' = (tagFile = Unreadable)
    /\ UNCHANGED tagFile

TagSave(h) == OpenTags(h) \/ OpenTagsFails(h) \/ BuildText(h) \/ WriteTags(h) \/ WriteTagsFails(h)

TagRequest(h) ==
    \/ \E n \in Name, p \in Place : AddTag(h, n, p)
    \/ \E n \in Name : RemoveTag(h, n) \/ FindTag(h, n)

TagStep(h) ==
    \/ TagRequest(h)
    \/ TagSave(h)
    \/ \E v \in Value, bad \in BOOLEAN : PokeTag(h, v, bad)

TagNext == Killed \/ \E h \in Handler : TagStep(h)

TagSpec == TagInit /\ [][TagNext]_tagVars
-----------------------------------------------------------------------------
\* Types; a handler holds the lock from opening the file to writing it and
\* from finding a tag to writing its cell.
TagTypeOK ==
    /\ tags \in [Name -> Place \cup {NoTag}]
    /\ tagFile \in [Name -> Place \cup {NoTag}] \cup {Unreadable}
    /\ mem \in [Mapped -> Value]
    /\ at \in [Handler -> {"idle", "save", "build", "write", "poke"}]
    /\ shared = {h \in Handler : at[h] \in {"build", "write", "poke"}}
    /\ text \in [Handler -> [Name -> Place \cup {NoTag}]]
    /\ target \in [Handler -> Place \cup {NoTag}]
    /\ tagFault \in BOOLEAN

\* What is about to be written is what tags_ holds: saves that overlap write
\* the same text, so the order they end in does not matter
\* (PlcTagManager.cpp:144-162).
TextIsCurrent == \A h \in Handler : at[h] = "write" => text[h] = tags

Saving == {h \in Handler : at[h] \in {"save", "build", "write"}}

\* "POST /api/tags ... reflected in the file" (docs/implementation_plan.md:48):
\* unless the disk failed or the process was killed inside a save, the file
\* lists the tags there are, or a handler is on its way to write it; and while
\* nobody has opened it, what it lists can be read.
FileFollowsTags ==
    tagFault \/ tagFile = tags
    \/ (\E h \in Handler : at[h] = "save")
    \/ (tagFile = Unreadable /\ Saving # {})

\* A value is written only where a tag is at that moment: a tag that a write
\* has found stays until the value is there (PlcTagManager.cpp:79-102).
WritesLandOnTags ==
    [][\A p \in Mapped : mem'[p] \notin {mem[p], 0} => \E n \in Name : tags[n] = p]_tagVars

Directory == INSTANCE TagDirectory WITH saved <- tagFile

\* tags_ and tags.json behave as TagDirectory says, for every interleaving of
\* requests, failed saves and restarts.
IsDirectory == Directory!Spec
=============================================================================
