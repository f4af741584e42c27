---------------------------- MODULE TagDirectory ----------------------------
(***************************************************************************)
(* What PlcTagManager promises of its tags and of tags.json, whoever calls *)
(* it and however calls overlap: one name changes at a time, the file is   *)
(* either unreadable or gets the tags as they are at that moment, and a    *)
(* restart finds what the file holds.                                      *)
(***************************************************************************)
CONSTANTS
    Name,        \* tag names
    Place,       \* an area and an address
    NoTag,       \* a name that has no tag: no place
    Unreadable   \* a file that is missing, empty or cut short: no directory

VARIABLES
    tags,        \* tags_: where each name's tag is
    saved        \* what tags.json holds

Tags == [Name -> Place \cup {NoTag}]
NoTags == [n \in Name |-> NoTag]

\* loadConfig of a file that is f: nothing is read of an unreadable one.
Loaded(f) == IF f = Unreadable THEN NoTags ELSE f

Init == saved \in Tags \cup {Unreadable} /\ tags = Loaded(saved)

\* A tag appears under a free name, or one disappears: a tag is never moved.
Change(n, p) ==
    /\ tags[n] = NoTag \/ p = NoTag
    /\ tags' = [tags EXCEPT ![n] = p]
    /\ UNCHANGED saved

Save == saved' = tags /\ UNCHANGED tags

Spoil == saved' = Unreadable /\ UNCHANGED tags

Restart == tags' = Loaded(saved) /\ UNCHANGED saved

Next ==
    \/ \E n \in Name, p \in Place \cup {NoTag} : Change(n, p)
    \/ Save \/ Spoil \/ Restart

Spec == Init /\ [][Next]_<<tags, saved>>
=============================================================================
