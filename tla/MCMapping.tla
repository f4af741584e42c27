----------------------------- MODULE MCMapping -----------------------------
(* Small instances of the mapping engine. *)
EXTENDS MappingHistory

hr  == Ref("HR", 0)
db1 == Ref("DB1", 0)
d   == Ref("D", 0)

Rule(s, t) == [src |-> s, dst |-> t]

\* The shape of the shipped mappings.json: a Modbus register at the hub and
\* the S7 and MC registers at its spokes.
WordAreas == {"HR", "DB1", "D"}
HubTable == <<Rule(hr, db1), Rule(hr, d)>>

\* Tables the guide warns of or does not exclude: a chain listed against its
\* direction, two sources of one destination, two rules that mirror each
\* other, a register mapped to itself; and a shorter table.
AllShapes ==
    {HubTable, <<Rule(hr, d)>>,
     <<Rule(db1, d), Rule(hr, db1)>>,
     <<Rule(hr, d), Rule(db1, d)>>,
     <<Rule(hr, db1), Rule(db1, hr)>>,
     <<Rule(d, d), Rule(hr, d)>>}

NoAreas == {}
OneCell == [a \in Area |-> 1]
=============================================================================
