------------------------------ MODULE WebFiles ------------------------------
(***************************************************************************)
(* The web server's thread pool over both files: a handler thread serves   *)
(* one request at a time, about tags or about mappings, and a kill ends    *)
(* the requests of both kinds.                                             *)
(***************************************************************************)
EXTENDS TagStore

CONSTANTS Table, Mistyped, NoRules, Broken, Length

ASSUME FileAssumption ==
    /\ NoRules \notin Table /\ Broken \notin Table /\ Mistyped \subseteq Table
    /\ Length \in [Table -> Nat \ {0}]

VARIABLES mapFile, table, step, posted, mapFault

Maps == INSTANCE MappingFile

fileVars == <<mapFile, table, step, posted, mapFault>>
webVars == <<tagVars, fileVars>>

WebInit == TagInit /\ Maps!MapInit

\* The pool gives a request to a thread that has none.
WebHandler(h) ==
    \/ step[h] = "idle" /\ TagStep(h) /\ UNCHANGED fileVars
    \/ at[h] = "idle" /\ Maps!MapStep(h) /\ UNCHANGED tagVars

WebKilled == Killed /\ Maps!MapKilled

WebNext == WebKilled \/ \E h \in Handler : WebHandler(h)

WebSpec == WebInit /\ [][WebNext]_webVars

-----------------------------------------------------------------------------
\* The two components' properties, of the composed server (WebServer.cpp:47-158).
EngineFollowsFile == Maps!EngineFollowsFile

\* Types.
WebTypeOK == TagTypeOK /\ Maps!MapTypeOK
=============================================================================
