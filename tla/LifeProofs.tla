----------------------------- MODULE LifeProofs ----------------------------
(***************************************************************************)
(* The process ends in order, whichever components the command line asks   *)
(* for, whichever of them fails and whenever a signal comes.               *)
(***************************************************************************)
EXTENDS Lifecycle, TLAPS

TypeOK ==
    /\ flag \in [Component -> BOOLEAN]
    /\ thread \in [Component -> {"none", "live", "ended", "joined"}]
    /\ task \in {"start", "wait", "rollback", "stop", "unload", "destroy", "exited", "aborted"}
    /\ todo \subseteq Enabled
    /\ stopping \in Component \cup {"none"}
    /\ should_quit \in BOOLEAN
    /\ terminal \in {"normal", "raw"}
    /\ library \in {"loaded", "unloaded"}
    /\ key \in BOOLEAN
    /\ listening \in {"no", "yes", "closed"}

\* What a component's flag says of its thread: a flag is up only over a live
\* thread, and a thread whose flag is down is being joined unless the flag was
\* taken down behind main's back, by Q or by a web port in use.
Behind(k) == (k = "tui" /\ key) \/ (k = "web" /\ thread["web"] = "ended")

FlagsTell ==
    \A k \in Component :
        /\ flag[k] => thread[k] = "live" /\ k \in Enabled
        /\ thread[k] = "live" => flag[k] \/ k = stopping \/ Behind(k)
        /\ thread[k] = "ended" => k = stopping \/ Behind(k)

\* While main starts: what is left has no thread, and nothing but servers is
\* up until the last server has been started.
StartInOrder ==
    task = "start" =>
        /\ \A k \in todo : thread[k] = "none"
        /\ todo \cap Server # {} => \A k \in Component \ Server : thread[k] = "none"

\* While main stops: every flag still up is one it will come to.
StopReachesAll ==
    /\ task \in {"rollback", "stop"} => \A k \in Component : flag[k] => k \in todo
    /\ task \in {"unload", "destroy", "exited", "aborted"} => \A k \in Component : ~flag[k]

LifeInv ==
    /\ TypeOK /\ FlagsTell /\ StartInOrder /\ StopReachesAll
    /\ stopping # "none" => task \in {"rollback", "stop"}
    /\ terminal = "raw" => thread["tui"] \in {"live", "ended"}
    /\ task = "aborted" => key \/ thread["web"] = "ended"
    /\ library = "unloaded" => task \in {"destroy", "exited", "aborted"}
    /\ listening = "closed" => ~flag["web"] /\ thread["web"] # "none"

-----------------------------------------------------------------------------
\* Each order lists every component, and the start order the servers first.
LEMMA Orders ==
  /\ Only(StartOrder) = Enabled /\ Only(StopOrder) = Enabled /\ Only(DestroyOrder) = Enabled
  /\ \A s \in Server, k \in Component \ Server : Before(StartOrder, s, k)
  <1>1. Enabled \subseteq Component
    BY LifecycleAssumption
  <1>2. \A k \in Component : \E i \in DOMAIN StartOrder : StartOrder[i] = k
    <2> SUFFICES \A k \in Component : \E i \in 1 .. 8 : StartOrder[i] = k
      BY DEF StartOrder
    <2> QED
      BY DEF StartOrder, Component, Server
  <1>3. \A k \in Component : \E i \in DOMAIN StopOrder : StopOrder[i] = k
    <2> SUFFICES \A k \in Component : \E i \in 1 .. 8 : StopOrder[i] = k
      BY DEF StopOrder
    <2> QED
      BY DEF StopOrder, Component, Server
  <1>4. \A k \in Component : \E i \in DOMAIN DestroyOrder : DestroyOrder[i] = k
    <2> SUFFICES \A k \in Component : \E i \in 1 .. 8 : DestroyOrder[i] = k
      BY DEF DestroyOrder
    <2> QED
      BY DEF DestroyOrder, Component, Server
  <1>5. /\ StartOrder[1] = "modbus" /\ StartOrder[2] = "s7"
        /\ StartOrder[3] = "mc" /\ StartOrder[4] = "xgt"
        /\ StartOrder[5] = "scheduler" /\ StartOrder[6] = "mqtt"
        /\ StartOrder[7] = "web" /\ StartOrder[8] = "tui"
    BY DEF StartOrder
  <1>6. DOMAIN StartOrder = 1 .. 8
    BY DEF StartOrder
  <1>7. ASSUME NEW s \in Server PROVE \E x \in 1 .. 4 : StartOrder[x] = s
    BY <1>5 DEF Server
  <1>8. ASSUME NEW k \in Component \ Server PROVE \E y \in 5 .. 8 : StartOrder[y] = k
    BY <1>5 DEF Component, Server
  <1>9. ASSUME NEW s \in Server, NEW k \in Component \ Server PROVE Before(StartOrder, s, k)
    BY <1>6, <1>7, <1>8 DEF Before
  <1> QED
    BY <1>1, <1>2, <1>3, <1>4, <1>9 DEF Only

\* When main begins nothing has a thread.
LEMMA InitLife == Init => LifeInv
  BY Orders, LifecycleAssumption
     DEF Init, LifeInv, TypeOK, FlagsTell, StartInOrder, StopReachesAll, Component

\* Every step keeps the invariant.
LEMMA NextLife ==
  ASSUME LifeInv, [Next]_vars
  PROVE  LifeInv'
  <1> USE DEF LifeInv, TypeOK, FlagsTell, StartInOrder, StopReachesAll, Behind
  <1>0. "tui" \in Component /\ "web" \in Component /\ "none" \notin Component
    BY DEF Component, Server
  <1>1. ASSUME NEW k \in Component, Start(k) PROVE LifeInv'
    <2>1. /\ task = "start" /\ task' = task /\ k \in todo /\ todo' = todo \ {k} /\ stopping = "none"
          /\ flag' = [flag EXCEPT ![k] = TRUE] /\ thread' = [thread EXCEPT ![k] = "live"]
          /\ terminal' = (IF k = "tui" THEN "raw" ELSE terminal)
          /\ UNCHANGED <<stopping, should_quit, library, key, listening>>
      BY <1>1 DEF Start, Turn
    <2>2. /\ flag'[k] /\ thread'[k] = "live" /\ k \in Enabled
          /\ \A j \in Component \ {k} : flag'[j] = flag[j] /\ thread'[j] = thread[j]
      BY <2>1
    <2>3. FlagsTell'
      BY <2>1, <2>2, <1>0
    <2>4. ASSUME todo' \cap Server # {}, NEW j \in Component \ Server PROVE thread'[j] = "none"
      <3>1. PICK s \in todo \cap Server : s # k
        BY <2>1, <2>4
      <3>2. k \in Server
        BY <1>1, <3>1, Orders DEF Start, Turn
      <3> QED
        BY <2>1, <2>2, <2>4, <3>1, <3>2
    <2>5. StartInOrder'
      BY <2>1, <2>2, <2>4
    <2> QED
      BY <2>1, <2>2, <2>3, <2>5, <1>0
  <1>2. ASSUME NEW k \in Component, StartFails(k) PROVE LifeInv'
    <2>1. /\ task = "start" /\ task' = "rollback" /\ stopping = "none" /\ k \in todo \cap Server
          /\ todo' = {s \in Server : thread[s] = "live"}
          /\ UNCHANGED <<flag, thread, stopping, should_quit, terminal, library, key, listening>>
      BY <1>2 DEF StartFails, Turn, Rollback
    <2>2. ASSUME NEW j \in Component, flag[j] PROVE j \in todo'
      BY <2>1, <2>2
    <2>3. todo' \subseteq Enabled
      BY <2>1, <1>0 DEF Component, Server
    <2> QED
      BY <2>1, <2>2, <2>3
  <1>3. ASSUME NEW k \in Component, StopReturnsEarly(k) PROVE LifeInv'
    BY <1>3 DEF StopReturnsEarly, StopTurn, Turn
  <1>4. ASSUME NEW k \in Component, StopBegins(k) PROVE LifeInv'
    <2>1. /\ task \in {"rollback", "stop"} /\ stopping = "none" /\ stopping' = k /\ flag[k]
          /\ flag' = [flag EXCEPT ![k] = FALSE] /\ todo' = todo \ {k}
          /\ UNCHANGED <<thread, task, should_quit, terminal, library, key>>
          /\ listening' \in {listening, "closed"} /\ (k # "web" => listening' = listening)
      BY <1>4 DEF StopBegins, ClearFlag, StopTurn, Turn
    <2>2. ~flag'[k] /\ \A j \in Component \ {k} : flag'[j] = flag[j]
      BY <2>1
    <2>3. FlagsTell' /\ StopReachesAll'
      BY <2>1, <2>2, <1>0
    <2> QED
      BY <2>1, <2>3
  <1>5. ASSUME NEW k \in Component, DestroyMembers(k) PROVE LifeInv'
    <2>1. /\ task = "destroy" /\ k \in todo /\ stopping = "none"
          /\ task' \in {"destroy", "aborted"} /\ todo' \subseteq todo
          /\ task' = "aborted" => thread[k] \in {"live", "ended"}
          /\ UNCHANGED <<flag, thread, stopping, should_quit, terminal, library, key, listening>>
      BY <1>5 DEF DestroyMembers, Turn
    <2>2. task' = "aborted" => Behind(k)
      BY <2>1, <1>0
    <2> QED
      BY <2>1, <2>2
  <1>6. CASE MqttFails
    BY <1>6 DEF MqttFails
  <1>7. CASE Started
    BY <1>7 DEF Started
  <1>8. CASE Quit
    BY <1>8, Orders, LifecycleAssumption DEF Quit
  <1>9. CASE Joined
    <2>1. /\ stopping \in Component /\ thread[stopping] = "ended" /\ ~flag[stopping]
          /\ thread' = [thread EXCEPT ![stopping] = "joined"] /\ stopping' = "none"
          /\ UNCHANGED <<flag, task, todo, should_quit, library, key, listening>>
      BY <1>9 DEF Joined
    <2>2. terminal' \in {terminal, "normal"} /\ (stopping = "tui" => terminal' = "normal")
      BY <1>9 DEF Joined
    <2>3. \A k \in Component \ {stopping} : thread'[k] = thread[k]
      BY <2>1
    <2>4. thread'[stopping] = "joined" /\ "tui" \in Component /\ "web" \in Component
      BY <2>1 DEF Component
    <2>5. FlagsTell'
      BY <2>1, <2>3, <2>4
    <2> QED
      BY <2>1, <2>2, <2>3, <2>4, <2>5
  <1>10. CASE EndStop
    BY <1>10, Orders, LifecycleAssumption DEF EndStop
  <1>11. CASE Unload
    BY <1>11, Orders, LifecycleAssumption DEF Unload
  <1>12. CASE Exit
    BY <1>12 DEF Exit
  <1>13. ASSUME NEW k \in Component, ThreadEnds(k) PROVE LifeInv'
    <2>1. /\ thread[k] = "live" /\ thread' = [thread EXCEPT ![k] = "ended"]
          /\ task \notin {"exited", "aborted"}
          /\ ~flag[k]
          /\ UNCHANGED <<flag, task, todo, stopping, should_quit, terminal, library, key, listening>>
      BY <1>13 DEF ThreadEnds, Told, Up
    <2> QED
      BY <2>1, <1>0
  <1>18. CASE WebListens
    BY <1>18 DEF WebListens
  <1>14. CASE ListenFails
    BY <1>14 DEF ListenFails, Up, Component, Server
  <1>15. CASE PressQ
    BY <1>15 DEF PressQ, Up, Component, Server
  <1>16. CASE Signal
    BY <1>16 DEF Signal
  <1>17. CASE UNCHANGED vars
    BY <1>17 DEF vars
  <1> QED
    BY <1>1, <1>2, <1>3, <1>4, <1>5, <1>6, <1>7, <1>8, <1>9, <1>10, <1>11, <1>12, <1>13,
       <1>14, <1>15, <1>16, <1>17, <1>18 DEF Next, Main, Ended

\* The invariant of the process.
LEMMA LifeInvariant == Spec => []LifeInv
  BY InitLife, NextLife, PTL DEF Spec

\* Whatever was asked for, whatever failed to start and whenever a signal came,
\* the process ends with the terminal restored and every thread joined, unless
\* Q or a web port in use took a flag down behind main's back
\* (main.cpp:171-293).
THEOREM ProcessEndsInOrder == Spec => []EndsInOrder
  <1>1. LifeInv => EndsInOrder
    <2> SUFFICES ASSUME LifeInv, ~Up, ~key PROVE EndsInOrder
      BY DEF EndsInOrder
    <2> USE DEF LifeInv, TypeOK, FlagsTell, StopReachesAll, Behind
    <2>1. task \in {"exited", "aborted"} /\ stopping = "none" /\ \A k \in Component : ~flag[k]
      BY DEF Up
    <2>2. ASSUME NEW k \in Component, k # "web" \/ thread["web"] # "ended"
          PROVE  thread[k] \in {"none", "joined"}
      BY <2>1, <2>2 DEF Component, Server
    <2>3. thread["tui"] \in {"none", "joined"} /\ terminal = "normal"
      BY <2>2 DEF Component
    <2> QED
      BY <2>1, <2>2, <2>3 DEF EndsInOrder
  <1> QED
    BY <1>1, LifeInvariant, PTL

\* The library is unloaded when the scheduler's thread has been joined, or was
\* never started (main.cpp:266, 290).
THEOREM LibraryIsUnloadedLast == Spec => []LibraryOutlivesScan
  <1>1. LifeInv => LibraryOutlivesScan
    BY DEF LifeInv, TypeOK, FlagsTell, StopReachesAll, Behind, LibraryOutlivesScan, Component
  <1> QED
    BY <1>1, LifeInvariant, PTL
=============================================================================
