--------------------------- MODULE SniSpoofProofs ---------------------------
(***************************************************************************)
(* What holds of the SNI-spoof supervisor for any number of handlers,      *)
(* marks, edits, restarts and faults.                                      *)
(***************************************************************************)
EXTENDS SniSpoof, TLAPS

-----------------------------------------------------------------------------
(* Types.  A stop waits for a child that is there: the exit of a child     *)
(* moves on all stops that captured it.                                    *)

Places == {"idle", "unroute", "clear", "term", "wait", "kill", "done"}
States == {"down", "up", "term", "kill"}
Counts == [edits : 0 .. MaxEdits, restarts : 0 .. MaxRestarts, faults : 0 .. MaxFaults]

StopTypes ==
  /\ spc \in [Stoppers -> Places]
  /\ sproc \in [Stoppers -> Proc]
  /\ smark \in [Stoppers -> Marks \cup {NoMark}]
  /\ \A s \in Stoppers : spc[s] = "unroute" => smark[s] # NoMark

ProcTypes ==
  /\ proc \in [Proc -> States]
  /\ pmark \in [Proc -> Marks \cup {NoMark}]
  /\ \A p \in Proc : pmark[p] = NoMark <=> proc[p] = "down"
  /\ dev \in BOOLEAN /\ (dev => proc["tun2socks"] # "down")

PlaceTypes ==
  /\ ctxDone \in BOOLEAN /\ reload \in BOOLEAN
  /\ conf \in Config /\ mconf \in Config
  /\ mpc \in {"top", "byedpi", "tun2socks", "device", "route", "ready",
              "watch", "stop", "fail", "pause", "halt"}
  /\ runpc \in {"loop", "stop", "halt"}
  /\ hpc \in [Handlers -> {"idle", "stop", "reload"}]
  /\ rules \in SUBSET Marks /\ ready \in BOOLEAN

Captured ==
  \A s \in Stoppers :
    /\ spc[s] = "wait" => proc[sproc[s]] # "down"
    /\ spc[s] = "kill" => proc[sproc[s]] = "kill"

TypeInv == PlaceTypes /\ StopTypes /\ ProcTypes /\ Captured /\ events \in Counts

LEMMA TypeInvImplies ==
  ASSUME TypeInv
  PROVE  TypeOK
BY DEF TypeInv, PlaceTypes, StopTypes, ProcTypes, Places, States, Counts, TypeOK

LEMMA FaultTypes ==
  ASSUME TypeInv, Fault
  PROVE  events' \in Counts
BY SniAssumption DEF TypeInv, Counts, Fault

LEMMA StopAllTypes ==
  ASSUME TypeInv, NEW s \in Stoppers, NEW c \in Config, StopAll(s, c), UNCHANGED procs
  PROVE  StopTypes' /\ ProcTypes' /\ Captured'
<1>1. c.mark \in Marks /\ c.mark # NoMark
  BY SniAssumption DEF Config
<1>2. StopTypes'
  BY <1>1 DEF StopAll, TypeInv, StopTypes, Places
<1>3. ProcTypes'
  BY DEF TypeInv, ProcTypes, procs
<1>4. Captured'
  BY DEF StopAll, TypeInv, StopTypes, Captured, procs
<1> QED
  BY <1>2, <1>3, <1>4

LEMMA StoppedTypes ==
  ASSUME TypeInv, NEW s \in Stoppers, Stopped(s), UNCHANGED <<sproc, smark, procs>>
  PROVE  StopTypes' /\ ProcTypes' /\ Captured'
BY DEF Stopped, TypeInv, StopTypes, ProcTypes, Captured, procs, Places

LEMMA NextChildTypes ==
  ASSUME TypeInv, NEW S, NextChild(S), UNCHANGED smark
  PROVE  /\ StopTypes'
         /\ \A t \in Stoppers : spc'[t] \in {"wait", "kill"} =>
              t \notin S /\ spc'[t] = spc[t] /\ sproc'[t] = sproc[t]
<1>1. \A t \in Stoppers :
        /\ t \notin S => spc'[t] = spc[t] /\ sproc'[t] = sproc[t]
        /\ t \in S => spc'[t] \in {"term", "done"} /\ sproc'[t] \in Proc
  BY DEF NextChild, Proc
<1>2. spc' \in [Stoppers -> Places] /\ sproc' \in [Stoppers -> Proc]
  BY DEF NextChild, TypeInv, StopTypes, Places, Proc
<1> QED
  BY <1>1, <1>2 DEF TypeInv, StopTypes

LEMMA StoppingTypes ==
  ASSUME TypeInv, NEW s \in Stoppers, Stopping(s)
  PROVE  TypeInv'
<1>1. CASE Unroute(s)
  BY <1>1 DEF Unroute, TypeInv, PlaceTypes, StopTypes, ProcTypes, Captured, procs, Places
<1>2. CASE Clear(s)
  BY <1>2 DEF Clear, TypeInv, PlaceTypes, StopTypes, ProcTypes, Captured, procs, Places
<1>3. CASE Term(s) /\ proc[sproc[s]] = "down"
  <2>1. NextChild({s}) /\ UNCHANGED <<smark, procs>>
    BY <1>3 DEF Term, procs
  <2>2. StopTypes' /\ Captured'
    BY <2>1, NextChildTypes DEF TypeInv, Captured, procs
  <2>3. PlaceTypes' /\ ProcTypes' /\ events' \in Counts
    BY <1>3, <2>1 DEF Term, route, procs, TypeInv, PlaceTypes, ProcTypes
  <2> QED
    BY <2>2, <2>3 DEF TypeInv
<1>4. CASE Term(s) /\ proc[sproc[s]] # "down"
  <2>1. /\ proc' = [proc EXCEPT ![sproc[s]] = IF @ = "up" THEN "term" ELSE @]
        /\ spc' = [spc EXCEPT ![s] = "wait"]
        /\ UNCHANGED <<sproc, smark, pmark, dev, events>>
    BY <1>4 DEF Term
  <2>2. sproc[s] \in Proc /\ proc \in [Proc -> States]
    BY DEF TypeInv, StopTypes, ProcTypes
  <2>3. \A p \in Proc : /\ proc'[p] \in States
                        /\ proc'[p] = "down" <=> proc[p] = "down"
                        /\ proc[p] = "kill" => proc'[p] = "kill"
    BY <1>4, <2>1, <2>2 DEF States
  <2>4. proc' \in [Proc -> States]
    BY <2>1, <2>2, <2>3
  <2>5. ProcTypes'
    BY <2>1, <2>3, <2>4 DEF TypeInv, ProcTypes, Proc
  <2>6. StopTypes'
    BY <2>1 DEF TypeInv, StopTypes, Places
  <2>7. Captured'
    BY <1>4, <2>1, <2>2, <2>3 DEF TypeInv, StopTypes, Captured
  <2>8. PlaceTypes'
    BY <1>4 DEF Term, route, TypeInv, PlaceTypes
  <2> QED
    BY <2>1, <2>5, <2>6, <2>7, <2>8 DEF TypeInv
<1>5. CASE Kill(s)
  <2>1. /\ proc' = [proc EXCEPT ![sproc[s]] = "kill"]
        /\ spc' = [spc EXCEPT ![s] = "kill"]
        /\ UNCHANGED <<sproc, smark, pmark, dev, events>>
    BY <1>5 DEF Kill
  <2>2. sproc[s] \in Proc /\ proc \in [Proc -> States] /\ proc[sproc[s]] # "down"
    BY <1>5 DEF Kill, TypeInv, StopTypes, ProcTypes, Captured
  <2>3. \A p \in Proc : /\ proc'[p] \in States
                        /\ proc'[p] = "down" <=> proc[p] = "down"
                        /\ proc[p] = "kill" => proc'[p] = "kill"
    BY <2>1, <2>2 DEF States
  <2>4. proc' \in [Proc -> States]
    BY <2>1, <2>2, <2>3
  <2>5. ProcTypes'
    BY <2>1, <2>3, <2>4 DEF TypeInv, ProcTypes, Proc
  <2>6. StopTypes'
    BY <2>1 DEF TypeInv, StopTypes, Places
  <2>7. Captured'
    BY <2>1, <2>2, <2>3 DEF TypeInv, StopTypes, Captured
  <2>8. PlaceTypes'
    BY <1>5 DEF Kill, route, TypeInv, PlaceTypes
  <2> QED
    BY <2>1, <2>5, <2>6, <2>7, <2>8 DEF TypeInv
<1>6. CASE GiveUp(s)
  <2>1. NextChild({s}) /\ Fault /\ UNCHANGED <<smark, procs>>
    BY <1>6 DEF GiveUp
  <2>2. StopTypes' /\ Captured'
    BY <2>1, NextChildTypes DEF TypeInv, Captured, procs
  <2>3. PlaceTypes' /\ ProcTypes'
    BY <1>6 DEF GiveUp, route, procs, TypeInv, PlaceTypes, ProcTypes
  <2> QED
    BY <2>1, <2>2, <2>3, FaultTypes DEF TypeInv
<1> QED
  BY <1>1, <1>2, <1>3, <1>4, <1>5, <1>6 DEF Stopping

\* A step that leaves the stops and the children alone.
LEMMA OthersSame ==
  ASSUME TypeInv, UNCHANGED <<stops, procs>>
  PROVE  StopTypes' /\ ProcTypes' /\ Captured'
BY DEF TypeInv, StopTypes, ProcTypes, Captured, stops, procs

\* TypeOK, and that a stop only ever waits for or kills a child that is there.
THEOREM TypeCorrect == Spec => []TypeInv
<1>1. Init => TypeInv
  <2> SUFFICES ASSUME Init PROVE TypeInv
    OBVIOUS
  <2>1. PlaceTypes
    BY DEF Init, PlaceTypes
  <2>2. StopTypes /\ Captured
    BY DEF Init, StopTypes, Captured, Places, Proc
  <2>3. ProcTypes
    BY DEF Init, ProcTypes, States, Proc
  <2>4. events \in Counts
    BY SniAssumption DEF Init, Counts
  <2> QED
    BY <2>1, <2>2, <2>3, <2>4 DEF TypeInv
<1>2. TypeInv /\ [Next]_vars => TypeInv'
  <2> SUFFICES ASSUME TypeInv, [Next]_vars PROVE TypeInv'
    OBVIOUS
  <2>0. Manager \in Stoppers /\ Run \in Stoppers /\ Handlers \subseteq Stoppers
    BY DEF Stoppers
  <2>1. CASE UNCHANGED vars
    BY <2>1, OthersSame DEF vars, route, TypeInv, PlaceTypes
  <2>2. CASE MgrTop
    <3>1. StopTypes' /\ ProcTypes' /\ Captured'
      <4>1. CASE UNCHANGED stops
        BY <2>2, <4>1, OthersSame DEF MgrTop
      <4>2. CASE StopAll(Manager, conf)
        BY <2>0, <2>2, <4>2, StopAllTypes DEF MgrTop, TypeInv, PlaceTypes
      <4> QED
        BY <2>2, <4>1, <4>2 DEF MgrTop
    <3> QED
      BY <2>2, <3>1 DEF MgrTop, route, TypeInv, PlaceTypes
  <2>3. ASSUME NEW p \in Proc, MgrStart(p) PROVE TypeInv'
    <3>1. CASE proc[p] = "down"
      <4>1. /\ proc' = [proc EXCEPT ![p] = "up"] /\ pmark' = [pmark EXCEPT ![p] = mconf.mark]
            /\ UNCHANGED <<dev, stops>>
        BY <2>3, <3>1 DEF MgrStart
      <4>2. mconf.mark \in Marks /\ mconf.mark # NoMark
        BY SniAssumption DEF TypeInv, PlaceTypes, Config
      <4>3. ProcTypes'
        BY <4>1, <4>2 DEF TypeInv, ProcTypes, States, Proc
      <4>4. StopTypes'
        BY <4>1 DEF TypeInv, StopTypes, stops
      <4>5. Captured'
        BY <3>1, <4>1 DEF TypeInv, StopTypes, ProcTypes, Captured, stops
      <4> QED
        BY <2>3, <4>3, <4>4, <4>5 DEF MgrStart, route, TypeInv, PlaceTypes
    <3>2. CASE proc[p] # "down"
      <4>1. UNCHANGED <<stops, procs>>
        BY <2>3, <3>2 DEF MgrStart, procs
      <4> QED
        BY <2>3, <4>1, OthersSame DEF MgrStart, route, TypeInv, PlaceTypes
    <3> QED
      BY <3>1, <3>2
  <2>4. CASE MgrDevice
    BY <2>4, OthersSame DEF MgrDevice, route, TypeInv, PlaceTypes
  <2>5. CASE MgrRoute
    <3>1. mconf.mark \in Marks
      BY DEF TypeInv, PlaceTypes, Config
    <3> QED
      BY <2>5, <3>1, OthersSame DEF MgrRoute, TypeInv, PlaceTypes
  <2>6. CASE MgrReady
    BY <2>6, OthersSame DEF MgrReady, TypeInv, PlaceTypes
  <2>7. CASE MgrFail
    <3>1. StopTypes' /\ ProcTypes' /\ Captured'
      BY <2>0, <2>7, StopAllTypes DEF MgrFail, TypeInv, PlaceTypes
    <3>2. events' \in Counts
      BY <2>7, FaultTypes DEF MgrFail, TypeInv
    <3> QED
      BY <2>7, <3>1, <3>2 DEF MgrFail, TypeInv, PlaceTypes
  <2>8. CASE MgrWatched
    <3>1. StopTypes' /\ ProcTypes' /\ Captured'
      BY <2>0, <2>8, StopAllTypes DEF MgrWatched, TypeInv, PlaceTypes
    <3> QED
      BY <2>8, <3>1 DEF MgrWatched, route, TypeInv, PlaceTypes
  <2>9. CASE MgrStopped
    BY <2>0, <2>9, StoppedTypes DEF MgrStopped, route, TypeInv, PlaceTypes
  <2>10. CASE MgrPause
    BY <2>10, OthersSame DEF MgrPause, route, TypeInv, PlaceTypes
  <2>11. CASE RunStop
    <3>1. StopTypes' /\ ProcTypes' /\ Captured'
      <4>1. CASE UNCHANGED stops
        BY <2>11, <4>1, OthersSame DEF RunStop
      <4>2. CASE StopAll(Run, conf)
        BY <2>0, <2>11, <4>2, StopAllTypes DEF RunStop, TypeInv, PlaceTypes
      <4> QED
        BY <2>11, <4>1, <4>2 DEF RunStop
    <3> QED
      BY <2>11, <3>1 DEF RunStop, route, TypeInv, PlaceTypes
  <2>12. CASE RunReturn
    BY <2>0, <2>12, StoppedTypes DEF RunReturn, route, TypeInv, PlaceTypes
  <2>13. ASSUME NEW h \in Handlers, Edit(h) PROVE TypeInv'
    <3>1. events' \in Counts
      BY <2>13, SniAssumption DEF Edit, TypeInv, Counts
    <3> QED
      BY <2>13, <3>1, OthersSame DEF Edit, route, TypeInv, PlaceTypes
  <2>14. ASSUME NEW h \in Handlers, Restart(h) PROVE TypeInv'
    <3>1. events' \in Counts
      BY <2>14, SniAssumption DEF Restart, TypeInv, Counts
    <3>2. StopTypes' /\ ProcTypes' /\ Captured'
      <4>1. CASE UNCHANGED stops
        BY <2>14, <4>1, OthersSame DEF Restart
      <4>2. CASE StopAll(h, conf)
        BY <2>0, <2>14, <4>2, StopAllTypes DEF Restart, TypeInv, PlaceTypes
      <4> QED
        BY <2>14, <4>1, <4>2 DEF Restart
    <3> QED
      BY <2>14, <3>1, <3>2 DEF Restart, route, TypeInv, PlaceTypes
  <2>15. ASSUME NEW h \in Handlers, RestartStopped(h) PROVE TypeInv'
    BY <2>0, <2>15, StoppedTypes DEF RestartStopped, route, TypeInv, PlaceTypes
  <2>16. ASSUME NEW h \in Handlers, Reload(h) PROVE TypeInv'
    BY <2>16, OthersSame DEF Reload, route, TypeInv, PlaceTypes
  <2>17. ASSUME NEW s \in Stoppers, Stopping(s) PROVE TypeInv'
    BY <2>17, StoppingTypes
  <2>18. ASSUME NEW p \in Proc, Exit(p) PROVE TypeInv'
    <3> DEFINE S == {s \in Stoppers : sproc[s] = p /\ spc[s] \in {"wait", "kill"}}
    <3>1. /\ proc' = [proc EXCEPT ![p] = "down"] /\ pmark' = [pmark EXCEPT ![p] = NoMark]
          /\ dev' = (dev /\ p # "tun2socks")
          /\ NextChild(S) /\ UNCHANGED smark
      BY <2>18 DEF Exit
    <3>2. ProcTypes'
      <4>1. dev' \in BOOLEAN
        BY <3>1, Zenon
      <4>2. dev' => dev /\ p # "tun2socks"
        BY <3>1
      <4> QED
        BY <3>1, <4>1, <4>2 DEF TypeInv, ProcTypes, States, Proc
    <3>3. /\ StopTypes'
          /\ \A t \in Stoppers : spc'[t] \in {"wait", "kill"} =>
               t \notin S /\ spc'[t] = spc[t] /\ sproc'[t] = sproc[t]
      BY <3>1, NextChildTypes
    <3>4. Captured'
      BY <3>1, <3>3 DEF TypeInv, StopTypes, ProcTypes, Captured
    <3>5. events' \in Counts
      BY <2>18, FaultTypes DEF Exit, TypeInv
    <3> QED
      BY <2>18, <3>2, <3>3, <3>4, <3>5 DEF Exit, route, TypeInv, PlaceTypes
  <2>19. CASE DeviceAppears
    <3>1. StopTypes' /\ ProcTypes' /\ Captured'
      BY <2>19 DEF DeviceAppears, TypeInv, StopTypes, ProcTypes, Captured, stops
    <3> QED
      BY <2>19, <3>1 DEF DeviceAppears, route, TypeInv, PlaceTypes
  <2>20. CASE Cancel
    BY <2>20, OthersSame DEF Cancel, route, TypeInv, PlaceTypes
  <2> QED
    BY <2>0, <2>1, <2>2, <2>3, <2>4, <2>5, <2>6, <2>7, <2>8, <2>9, <2>10, <2>11, <2>12, <2>13, <2>14,
       <2>15, <2>16, <2>17, <2>18, <2>19, <2>20 DEF Next, Manage, Loop, Handle
<1> QED
  BY <1>1, <1>2, PTL DEF Spec

\* TypeOK.
THEOREM WellTyped == Spec => []TypeOK
BY TypeCorrect, TypeInvImplies, PTL

-----------------------------------------------------------------------------
(* ShutdownClean.  Only manageChild starts children, and it leaves the     *)
(* loop at its head only, where what it had started has been through one   *)
(* of its own calls of stopAll: that call has ended tun2socks once it is   *)
(* at byedpi, and both once it is done.  What others stop meanwhile only   *)
(* helps.                                                                  *)

Ended(p) == proc[p] \in {"down", "kill"}

CleanInv ==
  /\ mpc \in {"top", "pause", "halt"} => \A p \in Proc : Ended(p)
  /\ mpc \in {"stop", "fail"} <=> spc[Manager] # "idle"
  /\ spc[Manager] \in {"idle", "unroute", "clear", "done"} => sproc[Manager] = "tun2socks"
  /\ spc[Manager] \in {"term", "wait", "kill"} /\ sproc[Manager] = "byedpi" => Ended("tun2socks")
  /\ spc[Manager] = "done" => \A p \in Proc : Ended(p)

\* A step of others that starts no child keeps CleanInv.
LEMMA Bystander ==
  ASSUME CleanInv, UNCHANGED <<mpc, spc[Manager], sproc[Manager]>>,
         \A p \in Proc : Ended(p) => Ended(p)'
  PROVE  CleanInv'
<1>1. "tun2socks" \in Proc
  BY DEF Proc
<1> QED
  BY <1>1 DEF CleanInv

\* The manager begins to stop all.
LEMMA Begins ==
  ASSUME TypeInv, CleanInv, StopAll(Manager, conf) \/ StopAll(Manager, mconf),
         spc[Manager] = "idle", mpc' \in {"stop", "fail"}
  PROVE  CleanInv'
<1>1. Manager \in Stoppers
  BY DEF Stoppers
<1>2. spc'[Manager] \in {"unroute", "term"} /\ sproc'[Manager] = "tun2socks"
  BY <1>1 DEF StopAll, TypeInv, StopTypes, CleanInv
<1> QED
  BY <1>2 DEF CleanInv

\* The manager goes on to byedpi, or is done, when its child has ended.
LEMMA Advances ==
  ASSUME TypeInv, CleanInv, NEW S, Manager \in S, NextChild(S),
         spc[Manager] \in {"term", "wait", "kill"}, UNCHANGED mpc,
         proc'[sproc[Manager]] \in {"down", "kill"},
         \A p \in Proc : Ended(p) => Ended(p)'
  PROVE  CleanInv'
<1>1. Manager \in Stoppers
  BY DEF Stoppers
<1>2. sproc[Manager] \in {"tun2socks", "byedpi"}
  BY <1>1 DEF TypeInv, StopTypes, Proc
<1>3. CASE sproc[Manager] = "tun2socks"
  <2>1. spc'[Manager] = "term" /\ sproc'[Manager] = "byedpi" /\ Ended("tun2socks")'
    BY <1>1, <1>3 DEF NextChild, Ended
  <2> QED
    BY <2>1 DEF CleanInv
<1>4. CASE sproc[Manager] = "byedpi"
  <2>1. spc'[Manager] = "done" /\ sproc'[Manager] = "tun2socks"
    BY <1>1, <1>4 DEF NextChild
  <2>2. Ended("tun2socks")' /\ Ended("byedpi")'
    BY <1>4, "tun2socks" \in Proc DEF CleanInv, Ended, Proc
  <2>3. \A p \in Proc : Ended(p)'
    BY <2>2 DEF Proc
  <2> QED
    BY <2>1, <2>3 DEF CleanInv
<1> QED
  BY <1>2, <1>3, <1>4

\* What a step of a stop does to the children.
LEMMA StoppingEnds ==
  ASSUME TypeInv, NEW s \in Stoppers, Stopping(s)
  PROVE  \A p \in Proc : Ended(p) => Ended(p)'
<1>1. sproc[s] \in Proc /\ proc \in [Proc -> States]
  BY DEF TypeInv, StopTypes, ProcTypes
<1>2. CASE Term(s)
  BY <1>1, <1>2 DEF Term, Ended
<1>3. CASE Kill(s)
  BY <1>1, <1>3 DEF Kill, Ended
<1>4. CASE Unroute(s) \/ Clear(s) \/ GiveUp(s)
  BY <1>4 DEF Unroute, Clear, GiveUp, procs, Ended
<1> QED
  BY <1>2, <1>3, <1>4 DEF Stopping

LEMMA StoppingClean ==
  ASSUME TypeInv, CleanInv, NEW s \in Stoppers, Stopping(s)
  PROVE  CleanInv'
<1>0. Manager \in Stoppers /\ spc \in [Stoppers -> Places] /\ sproc \in [Stoppers -> Proc]
  BY DEF Stoppers, TypeInv, StopTypes
<1>1. \A p \in Proc : Ended(p) => Ended(p)'
  BY StoppingEnds
<1>2. UNCHANGED mpc
  BY DEF Stopping, Unroute, Clear, Term, Kill, GiveUp
<1>3. CASE s # Manager
  <2>1. UNCHANGED <<spc[Manager], sproc[Manager]>>
    BY <1>0, <1>3 DEF Stopping, Unroute, Clear, Term, Kill, GiveUp, NextChild
  <2> QED
    BY <1>1, <1>2, <2>1, Bystander
<1>4. CASE s = Manager
  <2>1. CASE Unroute(Manager) \/ Clear(Manager)
    <3>1. spc'[Manager] \in {"clear", "term"} /\ sproc'[Manager] = "tun2socks"
      BY <1>0, <2>1 DEF Unroute, Clear, CleanInv
    <3>2. mpc \in {"stop", "fail"}
      BY <2>1 DEF Unroute, Clear, CleanInv
    <3> QED
      BY <1>2, <3>1, <3>2 DEF CleanInv
  <2>2. CASE Term(Manager) /\ proc[sproc[Manager]] = "down"
    <3>1. NextChild({Manager}) /\ spc[Manager] = "term" /\ UNCHANGED proc
      BY <2>2 DEF Term
    <3>2. proc'[sproc[Manager]] \in {"down", "kill"}
      BY <2>2, <3>1
    <3> QED
      BY <1>1, <1>2, <3>1, <3>2, Advances
  <2>3. CASE (Term(Manager) /\ proc[sproc[Manager]] # "down") \/ Kill(Manager)
    <3>1. /\ spc[Manager] \in {"term", "wait"} /\ spc'[Manager] \in {"wait", "kill"}
          /\ UNCHANGED sproc
      BY <1>0, <2>3 DEF Term, Kill
    <3>2. mpc \in {"stop", "fail"}
      BY <3>1 DEF CleanInv
    <3>3. sproc[Manager] = "byedpi" => Ended("tun2socks")'
      BY <1>1, <3>1 DEF CleanInv, Proc
    <3> QED
      BY <1>2, <3>1, <3>2, <3>3 DEF CleanInv
  <2>4. CASE GiveUp(Manager)
    <3>1. NextChild({Manager}) /\ spc[Manager] = "kill" /\ UNCHANGED proc
      BY <2>4 DEF GiveUp, procs
    <3>2. proc'[sproc[Manager]] \in {"down", "kill"}
      BY <1>0, <3>1 DEF TypeInv, Captured
    <3> QED
      BY <1>1, <1>2, <3>1, <3>2, Advances
  <2> QED
    BY <1>4, <2>1, <2>2, <2>3, <2>4 DEF Stopping
<1> QED
  BY <1>3, <1>4

LEMMA CleanStep ==
  ASSUME TypeInv, CleanInv, [Next]_vars
  PROVE  CleanInv'
<1>0. /\ Manager \in Stoppers /\ Run \in Stoppers /\ Handlers \subseteq Stoppers
      /\ Manager # Run /\ Manager \notin Handlers
      /\ spc \in [Stoppers -> Places] /\ sproc \in [Stoppers -> Proc]
  BY SniAssumption DEF Stoppers, TypeInv, StopTypes
<1>1. CASE UNCHANGED vars
  BY <1>1, Bystander DEF vars, stops, procs, Ended
<1>2. CASE MgrTop
  <2>1. spc[Manager] = "idle" /\ mpc = "top" /\ UNCHANGED proc
    BY <1>2 DEF MgrTop, CleanInv, procs
  <2>2. CASE mpc' = "fail" /\ StopAll(Manager, conf)
    BY <2>1, <2>2, Begins
  <2>3. CASE mpc' \in {"halt", "byedpi"} /\ UNCHANGED stops
    BY <2>1, <2>3 DEF CleanInv, stops, Ended
  <2> QED
    BY <1>2, <2>2, <2>3 DEF MgrTop
<1>3. ASSUME NEW p \in Proc, MgrStart(p) PROVE CleanInv'
  <2>1. mpc \in Proc /\ mpc' \in {"tun2socks", "device"} /\ UNCHANGED stops
    BY <1>3 DEF MgrStart
  <2> QED
    BY <2>1 DEF CleanInv, stops, Proc
<1>4. CASE MgrDevice \/ MgrRoute \/ MgrReady
  <2>1. mpc \in {"device", "route", "ready"} /\ mpc' \in {"route", "ready", "watch"} /\ UNCHANGED stops
    BY <1>4 DEF MgrDevice, MgrRoute, MgrReady
  <2> QED
    BY <2>1 DEF CleanInv, stops
<1>5. CASE MgrFail \/ MgrWatched
  <2>1. /\ mpc \notin {"stop", "fail"} /\ mpc' \in {"stop", "fail"}
        /\ StopAll(Manager, mconf)
    BY <1>5 DEF MgrFail, MgrWatched, Proc
  <2>2. spc[Manager] = "idle"
    BY <2>1 DEF CleanInv
  <2> QED
    BY <2>1, <2>2, Begins
<1>6. CASE MgrStopped
  <2>1. /\ spc[Manager] = "done" /\ spc'[Manager] = "idle" /\ mpc' \in {"top", "pause"}
        /\ UNCHANGED <<sproc, proc>>
    BY <1>0, <1>6 DEF MgrStopped, Stopped, procs
  <2> QED
    BY <2>1 DEF CleanInv, Ended
<1>7. CASE MgrPause
  <2>1. mpc = "pause" /\ mpc' = "top" /\ UNCHANGED <<stops, proc>>
    BY <1>7 DEF MgrPause, procs
  <2> QED
    BY <2>1 DEF CleanInv, Ended, stops
<1>8. ASSUME NEW s \in Stoppers \ {Manager}, NEW c, StopAll(s, c), UNCHANGED <<mpc, procs>>
      PROVE  CleanInv'
  <2>1. UNCHANGED <<spc[Manager], sproc[Manager]>>
    BY <1>0, <1>8 DEF StopAll
  <2> QED
    BY <1>8, <2>1, Bystander DEF procs, Ended
<1>9. ASSUME NEW s \in Stoppers \ {Manager}, Stopped(s), UNCHANGED <<mpc, sproc, procs>>
      PROVE  CleanInv'
  <2>1. UNCHANGED <<spc[Manager], sproc[Manager]>>
    BY <1>0, <1>9 DEF Stopped
  <2> QED
    BY <1>9, <2>1, Bystander DEF procs, Ended
<1>10. ASSUME UNCHANGED <<mpc, stops, proc>> PROVE CleanInv'
  BY <1>10, Bystander DEF stops, Ended
<1>11. CASE RunStop \/ RunReturn
  BY <1>0, <1>8, <1>9, <1>10, <1>11 DEF RunStop, RunReturn, procs
<1>12. ASSUME NEW h \in Handlers, Edit(h) \/ Restart(h) \/ RestartStopped(h) \/ Reload(h)
       PROVE  CleanInv'
  BY <1>0, <1>8, <1>9, <1>10, <1>12 DEF Edit, Restart, RestartStopped, Reload, procs
<1>13. ASSUME NEW s \in Stoppers, Stopping(s) PROVE CleanInv'
  BY <1>13, StoppingClean
<1>14. ASSUME NEW p \in Proc, Exit(p) PROVE CleanInv'
  <2> DEFINE S == {s \in Stoppers : sproc[s] = p /\ spc[s] \in {"wait", "kill"}}
  <2>1. NextChild(S) /\ UNCHANGED mpc /\ proc' = [proc EXCEPT ![p] = "down"]
    BY <1>14 DEF Exit
  <2>2. \A q \in Proc : Ended(q) => Ended(q)'
    BY <2>1 DEF Ended, TypeInv, ProcTypes
  <2>3. CASE Manager \in S
    <3>1. proc'[sproc[Manager]] \in {"down", "kill"}
      BY <2>1, <2>3 DEF TypeInv, ProcTypes
    <3>2. spc[Manager] \in {"term", "wait", "kill"}
      BY <2>3
    <3> HIDE DEF S
    <3> QED
      BY <2>1, <2>2, <2>3, <3>1, <3>2, Advances
  <2>4. CASE Manager \notin S
    <3>1. UNCHANGED <<spc[Manager], sproc[Manager]>>
      BY <1>0, <2>1, <2>4 DEF NextChild
    <3> QED
      BY <2>1, <2>2, <3>1, Bystander
  <2> QED
    BY <2>3, <2>4
<1>15. CASE DeviceAppears \/ Cancel
  BY <1>10, <1>15 DEF DeviceAppears, Cancel, procs
<1> QED
  BY <1>0, <1>1, <1>2, <1>3, <1>4, <1>5, <1>6, <1>7, <1>11, <1>12, <1>13, <1>14, <1>15
     DEF Next, Manage, Loop, Handle

LEMMA CleanAlways == Spec => []CleanInv
<1>1. Init => CleanInv
  BY DEF Init, CleanInv, Ended, Stoppers
<1>2. TypeInv /\ CleanInv /\ [Next]_vars => CleanInv'
  BY CleanStep
<1> QED
  BY <1>1, <1>2, TypeCorrect, PTL DEF Spec

\* ShutdownClean: when both goroutines are done no child is left that has not
\* been sent SIGKILL, however the handlers' restarts and the exits of children
\* overlap with the shutdown.
THEOREM NothingLeft == Spec => []ShutdownClean
<1>1. CleanInv => ShutdownClean
  BY DEF CleanInv, ShutdownClean, Ended
<1> QED
  BY <1>1, CleanAlways, PTL
-----------------------------------------------------------------------------
(* Both children are supervised processes.  The manager starts one only    *)
(* where it is down, and the supervisor has returned when manageChild and  *)
(* Run both have, neither of which starts anew.                            *)

Process(p) == INSTANCE Supervised
                WITH Child <- Proc, running <- Running(p), done <- Returned

\* What a step can do to the children and to the return of the supervisor.
LEMMA ProcSteps ==
  ASSUME TypeInv, [Next]_vars
  PROVE  \/ \E q \in Proc : MgrStart(q)
         \/ UNCHANGED Returned /\ \E q \in Proc : Exit(q)
         \/ UNCHANGED Returned /\ \E s \in Stoppers : Term(s) \/ Kill(s)
         \/ UNCHANGED proc /\ (Returned => Returned')
<1> USE DEF procs, stops, Returned
<1>0. Manager \in Stoppers /\ Run \in Stoppers /\ Handlers \subseteq Stoppers
  BY DEF Stoppers
<1>1. ASSUME NEW s \in Stoppers, Stopping(s)
      PROVE  UNCHANGED Returned /\ (Term(s) \/ Kill(s) \/ UNCHANGED proc)
  BY <1>1 DEF Stopping, Unroute, Clear, Term, Kill, GiveUp
<1>2. CASE MgrTop \/ MgrDevice \/ MgrRoute \/ MgrReady \/ MgrFail \/ MgrWatched
           \/ MgrStopped \/ MgrPause
  BY <1>2 DEF MgrTop, MgrDevice, MgrRoute, MgrReady, MgrFail, MgrWatched, MgrStopped, MgrPause, Proc
<1>3. CASE RunStop \/ RunReturn
  BY <1>3 DEF RunStop, RunReturn
<1>4. ASSUME NEW h \in Handlers, Edit(h) \/ Restart(h) \/ RestartStopped(h) \/ Reload(h)
      PROVE  UNCHANGED <<proc, Returned>>
  BY <1>4 DEF Edit, Restart, RestartStopped, Reload
<1>5. ASSUME NEW q \in Proc, Exit(q) PROVE UNCHANGED Returned
  BY <1>5 DEF Exit
<1>6. CASE DeviceAppears \/ Cancel \/ UNCHANGED vars
  BY <1>6 DEF DeviceAppears, Cancel, vars
<1> QED
  BY <1>0, <1>1, <1>2, <1>3, <1>4, <1>5, <1>6 DEF Next, Manage, Loop, Handle

\* Each step is one of each child's process, or changes nothing to be seen of it.
LEMMA StepIsProcessStep ==
  ASSUME TypeInv, CleanInv', [Next]_vars, NEW p \in Proc
  PROVE  Process(p)!SupNext \/ UNCHANGED <<Running(p), Returned>>
<1>0. proc \in [Proc -> States]
  BY DEF TypeInv, ProcTypes
<1>1. ASSUME NEW q \in Proc, MgrStart(q) PROVE Process(p)!SupNext \/ UNCHANGED <<Running(p), Returned>>
  <2>1. ~Returned /\ ~Returned'
    BY <1>1 DEF MgrStart, Returned, Proc
  <2>2. CASE q = p /\ proc[p] = "down"
    <3>1. proc'[p] = "up"
      BY <1>0, <1>1, <2>2 DEF MgrStart
    <3>2. Running(p) = {} /\ Running(p)' = {<<p, "none">>}
      BY <2>2, <3>1 DEF Running
    <3>3. Process(p)!Spawn(p)
      BY <2>1, <3>2 DEF Process!Spawn, Returned
    <3> QED
      BY <3>3 DEF Process!SupNext
  <2>3. CASE ~(q = p /\ proc[p] = "down")
    <3>1. proc'[p] = proc[p]
      BY <1>0, <1>1, <2>3 DEF MgrStart
    <3> QED
      BY <2>1, <3>1 DEF Running, Returned
  <2> QED
    BY <2>2, <2>3
<1>2. ASSUME NEW q \in Proc, Exit(q), UNCHANGED Returned
      PROVE  Process(p)!SupNext \/ UNCHANGED <<Running(p), Returned>>
  <2>1. CASE q = p
    <3>1. Running(p)' = {}
      BY <1>0, <1>2, <2>1 DEF Exit, Running
    <3> QED
      BY <1>2, <3>1 DEF Process!SupNext, Process!Exit
  <2>2. CASE q # p
    <3>1. proc'[p] = proc[p]
      BY <1>0, <1>2, <2>2 DEF Exit
    <3> QED
      BY <1>2, <3>1 DEF Running
  <2> QED
    BY <2>1, <2>2
<1>3. ASSUME NEW s \in Stoppers, Term(s) \/ Kill(s), UNCHANGED Returned
      PROVE  Process(p)!SupNext \/ UNCHANGED <<Running(p), Returned>>
  <2>1. \/ proc'[p] = proc[p]
        \/ proc[p] = "up" /\ proc'[p] \in {"term", "kill"}
        \/ proc[p] = "term" /\ proc'[p] = "kill"
    <3>1. sproc[s] \in Proc /\ (spc[s] = "wait" => proc[sproc[s]] # "down")
      BY DEF TypeInv, StopTypes, Captured
    <3> QED
      BY <1>0, <1>3, <3>1 DEF Term, Kill, States
  <2>2. CASE proc'[p] = proc[p]
    BY <1>3, <2>2 DEF Running
  <2>3. ASSUME NEW x \in Process(p)!Stronger,
               Running(p) = {<<p, x[1]>>}, Running(p)' = {<<p, x[2]>>}
        PROVE  Process(p)!SupNext
    <3>1. Process(p)!Signal(p)
      BY <1>3, <2>3 DEF Process!Signal
    <3> QED
      BY <3>1 DEF Process!SupNext
  <2>4. CASE proc[p] = "up" /\ proc'[p] \in {"term", "kill"}
    <3>1. <<"none", proc'[p]>> \in Process(p)!Stronger
      BY <2>4 DEF Process!Stronger
    <3>2. Running(p) = {<<p, "none">>} /\ Running(p)' = {<<p, proc'[p]>>}
      BY <2>4 DEF Running
    <3> QED
      BY <2>3, <2>4, <3>1, <3>2
  <2>5. CASE proc[p] = "term" /\ proc'[p] = "kill"
    <3>1. <<"term", "kill">> \in Process(p)!Stronger
      BY DEF Process!Stronger
    <3>2. Running(p) = {<<p, "term">>} /\ Running(p)' = {<<p, "kill">>}
      BY <2>5 DEF Running
    <3> QED
      BY <2>3, <3>1, <3>2
  <2> QED
    BY <2>1, <2>2, <2>4, <2>5
<1>4. ASSUME UNCHANGED proc, Returned => Returned'
      PROVE  Process(p)!SupNext \/ UNCHANGED <<Running(p), Returned>>
  <2>1. Running(p)' = Running(p)
    BY <1>4 DEF Running
  <2>2. CASE Returned'
    <3>1. proc[p] \in {"down", "kill"}
      BY <1>4, <2>2 DEF CleanInv, Ended, Returned
    <3>2. Running(p) \subseteq Proc \X {"kill"}
      BY <3>1 DEF Running
    <3> QED
      BY <2>1, <2>2, <3>2 DEF Process!SupNext, Process!Return
  <2>3. CASE ~Returned'
    BY <1>4, <2>1, <2>3 DEF Returned
  <2> QED
    BY <2>2, <2>3
<1> QED
  BY <1>1, <1>2, <1>3, <1>4, ProcSteps

\* Supervises: each child of the plugin is a supervised process, for any number
\* of handlers that stop it beside manageChild and Run.
THEOREM ChildrenSupervised == Spec => Supervises
<1>1. Init => Byedpi!SupInit /\ Tun2socks!SupInit
  BY DEF Init, Byedpi!SupInit, Tun2socks!SupInit, Running, Returned, Proc
<1>2. TypeInv /\ CleanInv' /\ [Next]_vars
        => [Byedpi!SupNext]_<<Running("byedpi"), Returned>>
  <2>1. Process("byedpi")!SupNext <=> Byedpi!SupNext
    BY DEF Process!SupNext, Process!Spawn, Process!Signal, Process!Stronger, Process!Exit,
           Process!Return, Byedpi!SupNext, Byedpi!Spawn, Byedpi!Signal, Byedpi!Stronger,
           Byedpi!Exit, Byedpi!Return
  <2> QED
    BY <2>1, StepIsProcessStep, "byedpi" \in Proc DEF Proc
<1>3. TypeInv /\ CleanInv' /\ [Next]_vars
        => [Tun2socks!SupNext]_<<Running("tun2socks"), Returned>>
  <2>1. Process("tun2socks")!SupNext <=> Tun2socks!SupNext
    BY DEF Process!SupNext, Process!Spawn, Process!Signal, Process!Stronger, Process!Exit,
           Process!Return, Tun2socks!SupNext, Tun2socks!Spawn, Tun2socks!Signal,
           Tun2socks!Stronger, Tun2socks!Exit, Tun2socks!Return
  <2> QED
    BY <2>1, StepIsProcessStep, "tun2socks" \in Proc DEF Proc
<1> QED
  BY <1>1, <1>2, <1>3, TypeCorrect, CleanAlways, PTL
     DEF Spec, Supervises, Byedpi!SupSpec, Tun2socks!SupSpec
=============================================================================
