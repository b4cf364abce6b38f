-------------------------- MODULE RelayProcProofs ---------------------------
(***************************************************************************)
(* Theorems about RelayProc, for any number of handlers, spawns, edits,    *)
(* restarts and crashes.                                                   *)
(***************************************************************************)
EXTENDS RelayProc, TLAPS

USE DEF NoChild, Child

LEMMA StoppersAre ==
  /\ Manager \in Stoppers /\ Run \in Stoppers
  /\ \A h \in Handlers : h \in Stoppers /\ h # Manager /\ h # Run
  /\ Manager # Run
BY RelayAssumption DEF Stoppers

\* Signal and StopBegin keep the types.
LEMMA SignalType ==
  ASSUME TypeOK, NEW n \in Child, NEW what \in {"term", "kill"}, Signal(n, what)
  PROVE  sig' \in [Child -> {"none", "term", "kill"}]
BY DEF TypeOK, Signal

LEMMA StopBeginType ==
  ASSUME TypeOK, NEW s \in Stoppers, StopBegin(s)
  PROVE  /\ scmd' \in [Stoppers -> 0 .. MaxSpawns]
         /\ spc' \in [Stoppers -> {"idle", "term", "kill", "done"}]
         /\ sig' \in [Child -> {"none", "term", "kill"}]
         /\ \A t \in Stoppers : spc'[t] \in {"term", "kill"} => scmd'[t] # 0
<1>1. CASE cmd = 0
  BY <1>1 DEF StopBegin, TypeOK
<1>2. CASE cmd # 0
  <2>1. cmd \in Child /\ Signal(cmd, "term")
    BY <1>2, RelayAssumption DEF StopBegin, TypeOK
  <2>2. sig' \in [Child -> {"none", "term", "kill"}]
    BY <2>1, SignalType
  <2> QED
    BY <1>2, <2>2 DEF StopBegin, TypeOK
<1> QED
  BY <1>1, <1>2

\* Counting a restart or a crash stays within the bounds.
LEMMA EventTypes ==
  ASSUME TypeOK
  PROVE  /\ events.restarts < MaxRestarts =>
              [events EXCEPT !.restarts = @ + 1]
                \in [restarts : 0 .. MaxRestarts, crashes : 0 .. MaxCrashes]
         /\ events.crashes < MaxCrashes =>
              [events EXCEPT !.crashes = @ + 1]
                \in [restarts : 0 .. MaxRestarts, crashes : 0 .. MaxCrashes]
<1>1. /\ events = [restarts |-> events.restarts, crashes |-> events.crashes]
      /\ events.restarts \in 0 .. MaxRestarts /\ events.crashes \in 0 .. MaxCrashes
  BY DEF TypeOK
<1>2. events.restarts < MaxRestarts => events.restarts + 1 \in 0 .. MaxRestarts
  BY <1>1, RelayAssumption
<1>3. events.crashes < MaxCrashes => events.crashes + 1 \in 0 .. MaxCrashes
  BY <1>1, RelayAssumption
<1> QED
  BY <1>1, <1>2, <1>3

\* Every variable keeps its type, and no stop that goes on has captured nil.
THEOREM TypeCorrect == Spec => []TypeOK
<1>1. Init => TypeOK
  <2> SUFFICES ASSUME Init PROVE TypeOK
    OBVIOUS
  <2>1. conf \in Config /\ mconf \in Config
    BY RelayAssumption DEF Init, Config
  <2>2. events \in [restarts : 0 .. MaxRestarts, crashes : 0 .. MaxCrashes]
    BY RelayAssumption DEF Init
  <2>3. reload \in BOOLEAN /\ ctxDone \in BOOLEAN
    BY DEF Init
  <2> QED
    BY <2>1, <2>2, <2>3, RelayAssumption DEF Init, TypeOK
<1>2. TypeOK /\ [Next]_vars => TypeOK'
  <2> SUFFICES ASSUME TypeOK, [Next]_vars PROVE TypeOK'
    OBVIOUS
  <2> USE StoppersAre DEF stops, procs
  <2>1. CASE MgrTop
    <3>1. CASE ctxDone
      BY <2>1, <3>1 DEF MgrTop, TypeOK
    <3>2. CASE ~ctxDone /\ conf.on
      BY <2>1, <3>2 DEF MgrTop, TypeOK
    <3>3. CASE ~ctxDone /\ ~conf.on
      <4>1. StopBegin(Manager) /\ mpc' = "stop" /\ mconf' = conf
        BY <2>1, <3>3 DEF MgrTop
      <4> QED
        BY <2>1, <4>1, StopBeginType DEF MgrTop, TypeOK
    <3> QED
      BY <3>1, <3>2, <3>3
  <2>2. CASE MgrStart
    <3>1. CASE cmd # 0
      BY <2>2, <3>1 DEF MgrStart, TypeOK
    <3>2. CASE cmd = 0
      <4>1. spawned + 1 \in Child /\ spawned + 1 \in 0 .. MaxSpawns
        BY <2>2, <3>2, RelayAssumption DEF MgrStart, TypeOK
      <4>2. mconf.rev \in 0 .. MaxEdits
        BY DEF TypeOK, Config
      <4>3. late' \in 0 .. MaxSpawns
        BY <2>2, <3>2, <4>1 DEF MgrStart, TypeOK
      <4> QED
        BY <2>2, <3>2, <4>1, <4>2, <4>3 DEF MgrStart, TypeOK
    <3> QED
      BY <3>1, <3>2
  <2>3. CASE MgrRefused
    BY <2>3 DEF MgrRefused, TypeOK
  <2>4. CASE MgrReload
    <3>1. StopBegin(Manager)
      BY <2>4 DEF MgrReload
    <3> QED
      BY <2>4, <3>1, StopBeginType DEF MgrReload, TypeOK
  <2>5. CASE MgrWatched
    BY <2>5 DEF MgrWatched, TypeOK
  <2>6. CASE MgrStopped
    BY <2>6 DEF MgrStopped, Stopped, TypeOK
  <2>7. CASE MgrPause
    BY <2>7 DEF MgrPause, TypeOK
  <2>8. ASSUME NEW s \in Stoppers, StopKill(s) PROVE TypeOK'
    <3>1. scmd[s] \in Child
      BY <2>8, RelayAssumption DEF StopKill, TypeOK
    <3>2. sig' \in [Child -> {"none", "term", "kill"}]
      BY <2>8, <3>1, SignalType DEF StopKill
    <3> QED
      BY <2>8, <3>2 DEF StopKill, TypeOK
  <2>9. ASSUME NEW s \in Stoppers, StopReturn(s) PROVE TypeOK'
    BY <2>9 DEF StopReturn, TypeOK
  <2>10. CASE RunStop
    <3>1. StopBegin(Run)
      BY <2>10 DEF RunStop
    <3> QED
      BY <2>10, <3>1, StopBeginType DEF RunStop, TypeOK
  <2>11. CASE RunReturn
    BY <2>11 DEF RunReturn, Stopped, TypeOK
  <2>12. ASSUME NEW h \in Handlers, Edit(h) PROVE TypeOK'
    <3>1. PICK b \in BOOLEAN : conf' = [on |-> b, rev |-> conf.rev + 1]
      BY <2>12 DEF Edit
    <3>2. conf.rev + 1 \in 0 .. MaxEdits
      BY <2>12, RelayAssumption DEF Edit, TypeOK, Config
    <3>3. conf' \in Config
      BY <3>1, <3>2 DEF Config
    <3>4. hpc' \in [Handlers -> {"idle", "stop", "reload"}]
      BY <2>12 DEF Edit, TypeOK
    <3>5. UNCHANGED <<ctxDone, reload, mpc, mconf, runpc, stops, procs, late, events>>
      BY <2>12 DEF Edit
    <3> QED
      BY <3>3, <3>4, <3>5 DEF TypeOK
  <2>13. ASSUME NEW h \in Handlers, Restart(h) PROVE TypeOK'
    <3>1. StopBegin(h)
      BY <2>13 DEF Restart
    <3>2. events' \in [restarts : 0 .. MaxRestarts, crashes : 0 .. MaxCrashes]
      BY <2>13, EventTypes DEF Restart
    <3> QED
      BY <2>13, <3>1, <3>2, StopBeginType DEF Restart, TypeOK
  <2>14. ASSUME NEW h \in Handlers, RestartStopped(h) PROVE TypeOK'
    BY <2>14 DEF RestartStopped, Stopped, TypeOK
  <2>15. ASSUME NEW h \in Handlers, Reload(h) PROVE TypeOK'
    BY <2>15 DEF Reload, TypeOK
  <2>16. ASSUME NEW n \in Child, Exit(n) PROVE TypeOK'
    <3>1. events' \in [restarts : 0 .. MaxRestarts, crashes : 0 .. MaxCrashes]
      BY <2>16, EventTypes DEF Exit, TypeOK
    <3> QED
      BY <2>16, <3>1 DEF Exit, TypeOK
  <2>17. ASSUME NEW n \in Child, Wait(n) PROVE TypeOK'
    BY <2>17, RelayAssumption DEF Wait, TypeOK
  <2>18. CASE Cancel
    BY <2>18 DEF Cancel, TypeOK
  <2>19. CASE UNCHANGED vars
    BY <2>19 DEF vars, TypeOK
  <2> QED
    BY <2>1, <2>2, <2>3, <2>4, <2>5, <2>6, <2>7, <2>8, <2>9, <2>10, <2>11,
       <2>12, <2>13, <2>14, <2>15, <2>16, <2>17, <2>18, <2>19
    DEF Next, Manage, Loop, Handle
<1> QED
  BY <1>1, <1>2, PTL DEF Spec
-----------------------------------------------------------------------------
(* Only the child that s.cmd names has not been waited for.                *)

OnlyCurrent ==
  /\ cmd \in {0, spawned}
  /\ \A n \in Child : child[n] \in {"up", "dead"} <=> n = cmd
  /\ late <= spawned

\* How a step can change the children: a spawn, an exit, a wait, or not at all.
LEMMA ChildStep ==
  ASSUME TypeOK, [Next]_vars
  PROVE  \/ MgrStart /\ cmd = 0
         \/ \E n \in Child : Exit(n) \/ Wait(n)
         \/ UNCHANGED <<cmd, spawned, child, ran, late>>
<1> DEFINE Same == UNCHANGED <<cmd, spawned, child, ran, late>>
<1> USE DEF procs, stops
<1>1. CASE MgrStart
  BY <1>1 DEF MgrStart
<1>2. CASE Manage
  <2>1. MgrTop => Same
    BY DEF MgrTop
  <2>2. MgrReload \/ MgrWatched \/ MgrStopped \/ MgrPause => Same
    BY DEF MgrReload, MgrWatched, MgrStopped, MgrPause
  <2>3. StopKill(Manager) \/ StopReturn(Manager) => Same
    BY DEF StopKill, StopReturn
  <2> QED
    BY <1>2, <2>1, <2>2, <2>3 DEF Manage
<1>3. CASE MgrRefused \/ Loop
  BY <1>3 DEF MgrRefused, Loop, RunStop, RunReturn, StopKill, StopReturn
<1>4. ASSUME NEW h \in Handlers, Edit(h) \/ Restart(h) \/ Handle(h) PROVE Same
  BY <1>4 DEF Edit, Restart, Handle, RestartStopped, Reload, StopKill, StopReturn
<1>5. CASE Cancel \/ UNCHANGED vars
  BY <1>5 DEF Cancel, vars
<1> QED
  BY <1>1, <1>2, <1>3, <1>4, <1>5 DEF Next

\* The child that s.cmd names can still be signalled.
LEMMA CurrentThere ==
  ASSUME TypeOK, OnlyCurrent, cmd # 0
  PROVE  cmd \in Child /\ child[cmd] # "gone"
<1>1. cmd \in Child
  BY RelayAssumption DEF TypeOK
<1>2. child[cmd] \in {"up", "dead"}
  BY <1>1 DEF OnlyCurrent
<1> QED
  BY <1>1, <1>2

LEMMA OnlyCurrentInv == Spec => []OnlyCurrent
<1>1. Init => OnlyCurrent
  BY RelayAssumption DEF Init, OnlyCurrent
<1>2. TypeOK /\ OnlyCurrent /\ [Next]_vars => OnlyCurrent'
  <2> SUFFICES ASSUME TypeOK, OnlyCurrent, [Next]_vars PROVE OnlyCurrent'
    OBVIOUS
  <2>1. CASE MgrStart /\ cmd = 0
    <3>1. /\ spawned + 1 \in Child /\ spawned' = spawned + 1 /\ cmd' = spawned + 1
          /\ child' = [child EXCEPT ![spawned + 1] = "up"]
      BY <2>1, RelayAssumption DEF MgrStart, TypeOK
    <3>2. late' <= spawned'
      BY <2>1, RelayAssumption DEF MgrStart, TypeOK, OnlyCurrent
    <3> QED
      BY <2>1, <3>1, <3>2 DEF OnlyCurrent, TypeOK
  <2>2. ASSUME NEW n \in Child, Exit(n) PROVE OnlyCurrent'
    BY <2>2 DEF Exit, OnlyCurrent, TypeOK
  <2>3. ASSUME NEW n \in Child, Wait(n) PROVE OnlyCurrent'
    BY <2>3 DEF Wait, OnlyCurrent, TypeOK
  <2>4. CASE UNCHANGED <<cmd, spawned, child, ran, late>>
    BY <2>4 DEF OnlyCurrent
  <2> QED
    BY <2>1, <2>2, <2>3, <2>4, ChildStep
<1> QED
  BY <1>1, <1>2, TypeCorrect, PTL DEF Spec

\* Never two relay children, whoever stops, starts and reloads.
THEOREM AtMostOneRelay == Spec => []OneRelay
<1>1. OnlyCurrent => OneRelay
  BY DEF OnlyCurrent, OneRelay
<1> QED
  BY <1>1, OnlyCurrentInv, PTL
-----------------------------------------------------------------------------
(* The relay implements Supervised.  A child not yet spawned was never sent *)
(* a signal, because no stop can have captured it.                         *)
Unspawned ==
  /\ \A n \in Child : n > spawned => child[n] = "none" /\ sig[n] = "none"
  /\ \A s \in Stoppers : scmd[s] <= spawned

Procs == {<<n, sig[n]>> : n \in {m \in Child : child[m] = "up"}}

\* A step that sends a signal sends it to a child that has been spawned.
Signalled ==
  \E n \in Child : \E what \in {"term", "kill"} : n <= spawned /\ Signal(n, what)

LEMMA BeginSignals ==
  ASSUME TypeOK, OnlyCurrent, NEW s \in Stoppers, StopBegin(s)
  PROVE  UNCHANGED sig \/ Signalled
<1>1. CASE cmd # 0
  <2>1. cmd \in Child /\ cmd <= spawned
    BY <1>1, RelayAssumption DEF TypeOK, OnlyCurrent
  <2> QED
    BY <1>1, <2>1 DEF StopBegin, Signalled
<1> QED
  BY <1>1 DEF StopBegin

\* A step that signals leaves the children as they are.
LEMMA SignalSteps ==
  ASSUME TypeOK, OnlyCurrent, Unspawned, [Next]_vars
  PROVE  \/ UNCHANGED sig
         \/ Signalled /\ UNCHANGED <<cmd, spawned, child, ran, late>>
<1> USE StoppersAre DEF procs, stops
<1>1. ASSUME NEW s \in Stoppers, StopKill(s)
      PROVE  Signalled /\ UNCHANGED <<cmd, spawned, child, ran, late>>
  <2>1. scmd[s] \in Child /\ scmd[s] <= spawned
    BY <1>1, RelayAssumption DEF StopKill, TypeOK, Unspawned
  <2> QED
    BY <1>1, <2>1 DEF StopKill, Signalled
<1>2. ASSUME NEW s \in Stoppers, StopReturn(s) PROVE UNCHANGED sig
  BY <1>2 DEF StopReturn
<1>3. CASE MgrTop
  BY <1>3, BeginSignals DEF MgrTop
<1>4. CASE MgrReload
  BY <1>4, BeginSignals DEF MgrReload
<1>5. CASE RunStop
  BY <1>5, BeginSignals DEF RunStop
<1>6. ASSUME NEW h \in Handlers, Restart(h)
      PROVE  \/ UNCHANGED sig
             \/ Signalled /\ UNCHANGED <<cmd, spawned, child, ran, late>>
  BY <1>6, BeginSignals DEF Restart
<1>7. CASE MgrWatched \/ MgrStopped \/ MgrPause \/ MgrStart \/ MgrRefused \/ RunReturn \/ Cancel
  BY <1>7 DEF MgrWatched, MgrStopped, MgrPause, MgrStart, MgrRefused, RunReturn, Cancel
<1>8. ASSUME NEW h \in Handlers, Edit(h) \/ RestartStopped(h) \/ Reload(h)
      PROVE  UNCHANGED sig
  BY <1>8 DEF Edit, RestartStopped, Reload
<1>9. ASSUME NEW n \in Child, Exit(n) \/ Wait(n) PROVE UNCHANGED sig
  BY <1>9 DEF Exit, Wait
<1>10. CASE UNCHANGED vars
  BY <1>10 DEF vars
<1> QED
  BY <1>1, <1>2, <1>3, <1>4, <1>5, <1>6, <1>7, <1>8, <1>9, <1>10
     DEF Next, Manage, Loop, Handle

\* What a stop has captured was the current child at some time.
LEMMA CapturedSpawned ==
  ASSUME TypeOK, OnlyCurrent, Unspawned, [Next]_vars
  PROVE  \A s \in Stoppers : scmd'[s] \in {scmd[s], cmd}
<1> USE StoppersAre DEF procs, stops
<1>1. ASSUME NEW s \in Stoppers, StopBegin(s) PROVE \A r \in Stoppers : scmd'[r] \in {scmd[r], cmd}
  BY <1>1 DEF StopBegin, TypeOK
<1>2. MgrTop \/ MgrReload \/ RunStop => UNCHANGED stops \/ \E s \in Stoppers : StopBegin(s)
  BY DEF MgrTop, MgrReload, RunStop
<1>3. ASSUME NEW h \in Handlers, Restart(h) PROVE StopBegin(h)
  BY <1>3 DEF Restart
<1>4. ASSUME NEW s \in Stoppers, StopKill(s) \/ StopReturn(s) PROVE UNCHANGED scmd
  BY <1>4 DEF StopKill, StopReturn
<1>5. CASE MgrWatched \/ MgrStopped \/ MgrPause \/ MgrStart \/ MgrRefused \/ RunReturn \/ Cancel
  BY <1>5 DEF MgrWatched, MgrStopped, MgrPause, MgrStart, MgrRefused, RunReturn, Cancel
<1>6. ASSUME NEW h \in Handlers, Edit(h) \/ RestartStopped(h) \/ Reload(h) PROVE UNCHANGED scmd
  BY <1>6 DEF Edit, RestartStopped, Reload
<1>7. ASSUME NEW n \in Child, Exit(n) \/ Wait(n) PROVE UNCHANGED scmd
  BY <1>7 DEF Exit, Wait
<1>8. CASE UNCHANGED vars
  BY <1>8 DEF vars
<1> QED
  BY <1>1, <1>2, <1>3, <1>4, <1>5, <1>6, <1>7, <1>8 DEF Next, Manage, Loop, Handle

LEMMA UnspawnedInv == Spec => []Unspawned
<1>1. Init => Unspawned
  BY DEF Init, Unspawned
<1>2. TypeOK /\ OnlyCurrent /\ Unspawned /\ [Next]_vars => Unspawned'
  <2> SUFFICES ASSUME TypeOK, OnlyCurrent, Unspawned, [Next]_vars PROVE Unspawned'
    OBVIOUS
  <2>1. spawned' \in {spawned, spawned + 1}
    BY ChildStep DEF MgrStart, Exit, Wait
  <2>2. \A s \in Stoppers : scmd'[s] <= spawned'
    <3>1. \A s \in Stoppers : scmd'[s] \in {scmd[s], cmd}
      BY CapturedSpawned
    <3>2. /\ spawned \in Nat /\ cmd \in {0, spawned}
          /\ \A s \in Stoppers : scmd[s] <= spawned /\ scmd[s] \in Nat
      BY RelayAssumption DEF TypeOK, OnlyCurrent, Unspawned
    <3> QED
      BY <2>1, <3>1, <3>2
  <2>3. ASSUME NEW n \in Child, n > spawned' PROVE child'[n] = "none" /\ sig'[n] = "none"
    <3>1. n > spawned
      BY <2>1, <2>3 DEF TypeOK, Child
    <3>2. child[n] = "none" /\ sig[n] = "none"
      BY <3>1 DEF Unspawned
    <3>3. child'[n] = "none"
      <4>1. CASE MgrStart /\ cmd = 0
        <5>1. child' = [child EXCEPT ![spawned'] = "up"] /\ n # spawned'
          BY <2>3, <4>1, RelayAssumption DEF MgrStart, TypeOK, Child
        <5> QED
          BY <3>2, <5>1 DEF TypeOK
      <4>2. ASSUME NEW k \in Child, Exit(k) \/ Wait(k) PROVE child'[n] = "none"
        BY <3>2, <4>2 DEF Exit, Wait, TypeOK
      <4> QED
        BY <3>2, <4>1, <4>2, ChildStep
    <3>4. sig'[n] = "none"
      <4>1. UNCHANGED sig \/ Signalled
        BY SignalSteps
      <4>2. ASSUME NEW k \in Child, NEW what, k <= spawned, Signal(k, what)
            PROVE  sig'[n] = "none"
        <5>1. k # n
          BY <3>1, <4>2 DEF TypeOK, Child
        <5> QED
          BY <3>2, <4>2, <5>1 DEF Signal, TypeOK
      <4> QED
        BY <3>2, <4>1, <4>2 DEF Signalled
    <3> QED
      BY <3>3, <3>4
  <2> QED
    BY <2>2, <2>3 DEF Unspawned
<1> QED
  BY <1>1, <1>2, TypeCorrect, OnlyCurrentInv, PTL DEF Spec

\* Each step of the relay supervisor is one of a supervised process, or changes
\* nothing that can be seen of it.
LEMMA StepIsProcessStep ==
  ASSUME TypeOK, OnlyCurrent, Unspawned, [Next]_vars
  PROVE  Process!SupNext \/ UNCHANGED Procs
<1>1. CASE MgrStart /\ cmd = 0
  <2>0. spawned + 1 \in Child
    BY <1>1, RelayAssumption DEF MgrStart, TypeOK
  <2>1. PICK n \in Child : n = spawned + 1
    BY <2>0
  <2>2. child' = [child EXCEPT ![n] = "up"] /\ UNCHANGED sig
    BY <1>1, <2>1 DEF MgrStart
  <2>3. \A k \in Child : child[k] # "up"
    BY <1>1, RelayAssumption DEF OnlyCurrent
  <2>4. Procs = {}
    BY <2>3 DEF Procs
  <2>5. sig[n] = "none"
    BY <2>1 DEF Unspawned, TypeOK, Child
  <2>6. \A k \in Child : child'[k] = "up" <=> k = n
    BY <2>2, <2>3 DEF TypeOK
  <2>7. Procs' = {<<n, "none">>}
    BY <2>2, <2>5, <2>6 DEF Procs
  <2>8. Process!Spawn(n)
    BY <2>4, <2>7 DEF Process!Spawn, Procs
  <2> QED
    BY <2>8 DEF Process!SupNext
<1>2. ASSUME NEW n \in Child, Exit(n) PROVE Process!SupNext
  <2>1. \A k \in Child : child'[k] # "up"
    BY <1>2 DEF Exit, OnlyCurrent, TypeOK
  <2>2. Procs' = {}
    BY <2>1 DEF Procs
  <2> QED
    BY <2>2 DEF Process!SupNext, Process!Exit, Procs
<1>3. ASSUME NEW n \in Child, Wait(n) PROVE UNCHANGED Procs
  <2>1. UNCHANGED sig /\ \A k \in Child : child'[k] = "up" <=> child[k] = "up"
    BY <1>3 DEF Wait, TypeOK
  <2> QED
    BY <2>1 DEF Procs
<1>4. ASSUME NEW n \in Child, NEW what \in {"term", "kill"}, Signal(n, what), UNCHANGED child
      PROVE  Process!SupNext \/ UNCHANGED Procs
  <2>1. CASE child[n] = "up" /\ sig[n] # what /\ sig[n] # "kill"
    <3>1. \A k \in Child : child[k] = "up" <=> k = n
      BY <2>1 DEF OnlyCurrent
    <3>2. Procs = {<<n, sig[n]>>}
      BY <3>1 DEF Procs
    <3>3. sig'[n] = what
      BY <1>4, <2>1 DEF Signal, TypeOK
    <3>4. Procs' = {<<n, what>>}
      BY <1>4, <3>1, <3>3 DEF Procs
    <3>5. <<sig[n], what>> \in Process!Stronger
      BY <2>1 DEF TypeOK, Process!Stronger
    <3>6. Process!Signal(n)
      BY <3>2, <3>4, <3>5 DEF Process!Signal, Procs
    <3> QED
      BY <3>6 DEF Process!SupNext
  <2>2. CASE ~(child[n] = "up" /\ sig[n] # what /\ sig[n] # "kill")
    <3>1. \A k \in Child : child[k] = "up" => sig'[k] = sig[k]
      BY <1>4, <2>2 DEF Signal, TypeOK
    <3> QED
      BY <1>4, <3>1 DEF Procs
  <2> QED
    BY <2>1, <2>2
<1>5. CASE UNCHANGED child /\ UNCHANGED sig
  BY <1>5 DEF Procs
<1> QED
  BY <1>1, <1>2, <1>3, <1>4, <1>5, ChildStep, SignalSteps DEF Signalled

\* The relay is a supervised process, whoever stops, starts and reloads it.
THEOREM RelayImplementsSupervised == Spec => Supervises
<1>1. Init => Process!SupInit
  BY DEF Init, Process!SupInit
<1>2. TypeOK /\ OnlyCurrent /\ Unspawned /\ [Next]_vars
        => [Process!SupNext]_<<Procs, FALSE>>
  BY StepIsProcessStep
<1> QED
  BY <1>1, <1>2, TypeCorrect, OnlyCurrentInv, UnspawnedInv, PTL
     DEF Spec, Supervises, Process!SupSpec, Procs
-----------------------------------------------------------------------------
(* manageChild never settles on a config that has changed without an       *)
(* announcement, nor on a child it has not started for that config.        *)

Knows == mconf = conf \/ Announced
Doomed == cmd # 0 => sig[cmd] = "kill"

MgrSafe ==
  /\ mpc = "stop" <=> spc[Manager] # "idle"
  /\ mpc = "stop" => /\ cmd \in {0, scmd[Manager]}
                     /\ spc[Manager] \in {"kill", "done"} => Doomed
                     /\ ~mconf.on => Knows
  /\ mpc = "top" => Doomed \/ ctxDone
  /\ mpc \in {"start", "pause"} => Doomed /\ Knows
  /\ mpc = "start" => mconf.on
  /\ mpc = "watch" => /\ mconf.on /\ Knows
                      /\ Doomed \/ ran[cmd] = mconf.rev

MgrStep == Manage \/ MgrStart \/ MgrRefused

\* SIGKILL is never taken back.
LEMMA KillsStay ==
  ASSUME TypeOK, [Next]_vars, NEW n \in Child, sig[n] = "kill"
  PROVE  sig'[n] = "kill"
<1> USE StoppersAre DEF procs, stops
<1>1. ASSUME NEW s \in Stoppers, StopBegin(s) PROVE sig'[n] = "kill"
  BY <1>1 DEF StopBegin, Signal, TypeOK
<1>2. ASSUME NEW s \in Stoppers, StopKill(s) \/ StopReturn(s) PROVE sig'[n] = "kill"
  BY <1>2 DEF StopKill, StopReturn, Signal, TypeOK
<1>3. CASE Manage
  <2>1. CASE MgrTop
    <3>1. UNCHANGED sig \/ StopBegin(Manager)
      BY <2>1 DEF MgrTop
    <3> QED
      BY <3>1, <1>1
  <2>2. CASE MgrReload
    BY <2>2, <1>1 DEF MgrReload
  <2>3. CASE MgrWatched \/ MgrStopped \/ MgrPause
    BY <2>3 DEF MgrWatched, MgrStopped, MgrPause
  <2> QED
    BY <1>3, <1>2, <2>1, <2>2, <2>3 DEF Manage
<1>4. CASE MgrStart \/ MgrRefused
  BY <1>4 DEF MgrStart, MgrRefused
<1>5. CASE Loop
  <2>1. CASE RunStop
    BY <2>1, <1>1 DEF RunStop
  <2>2. CASE RunReturn
    BY <2>2 DEF RunReturn
  <2> QED
    BY <1>5, <1>2, <2>1, <2>2 DEF Loop
<1>6. ASSUME NEW h \in Handlers, Edit(h) \/ Restart(h) \/ Handle(h)
      PROVE  sig'[n] = "kill"
  <2>1. CASE Restart(h)
    BY <2>1, <1>1 DEF Restart
  <2>2. CASE Edit(h) \/ RestartStopped(h) \/ Reload(h)
    BY <2>2 DEF Edit, RestartStopped, Reload
  <2> QED
    BY <1>6, <1>2, <2>1, <2>2 DEF Handle
<1>7. CASE (\E m \in Child : Exit(m) \/ Wait(m)) \/ Cancel \/ UNCHANGED vars
  BY <1>7 DEF Exit, Wait, Cancel, vars
<1> QED
  BY <1>3, <1>4, <1>5, <1>6, <1>7 DEF Next

\* What everybody but manageChild leaves alone, and what they announce.
LEMMA OtherStep ==
  ASSUME TypeOK, [Next]_vars, ~MgrStep
  PROVE  /\ UNCHANGED <<mpc, mconf, ran>>
         /\ spc'[Manager] = spc[Manager] /\ scmd'[Manager] = scmd[Manager]
         /\ cmd' \in {0, cmd}
         /\ ctxDone => ctxDone'
         /\ Announced => Announced'
         /\ conf' = conf \/ Announced'
<1> DEFINE Goal == /\ UNCHANGED <<mpc, mconf, ran>>
                   /\ spc'[Manager] = spc[Manager] /\ scmd'[Manager] = scmd[Manager]
                   /\ cmd' \in {0, cmd}
                   /\ ctxDone => ctxDone'
                   /\ Announced => Announced'
                   /\ conf' = conf \/ Announced'
<1> USE StoppersAre DEF procs, stops, Announced
<1>1. CASE Loop
  <2>1. CASE RunStop
    BY <2>1 DEF RunStop, StopBegin, TypeOK
  <2>2. CASE RunReturn
    BY <2>2 DEF RunReturn, Stopped, TypeOK
  <2>3. CASE StopKill(Run) \/ StopReturn(Run)
    BY <2>3 DEF StopKill, StopReturn, TypeOK
  <2> QED
    BY <1>1, <2>1, <2>2, <2>3 DEF Loop
<1>2. ASSUME NEW h \in Handlers, Edit(h) PROVE Goal
  <2>1. hpc'[h] = "reload"
    BY <1>2 DEF Edit, TypeOK
  <2> QED
    BY <1>2, <2>1 DEF Edit
<1>3. ASSUME NEW h \in Handlers, Restart(h) PROVE Goal
  <2>1. \A g \in Handlers : hpc[g] = "reload" => hpc'[g] = "reload"
    BY <1>3 DEF Restart, TypeOK
  <2>2. spc'[Manager] = spc[Manager] /\ scmd'[Manager] = scmd[Manager]
    BY <1>3 DEF Restart, StopBegin, TypeOK
  <2> QED
    BY <1>3, <2>1, <2>2 DEF Restart
<1>4. ASSUME NEW h \in Handlers, RestartStopped(h) PROVE Goal
  <2>1. \A g \in Handlers : hpc[g] = "reload" => hpc'[g] = "reload"
    BY <1>4 DEF RestartStopped, TypeOK
  <2> QED
    BY <1>4, <2>1 DEF RestartStopped, Stopped, TypeOK
<1>5. ASSUME NEW h \in Handlers, Reload(h) PROVE Goal
  BY <1>5 DEF Reload
<1>6. ASSUME NEW h \in Handlers, StopKill(h) \/ StopReturn(h) PROVE Goal
  BY <1>6 DEF StopKill, StopReturn, TypeOK
<1>7. CASE (\E m \in Child : Exit(m) \/ Wait(m)) \/ Cancel \/ UNCHANGED vars
  BY <1>7 DEF Exit, Wait, Cancel, vars
<1> QED
  BY <1>1, <1>2, <1>3, <1>4, <1>5, <1>6, <1>7 DEF Next, Handle, MgrStep

LEMMA MgrSafeInv == Spec => []MgrSafe
<1> USE StoppersAre DEF procs, stops
<1>1. Init => MgrSafe
  BY DEF Init, MgrSafe, Doomed
<1>2. TypeOK /\ OnlyCurrent /\ MgrSafe /\ TypeOK' /\ [Next]_vars => MgrSafe'
  <2> SUFFICES ASSUME TypeOK, OnlyCurrent, MgrSafe, TypeOK', [Next]_vars
               PROVE  MgrSafe'
    OBVIOUS
  <2>1. CASE ~MgrStep
    <3>1. cmd \in 0 .. MaxSpawns /\ cmd' \in {0, cmd}
      BY <2>1, OtherStep DEF TypeOK
    <3>2. Doomed => Doomed'
      BY <3>1, KillsStay DEF Doomed
    <3>3. Knows => Knows'
      BY <2>1, OtherStep DEF Knows
    <3>4. ran[cmd] = mconf.rev => Doomed' \/ ran'[cmd'] = mconf'.rev
      BY <2>1, <3>1, OtherStep DEF Doomed
    <3> QED
      BY <2>1, <3>1, <3>2, <3>3, <3>4, OtherStep DEF MgrSafe
  <2>2. CASE MgrTop
    <3>1. CASE ctxDone
      BY <2>2, <3>1 DEF MgrTop, MgrSafe, Doomed
    <3>2. CASE ~ctxDone /\ conf.on
      <4>1. Doomed' /\ Knows' /\ mpc' = "start" /\ mconf'.on /\ mpc = "top"
            /\ spc' = spc
        BY <2>2, <3>2 DEF MgrTop, MgrSafe, Doomed, Knows
      <4> QED
        BY <4>1 DEF MgrSafe
    <3>3. CASE ~ctxDone /\ ~conf.on
      <4>1. /\ mpc' = "stop" /\ cmd' = cmd /\ mconf' = conf' /\ mpc = "top"
            /\ StopBegin(Manager)
        BY <2>2, <3>3 DEF MgrTop
      <4>2. /\ scmd'[Manager] = cmd
            /\ IF cmd = 0 THEN spc'[Manager] = "done" ELSE spc'[Manager] = "term"
        BY <4>1 DEF StopBegin, TypeOK
      <4> QED
        BY <4>1, <4>2 DEF MgrSafe, Doomed, Knows
    <3> QED
      BY <3>1, <3>2, <3>3
  <2>3. CASE MgrStart
    <3>1. mpc' = "watch" /\ mpc = "start" /\ mconf' = mconf /\ spc' = spc
          /\ sig' = sig /\ Knows' /\ mconf.on
      BY <2>3 DEF MgrStart, MgrSafe, Knows, Announced
    <3>2. CASE cmd # 0
      BY <2>3, <3>1, <3>2 DEF MgrStart, MgrSafe, Doomed
    <3>3. CASE cmd = 0
      <4>1. spawned + 1 \in Child /\ cmd' = spawned + 1
        BY <2>3, <3>3, RelayAssumption DEF MgrStart, TypeOK
      <4>2. ran'[cmd'] = mconf'.rev
        BY <2>3, <3>1, <3>3, <4>1 DEF MgrStart, TypeOK
      <4> QED
        BY <3>1, <4>2 DEF MgrSafe
    <3> QED
      BY <3>2, <3>3
  <2>4. CASE MgrRefused
    BY <2>4 DEF MgrRefused, MgrSafe, Doomed, Knows, Announced
  <2>5. CASE MgrReload
    <3>1. /\ mpc' = "stop" /\ cmd' = cmd /\ mconf'.on /\ mpc = "watch"
          /\ StopBegin(Manager)
      BY <2>5 DEF MgrReload, MgrSafe
    <3>2. /\ scmd'[Manager] = cmd
          /\ IF cmd = 0 THEN spc'[Manager] = "done" ELSE spc'[Manager] = "term"
      BY <3>1 DEF StopBegin, TypeOK
    <3> QED
      BY <3>1, <3>2 DEF MgrSafe, Doomed
  <2>6. CASE MgrWatched
    BY <2>6 DEF MgrWatched, MgrSafe, Doomed
  <2>7. CASE MgrStopped
    <3>1. Doomed' /\ mpc = "stop" /\ mpc' \in {"top", "pause"} /\ spc'[Manager] = "idle"
      BY <2>7 DEF MgrStopped, Stopped, MgrSafe, Doomed, TypeOK
    <3>2. mpc' = "pause" => Knows'
      BY <2>7 DEF MgrStopped, MgrSafe, Knows, Announced
    <3> QED
      BY <3>1, <3>2 DEF MgrSafe
  <2>8. CASE MgrPause
    BY <2>8 DEF MgrPause, MgrSafe, Doomed
  <2>9. CASE StopKill(Manager)
    <3>1. /\ spc[Manager] = "term" /\ spc'[Manager] = "kill" /\ scmd' = scmd
          /\ cmd' = cmd /\ mpc' = mpc /\ mconf' = mconf /\ mpc = "stop"
          /\ Knows => Knows'
      BY <2>9 DEF StopKill, TypeOK, MgrSafe, Knows, Announced
    <3>2. Doomed'
      <4>1. cmd # 0 => cmd = scmd[Manager] /\ cmd \in Child /\ child[cmd] # "gone"
        BY <3>1, CurrentThere DEF MgrSafe
      <4> QED
        BY <2>9, <3>1, <4>1 DEF StopKill, Signal, Doomed, TypeOK
    <3> QED
      BY <3>1, <3>2 DEF MgrSafe
  <2>10. CASE StopReturn(Manager)
    <3>1. /\ spc[Manager] \in {"term", "kill"} /\ spc'[Manager] = "done"
          /\ scmd' = scmd /\ cmd' = cmd /\ sig' = sig
          /\ mpc' = mpc /\ mconf' = mconf /\ mpc = "stop"
          /\ Knows => Knows'
      BY <2>10 DEF StopReturn, TypeOK, MgrSafe, Knows, Announced
    <3>2. Doomed
      <4>1. CASE spc[Manager] = "kill"
        BY <3>1, <4>1 DEF MgrSafe
      <4>2. CASE spc[Manager] = "term"
        <5>1. child[scmd[Manager]] = "gone"
          BY <2>10, <4>2 DEF StopReturn
        <5>2. cmd # 0 => cmd \in Child /\ child[cmd] # "gone"
          BY CurrentThere
        <5> QED
          BY <3>1, <5>1, <5>2 DEF MgrSafe, Doomed
      <4> QED
        BY <3>1, <4>1, <4>2
    <3> QED
      BY <3>1, <3>2 DEF MgrSafe, Doomed
  <2> QED
    BY <2>1, <2>2, <2>3, <2>4, <2>5, <2>6, <2>7, <2>8, <2>9, <2>10
    DEF MgrStep, Manage
<1> QED
  BY <1>1, <1>2, TypeCorrect, OnlyCurrentInv, PTL DEF Spec

\* A child left in peace runs the newest config, or a reload is on its way: no
\* announcement is lost between loading, starting and watching.
THEOREM NoLostReload == Spec => []NoStaleRelay
<1>1. TypeOK /\ MgrSafe => NoStaleRelay
  <2> SUFFICES ASSUME TypeOK, MgrSafe, mpc \in {"watch", "pause"}, cmd # 0,
                      sig[cmd] = "none", ~Announced
               PROVE  conf = [on |-> TRUE, rev |-> ran[cmd]]
    BY DEF NoStaleRelay
  <2>1. mpc = "watch" /\ mconf = conf /\ mconf.on /\ ran[cmd] = mconf.rev
    BY DEF MgrSafe, Doomed, Knows
  <2>2. conf = [on |-> conf.on, rev |-> conf.rev] /\ conf.on \in BOOLEAN
    BY DEF TypeOK, Config
  <2> QED
    BY <2>1, <2>2
<1> QED
  BY <1>1, TypeCorrect, MgrSafeInv, PTL
-----------------------------------------------------------------------------
(* Run ends what there was when the context was cancelled.                 *)

Ended == \A n \in 1 .. late : child[n] = "up" => sig[n] = "kill"
Caught == \A n \in 1 .. late : child[n] = "up" => n = scmd[Run]

RunSafe ==
  /\ runpc = "stop" <=> spc[Run] # "idle"
  /\ runpc # "loop" => ctxDone
  /\ spc[Run] = "term" => Caught
  /\ spc[Run] \in {"kill", "done"} => Ended
  /\ runpc = "halt" => Ended

\* After the cancellation no child from before it appears.
LEMMA OldOnes ==
  ASSUME TypeOK, OnlyCurrent, [Next]_vars, ctxDone
  PROVE  /\ late' = late
         /\ \A n \in 1 .. late : n \in Child /\ (child'[n] = "up" => child[n] = "up")
<1>1. \A n \in 1 .. late : n \in Child /\ n # spawned + 1
  BY RelayAssumption DEF TypeOK, OnlyCurrent
<1>2. CASE MgrStart /\ cmd = 0
  BY <1>1, <1>2 DEF MgrStart, TypeOK
<1>3. ASSUME NEW m \in Child, Exit(m) \/ Wait(m)
      PROVE  /\ late' = late
             /\ \A n \in 1 .. late : n \in Child /\ (child'[n] = "up" => child[n] = "up")
  <2>1. late' = late /\ (child' = [child EXCEPT ![m] = "dead"]
                         \/ child' = [child EXCEPT ![m] = "gone"])
    BY <1>3 DEF Exit, Wait
  <2> QED
    BY <1>1, <2>1 DEF TypeOK
<1>4. CASE UNCHANGED <<cmd, spawned, child, ran, late>>
  BY <1>1, <1>4
<1> QED
  BY <1>2, <1>3, <1>4, ChildStep

\* Only Run moves Run, and the context stays cancelled.
LEMMA NotRunStep ==
  ASSUME TypeOK, [Next]_vars, ~Loop
  PROVE  /\ runpc' = runpc /\ spc'[Run] = spc[Run] /\ scmd'[Run] = scmd[Run]
         /\ ctxDone => ctxDone'
<1> DEFINE Goal == /\ runpc' = runpc /\ spc'[Run] = spc[Run] /\ scmd'[Run] = scmd[Run]
                   /\ ctxDone => ctxDone'
<1> USE StoppersAre DEF procs, stops
<1>1. CASE MgrTop
  <2>1. (spc' = spc /\ scmd' = scmd) \/ StopBegin(Manager)
    BY <1>1 DEF MgrTop
  <2>2. spc'[Run] = spc[Run] /\ scmd'[Run] = scmd[Run]
    BY <2>1 DEF StopBegin, TypeOK
  <2> QED
    BY <1>1, <2>2 DEF MgrTop
<1>2. CASE MgrReload
  BY <1>2 DEF MgrReload, StopBegin, TypeOK
<1>3. CASE MgrWatched \/ MgrStopped \/ MgrPause \/ MgrStart \/ MgrRefused
  BY <1>3 DEF MgrWatched, MgrStopped, Stopped, MgrPause, MgrStart, MgrRefused, TypeOK
<1>4. ASSUME NEW s \in Stoppers, s # Run, StopKill(s) \/ StopReturn(s) PROVE Goal
  BY <1>4 DEF StopKill, StopReturn, TypeOK
<1>5. ASSUME NEW h \in Handlers, Edit(h) \/ RestartStopped(h) \/ Reload(h) PROVE Goal
  BY <1>5 DEF Edit, RestartStopped, Stopped, Reload, TypeOK
<1>6. ASSUME NEW h \in Handlers, Restart(h) PROVE Goal
  BY <1>6 DEF Restart, StopBegin, TypeOK
<1>7. CASE (\E m \in Child : Exit(m) \/ Wait(m)) \/ Cancel \/ UNCHANGED vars
  BY <1>7 DEF Exit, Wait, Cancel, vars
<1> QED
  BY <1>1, <1>2, <1>3, <1>4, <1>5, <1>6, <1>7 DEF Next, Manage, Handle

LEMMA RunSafeInv == Spec => []RunSafe
<1> USE StoppersAre DEF procs, stops
<1>1. Init => RunSafe
  BY DEF Init, RunSafe
<1>2. TypeOK /\ OnlyCurrent /\ RunSafe /\ [Next]_vars => RunSafe'
  <2> SUFFICES ASSUME TypeOK, OnlyCurrent, RunSafe, [Next]_vars PROVE RunSafe'
    OBVIOUS
  <2>1. ctxDone /\ Ended => Ended'
    BY OldOnes, KillsStay DEF Ended
  <2>2. ctxDone /\ Caught /\ scmd'[Run] = scmd[Run] => Caught'
    BY OldOnes DEF Caught
  <2>3. CASE ~Loop
    <3>1. spc[Run] # "idle" => ctxDone
      BY DEF RunSafe
    <3> QED
      BY <2>1, <2>2, <2>3, <3>1, NotRunStep DEF RunSafe
  <2>4. CASE RunStop
    <3>1. /\ StopBegin(Run) /\ runpc' = "stop" /\ ctxDone' /\ child' = child
          /\ late' = late
      BY <2>4 DEF RunStop
    <3>2. /\ scmd'[Run] = cmd
          /\ spc'[Run] = IF cmd = 0 THEN "done" ELSE "term"
      BY <3>1 DEF StopBegin, TypeOK
    <3>3. \A n \in 1 .. late : child[n] = "up" => n = cmd /\ cmd # 0
      BY RelayAssumption DEF OnlyCurrent, TypeOK
    <3> QED
      BY <3>1, <3>2, <3>3 DEF RunSafe, Caught, Ended
  <2>5. CASE RunReturn
    <3>1. spc[Run] = "done" /\ spc'[Run] = "idle" /\ runpc' = "halt" /\ ctxDone' = ctxDone
      BY <2>5 DEF RunReturn, Stopped, TypeOK
    <3> QED
      BY <2>1, <3>1 DEF RunSafe
  <2>6. CASE StopKill(Run)
    <3>1. /\ spc[Run] = "term" /\ spc'[Run] = "kill" /\ runpc' = runpc
          /\ ctxDone' = ctxDone /\ child' = child /\ late' = late
          /\ Signal(scmd[Run], "kill") /\ Caught
      BY <2>6 DEF StopKill, TypeOK, RunSafe
    <3>2. \A n \in 1 .. late : n \in Child
      BY RelayAssumption DEF TypeOK
    <3>3. Ended'
      BY <3>1, <3>2 DEF Caught, Ended, Signal, TypeOK
    <3> QED
      BY <3>1, <3>3 DEF RunSafe
  <2>7. CASE StopReturn(Run)
    <3>1. /\ spc'[Run] = "done" /\ runpc' = runpc /\ spc[Run] # "idle"
          /\ ctxDone' = ctxDone /\ child' = child /\ late' = late /\ sig' = sig
      BY <2>7 DEF StopReturn, TypeOK
    <3>2. Ended
      BY <2>7 DEF StopReturn, RunSafe, Caught, Ended
    <3> QED
      BY <3>1, <3>2 DEF RunSafe, Ended
  <2> QED
    BY <2>3, <2>4, <2>5, <2>6, <2>7 DEF Loop
<1> QED
  BY <1>1, <1>2, TypeCorrect, OnlyCurrentInv, PTL DEF Spec

\* A shutdown ends the child it finds, or has sent it SIGKILL.
THEOREM ShutdownCatches == Spec => []ShutdownEnds
<1>1. RunSafe => ShutdownEnds
  BY DEF RunSafe, Ended, ShutdownEnds
<1> QED
  BY <1>1, RunSafeInv, PTL
=============================================================================
