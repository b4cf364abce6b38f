----------------------------- MODULE XrayProofs -----------------------------
(***************************************************************************)
(* What holds of the xray supervisor and the apply path for every set of   *)
(* callers and configs and every bound.  Of the supervisor: typing, at     *)
(* most one child, the accounting of the stopping flag, and what a         *)
(* shutdown leaves behind.  The apply path uses the supervisor only        *)
(* through its own operations, so all of that holds there, and no          *)
(* interleaving of applies leaves a child running an older config          *)
(* unsignalled.                                                            *)
(***************************************************************************)
EXTENDS XrayApply, TLAPS

USE DEF NoChild

LEMMA BackoffInRange ==
  ASSUME NEW b \in 1 .. BackoffCap
  PROVE  NextBackoff(b) \in 1 .. BackoffCap
BY ProcAssumption DEF NextBackoff

LEMMA Bounds == 0 \in 0 .. MaxSpawns /\ 1 \in 1 .. BackoffCap
BY ProcAssumption

LEMMA RaiseType ==
  ASSUME NEW s \in [Child -> {"none", "term", "kill"}],
         NEW n, NEW what \in {"term", "kill"}
  PROVE  Raise(s, n, what) \in [Child -> {"none", "term", "kill"}]
BY DEF Raise

\* Every variable keeps its type; in particular the backoff stays within its
\* ceiling and s.cmd names a spawned child or nil.
THEOREM TypeCorrect == Spec => []TypeOK
<1>1. Init => TypeOK
  <2> SUFFICES ASSUME Init PROVE TypeOK
    OBVIOUS
  <2>1. ctxDone \in BOOLEAN /\ stopping \in BOOLEAN
    BY DEF Init
  <2> QED
    BY <2>1, Bounds DEF Init, TypeOK, Child, RunPC, RestartPC, Result
<1>2. TypeOK /\ [Next]_vars => TypeOK'
  <2> SUFFICES ASSUME TypeOK, [Next]_vars PROVE TypeOK'
    OBVIOUS
  <2> USE DEF RunPC, RestartPC, Result, callerVars, runVars
  <2>1. CASE RunTop
    BY <2>1 DEF RunTop, TypeOK
  <2>2. CASE StartOK
    BY <2>2, ProcAssumption DEF StartOK, TypeOK, Child
  <2>3. CASE StartFail
    BY <2>3 DEF StartFail, TypeOK
  <2>4. CASE RunExit
    BY <2>4 DEF RunExit, TypeOK
  <2>5. CASE RunReap
    <3>1. stopping' \in BOOLEAN
      BY <2>5 DEF RunReap
    <3> QED
      BY <2>5, <3>1, Bounds DEF RunReap, TypeOK
  <2>6. CASE BackoffElapsed
    BY <2>6, BackoffInRange DEF BackoffElapsed, TypeOK
  <2>7. CASE BackoffCancelled
    BY <2>7 DEF BackoffCancelled, TypeOK
  <2>8. CASE Terminate
    BY <2>8, RaiseType DEF Terminate, TypeOK
  <2>9. CASE TermGrace
    BY <2>9, RaiseType DEF TermGrace, TypeOK
  <2>10. CASE TermReturn
    BY <2>10 DEF TermReturn, TypeOK
  <2>11. ASSUME NEW c \in Callers, RestartBegin(c) PROVE TypeOK'
    <3>1. stopping' \in BOOLEAN
      BY <2>11 DEF RestartBegin
    <3>2. calls' \in Nat
      BY <2>11 DEF RestartBegin, TypeOK
    <3>3. rpc' \in [Callers -> RestartPC] /\ rres' \in [Callers -> Result]
      BY <2>11 DEF RestartBegin, TypeOK
    <3> QED
      BY <2>11, <3>1, <3>2, <3>3 DEF RestartBegin, TypeOK
  <2>12. ASSUME NEW c \in Callers, RestartSignal(c) PROVE TypeOK'
    BY <2>12, RaiseType DEF RestartSignal, TypeOK
  <2>13. ASSUME NEW c \in Callers, RestartSeen(c) PROVE TypeOK'
    BY <2>13 DEF RestartSeen, TypeOK
  <2>14. ASSUME NEW c \in Callers, RestartDeadline(c) PROVE TypeOK'
    BY <2>14, RaiseType DEF RestartDeadline, TypeOK
  <2>15. ASSUME NEW c \in Callers, RestartCancelled(c) PROVE TypeOK'
    BY <2>15, Bounds DEF RestartCancelled, TypeOK
  <2>16. ASSUME NEW n \in Child, ChildDies(n) PROVE TypeOK'
    BY <2>16 DEF ChildDies, TypeOK
  <2>17. CASE CancelCtx
    BY <2>17 DEF CancelCtx, TypeOK
  <2>18. CASE UNCHANGED vars
    BY <2>18 DEF vars, TypeOK
  <2> QED
    BY <2>1, <2>2, <2>3, <2>4, <2>5, <2>6, <2>7, <2>8, <2>9, <2>10, <2>11,
       <2>12, <2>13, <2>14, <2>15, <2>16, <2>17, <2>18
       DEF Next, Run, Restart
<1> QED
  BY <1>1, <1>2, PTL DEF Spec
-----------------------------------------------------------------------------
(* SingleChild is not inductive: it needs to know that only the current    *)
(* child can be up, and where Run stands when there is one.                *)
OnlyCurrentUp ==
  /\ cmd \in {0, spawned}
  /\ \A n \in Child : child[n] = "up" => n = cmd
  /\ runpc \in {"top", "start", "backoff"} => cmd = 0
  /\ runpc \in {"wait", "reap", "term", "kill"} => cmd # 0
  /\ runpc = "reap" => child[cmd] = "dead"

\* The strengthening is an invariant of the supervisor (Run, start).
THEOREM CurrentUp == Spec => []OnlyCurrentUp
<1>1. Init => OnlyCurrentUp
  BY DEF Init, OnlyCurrentUp
<1>2. TypeOK /\ OnlyCurrentUp /\ [Next]_vars => OnlyCurrentUp'
  <2> SUFFICES ASSUME TypeOK, OnlyCurrentUp, [Next]_vars PROVE OnlyCurrentUp'
    OBVIOUS
  <2> USE DEF callerVars, runVars, Child, RunPC
  <2>1. CASE RunTop
    BY <2>1 DEF RunTop, OnlyCurrentUp
  <2>2. CASE StartOK
    BY <2>2, ProcAssumption DEF StartOK, TypeOK, OnlyCurrentUp
  <2>3. CASE StartFail
    BY <2>3 DEF StartFail, OnlyCurrentUp
  <2>4. CASE RunExit
    BY <2>4 DEF RunExit, OnlyCurrentUp
  <2>5. CASE RunReap
    BY <2>5 DEF RunReap, OnlyCurrentUp, TypeOK
  <2>6. CASE BackoffElapsed
    BY <2>6 DEF BackoffElapsed, OnlyCurrentUp
  <2>7. CASE BackoffCancelled
    BY <2>7 DEF BackoffCancelled, OnlyCurrentUp
  <2>8. CASE Terminate
    BY <2>8 DEF Terminate, OnlyCurrentUp
  <2>9. CASE TermGrace
    BY <2>9 DEF TermGrace, OnlyCurrentUp
  <2>10. CASE TermReturn
    BY <2>10 DEF TermReturn, OnlyCurrentUp
  <2>11. ASSUME NEW c \in Callers, Restart(c) PROVE OnlyCurrentUp'
    BY <2>11 DEF Restart, RestartBegin, RestartSignal, RestartSeen,
                 RestartDeadline, RestartCancelled, OnlyCurrentUp
  <2>12. ASSUME NEW n \in Child, ChildDies(n) PROVE OnlyCurrentUp'
    BY <2>12 DEF ChildDies, OnlyCurrentUp, TypeOK
  <2>13. CASE CancelCtx
    BY <2>13 DEF CancelCtx, OnlyCurrentUp
  <2>14. CASE UNCHANGED vars
    BY <2>14 DEF vars, OnlyCurrentUp
  <2> QED
    BY <2>1, <2>2, <2>3, <2>4, <2>5, <2>6, <2>7, <2>8, <2>9, <2>10, <2>11,
       <2>12, <2>13, <2>14 DEF Next, Run
<1> QED
  BY <1>1, <1>2, TypeCorrect, PTL DEF Spec

\* At most one xray child runs at any time, for any callers of Restart.
THEOREM AtMostOneChild == Spec => []SingleChild
<1>1. OnlyCurrentUp => SingleChild
  BY DEF OnlyCurrentUp, SingleChild
<1> QED
  BY <1>1, CurrentUp, PTL
-----------------------------------------------------------------------------
\* Immediate respawns never outnumber the calls of Restart.
THEOREM FlagAccounted == Spec => []SkipsAccounted
<1>1. Init => SkipsAccounted
  BY DEF Init, SkipsAccounted
<1>2. TypeOK /\ SkipsAccounted /\ [Next]_vars => SkipsAccounted'
  <2> SUFFICES ASSUME TypeOK, SkipsAccounted, [Next]_vars PROVE SkipsAccounted'
    OBVIOUS
  <2> USE DEF callerVars, runVars, SkipsAccounted
  <2>1. CASE RunReap
    BY <2>1 DEF RunReap, TypeOK
  <2>2. CASE Run /\ ~RunReap
    BY <2>2 DEF Run, RunTop, StartOK, StartFail, RunExit, BackoffElapsed,
                BackoffCancelled, Terminate, TermGrace, TermReturn
  <2>3. ASSUME NEW c \in Callers, RestartBegin(c) PROVE SkipsAccounted'
    BY <2>3 DEF RestartBegin, TypeOK
  <2>4. ASSUME NEW c \in Callers, Restart(c), ~RestartBegin(c)
        PROVE SkipsAccounted'
    BY <2>4 DEF Restart, RestartSignal, RestartSeen, RestartDeadline,
                RestartCancelled
  <2>5. ASSUME NEW n \in Child, ChildDies(n) PROVE SkipsAccounted'
    BY <2>5 DEF ChildDies
  <2>6. CASE CancelCtx
    BY <2>6 DEF CancelCtx
  <2>7. CASE UNCHANGED vars
    BY <2>7 DEF vars
  <2> QED
    BY <2>1, <2>2, <2>3, <2>4, <2>5, <2>6, <2>7 DEF Next
<1> QED
  BY <1>1, <1>2, TypeCorrect, PTL DEF Spec
-----------------------------------------------------------------------------
(* ShutdownEscalates: once terminate has given up on the child it stays    *)
(* doomed, since no later signal takes a SIGKILL back and Run, which alone *)
(* spawns, is about to return.                                             *)
Escalated ==
  runpc \in {"kill", "halt"} =>
    \A n \in Child : child[n] = "up" => sig[n] = "kill"

\* A signal never takes a SIGKILL back.
LEMMA RaiseKeepsKill ==
  ASSUME TypeOK, NEW m, NEW what \in {"term", "kill"}, NEW n \in Child, sig[n] = "kill"
  PROVE  Raise(sig, m, what)[n] = "kill"
BY DEF Raise, TypeOK

LEMMA EscalatedAlways == Spec => []Escalated
<1>1. Init => Escalated
  BY DEF Init, Escalated
<1>2. TypeOK /\ OnlyCurrentUp /\ Escalated /\ [Next]_vars => Escalated'
  <2> SUFFICES ASSUME TypeOK, OnlyCurrentUp, Escalated, [Next]_vars
               PROVE  Escalated'
    OBVIOUS
  <2> USE DEF callerVars, runVars
  <2>1. CASE RunTop \/ RunReap \/ BackoffElapsed \/ BackoffCancelled
    <3>1. \A n \in Child : child[n] # "up"
      BY <2>1, ProcAssumption
         DEF RunTop, RunReap, BackoffElapsed, BackoffCancelled, OnlyCurrentUp, Child
    <3> QED
      BY <2>1, <3>1
         DEF RunTop, RunReap, BackoffElapsed, BackoffCancelled, Escalated
  <2>2. CASE StartOK \/ StartFail \/ RunExit \/ Terminate
    BY <2>2 DEF StartOK, StartFail, RunExit, Terminate, Escalated
  <2>3. CASE TermGrace
    <3>1. \A n \in Child : child[n] = "up" => sig'[n] = "kill"
      BY <2>3 DEF TermGrace, OnlyCurrentUp, TypeOK, Raise
    <3> QED
      BY <2>3, <3>1 DEF TermGrace, Escalated
  <2>4. CASE TermReturn
    BY <2>4 DEF TermReturn, OnlyCurrentUp, Escalated
  <2>5. ASSUME NEW c \in Callers, Restart(c) PROVE Escalated'
    <3>1. UNCHANGED <<runpc, child>>
      BY <2>5 DEF Restart, RestartBegin, RestartSignal, RestartSeen,
                  RestartDeadline, RestartCancelled
    <3>2. \/ UNCHANGED sig
          \/ \E what \in {"term", "kill"} : sig' = Raise(sig, rcmd[c], what)
      BY <2>5 DEF Restart, RestartBegin, RestartSignal, RestartSeen,
                  RestartDeadline, RestartCancelled
    <3>3. \A n \in Child : sig[n] = "kill" => sig'[n] = "kill"
      BY <3>2, RaiseKeepsKill
    <3> QED
      BY <3>1, <3>3 DEF Escalated
  <2>6. ASSUME NEW n \in Child, ChildDies(n) PROVE Escalated'
    BY <2>6 DEF ChildDies, Escalated, TypeOK
  <2>7. CASE CancelCtx \/ UNCHANGED vars
    BY <2>7 DEF CancelCtx, vars, Escalated
  <2> QED
    BY <2>1, <2>2, <2>3, <2>4, <2>5, <2>6, <2>7 DEF Next, Run
<1> QED
  BY <1>1, <1>2, TypeCorrect, CurrentUp, PTL DEF Spec

\* Run never returns over a child that was not sent SIGKILL (terminate), for
\* any number of callers, children and calls.
THEOREM ShutdownKills == Spec => []ShutdownEscalates
<1>1. Escalated => ShutdownEscalates
  BY DEF Escalated, ShutdownEscalates
<1> QED
  BY <1>1, EscalatedAlways, PTL
-----------------------------------------------------------------------------
(* The supervisor implements Supervised.  At each step the only child that *)
(* can be up is the current one, so the set that stands for it is empty or *)
(* has one member; a child not yet spawned was never sent a signal.        *)
Unspawned ==
  \A n \in Child : n > spawned => child[n] = "none" /\ sig[n] = "none"

Procs == {<<n, sig[n]>> : n \in {m \in Child : child[m] = "up"}}
Halted == runpc = "halt"

\* What a step can do to the children and their signals.
LEMMA ProcSteps ==
  ASSUME TypeOK, [Next]_vars
  PROVE  \/ StartOK
         \/ \E n \in Child : ChildDies(n)
         \/ /\ UNCHANGED <<child, spawned>>
            /\ \/ UNCHANGED sig
               \/ Halted' = Halted /\ \E m : \E what \in {"term", "kill"} : sig' = Raise(sig, m, what)
            /\ \/ Halted' = Halted
               \/ RunTop \/ RunReap \/ BackoffCancelled \/ TermReturn
<1> USE DEF callerVars, runVars, Halted
<1>1. CASE RunTop \/ RunReap \/ BackoffCancelled \/ TermReturn
  BY <1>1 DEF RunTop, RunReap, BackoffCancelled, TermReturn
<1>2. CASE StartFail \/ RunExit \/ BackoffElapsed
  BY <1>2 DEF StartFail, RunExit, BackoffElapsed
<1>3. CASE Terminate \/ TermGrace
  BY <1>3 DEF Terminate, TermGrace
<1>4. ASSUME NEW c \in Callers, Restart(c)
      PROVE  /\ UNCHANGED <<child, spawned, runpc>>
             /\ UNCHANGED sig \/ \E m : \E what \in {"term", "kill"} : sig' = Raise(sig, m, what)
  BY <1>4 DEF Restart, RestartBegin, RestartSignal, RestartSeen,
              RestartDeadline, RestartCancelled
<1>5. CASE CancelCtx \/ UNCHANGED vars
  BY <1>5 DEF CancelCtx, vars
<1> QED
  BY <1>1, <1>2, <1>3, <1>4, <1>5 DEF Next, Run

LEMMA UnspawnedInv == Spec => []Unspawned
<1>1. Init => Unspawned
  BY DEF Init, Unspawned
<1>2. TypeOK /\ Unspawned /\ [Next]_vars => Unspawned'
  <2> SUFFICES ASSUME TypeOK, Unspawned, [Next]_vars PROVE Unspawned'
    OBVIOUS
  <2>1. CASE StartOK
    BY <2>1 DEF StartOK, Unspawned, TypeOK, Child
  <2>2. ASSUME NEW n \in Child, ChildDies(n) PROVE Unspawned'
    BY <2>2 DEF ChildDies, Unspawned, TypeOK
  <2>3. CASE UNCHANGED <<child, spawned, sig>>
    BY <2>3 DEF Unspawned
  <2>4. ASSUME NEW m, NEW what \in {"term", "kill"}, UNCHANGED <<child, spawned>>,
               sig' = Raise(sig, m, what)
        PROVE  Unspawned'
    BY <2>4 DEF Raise, Unspawned, TypeOK
  <2> QED
    BY <2>1, <2>2, <2>3, <2>4, ProcSteps
<1> QED
  BY <1>1, <1>2, TypeCorrect, PTL DEF Spec

\* The process that runs, if any, is the current child.
LEMMA ProcsAre ==
  ASSUME OnlyCurrentUp
  PROVE  /\ \A n \in Child : child[n] = "up" => Procs = {<<n, sig[n]>>}
         /\ (\A n \in Child : child[n] # "up") => Procs = {}
BY DEF OnlyCurrentUp, Procs

\* A signal reaches the process that runs and makes its mark stronger, or
\* changes nothing.
LEMMA RaiseIsSignal ==
  ASSUME TypeOK, OnlyCurrentUp, UNCHANGED child, NEW m, NEW what \in {"term", "kill"},
         sig' = Raise(sig, m, what), Halted' = Halted
  PROVE  (\E n \in Child : Process!Signal(n)) \/ UNCHANGED <<Procs, Halted>>
<1>1. CASE m \in Child /\ child[m] = "up" /\ sig[m] # what /\ sig[m] # "kill"
  <2>1. Procs = {<<m, sig[m]>>}
    BY <1>1, ProcsAre
  <2>2. \A n \in Child : child'[n] = "up" <=> n = m
    BY <1>1 DEF OnlyCurrentUp
  <2>3. sig'[m] = what
    BY <1>1 DEF Raise, TypeOK
  <2>4. Procs' = {<<m, what>>}
    BY <1>1, <2>2, <2>3 DEF Procs
  <2>5. <<sig[m], what>> \in Process!Stronger
    BY <1>1 DEF TypeOK, Process!Stronger
  <2>6. Process!Signal(m)
    BY <2>1, <2>4, <2>5 DEF Process!Signal, Procs, Halted
  <2> QED
    BY <1>1, <2>6
<1>2. CASE ~(m \in Child /\ child[m] = "up" /\ sig[m] # what /\ sig[m] # "kill")
  <2>1. \A n \in Child : child[n] = "up" => sig'[n] = sig[n]
    BY <1>2 DEF Raise, TypeOK
  <2>2. Procs' = Procs
    BY <2>1 DEF Procs
  <2> QED
    BY <2>2
<1> QED
  BY <1>1, <1>2

\* Each step of the supervisor is one of a supervised process, or changes
\* nothing that can be seen of it.
LEMMA StepIsProcessStep ==
  ASSUME TypeOK, OnlyCurrentUp, Unspawned, Escalated', [Next]_vars
  PROVE  Process!SupNext \/ UNCHANGED <<Procs, Halted>>
<1>1. CASE StartOK
  <2>0. spawned + 1 \in Child
    BY <1>1, ProcAssumption DEF StartOK, TypeOK, Child
  <2>1. PICK n \in Child : n = spawned + 1
    BY <2>0
  <2>2. /\ child' = [child EXCEPT ![n] = "up"] /\ UNCHANGED sig
        /\ runpc = "start" /\ runpc' = "wait"
    BY <1>1, <2>1 DEF StartOK
  <2>3. \A k \in Child : child[k] # "up"
    BY <1>1, ProcAssumption DEF StartOK, OnlyCurrentUp, Child, NoChild
  <2>4. Procs = {}
    BY <2>3, ProcsAre
  <2>5. sig[n] = "none"
    BY <2>1 DEF Unspawned, TypeOK, Child
  <2>6. \A k \in Child : child'[k] = "up" <=> k = n
    BY <2>2, <2>3 DEF TypeOK
  <2>7. Procs' = {<<n, "none">>}
    BY <2>2, <2>5, <2>6 DEF Procs
  <2>8. Process!Spawn(n)
    BY <2>2, <2>4, <2>7 DEF Process!Spawn, Procs
  <2> QED
    BY <2>8 DEF Process!SupNext
<1>2. ASSUME NEW n \in Child, ChildDies(n) PROVE Process!SupNext
  <2>1. \A m \in Child : child'[m] # "up"
    BY <1>2 DEF ChildDies, OnlyCurrentUp, TypeOK
  <2>2. Procs' = {} /\ Halted' = Halted
    BY <1>2, <2>1 DEF Procs, Halted, ChildDies
  <2> QED
    BY <2>2 DEF Process!SupNext, Process!Exit, Procs, Halted
<1>3. CASE UNCHANGED <<child, sig>> /\ Halted' = Halted
  BY <1>3 DEF Procs
<1>4. ASSUME NEW m, NEW what \in {"term", "kill"}, UNCHANGED child,
             sig' = Raise(sig, m, what), Halted' = Halted
      PROVE  Process!SupNext \/ UNCHANGED <<Procs, Halted>>
  BY <1>4, RaiseIsSignal DEF Process!SupNext
<1>5. CASE UNCHANGED <<child, sig>> /\ Halted' # Halted
           /\ (RunTop \/ RunReap \/ BackoffCancelled \/ TermReturn)
  <2>1. Halted'
    BY <1>5 DEF RunTop, RunReap, BackoffCancelled, TermReturn, Halted
  <2>2. Procs' = Procs
    BY <1>5 DEF Procs
  <2>3. \A n \in Child : child[n] = "up" => sig[n] = "kill"
    BY <1>5, <2>1 DEF Escalated, Halted
  <2>4. Procs \subseteq Child \X {"kill"}
    BY <2>3 DEF Procs
  <2>5. Process!Return
    BY <2>1, <2>2, <2>4 DEF Process!Return, Procs, Halted
  <2> QED
    BY <2>5 DEF Process!SupNext
<1> QED
  BY <1>1, <1>2, <1>3, <1>4, <1>5, ProcSteps

\* The supervisor implements Supervised, for any callers, spawns and calls: one
\* child at a time, signals that only get stronger, and a return that leaves
\* none without a SIGKILL and is the end of it.
THEOREM ProcImplementsSupervised == Spec => Supervises
<1>1. Init => Process!SupInit
  BY DEF Init, Process!SupInit
<1>2. TypeOK /\ OnlyCurrentUp /\ Unspawned /\ Escalated' /\ [Next]_vars
        => [Process!SupNext]_<<Procs, Halted>>
  BY StepIsProcessStep
<1>3. Spec => []Escalated
  BY EscalatedAlways
<1> QED
  BY <1>1, <1>2, <1>3, TypeCorrect, CurrentUp, UnspawnedInv, PTL
     DEF Spec, Supervises, Process!SupSpec, Procs, Halted
-----------------------------------------------------------------------------
(* The apply path.                                                         *)

LEMMA RestartIsNext ==
  ASSUME NEW c \in Callers, Restart(c)
  PROVE  Next
BY DEF Next

LEMMA StepIsSupervisorStep == [ApplyNext]_allVars => [Next]_vars
<1> SUFFICES ASSUME [ApplyNext]_allVars PROVE [Next]_vars
  OBVIOUS
<1>1. CASE Spawn
  BY <1>1 DEF Spawn, Next, Run
<1>2. CASE Supervise
  BY <1>2 DEF Supervise, Next, Run
<1>3. ASSUME NEW n \in Child, Dies(n) PROVE [Next]_vars
  BY <1>3 DEF Dies, Next
<1>4. ASSUME NEW c \in Callers, Apply(c) PROVE [Next]_vars
  <2>1. ASSUME NEW v \in Configs, ApplyPlan(c, v) PROVE UNCHANGED vars
    BY <2>1 DEF ApplyPlan
  <2>2. CASE ApplyOpen(c) \/ ApplyWrite(c) \/ ApplyRename(c) \/ ApplyInstallFails(c)
    BY <2>2 DEF ApplyOpen, ApplyWrite, ApplyRename, ApplyInstallFails
  <2>3. CASE ApplyRestart(c)
    BY <2>3, RestartIsNext DEF ApplyRestart, Restart
  <2>4. CASE ApplyWait(c)
    BY <2>4, RestartIsNext DEF ApplyWait, Restart
  <2> QED
    BY <1>4, <2>1, <2>2, <2>3, <2>4 DEF Apply
<1>5. ASSUME NEW c \in Callers, InstallerRestart(c) PROVE [Next]_vars
  BY <1>5, RestartIsNext DEF InstallerRestart
<1>6. CASE EnsureConfigFile \/ EnsureRename \/ \E v \in Configs : SnapshotsRollback(v)
  BY <1>6 DEF EnsureConfigFile, EnsureRename, SnapshotsRollback
<1>7. CASE UNCHANGED allVars
  BY <1>7 DEF allVars
<1> QED
  BY <1>1, <1>2, <1>3, <1>4, <1>5, <1>6, <1>7 DEF ApplyNext

\* Every behaviour of the apply path is one of the supervisor: applies, the
\* installer and rollbacks reach it only through Restart and the config file.
THEOREM ApplyImplementsProc == ApplySpec => Spec
<1>1. ApplyInit => Init
  BY DEF ApplyInit
<1> QED
  BY <1>1, StepIsSupervisorStep, PTL DEF ApplySpec, Spec

\* So the child stays a supervised process, and immediate respawns stay
\* accounted for, under applies, installer restarts and rollbacks.
COROLLARY ApplySupervises == ApplySpec => Supervises /\ []SkipsAccounted
BY ApplyImplementsProc, ProcImplementsSupervised, FlagAccounted, PTL
-----------------------------------------------------------------------------
\* The apply path keeps its own variables in their types; a call that is at
\* work on its temporary file has one.
ApplyTypes ==
  /\ live \in Content
  /\ ran \in Content
  /\ tmp \in [Names -> Content]
  /\ apc \in [Callers -> ApplyPC]
  /\ want \in [Callers -> Content]
  /\ name \in [Callers -> Names \cup {Missing}]
  /\ seeding \in BOOLEAN
  /\ applied \in BOOLEAN

Writing == {"install", "write", "late", "rename"}

Named == \A c \in Callers : apc[c] \in Writing => want[c] \in Configs /\ name[c] \in Names

LEMMA WrittenContent ==
  ASSUME NEW old, NEW v \in Configs, NEW w \in Written(old, v)
  PROVE  w \in Content
BY DEF Written, Content

LEMMA ReplacedPlaces ==
  ASSUME ApplyTypes, NEW n
  PROVE  /\ Replaced(n) \in [Callers -> ApplyPC]
         /\ \A c \in Callers :
              /\ Replaced(n)[c] \in Writing <=> apc[c] \in Writing
              /\ Replaced(n)[c] = "restart" <=> apc[c] = "restart"
              /\ Replaced(n)[c] = "wait" <=> apc[c] = "wait"
BY DEF ApplyTypes, ApplyPC, Replaced, Writing

\* Every variable of the apply path keeps its type, the supervisor's included.
THEOREM ApplyTypeCorrect == ApplySpec => []ApplyTypeOK
<1>1. ApplyInit => ApplyTypes /\ Named
  BY ApplyAssumption DEF ApplyInit, ApplyTypes, Named, Content, ApplyPC, Writing
<1>2. ApplyTypes /\ Named /\ [ApplyNext]_allVars => ApplyTypes' /\ Named'
  <2> SUFFICES ASSUME ApplyTypes, Named, [ApplyNext]_allVars
               PROVE  ApplyTypes' /\ Named'
    OBVIOUS
  <2>1. CASE Spawn \/ Supervise \/ UNCHANGED allVars \/ (\E n \in Child : Dies(n))
             \/ (\E c \in Callers : InstallerRestart(c))
    <3>1. UNCHANGED <<live, tmp, call, seeding, applied>> /\ ran' \in {ran, live, Missing}
      BY <2>1 DEF Spawn, Supervise, Dies, InstallerRestart, allVars, applyVars
    <3> QED
      BY <3>1 DEF ApplyTypes, Named, call, Content
  <2>2. ASSUME NEW c \in Callers, NEW v \in Configs, ApplyPlan(c, v)
        PROVE ApplyTypes' /\ Named'
    BY <2>2 DEF ApplyPlan, ApplyTypes, Named, Content, ApplyPC, Writing
  <2>3. ASSUME NEW c \in Callers, ApplyOpen(c) PROVE ApplyTypes' /\ Named'
    BY <2>3 DEF ApplyOpen, ApplyTypes, Named, Content, ApplyPC, Writing
  <2>4. ASSUME NEW c \in Callers, ApplyWrite(c) PROVE ApplyTypes' /\ Named'
    <3>1. want[c] \in Configs /\ name[c] \in Names
      BY <2>4 DEF ApplyWrite, Named, Writing
    <3>2. live' \in Content /\ applied' \in BOOLEAN
      BY <2>4, <3>1, WrittenContent DEF ApplyWrite, ApplyTypes
    <3>3. tmp' \in [Names -> Content]
      BY <2>4, <3>1, WrittenContent DEF ApplyWrite, ApplyTypes
    <3> QED
      BY <2>4, <3>2, <3>3 DEF ApplyWrite, ApplyTypes, Named, ApplyPC, Writing
  <2>5. ASSUME NEW c \in Callers, ApplyRename(c) PROVE ApplyTypes' /\ Named'
    <3>1. name[c] \in Names
      BY <2>5 DEF ApplyRename, Named, Writing
    <3>2. apc' \in [Callers -> ApplyPC]
      BY <2>5, ReplacedPlaces DEF ApplyRename, ApplyPC
    <3>3. Named'
      BY <2>5, ReplacedPlaces DEF ApplyRename, ApplyTypes, Named, Writing
    <3> QED
      BY <2>5, <3>1, <3>2, <3>3 DEF ApplyRename, ApplyTypes, Content
  <2>6. ASSUME NEW c \in Callers, ApplyInstallFails(c) PROVE ApplyTypes' /\ Named'
    <3>1. ApplyTypes'
      BY <2>6 DEF ApplyInstallFails, Return, ApplyTypes, Content, ApplyPC
    <3>2. Named'
      BY <2>6 DEF ApplyInstallFails, Return, ApplyTypes, Named, Writing
    <3> QED
      BY <3>1, <3>2
  <2>7. ASSUME NEW c \in Callers, ApplyRestart(c) \/ ApplyWait(c)
        PROVE ApplyTypes' /\ Named'
    <3>1. /\ UNCHANGED <<live, ran, tmp, seeding, applied>>
          /\ apc[c] \in {"restart", "wait"}
          /\ \/ Return(c)
             \/ apc' = [apc EXCEPT ![c] = "wait"] /\ UNCHANGED <<want, name>>
             \/ UNCHANGED call
      BY <2>7 DEF ApplyRestart, ApplyWait
    <3> QED
      BY <3>1 DEF Return, ApplyTypes, Named, Content, ApplyPC, Writing, call
  <2>8. CASE EnsureConfigFile
    BY <2>8 DEF EnsureConfigFile, ApplyTypes, Named, call
  <2>9. CASE EnsureRename
    <3>1. apc' \in [Callers -> ApplyPC]
      BY <2>9, ReplacedPlaces DEF EnsureRename, ApplyTypes
    <3>2. Named'
      BY <2>9, ReplacedPlaces DEF EnsureRename, Named
    <3> QED
      BY <2>9, <3>1, <3>2 DEF EnsureRename, ApplyTypes, Content
  <2>10. ASSUME NEW v \in Configs, SnapshotsRollback(v) PROVE ApplyTypes' /\ Named'
    BY <2>10 DEF SnapshotsRollback, ApplyTypes, Named, call, Content
  <2> QED
    BY <2>1, <2>2, <2>3, <2>4, <2>5, <2>6, <2>7, <2>8, <2>9, <2>10 DEF ApplyNext, Apply
<1>3. ApplySpec => []TypeOK
  BY ApplyImplementsProc, TypeCorrect, PTL
<1>4. TypeOK /\ ApplyTypes => ApplyTypeOK
  BY DEF ApplyTypeOK, ApplyTypes
<1> QED
  BY <1>1, <1>2, <1>3, <1>4, PTL DEF ApplySpec
-----------------------------------------------------------------------------
\* A signal is never taken back.
LEMMA SignalsStay ==
  ASSUME TypeOK, NEW n \in Child, NEW m, NEW what \in {"term", "kill"}
  PROVE  /\ sig[n] # "none" => Raise(sig, m, what)[n] # "none"
         /\ child[n] = "up" /\ m = n => Raise(sig, m, what)[n] # "none"
BY DEF TypeOK, Raise

\* No child keeps running an older config unsignalled after an apply: whoever
\* replaced the file last still has to call Restart, or called it when the
\* child it found was already the current one.
THEOREM NoStaleAfterApply == ApplySpec => []AppliedOrSignalled
<1> USE DEF AppliedOrSignalled
<1>1. ApplyInit => AppliedOrSignalled
  BY DEF ApplyInit
<1>2. ApplyTypeOK /\ OnlyCurrentUp /\ AppliedOrSignalled /\ [ApplyNext]_allVars
        => AppliedOrSignalled'
  <2> SUFFICES ASSUME ApplyTypeOK, OnlyCurrentUp, AppliedOrSignalled,
                      [ApplyNext]_allVars, applied', StaleChild'
               PROVE  FALSE
    OBVIOUS
  <2> USE DEF StaleChild, Telling, NoChild
  <2>1. CASE Spawn
    BY <2>1 DEF Spawn
  <2>2. ASSUME live' = live, ran' = ran, applied' = applied, cmd' = cmd,
               child' = child, cmd \in Child,
               sig[cmd] # "none" => sig'[cmd] # "none",
               \A d \in Callers :
                 \/ apc[d] = "restart"
                 \/ apc[d] = "wait" /\ rpc[d] = "signal" /\ rcmd[d] = cmd
                 => \/ apc'[d] = "restart"
                    \/ apc'[d] = "wait" /\ rpc'[d] = "signal" /\ rcmd'[d] = cmd
                    \/ sig'[cmd] # "none"
        PROVE  FALSE
    BY <2>2, SMTT(30)
  <2>3. CASE Supervise
    <3>1. cmd' = cmd \/ cmd' = 0
      BY <2>3 DEF Supervise, RunTop, StartFail, RunExit, RunReap,
                  BackoffElapsed, BackoffCancelled, Terminate, TermGrace,
                  TermReturn, CancelCtx
    <3>2. child' = child
      BY <2>3 DEF Supervise, RunTop, StartFail, RunExit, RunReap,
                  BackoffElapsed, BackoffCancelled, Terminate, TermGrace,
                  TermReturn, CancelCtx
    <3>3. cmd # 0 => cmd \in Child
      BY ProcAssumption DEF ApplyTypeOK, TypeOK, Child
    <3>4. cmd # 0 /\ sig[cmd] # "none" => sig'[cmd] # "none"
      BY <2>3, <3>3, SignalsStay
         DEF Supervise, RunTop, StartFail, RunExit, RunReap, BackoffElapsed,
             BackoffCancelled, Terminate, TermGrace, TermReturn, CancelCtx, ApplyTypeOK
    <3>5. UNCHANGED <<rpc, rcmd>>
      BY <2>3 DEF Supervise, RunTop, StartFail, RunExit, RunReap,
                  BackoffElapsed, BackoffCancelled, Terminate, TermGrace,
                  TermReturn, CancelCtx, callerVars
    <3>6. UNCHANGED applyVars
      BY <2>3 DEF Supervise
    <3> QED
      BY <3>1, <3>2, <3>3, <3>4, <3>5, <3>6, <2>2, SMTT(30) DEF applyVars, call
  <2>4. ASSUME NEW n \in Child, Dies(n) PROVE FALSE
    BY <2>4 DEF Dies, ChildDies, OnlyCurrentUp, ApplyTypeOK, TypeOK
  <2>5. ASSUME NEW c \in Callers, Apply(c) PROVE FALSE
    <3>1. cmd' = cmd /\ child' = child
      BY <2>5 DEF Apply, ApplyPlan, ApplyOpen, ApplyWrite, ApplyRename, ApplyInstallFails,
                  ApplyRestart, ApplyWait, RestartBegin, RestartSignal,
                  RestartSeen, RestartDeadline, RestartCancelled, vars, runVars
    <3>2. cmd \in Child
      BY <3>1, ProcAssumption DEF ApplyTypeOK, TypeOK, Child
    <3>3. ASSUME /\ UNCHANGED <<vars, live, ran, applied>>
                 /\ apc[c] \notin {"restart", "wait"}
                 /\ \A d \in Callers : d # c => apc'[d] = apc[d]
          PROVE  FALSE
      BY <3>3, <3>2, <2>2, SMTT(30) DEF vars
    <3>4. ASSUME NEW v \in Configs, ApplyPlan(c, v) PROVE FALSE
      BY <3>3, <3>4 DEF ApplyPlan, ApplyTypeOK
    <3>5. CASE ApplyOpen(c) \/ ApplyWrite(c) \/ ApplyInstallFails(c)
      BY <3>3, <3>5 DEF ApplyOpen, ApplyWrite, ApplyInstallFails, Return, ApplyTypeOK
    <3>6. CASE ApplyRename(c)
      <4>1. apc'[c] = "restart"
        BY <3>6 DEF ApplyRename, Replaced
      <4> QED
        BY <4>1
    <3>7. CASE ApplyRestart(c)
      <4>1. rpc'[c] = "signal" /\ rcmd'[c] = cmd /\ apc'[c] = "wait"
        BY <3>7, <3>1 DEF ApplyRestart, RestartBegin, ApplyTypeOK, TypeOK
      <4> QED
        BY <4>1, <3>1
    <3>8. CASE ApplyWait(c)
      <4>1. live' = live /\ ran' = ran /\ applied' = applied
        BY <3>8 DEF ApplyWait
      <4>2. CASE RestartSignal(c) /\ UNCHANGED call
        <5>1. sig[cmd] # "none" => sig'[cmd] # "none"
          BY <4>2, <3>2, SignalsStay DEF RestartSignal, ApplyTypeOK
        <5>2. rcmd[c] = cmd => sig'[cmd] # "none"
          BY <4>2, <3>1, <3>2, SignalsStay DEF RestartSignal, ApplyTypeOK
        <5>3. \A d \in Callers : d # c => rpc'[d] = rpc[d]
          BY <4>2 DEF RestartSignal, ApplyTypeOK, TypeOK
        <5> QED
          BY <4>1, <4>2, <5>1, <5>2, <5>3, <3>1, <3>2, <2>2, SMTT(30)
             DEF RestartSignal, call
      <4>3. CASE /\ RestartSeen(c) \/ RestartDeadline(c) \/ RestartCancelled(c)
                 /\ Return(c)
        <5>1. sig[cmd] # "none" => sig'[cmd] # "none"
          BY <4>3, <3>2, SignalsStay
             DEF RestartSeen, RestartDeadline, RestartCancelled, ApplyTypeOK
        <5>2. rpc[c] = "poll"
          BY <4>3 DEF RestartSeen, RestartDeadline, RestartCancelled
        <5>3. \A d \in Callers : d # c => /\ rpc'[d] = rpc[d] /\ apc'[d] = apc[d]
                                         /\ rcmd'[d] = rcmd[d]
          BY <4>3 DEF RestartSeen, RestartDeadline, RestartCancelled, Return,
                      ApplyTypeOK, TypeOK
        <5>4. apc[c] = "wait"
          BY <3>8 DEF ApplyWait
        <5> QED
          BY <4>1, <5>1, <5>2, <5>3, <5>4, <3>1, <3>2, <2>2, SMTT(30)
      <4> QED
        BY <3>8, <4>2, <4>3 DEF ApplyWait
    <3> QED
      BY <2>5, <3>4, <3>5, <3>6, <3>7, <3>8 DEF Apply
  <2>6. ASSUME NEW c \in Callers, InstallerRestart(c) PROVE FALSE
    <3>1. cmd' = cmd /\ child' = child /\ apc[c] = "idle" /\ UNCHANGED applyVars
      BY <2>6 DEF InstallerRestart, Restart, RestartBegin, RestartSignal,
                  RestartSeen, RestartDeadline, RestartCancelled, runVars
    <3>2. cmd \in Child
      BY <3>1, ProcAssumption DEF ApplyTypeOK, TypeOK, Child
    <3>3. sig[cmd] # "none" => sig'[cmd] # "none"
      BY <2>6, <3>2, SignalsStay
         DEF InstallerRestart, Restart, RestartBegin, RestartSignal,
             RestartSeen, RestartDeadline, RestartCancelled, ApplyTypeOK
    <3>4. \A d \in Callers : d # c => rpc'[d] = rpc[d] /\ rcmd'[d] = rcmd[d]
      BY <2>6 DEF InstallerRestart, Restart, RestartBegin, RestartSignal,
                  RestartSeen, RestartDeadline, RestartCancelled, ApplyTypeOK,
                  TypeOK
    <3> QED
      BY <3>1, <3>2, <3>3, <3>4, <2>2, SMTT(30) DEF applyVars, call
  <2>7. CASE EnsureConfigFile \/ EnsureRename \/ \E v \in Configs : SnapshotsRollback(v)
    <3>1. UNCHANGED <<vars, live, ran, applied, apc>>
      BY <2>7 DEF EnsureConfigFile, EnsureRename, SnapshotsRollback, call
    <3>2. cmd \in Child
      BY <3>1, ProcAssumption DEF ApplyTypeOK, TypeOK, Child, vars
    <3> QED
      BY <3>1, <3>2, <2>2, SMTT(30) DEF vars
  <2>8. CASE UNCHANGED allVars
    BY <2>8 DEF allVars, vars, applyVars, call
  <2> QED
    BY <2>1, <2>3, <2>4, <2>5, <2>6, <2>7, <2>8 DEF ApplyNext
<1>3. ApplySpec => []OnlyCurrentUp
  BY ApplyImplementsProc, CurrentUp, PTL
<1> QED
  BY <1>1, <1>2, <1>3, ApplyTypeCorrect, PTL DEF ApplySpec
=============================================================================
