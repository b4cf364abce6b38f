------------------------------ MODULE XrayProc ------------------------------
(***************************************************************************)
(* The xray child supervisor, internal/xrayproc/supervisor.go.             *)
(*                                                                         *)
(* One goroutine executes Run (spawn, wait, back off, respawn); any number *)
(* of goroutines (HTTP handlers that apply a config, the failover loop,    *)
(* the installer) call Restart.  They share s.cmd and s.stopping under     *)
(* s.mu, so every critical section is one action.                          *)
(*                                                                         *)
(* Simplifications: a child is named by its spawn number; the death of a   *)
(* process and the delivery of cmd.Wait's result to the exit channel are   *)
(* one step; timers are nondeterministic (a timer may fire at any moment   *)
(* once armed); the log file and lastExit, read only by Status, are left   *)
(* out.                                                                    *)
(***************************************************************************)
EXTENDS Naturals

CONSTANTS
  Callers,     \* goroutines that may call Restart
  MaxSpawns,   \* bound: children spawned over a behaviour
  MaxCalls,    \* bound: calls of Restart over a behaviour
  BackoffCap   \* the backoff ceiling, 60 seconds in the code

ASSUME ProcAssumption ==
  /\ MaxSpawns \in Nat
  /\ MaxCalls \in Nat
  /\ BackoffCap \in Nat \ {0}

VARIABLES
  ctxDone,     \* the daemon's root context has been cancelled
  runpc,       \* where the Run goroutine is
  cmd,         \* s.cmd: the current child, 0 for nil
  spawned,     \* s.restartCount: children spawned so far
  child,       \* the operating system's view of each child
  sig,         \* strongest signal each child that is up has been sent
  stopping,    \* s.stopping
  backoff,     \* Run's local backoff, in seconds
  rpc,         \* where each Restart call is
  rcmd,        \* the child a Restart call captured, until it fails
  rres,        \* whether the caller's latest Restart has succeeded
  calls,       \* history: calls of Restart
  skips        \* history: exits after which Run respawned without backing off

vars == <<ctxDone, runpc, cmd, spawned, child, sig, stopping, backoff,
          rpc, rcmd, rres, calls, skips>>

Child == 1 .. MaxSpawns
NoChild == 0

RunPC == {"top", "start", "wait", "reap", "backoff", "term", "kill", "halt"}
RestartPC == {"idle", "signal", "poll"}
Result == {"none", "ok"}

TypeOK ==
  /\ ctxDone \in BOOLEAN
  /\ runpc \in RunPC
  /\ cmd \in 0 .. MaxSpawns
  /\ spawned \in 0 .. MaxSpawns
  /\ child \in [Child -> {"none", "up", "dead"}]
  /\ sig \in [Child -> {"none", "term", "kill"}]
  /\ stopping \in BOOLEAN
  /\ backoff \in 1 .. BackoffCap
  /\ rpc \in [Callers -> RestartPC]
  /\ rcmd \in [Callers -> 0 .. MaxSpawns]
  /\ rres \in [Callers -> Result]
  /\ calls \in Nat
  /\ skips \in Nat

Init ==
  /\ ctxDone = FALSE
  /\ runpc = "top"
  /\ cmd = NoChild
  /\ spawned = 0
  /\ child = [n \in Child |-> "none"]
  /\ sig = [n \in Child |-> "none"]
  /\ stopping = FALSE
  /\ backoff = 1
  /\ rpc = [c \in Callers |-> "idle"]
  /\ rcmd = [c \in Callers |-> NoChild]
  /\ rres = [c \in Callers |-> "none"]
  /\ calls = 0
  /\ skips = 0

callerVars == <<rpc, rcmd, rres, calls>>
-----------------------------------------------------------------------------
(* Signals.  A signal to a child that already exited is lost: Go's Process *)
(* refuses to signal a reaped process.                                     *)

Raise(s, n, what) ==
  [s EXCEPT ![n] = IF child[n] = "up" /\ @ # "kill" THEN what ELSE @]

MutantNextBackoff(cur) == 2 * cur

\* nextBackoff: double, never beyond the ceiling.
NextBackoff(cur) == IF 2 * cur > BackoffCap THEN BackoffCap ELSE 2 * cur
-----------------------------------------------------------------------------
(* The Run goroutine.                                                      *)

\* Loop head: leave when the context is done, otherwise go and start.
RunTop ==
  /\ runpc = "top"
  /\ runpc' = IF ctxDone THEN "halt" ELSE "start"
  /\ UNCHANGED <<ctxDone, cmd, spawned, child, sig, stopping, backoff, skips>>
  /\ UNCHANGED callerVars

\* start() succeeds: under s.mu a child is spawned and stored in s.cmd.
StartOK ==
  /\ runpc = "start"
  /\ cmd = NoChild
  /\ spawned < MaxSpawns
  /\ spawned' = spawned + 1
  /\ cmd' = spawned + 1
  /\ child' = [child EXCEPT ![spawned + 1] = "up"]
  /\ runpc' = "wait"
  /\ UNCHANGED <<ctxDone, sig, stopping, backoff, skips>>
  /\ UNCHANGED callerVars

\* start() fails (already running, log directory, exec error): sleep first.
StartFail ==
  /\ runpc = "start"
  /\ runpc' = "backoff"
  /\ UNCHANGED <<ctxDone, cmd, spawned, child, sig, stopping, backoff, skips>>
  /\ UNCHANGED callerVars

MutantRunExit ==
  /\ runpc = "wait"
  /\ child[cmd] = "dead" \/ stopping
  /\ runpc' = "reap"
  /\ UNCHANGED <<ctxDone, cmd, spawned, child, sig, stopping, backoff, skips>>
  /\ UNCHANGED callerVars

\* The select in Run receives from the exit channel.
RunExit ==
  /\ runpc = "wait"
  /\ child[cmd] = "dead"
  /\ runpc' = "reap"
  /\ UNCHANGED <<ctxDone, cmd, spawned, child, sig, stopping, backoff, skips>>
  /\ UNCHANGED callerVars

MutantReap ==
  /\ runpc = "reap"
  /\ cmd' = NoChild
  /\ runpc' = IF ctxDone THEN "halt" ELSE IF stopping THEN "top" ELSE "backoff"
  /\ backoff' = IF stopping /\ ~ctxDone THEN 1 ELSE backoff
  /\ skips' = IF stopping /\ ~ctxDone THEN skips + 1 ELSE skips
  /\ UNCHANGED <<ctxDone, spawned, child, sig, stopping>>
  /\ UNCHANGED callerVars

MutantReapKeepsCmd ==
  /\ runpc = "reap"
  /\ stopping' = FALSE
  /\ runpc' = IF ctxDone THEN "halt" ELSE IF stopping THEN "top" ELSE "backoff"
  /\ UNCHANGED <<ctxDone, cmd, spawned, child, sig, backoff, skips>>
  /\ UNCHANGED callerVars

\* The critical section after an exit: consume s.stopping, clear s.cmd, then
\* leave, respawn at once (an intended stop) or back off (a crash).
RunReap ==
  /\ runpc = "reap"
  /\ stopping' = FALSE
  /\ cmd' = NoChild
  /\ \/ /\ ctxDone
        /\ runpc' = "halt"
        /\ UNCHANGED <<backoff, skips>>
     \/ /\ ~ctxDone /\ stopping
        /\ runpc' = "top"
        /\ backoff' = 1
        /\ skips' = skips + 1
     \/ /\ ~ctxDone /\ ~stopping
        /\ runpc' = "backoff"
        /\ UNCHANGED <<backoff, skips>>
  /\ UNCHANGED <<ctxDone, spawned, child, sig>>
  /\ UNCHANGED callerVars

\* sleepCtx returns true: lengthen the backoff and loop.
BackoffElapsed ==
  /\ runpc = "backoff"
  /\ runpc' = "top"
  /\ backoff' = NextBackoff(backoff)
  /\ UNCHANGED <<ctxDone, cmd, spawned, child, sig, stopping, skips>>
  /\ UNCHANGED callerVars

\* sleepCtx returns false.
BackoffCancelled ==
  /\ runpc = "backoff"
  /\ ctxDone
  /\ runpc' = "halt"
  /\ UNCHANGED <<ctxDone, cmd, spawned, child, sig, stopping, backoff, skips>>
  /\ UNCHANGED callerVars

\* The select in Run sees ctx.Done: terminate sends SIGTERM.
Terminate ==
  /\ runpc = "wait"
  /\ ctxDone
  /\ sig' = Raise(sig, cmd, "term")
  /\ runpc' = "term"
  /\ UNCHANGED <<ctxDone, cmd, spawned, child, stopping, backoff, skips>>
  /\ UNCHANGED callerVars

MutantTermGrace ==
  /\ runpc = "term"
  /\ runpc' = "halt"
  /\ UNCHANGED <<ctxDone, cmd, spawned, child, sig, stopping, backoff, skips>>
  /\ UNCHANGED callerVars

\* The grace period ends first: SIGKILL, and wait once more.
TermGrace ==
  /\ runpc = "term"
  /\ sig' = Raise(sig, cmd, "kill")
  /\ runpc' = "kill"
  /\ UNCHANGED <<ctxDone, cmd, spawned, child, stopping, backoff, skips>>
  /\ UNCHANGED callerVars

\* terminate returns: the child exited, or the second grace period ended.
TermReturn ==
  /\ \/ runpc = "term" /\ child[cmd] = "dead"
     \/ runpc = "kill"
  /\ runpc' = "halt"
  /\ UNCHANGED <<ctxDone, cmd, spawned, child, sig, stopping, backoff, skips>>
  /\ UNCHANGED callerVars

Run ==
  \/ RunTop \/ StartOK \/ StartFail \/ RunExit \/ RunReap
  \/ BackoffElapsed \/ BackoffCancelled
  \/ Terminate \/ TermGrace \/ TermReturn
-----------------------------------------------------------------------------
(* Restart(ctx, _), called by c.                                           *)

runVars == <<ctxDone, runpc, cmd, spawned, child, backoff, skips>>

\* Under s.mu: read s.cmd, set s.stopping; without a child return an error.
RestartBegin(c) ==
  /\ rpc[c] = "idle"
  /\ calls < MaxCalls
  /\ calls' = calls + 1
  /\ stopping' = TRUE
  /\ rcmd' = [rcmd EXCEPT ![c] = cmd]
  /\ rres' = [rres EXCEPT ![c] = "none"]
  /\ \/ /\ cmd = NoChild
        /\ UNCHANGED rpc
     \/ /\ cmd # NoChild
        /\ rpc' = [rpc EXCEPT ![c] = "signal"]
  /\ UNCHANGED sig
  /\ UNCHANGED runVars

\* SIGTERM to the captured child, outside s.mu.
RestartSignal(c) ==
  /\ rpc[c] = "signal"
  /\ sig' = Raise(sig, rcmd[c], "term")
  /\ rpc' = [rpc EXCEPT ![c] = "poll"]
  /\ UNCHANGED <<stopping, rcmd, rres, calls>>
  /\ UNCHANGED runVars

\* A poll tick finds that s.cmd is no longer the captured child.
RestartSeen(c) ==
  /\ rpc[c] = "poll"
  /\ cmd # rcmd[c]
  /\ rres' = [rres EXCEPT ![c] = "ok"]
  /\ rpc' = [rpc EXCEPT ![c] = "idle"]
  /\ UNCHANGED <<sig, stopping, rcmd, calls>>
  /\ UNCHANGED runVars

\* The five second deadline passes: SIGKILL the captured child.
RestartDeadline(c) ==
  /\ rpc[c] = "poll"
  /\ sig' = Raise(sig, rcmd[c], "kill")
  /\ rres' = [rres EXCEPT ![c] = "ok"]
  /\ rpc' = [rpc EXCEPT ![c] = "idle"]
  /\ UNCHANGED <<stopping, rcmd, calls>>
  /\ UNCHANGED runVars

\* The caller's own context is cancelled (a dropped HTTP request).
RestartCancelled(c) ==
  /\ rpc[c] = "poll"
  /\ rpc' = [rpc EXCEPT ![c] = "idle"]
  /\ rcmd' = [rcmd EXCEPT ![c] = NoChild]
  /\ UNCHANGED <<sig, stopping, rres, calls>>
  /\ UNCHANGED runVars

Restart(c) ==
  \/ RestartBegin(c) \/ RestartSignal(c) \/ RestartSeen(c)
  \/ RestartDeadline(c) \/ RestartCancelled(c)
-----------------------------------------------------------------------------
(* The environment.                                                        *)

\* A child ends: it crashed, or obeyed a signal.
ChildDies(n) ==
  /\ child[n] = "up"
  /\ child' = [child EXCEPT ![n] = "dead"]
  /\ sig' = [sig EXCEPT ![n] = "none"]
  /\ UNCHANGED <<ctxDone, runpc, cmd, spawned, stopping, backoff, skips>>
  /\ UNCHANGED callerVars

\* SIGINT or SIGTERM to the daemon cancels the root context.
CancelCtx ==
  /\ ~ctxDone
  /\ ctxDone' = TRUE
  /\ UNCHANGED <<runpc, cmd, spawned, child, sig, stopping, backoff, skips>>
  /\ UNCHANGED callerVars

Next ==
  \/ Run
  \/ \E c \in Callers : Restart(c)
  \/ \E n \in Child : ChildDies(n)
  \/ CancelCtx

Spec == Init /\ [][Next]_vars
-----------------------------------------------------------------------------
(* Properties.                                                             *)

\* At no time do two xray children run: Run spawns (start, line 233) only
\* after the exit of the previous child was received, whatever Restart
\* callers, crashes and a shutdown do in between.
SingleChild ==
  \A m, n \in Child : child[m] = "up" /\ child[n] = "up" => m = n

\* The children, their signals and the return of Run are those of a supervised
\* process: one is spawned only when the last is gone, whatever Restart callers,
\* crashes and the shutdown do in between (start, line 233), and none once Run
\* has returned, which leaves none without a SIGKILL (terminate, line 173).
Process == INSTANCE Supervised
             WITH running <- {<<n, sig[n]>> : n \in {m \in Child : child[m] = "up"}},
                  done <- runpc = "halt"
Supervises == Process!SupSpec

\* When Run has returned, no child survives that was not sent SIGKILL: a
\* shutdown that races a crash, a spawn or a Restart never leaves an xray
\* behind without having escalated (terminate, line 173).
ShutdownEscalates ==
  runpc = "halt" => \A n \in Child : child[n] = "up" => sig[n] = "kill"

\* Run respawns without backing off at most once per call of Restart: the
\* stopping flag is consumed by every exit (line 113), so a crash loop cannot
\* spin at full speed whatever the interleaving with Restart.
SkipsAccounted == skips + (IF stopping THEN 1 ELSE 0) <= calls

\* A Restart that reported success is followed by a new child, unless the
\* daemon shuts down (or the bound on spawns is reached).
RestartRespawns ==
  \A c \in Callers : \A n \in Child :
    (rres[c] = "ok" /\ rcmd[c] = n)
      ~> (cmd > n \/ ctxDone \/ spawned = MaxSpawns
          \/ rres[c] # "ok" \/ rcmd[c] # n)
=============================================================================
