----------------------------- MODULE RelayProc ------------------------------
(***************************************************************************)
(* The relay supervisor, internal/relay/supervisor.go, and the handlers    *)
(* that change its config or restart it, internal/api/relay.go.            *)
(*                                                                         *)
(* manageChild loads the config, starts a child for it and watches until   *)
(* the child exits or a reload is announced; Run waits for the shutdown;   *)
(* a handler saves the config and announces a reload, or restarts.  Three  *)
(* of them call stopChild, at any time and together.                       *)
(*                                                                         *)
(* Simplifications: a child is named by its spawn number and a config by   *)
(* whether it is enabled and its revision; stopChild reads s.cmd and sends *)
(* SIGTERM in one step, and an exit clears s.cmd and closes s.exited in    *)
(* one; timers may fire whenever they are armed; a config that cannot be   *)
(* loaded is a step not taken; wantStop, probes and the status, which only *)
(* the log and the panel read, and units managed by systemd are left out.  *)
(* Only the relay's own handlers change its config: what the failover      *)
(* manager or a snapshot rollback write into stack.json is not modelled.   *)
(***************************************************************************)
EXTENDS Naturals

CONSTANTS
  Handlers,     \* requests that may run at the same time
  Manager, Run, \* the two goroutines of the supervisor
  MaxSpawns,    \* bound: children over a behaviour
  MaxEdits,     \* bound: changes of the config
  MaxRestarts,  \* bound: calls of Restart
  MaxCrashes    \* bound: children that exit unasked

Stoppers == Handlers \cup {Manager, Run}

ASSUME RelayAssumption ==
  /\ Manager \notin Handlers /\ Run \notin Handlers /\ Manager # Run
  /\ MaxSpawns \in Nat /\ MaxEdits \in Nat
  /\ MaxRestarts \in Nat /\ MaxCrashes \in Nat

VARIABLES
  ctxDone,   \* the root context has been cancelled
  conf,      \* the relay config in stack.json
  reload,    \* the buffered channel s.reload holds an announcement
  mpc,       \* where manageChild is
  mconf,     \* the config it is working with
  runpc,     \* where Run is
  hpc,       \* where each handler is
  spc,       \* where each stopChild is
  scmd,      \* the child it captured
  cmd,       \* s.cmd, 0 for nil
  spawned,   \* children spawned so far
  child,     \* the operating system's view of each child
  sig,       \* the strongest signal each child has been sent
  ran,       \* the revision each child was started with
  late,      \* history: children spawned before the context was cancelled
  events     \* history: restarts and crashes so far

stops == <<spc, scmd>>
procs == <<cmd, spawned, child, sig, ran>>
vars == <<ctxDone, conf, reload, mpc, mconf, runpc, hpc, stops, procs, late,
          events>>

Child == 1 .. MaxSpawns
NoChild == 0
Config == [on : BOOLEAN, rev : 0 .. MaxEdits]

TypeOK ==
  /\ ctxDone \in BOOLEAN /\ reload \in BOOLEAN
  /\ conf \in Config /\ mconf \in Config
  /\ mpc \in {"top", "start", "watch", "stop", "pause", "halt"}
  /\ runpc \in {"loop", "stop", "halt"}
  /\ hpc \in [Handlers -> {"idle", "stop", "reload"}]
  /\ spc \in [Stoppers -> {"idle", "term", "kill", "done"}]
  /\ scmd \in [Stoppers -> 0 .. MaxSpawns]
  /\ \A s \in Stoppers : spc[s] \in {"term", "kill"} => scmd[s] # NoChild
  /\ cmd \in 0 .. MaxSpawns /\ spawned \in 0 .. MaxSpawns
  /\ child \in [Child -> {"none", "up", "dead", "gone"}]
  /\ sig \in [Child -> {"none", "term", "kill"}]
  /\ ran \in [Child -> 0 .. MaxEdits]
  /\ late \in 0 .. MaxSpawns
  /\ events \in [restarts : 0 .. MaxRestarts, crashes : 0 .. MaxCrashes]

Init ==
  /\ ctxDone = FALSE
  /\ conf \in [on : BOOLEAN, rev : {0}] /\ mconf = conf
  /\ reload = FALSE
  /\ mpc = "top" /\ runpc = "loop"
  /\ hpc = [h \in Handlers |-> "idle"]
  /\ spc = [s \in Stoppers |-> "idle"]
  /\ scmd = [s \in Stoppers |-> NoChild]
  /\ cmd = NoChild /\ spawned = 0 /\ late = 0
  /\ child = [n \in Child |-> "none"]
  /\ sig = [n \in Child |-> "none"]
  /\ ran = [n \in Child |-> 0]
  /\ events = [restarts |-> 0, crashes |-> 0]
-----------------------------------------------------------------------------
(* stopChild, called by s.                                                 *)

\* A signal to a process that has been waited for is lost.
Signal(n, what) ==
  sig' = [sig EXCEPT ![n] = IF child[n] # "gone" /\ @ # "kill" THEN what ELSE @]

MutantStopBegin(s) ==
  /\ scmd' = [scmd EXCEPT ![s] = cmd]
  /\ spc' = [spc EXCEPT ![s] = "term"]
  /\ sig' = [n \in Child |-> IF n = cmd THEN "term" ELSE sig[n]]

\* With a child: SIGTERM.  Without one the call is over.
StopBegin(s) ==
  /\ scmd' = [scmd EXCEPT ![s] = cmd]
  /\ IF cmd = NoChild
       THEN spc' = [spc EXCEPT ![s] = "done"] /\ UNCHANGED sig
       ELSE spc' = [spc EXCEPT ![s] = "term"] /\ Signal(cmd, "term")

\* Five seconds passed: SIGKILL.
StopKill(s) ==
  /\ spc[s] = "term"
  /\ Signal(scmd[s], "kill")
  /\ spc' = [spc EXCEPT ![s] = "kill"]
  /\ UNCHANGED <<ctxDone, conf, reload, mpc, mconf, runpc, hpc, scmd,
                 cmd, spawned, child, ran, late, events>>

\* The captured child's s.exited is closed, or another five seconds passed.
StopReturn(s) ==
  /\ \/ spc[s] = "term" /\ child[scmd[s]] = "gone"
     \/ spc[s] = "kill"
  /\ spc' = [spc EXCEPT ![s] = "done"]
  /\ UNCHANGED <<ctxDone, conf, reload, mpc, mconf, runpc, hpc, scmd, procs,
                 late, events>>

\* The caller goes on after stopChild.
Stopped(s) == spc[s] = "done" /\ spc' = [spc EXCEPT ![s] = "idle"]
-----------------------------------------------------------------------------
(* manageChild                                                             *)

\* The loop head: leave, or load the config.
MgrTop ==
  /\ mpc = "top"
  /\ IF ctxDone
       THEN mpc' = "halt" /\ UNCHANGED <<mconf, stops, sig>>
       ELSE /\ mconf' = conf
            /\ IF conf.on
                 THEN mpc' = "start" /\ UNCHANGED <<stops, sig>>
                 ELSE mpc' = "stop" /\ StopBegin(Manager)
  /\ UNCHANGED <<ctxDone, conf, reload, runpc, hpc, cmd, spawned, child, ran,
                 late, events>>

MutantMgrStart ==
  /\ mpc = "start"
  /\ spawned < MaxSpawns
  /\ spawned' = spawned + 1 /\ cmd' = spawned'
  /\ child' = [child EXCEPT ![spawned'] = "up"]
  /\ ran' = [ran EXCEPT ![spawned'] = mconf.rev]
  /\ late' = IF ctxDone THEN late ELSE spawned'
  /\ mpc' = "watch"
  /\ UNCHANGED <<ctxDone, conf, reload, mconf, runpc, hpc, stops, sig, events>>

\* startChild spawns a child; with s.cmd set it does nothing.
MgrStart ==
  /\ mpc = "start"
  /\ \/ cmd # NoChild /\ UNCHANGED <<cmd, spawned, child, ran, late>>
     \/ /\ cmd = NoChild
        /\ spawned < MaxSpawns
        /\ spawned' = spawned + 1 /\ cmd' = spawned'
        /\ child' = [child EXCEPT ![spawned'] = "up"]
        /\ ran' = [ran EXCEPT ![spawned'] = mconf.rev]
        /\ late' = IF ctxDone THEN late ELSE spawned'
  /\ mpc' = "watch"
  /\ UNCHANGED <<ctxDone, conf, reload, mconf, runpc, hpc, stops, sig, events>>

\* The binary is missing, its config cannot be written or it does not start.
MgrRefused ==
  /\ mpc = "start"
  /\ mpc' = "pause"
  /\ UNCHANGED <<ctxDone, conf, reload, mconf, runpc, hpc, stops, procs, late,
                 events>>

\* waitChildOrReload: a reload is announced, stop the child.
MgrReload ==
  /\ mpc = "watch" /\ reload
  /\ reload' = FALSE
  /\ mpc' = "stop" /\ StopBegin(Manager)
  /\ UNCHANGED <<ctxDone, conf, mconf, runpc, hpc, cmd, spawned, child, ran,
                 late, events>>

\* waitChildOrReload: a tick finds no child, or the context is done.
MgrWatched ==
  /\ mpc = "watch"
  /\ cmd = NoChild \/ ctxDone
  /\ mpc' = "top"
  /\ UNCHANGED <<ctxDone, conf, reload, mconf, runpc, hpc, stops, procs, late,
                 events>>

\* The child is stopped: wait when it was for a disabled config, else go on.
MgrStopped ==
  /\ mpc = "stop" /\ Stopped(Manager)
  /\ mpc' = IF mconf.on THEN "top" ELSE "pause"
  /\ UNCHANGED <<ctxDone, conf, reload, mconf, runpc, hpc, scmd, procs, late,
                 events>>

\* waitReloadOrCancel ends, by an announcement or without.
MgrPause ==
  /\ mpc = "pause"
  /\ \/ reload' = FALSE
     \/ UNCHANGED reload
  /\ mpc' = "top"
  /\ UNCHANGED <<ctxDone, conf, mconf, runpc, hpc, stops, procs, late, events>>
-----------------------------------------------------------------------------
(* Run and the handlers.                                                   *)

MutantRunStop ==
  /\ runpc = "loop" /\ ctxDone
  /\ runpc' = "stop"
  /\ scmd' = [scmd EXCEPT ![Run] = cmd]
  /\ spc' = [spc EXCEPT ![Run] = "done"]
  /\ IF cmd = NoChild THEN UNCHANGED sig ELSE Signal(cmd, "term")
  /\ UNCHANGED <<ctxDone, conf, reload, mpc, mconf, hpc, cmd, spawned, child,
                 ran, late, events>>

\* Run sees the context done.
RunStop ==
  /\ runpc = "loop" /\ ctxDone
  /\ runpc' = "stop" /\ StopBegin(Run)
  /\ UNCHANGED <<ctxDone, conf, reload, mpc, mconf, hpc, cmd, spawned, child,
                 ran, late, events>>

RunReturn ==
  /\ runpc = "stop" /\ Stopped(Run)
  /\ runpc' = "halt"
  /\ UNCHANGED <<ctxDone, conf, reload, mpc, mconf, hpc, scmd, procs, late,
                 events>>

\* relayConfigPut and the site handlers save a new config.
Edit(h) ==
  /\ hpc[h] = "idle" /\ conf.rev < MaxEdits
  /\ conf' \in [on : BOOLEAN, rev : {conf.rev + 1}]
  /\ hpc' = [hpc EXCEPT ![h] = "reload"]
  /\ UNCHANGED <<ctxDone, reload, mpc, mconf, runpc, stops, procs, late, events>>

\* relayRestart: Restart stops the child first.
Restart(h) ==
  /\ hpc[h] = "idle" /\ events.restarts < MaxRestarts
  /\ events' = [events EXCEPT !.restarts = @ + 1]
  /\ hpc' = [hpc EXCEPT ![h] = "stop"] /\ StopBegin(h)
  /\ UNCHANGED <<ctxDone, conf, reload, mpc, mconf, runpc, cmd, spawned, child,
                 ran, late>>

RestartStopped(h) ==
  /\ hpc[h] = "stop" /\ Stopped(h)
  /\ hpc' = [hpc EXCEPT ![h] = "reload"]
  /\ UNCHANGED <<ctxDone, conf, reload, mpc, mconf, runpc, scmd, procs, late,
                 events>>

MutantReload(h) ==
  /\ hpc[h] = "reload"
  /\ reload' = (mpc \in {"watch", "pause"})
  /\ hpc' = [hpc EXCEPT ![h] = "idle"]
  /\ UNCHANGED <<ctxDone, conf, mpc, mconf, runpc, stops, procs, late, events>>

\* Reload: the announcement waits in the channel, one is as good as many.
Reload(h) ==
  /\ hpc[h] = "reload"
  /\ reload' = TRUE
  /\ hpc' = [hpc EXCEPT ![h] = "idle"]
  /\ UNCHANGED <<ctxDone, conf, mpc, mconf, runpc, stops, procs, late, events>>
-----------------------------------------------------------------------------
(* Children and the shutdown.                                              *)

\* A child exits, unasked or obeying a signal.
Exit(n) ==
  /\ child[n] = "up"
  /\ child' = [child EXCEPT ![n] = "dead"]
  /\ \/ sig[n] # "none" /\ UNCHANGED events
     \/ /\ sig[n] = "none" /\ events.crashes < MaxCrashes
        /\ events' = [events EXCEPT !.crashes = @ + 1]
  /\ UNCHANGED <<ctxDone, conf, reload, mpc, mconf, runpc, hpc, stops,
                 cmd, spawned, sig, ran, late>>

\* The goroutine of startChild returns from Wait.
Wait(n) ==
  /\ child[n] = "dead"
  /\ child' = [child EXCEPT ![n] = "gone"]
  /\ cmd' = NoChild
  /\ UNCHANGED <<ctxDone, conf, reload, mpc, mconf, runpc, hpc, stops,
                 spawned, sig, ran, late, events>>

Cancel ==
  /\ ~ctxDone
  /\ ctxDone' = TRUE
  /\ UNCHANGED <<conf, reload, mpc, mconf, runpc, hpc, stops, procs, late, events>>

Manage ==
  \/ MgrTop \/ MgrReload \/ MgrWatched \/ MgrStopped \/ MgrPause
  \/ StopKill(Manager) \/ StopReturn(Manager)

Loop == RunStop \/ RunReturn \/ StopKill(Run) \/ StopReturn(Run)

Handle(h) ==
  RestartStopped(h) \/ Reload(h) \/ StopKill(h) \/ StopReturn(h)

Next ==
  \/ Manage \/ MgrStart \/ MgrRefused
  \/ Loop
  \/ \E h \in Handlers : Edit(h) \/ Restart(h) \/ Handle(h)
  \/ \E n \in Child : Exit(n) \/ Wait(n)
  \/ Cancel

Spec == Init /\ [][Next]_vars

\* The goroutines run, SIGKILL is obeyed, and a start that can succeed is not
\* refused for ever.
FairSpec ==
  /\ Spec
  /\ WF_vars(Manage) /\ SF_vars(MgrStart) /\ WF_vars(Loop)
  /\ \A h \in Handlers : WF_vars(Handle(h))
  /\ \A n \in Child : WF_vars(Wait(n)) /\ WF_vars(sig[n] = "kill" /\ Exit(n))
-----------------------------------------------------------------------------
(* Properties.                                                             *)

\* Never two relay children, whatever stops, starts, reloads and crashes
\* coincide (startChild, line 148; the exit goroutine, line 184).
OneRelay ==
  \A m, n \in Child : child[m] = "up" /\ child[n] = "up" => m = n

\* The relay is a supervised process to whatever stops, starts, reloads and
\* crashes coincide (startChild, line 148; the exit goroutine, line 184), but for
\* the promise of a supervisor that is done: after the shutdown manageChild may
\* spawn once more.
Process == INSTANCE Supervised
             WITH running <- {<<n, sig[n]>> : n \in {m \in Child : child[m] = "up"}},
                  done <- FALSE
Supervises == Process!SupSpec

\* A child that is left in peace runs the config of stack.json: otherwise it
\* has been signalled or a reload is announced or about to be
\* (supervisor.go:37-41, "the loser misses the edge").
Announced == reload \/ \E h \in Handlers : hpc[h] = "reload"

NoStaleRelay ==
  /\ mpc \in {"watch", "pause"} /\ cmd # NoChild
  /\ child[cmd] = "up" /\ sig[cmd] = "none"
  => Announced \/ conf = [on |-> TRUE, rev |-> ran[cmd]]

\* When Run has returned, every child from before the shutdown is gone or has
\* been sent SIGKILL (stopChild, line 200).
ShutdownEnds ==
  runpc = "halt" =>
    \A n \in 1 .. late : child[n] = "up" => sig[n] = "kill"

\* Once edits, restarts and crashes come to rest, a child of the newest config
\* runs for good, or none if it is disabled.
Settled ==
  IF conf.on THEN cmd # NoChild /\ child[cmd] = "up" /\ ran[cmd] = conf.rev
             ELSE \A n \in Child : child[n] # "up"

EventuallySettled == <>[](ctxDone \/ Settled)
=============================================================================
