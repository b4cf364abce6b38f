------------------------------ MODULE SniSpoof ------------------------------
(***************************************************************************)
(* The SNI-spoof supervisor, internal/snispoof/supervisor.go, its two      *)
(* children (proc.go), the policy route (route_linux.go) and the handlers  *)
(* that change its config or restart it (internal/api/snispoof.go).        *)
(*                                                                         *)
(* manageChild starts byedpi, then tun2socks, waits for the tun device     *)
(* that tun2socks creates, programs a rule that sends marked packets to    *)
(* the device, and tears everything down when a child exits or a reload is *)
(* announced.  stopAll, called by manageChild, Run and Restart, removes    *)
(* the rule under the config of its caller if routeReady is set and stops  *)
(* the children, one after the other.                                      *)
(*                                                                         *)
(* Simplifications: a config is whether it is enabled and the firewall     *)
(* mark (with the table) it uses; the device's name is fixed; the death of *)
(* a child and the return of Wait are one step; timers may fire whenever   *)
(* they are armed.  wantStop, probes, status and logs are left out.        *)
(***************************************************************************)
EXTENDS Naturals

CONSTANTS
  Handlers,     \* requests that may run at the same time
  Manager, Run, \* the two goroutines of the supervisor
  Marks,        \* firewall marks
  NoMark,       \* of a child that does not run
  MaxEdits,     \* bound: changes of the config
  MaxRestarts,  \* bound: calls of Restart
  MaxFaults     \* bound: children that exit unasked or not even after SIGKILL
                \* and starts that fail

Stoppers == Handlers \cup {Manager, Run}

ASSUME SniAssumption ==
  /\ Manager \notin Handlers /\ Run \notin Handlers /\ Manager # Run
  /\ Marks # {} /\ NoMark \notin Marks
  /\ MaxEdits \in Nat /\ MaxRestarts \in Nat /\ MaxFaults \in Nat

VARIABLES
  ctxDone,   \* the root context has been cancelled
  conf,      \* the sni_spoof config in stack.json
  reload,    \* the buffered channel s.reload holds an announcement
  mpc,       \* where manageChild is
  mconf,     \* the config it is working with
  runpc,     \* where Run is
  hpc,       \* where each handler is
  spc,       \* where each stopAll is
  sproc,     \* the child it is stopping
  smark,     \* the mark whose rule it is going to remove
  proc,      \* each child: not running, running, sent SIGTERM or SIGKILL
  pmark,     \* the mark of the config each child was started with
  dev,       \* the tun device exists
  rules,     \* the marks for which a routing rule is installed
  ready,     \* s.routeReady
  events     \* edits, restarts and faults so far

stops == <<spc, sproc, smark>>
procs == <<proc, pmark, dev>>
route == <<rules, ready>>
vars == <<ctxDone, conf, reload, mpc, mconf, runpc, hpc, stops, procs, route,
          events>>

Proc == {"byedpi", "tun2socks"}
Config == [on : BOOLEAN, mark : Marks]

TypeOK ==
  /\ ctxDone \in BOOLEAN /\ reload \in BOOLEAN
  /\ conf \in Config /\ mconf \in Config
  /\ mpc \in {"top", "byedpi", "tun2socks", "device", "route", "ready",
              "watch", "stop", "fail", "pause", "halt"}
  /\ runpc \in {"loop", "stop", "halt"}
  /\ hpc \in [Handlers -> {"idle", "stop", "reload"}]
  /\ spc \in [Stoppers -> {"idle", "unroute", "clear", "term", "wait", "kill",
                           "done"}]
  /\ sproc \in [Stoppers -> Proc]
  /\ smark \in [Stoppers -> Marks \cup {NoMark}]
  /\ \A s \in Stoppers : spc[s] = "unroute" => smark[s] # NoMark
  /\ proc \in [Proc -> {"down", "up", "term", "kill"}]
  /\ pmark \in [Proc -> Marks \cup {NoMark}]
  /\ \A p \in Proc : pmark[p] = NoMark <=> proc[p] = "down"
  /\ dev \in BOOLEAN /\ (dev => proc["tun2socks"] # "down")
  /\ rules \in SUBSET Marks /\ ready \in BOOLEAN
  /\ events \in [edits : 0 .. MaxEdits, restarts : 0 .. MaxRestarts,
                 faults : 0 .. MaxFaults]

Init ==
  /\ ctxDone = FALSE
  /\ conf \in Config /\ mconf = conf
  /\ reload = FALSE
  /\ mpc = "top" /\ runpc = "loop"
  /\ hpc = [h \in Handlers |-> "idle"]
  /\ spc = [s \in Stoppers |-> "idle"]
  /\ sproc = [s \in Stoppers |-> "tun2socks"]
  /\ smark = [s \in Stoppers |-> NoMark]
  /\ proc = [p \in Proc |-> "down"]
  /\ pmark = [p \in Proc |-> NoMark]
  /\ dev = FALSE /\ rules = {} /\ ready = FALSE
  /\ events = [edits |-> 0, restarts |-> 0, faults |-> 0]

Fault ==
  /\ events.faults < MaxFaults
  /\ events' = [events EXCEPT !.faults = @ + 1]
-----------------------------------------------------------------------------
(* stopAll(c), called by s, and stop, called for each child in turn.       *)

MutantStopAll(s, c) ==
  /\ smark' = [smark EXCEPT ![s] = NoMark]
  /\ spc' = [spc EXCEPT ![s] = IF ready THEN "unroute" ELSE "term"]
  /\ UNCHANGED sproc

\* The flag is read first: without it the route is not touched.
StopAll(s, c) ==
  /\ smark' = [smark EXCEPT ![s] = IF ready THEN c.mark ELSE NoMark]
  /\ spc' = [spc EXCEPT ![s] = IF ready THEN "unroute" ELSE "term"]
  /\ UNCHANGED sproc

\* teardownRoute removes the rules of the config it is given.
Unroute(s) ==
  /\ spc[s] = "unroute"
  /\ rules' = rules \ {smark[s]}
  /\ smark' = [smark EXCEPT ![s] = NoMark]
  /\ spc' = [spc EXCEPT ![s] = "clear"]
  /\ UNCHANGED <<ctxDone, conf, reload, mpc, mconf, runpc, hpc, sproc, procs,
                 ready, events>>

Clear(s) ==
  /\ spc[s] = "clear"
  /\ ready' = FALSE
  /\ spc' = [spc EXCEPT ![s] = "term"]
  /\ UNCHANGED <<ctxDone, conf, reload, mpc, mconf, runpc, hpc, sproc, smark,
                 procs, rules, events>>

\* tun2socks is stopped, go on with byedpi; byedpi is stopped, return.
NextChild(S) ==
  /\ sproc' = [s \in Stoppers |->
                 IF s \notin S THEN sproc[s]
                 ELSE IF sproc[s] = "tun2socks" THEN "byedpi" ELSE "tun2socks"]
  /\ spc' = [s \in Stoppers |->
               IF s \notin S THEN spc[s]
               ELSE IF sproc[s] = "tun2socks" THEN "term" ELSE "done"]

\* SIGTERM to the child, if there is one.
Term(s) ==
  /\ spc[s] = "term"
  /\ IF proc[sproc[s]] = "down"
       THEN NextChild({s}) /\ UNCHANGED proc
       ELSE /\ proc' = [proc EXCEPT ![sproc[s]] = IF @ = "up" THEN "term" ELSE @]
            /\ spc' = [spc EXCEPT ![s] = "wait"]
            /\ UNCHANGED sproc
  /\ UNCHANGED <<ctxDone, conf, reload, mpc, mconf, runpc, hpc, smark, pmark,
                 dev, route, events>>

\* Five seconds passed: SIGKILL to the child it captured.
Kill(s) ==
  /\ spc[s] = "wait"
  /\ proc' = [proc EXCEPT ![sproc[s]] = "kill"]
  /\ spc' = [spc EXCEPT ![s] = "kill"]
  /\ UNCHANGED <<ctxDone, conf, reload, mpc, mconf, runpc, hpc, sproc, smark,
                 pmark, dev, route, events>>

\* The child has not exited five seconds later: go on without it.
GiveUp(s) ==
  /\ spc[s] = "kill"
  /\ NextChild({s})
  /\ Fault
  /\ UNCHANGED <<ctxDone, conf, reload, mpc, mconf, runpc, hpc, smark, procs,
                 route>>

Stopping(s) ==
  Unroute(s) \/ Clear(s) \/ Term(s) \/ Kill(s) \/ GiveUp(s)

\* The caller goes on after stopAll.
Stopped(s) == spc[s] = "done" /\ spc' = [spc EXCEPT ![s] = "idle"]
-----------------------------------------------------------------------------
(* manageChild                                                             *)

\* The loop head: leave, stop a disabled plugin, or begin to start it.
MgrTop ==
  /\ mpc = "top"
  /\ IF ctxDone
       THEN mpc' = "halt" /\ UNCHANGED <<mconf, stops>>
       ELSE /\ mconf' = conf
            /\ IF conf.on
                 THEN mpc' = "byedpi" /\ UNCHANGED stops
                 ELSE mpc' = "fail" /\ StopAll(Manager, conf)
  /\ UNCHANGED <<ctxDone, conf, reload, runpc, hpc, procs, route, events>>

\* start(p): a child that is there is kept, even one that is being stopped.
MgrStart(p) ==
  /\ mpc = p
  /\ IF proc[p] = "down"
       THEN /\ proc' = [proc EXCEPT ![p] = "up"]
            /\ pmark' = [pmark EXCEPT ![p] = mconf.mark]
       ELSE UNCHANGED <<proc, pmark>>
  /\ mpc' = IF p = "byedpi" THEN "tun2socks" ELSE "device"
  /\ UNCHANGED <<ctxDone, conf, reload, mconf, runpc, hpc, stops, dev, route,
                 events>>

\* waitDevice finds the device.
MgrDevice ==
  /\ mpc = "device" /\ dev /\ ~ctxDone
  /\ mpc' = "route"
  /\ UNCHANGED <<ctxDone, conf, reload, mconf, runpc, hpc, stops, procs, route,
                 events>>

\* setupRoute; its commands fail once the context is done.
MgrRoute ==
  /\ mpc = "route" /\ dev /\ ~ctxDone
  /\ rules' = rules \cup {mconf.mark}
  /\ mpc' = "ready"
  /\ UNCHANGED <<ctxDone, conf, reload, mconf, runpc, hpc, stops, procs, ready,
                 events>>

MgrReady ==
  /\ mpc = "ready"
  /\ ready' = TRUE
  /\ mpc' = "watch"
  /\ UNCHANGED <<ctxDone, conf, reload, mconf, runpc, hpc, stops, procs, rules,
                 events>>

\* The device never comes, or the commands fail, for sure.
Hopeless ==
  mpc \in {"device", "route"} /\ (ctxDone \/ proc["tun2socks"] = "down")

MutantMgrFail ==
  /\ mpc \in Proc \cup {"device", "route"}
  /\ IF Hopeless THEN UNCHANGED events ELSE Fault
  /\ mpc' = "pause"
  /\ UNCHANGED <<ctxDone, conf, reload, mconf, runpc, hpc, stops, procs, route>>

\* fail: a binary is missing, a start fails, the device does not come in time
\* or the route cannot be set up; setupRoute may have removed the old rule.
MgrFail ==
  /\ mpc \in Proc \cup {"device", "route"}
  /\ IF Hopeless THEN UNCHANGED events ELSE Fault
  /\ \/ rules' = rules
     \/ mpc = "route" /\ rules' = rules \ {mconf.mark}
  /\ mpc' = "fail" /\ StopAll(Manager, mconf)
  /\ UNCHANGED <<ctxDone, conf, reload, mconf, runpc, hpc, procs, ready>>

MutantMgrWatched ==
  /\ mpc = "watch"
  /\ \/ reload' = FALSE /\ reload
     \/ ctxDone /\ UNCHANGED reload
  /\ mpc' = "stop" /\ StopAll(Manager, mconf)
  /\ UNCHANGED <<ctxDone, conf, mconf, runpc, hpc, procs, route, events>>

\* waitChildrenOrReload: tear everything down.
MgrWatched ==
  /\ mpc = "watch"
  /\ \/ reload /\ reload' = FALSE
     \/ ctxDone /\ UNCHANGED reload
     \/ (\E p \in Proc : proc[p] = "down") /\ UNCHANGED reload
  /\ mpc' = "stop" /\ StopAll(Manager, mconf)
  /\ UNCHANGED <<ctxDone, conf, mconf, runpc, hpc, procs, route, events>>

MgrStopped ==
  /\ mpc \in {"stop", "fail"} /\ Stopped(Manager)
  /\ mpc' = IF mpc = "stop" THEN "top" ELSE "pause"
  /\ UNCHANGED <<ctxDone, conf, reload, mconf, runpc, hpc, sproc, smark, procs,
                 route, events>>

\* waitReloadOrCancel ends, by an announcement or without.
MgrPause ==
  /\ mpc = "pause"
  /\ \/ reload' = FALSE
     \/ UNCHANGED reload
  /\ mpc' = "top"
  /\ UNCHANGED <<ctxDone, conf, mconf, runpc, hpc, stops, procs, route, events>>
-----------------------------------------------------------------------------
(* Run and the handlers.                                                   *)

\* Run sees the context done and stops all under the config it loads now; if
\* that fails it returns at once.
RunStop ==
  /\ runpc = "loop" /\ ctxDone
  /\ \/ runpc' = "stop" /\ StopAll(Run, conf)
     \/ runpc' = "halt" /\ UNCHANGED stops
  /\ UNCHANGED <<ctxDone, conf, reload, mpc, mconf, hpc, procs, route, events>>

RunReturn ==
  /\ runpc = "stop" /\ Stopped(Run)
  /\ runpc' = "halt"
  /\ UNCHANGED <<ctxDone, conf, reload, mpc, mconf, hpc, sproc, smark, procs,
                 route, events>>

\* snispoofConfigPut and the site handlers save a new config.
Edit(h) ==
  /\ hpc[h] = "idle" /\ events.edits < MaxEdits
  /\ conf' \in Config \ {conf}
  /\ events' = [events EXCEPT !.edits = @ + 1]
  /\ hpc' = [hpc EXCEPT ![h] = "reload"]
  /\ UNCHANGED <<ctxDone, reload, mpc, mconf, runpc, stops, procs, route>>

\* snispoofRestart: Restart stops all under the config it loads, or, if that
\* fails, only announces a reload.
Restart(h) ==
  /\ hpc[h] = "idle" /\ events.restarts < MaxRestarts
  /\ events' = [events EXCEPT !.restarts = @ + 1]
  /\ \/ hpc' = [hpc EXCEPT ![h] = "stop"] /\ StopAll(h, conf)
     \/ hpc' = [hpc EXCEPT ![h] = "reload"] /\ UNCHANGED stops
  /\ UNCHANGED <<ctxDone, conf, reload, mpc, mconf, runpc, procs, route>>

RestartStopped(h) ==
  /\ hpc[h] = "stop" /\ Stopped(h)
  /\ hpc' = [hpc EXCEPT ![h] = "reload"]
  /\ UNCHANGED <<ctxDone, conf, reload, mpc, mconf, runpc, sproc, smark, procs,
                 route, events>>

Reload(h) ==
  /\ hpc[h] = "reload"
  /\ reload' = TRUE
  /\ hpc' = [hpc EXCEPT ![h] = "idle"]
  /\ UNCHANGED <<ctxDone, conf, mpc, mconf, runpc, stops, procs, route, events>>
-----------------------------------------------------------------------------
(* The children and the shutdown.                                          *)

\* A child exits, unasked or obeying a signal.  Every stop that captured it
\* sees its channel closed and goes on; the device goes with tun2socks.
Exit(p) ==
  /\ proc[p] # "down"
  /\ IF proc[p] = "up" THEN Fault ELSE UNCHANGED events
  /\ proc' = [proc EXCEPT ![p] = "down"]
  /\ pmark' = [pmark EXCEPT ![p] = NoMark]
  /\ dev' = (dev /\ p # "tun2socks")
  /\ NextChild({s \in Stoppers : sproc[s] = p /\ spc[s] \in {"wait", "kill"}})
  /\ UNCHANGED <<ctxDone, conf, reload, mpc, mconf, runpc, hpc, smark, route>>

\* tun2socks creates the device.
DeviceAppears ==
  /\ proc["tun2socks"] # "down" /\ ~dev
  /\ dev' = TRUE
  /\ UNCHANGED <<ctxDone, conf, reload, mpc, mconf, runpc, hpc, stops, proc,
                 pmark, route, events>>

Cancel ==
  /\ ~ctxDone
  /\ ctxDone' = TRUE
  /\ UNCHANGED <<conf, reload, mpc, mconf, runpc, hpc, stops, procs, route,
                 events>>

Manage ==
  \/ MgrTop \/ MgrReady \/ MgrWatched \/ MgrStopped \/ MgrPause
  \/ \E p \in Proc : MgrStart(p)
  \/ MgrDevice \/ MgrRoute
  \/ Hopeless /\ MgrFail
  \/ Stopping(Manager)

Loop == RunStop \/ RunReturn \/ Stopping(Run)

Handle(h) == RestartStopped(h) \/ Reload(h) \/ Stopping(h)

Next ==
  \/ Manage \/ MgrFail
  \/ Loop
  \/ \E h \in Handlers : Edit(h) \/ Restart(h) \/ Handle(h)
  \/ \E p \in Proc : Exit(p)
  \/ DeviceAppears
  \/ Cancel

Spec == Init /\ [][Next]_vars

\* Goroutines run, SIGKILL is obeyed and tun2socks creates its device.
FairSpec ==
  /\ Spec
  /\ WF_vars(Manage) /\ WF_vars(Loop)
  /\ \A h \in Handlers : WF_vars(Handle(h))
  /\ WF_vars(\E p \in Proc : proc[p] = "kill" /\ Exit(p))
  /\ WF_vars(DeviceAppears)
-----------------------------------------------------------------------------
(* Properties.                                                             *)

\* When both goroutines are done after a shutdown, no child is left that has
\* not been sent SIGKILL: one that manageChild starts after Run has stopped
\* all is stopped by manageChild itself (fail, line 91; line 157).
ShutdownClean ==
  runpc = "halt" /\ mpc = "halt" =>
    \A p \in Proc : proc[p] \in {"down", "kill"}

\* Each of the two children is a supervised process, whichever of the stops by
\* manageChild, Run and the handlers reaches it: nobody starts it anew while a stop
\* has left it running (proc.go:33), and when both goroutines are done it is not
\* started any more and has ended or been sent SIGKILL.
Running(p) ==
  CASE proc[p] = "down" -> {}
    [] proc[p] = "up" -> {<<p, "none">>}
    [] OTHER -> {<<p, proc[p]>>}
Returned == runpc = "halt" /\ mpc = "halt"

Byedpi == INSTANCE Supervised
            WITH Child <- Proc, running <- Running("byedpi"), done <- Returned
Tun2socks == INSTANCE Supervised
               WITH Child <- Proc, running <- Running("tun2socks"), done <- Returned
Supervises == Byedpi!SupSpec /\ Tun2socks!SupSpec

\* Once edits, restarts and faults come to rest, an enabled plugin has both
\* children up under the newest config with the rule for its mark and the flag
\* that makes the next stopAll remove it; a disabled one has no child.
Settled ==
  IF conf.on
    THEN /\ \A p \in Proc : proc[p] = "up" /\ pmark[p] = conf.mark
         /\ dev /\ ready /\ conf.mark \in rules
    ELSE \A p \in Proc : proc[p] = "down"

EventuallySettled == <>[](ctxDone \/ Settled)
=============================================================================
