------------------------------ MODULE Failover ------------------------------
(***************************************************************************)
(* Tunnel failover: internal/failover (state.go, manager.go), the handler  *)
(* failoverMode of internal/api/server.go, and the two copies of the       *)
(* config they share: stack.json on disk and the API server's s.cfg.       *)
(*                                                                         *)
(* The manager goroutine loads the config, probes the tunnels, decides,    *)
(* saves the config and applies it to xray; an admin's request does the    *)
(* same at any moment; other handlers save s.cfg, whatever it holds.       *)
(* Nothing serialises them.                                                *)
(*                                                                         *)
(* Simplifications: a tunnel is its interface; the probes of one pass see  *)
(* the health of one moment; a time stamp is its age in manager intervals, *)
(* Cooldown standing for "that long ago, or never"; saving the small       *)
(* files succeeds; of the config only the fields below are kept.           *)
(***************************************************************************)
EXTENDS Naturals, Sequences

CONSTANTS
  Tunnels,        \* the configured interfaces, in priority order
  Proxy,          \* the tag of the proxy outbound
  Fallback,       \* failover.fallback_outbound_tag, NoTag when unset
  NoTag,          \* the empty tag
  NoIface,        \* the empty interface
  Confirmations,  \* failover.confirmations, at least 1
  Cooldown,       \* failover.cooldown_seconds, in intervals
  MaxFlaps,       \* bound: changes of a tunnel's health
  MaxRequests,    \* bound: admin requests, saves of s.cfg, failed passes
  MaxCrashes      \* bound: restarts of the daemon

Ifaces == {Tunnels[i] : i \in DOMAIN Tunnels}

ASSUME FailoverAssumption ==
  /\ Tunnels \in Seq(Ifaces)
  /\ NoIface \notin Ifaces
  /\ Proxy # NoTag /\ Fallback # Proxy
  /\ Confirmations \in Nat \ {0}
  /\ Cooldown \in Nat
  /\ MaxFlaps \in Nat /\ MaxRequests \in Nat /\ MaxCrashes \in Nat

VARIABLES
  disk,      \* stack.json: the failover mode and the active outbound
  scfg,      \* the API server's copy, s.cfg
  applied,   \* the mode the live xray config was rendered for
  dst,       \* the failover state file
  mst,       \* m.State
  loaded,    \* m.stateLoaded
  mpc,       \* where the manager is
  mcfg,      \* the config of its current pass
  due,       \* an interval has passed since the manager's last pass
  hpc,       \* where the handler failoverMode is
  hcfg,      \* the config it is working on
  health,    \* which tunnels pass their probe
  autoAge,   \* history: age of the last automatic switch
  wanted,    \* history: passes that desired a mode since one was satisfied
  events     \* history: flaps, requests and crashes so far

files == <<disk, dst>>
mgr == <<mst, loaded, mpc, mcfg, due>>
handler == <<hpc, hcfg>>
history == <<autoAge, wanted, events>>
vars == <<disk, scfg, applied, dst, mst, loaded, mpc, mcfg, due, hpc, hcfg,
          health, autoAge, wanted, events>>

FailoverMode == {"auto", "manual", "preferred"}
Mode == [tag : {NoTag, Proxy, Fallback}, iface : Ifaces \cup {NoIface}]
NoMode == [tag |-> NoTag, iface |-> NoIface]
Config == [mode : FailoverMode, pref : Ifaces \cup {NoIface},
           tag : {NoTag, Fallback}, iface : Ifaces \cup {NoIface}]
Age == 0 .. Cooldown
State == [cand : Mode, count : 0 .. Confirmations, age : Age]
\* No pass or request is under way.
NoConfig == [mode |-> "auto", pref |-> NoIface, tag |-> NoTag, iface |-> NoIface]
NoState == [cand |-> NoMode, count |-> 0, age |-> Cooldown]

TypeOK ==
  /\ disk \in Config /\ scfg \in Config /\ mcfg \in Config /\ hcfg \in Config
  /\ applied \in Mode
  /\ dst \in State /\ mst \in State
  /\ loaded \in BOOLEAN /\ due \in BOOLEAN
  /\ mpc \in {"sleep", "probe", "save", "apply"}
  /\ hpc \in {"idle", "probe", "save", "state", "apply"}
  /\ health \in [Ifaces -> BOOLEAN]
  /\ autoAge \in Age
  /\ wanted \in [Mode -> 0 .. Confirmations]
  /\ events \in [flaps : 0 .. MaxFlaps, requests : 0 .. MaxRequests,
                 crashes : 0 .. MaxCrashes]
-----------------------------------------------------------------------------
(* Modes and decisions, internal/failover/state.go.                        *)

\* CurrentMode: the outbound the config routes to.
CurrentMode(cfg) ==
  IF cfg.tag \in {NoTag, Proxy}
    THEN [tag |-> Proxy, iface |-> cfg.iface]
    ELSE [tag |-> cfg.tag, iface |-> NoIface]

Via(i) == [tag |-> Proxy, iface |-> i]

MutantFirstHealthyMode(up) ==
  LET ok == {n \in DOMAIN Tunnels : up[Tunnels[n]]}
  IN  Via(Tunnels[IF ok = {} THEN 1 ELSE CHOOSE n \in ok : \A m \in ok : n <= m])

\* firstHealthyMode: the healthy tunnel of the highest priority, or else the
\* fallback outbound.
FirstHealthyMode(up) ==
  LET ok == {n \in DOMAIN Tunnels : up[Tunnels[n]]}
  IN  IF ok = {}
        THEN [tag |-> Fallback, iface |-> NoIface]
        ELSE Via(Tunnels[CHOOSE n \in ok : \A m \in ok : n <= m])

\* DesiredMode: "preferred" goes to the preferred tunnel when it is healthy,
\* "manual" stays where it is as long as that is healthy, anything else takes
\* the first healthy tunnel.
DesiredMode(cfg, up) ==
  IF cfg.mode = "preferred" /\ cfg.pref # NoIface /\ up[cfg.pref]
    THEN Via(cfg.pref)
  ELSE IF /\ cfg.mode = "manual"
          /\ CurrentMode(cfg).iface # NoIface
          /\ up[cfg.iface]
    THEN CurrentMode(cfg)
  ELSE FirstHealthyMode(up)

MutantApplyMode(cfg, mode) ==
  IF mode.tag = Proxy
    THEN [cfg EXCEPT !.iface = mode.iface]
    ELSE [cfg EXCEPT !.tag = mode.tag]

\* ApplyMode: the config that routes to the mode.
ApplyMode(cfg, mode) ==
  IF mode.tag = Proxy
    THEN [cfg EXCEPT !.tag = NoTag, !.iface = mode.iface]
    ELSE [cfg EXCEPT !.tag = mode.tag]

\* Decide skips the cooldown for a return to the preferred tunnel.
SkipCooldown(cfg, desired) ==
  cfg.mode = "preferred" /\ cfg.pref # NoIface /\ desired.iface = cfg.pref
-----------------------------------------------------------------------------
Init ==
  /\ disk \in [mode : {"auto"}, pref : {NoIface}, tag : {NoTag}, iface : Ifaces]
  /\ scfg = disk
  /\ applied = CurrentMode(disk)
  /\ dst = NoState /\ mst = NoState
  /\ loaded = FALSE
  /\ mpc = "sleep" /\ mcfg = NoConfig /\ due = TRUE
  /\ hpc = "idle" /\ hcfg = NoConfig
  /\ health \in [Ifaces -> BOOLEAN]
  /\ autoAge = Cooldown
  /\ wanted = [m \in Mode |-> 0]
  /\ events = [flaps |-> 0, requests |-> 0, crashes |-> 0]
-----------------------------------------------------------------------------
(* The manager: Run, runOnce and Decide.                                   *)

MutantMgrLoad ==
  /\ mpc = "sleep" /\ due
  /\ due' = FALSE
  /\ mcfg' = disk
  /\ loaded' = TRUE
  /\ mpc' = "probe"
  /\ UNCHANGED <<files, scfg, applied, mst, handler, health, history>>

\* A pass begins: load the config and, the first time, the state file.
MgrLoad ==
  /\ mpc = "sleep" /\ due
  /\ due' = FALSE
  /\ mcfg' = disk
  /\ mst' = IF loaded THEN mst ELSE dst
  /\ loaded' = TRUE
  /\ mpc' = "probe"
  /\ UNCHANGED <<files, scfg, applied, handler, health, history>>

Desired == DesiredMode(mcfg, health)
Cooling == mst.age < Cooldown /\ ~SkipCooldown(mcfg, Desired)
Confirmed == IF mst.cand = Desired THEN mst.count + 1 ELSE 1

\* setState: the manager's memory and the state file.
SetState(st) == mst' = st /\ dst' = st

Wanting ==
  wanted' = [wanted EXCEPT ![Desired] = IF @ < Confirmations THEN @ + 1 ELSE @]

decideUnchanged == <<disk, scfg, applied, loaded, due, handler, health,
                     events>>

\* Decide: already in the desired mode.
MgrSteady ==
  /\ mpc = "probe"
  /\ Desired = CurrentMode(mcfg)
  /\ SetState([mst EXCEPT !.cand = NoMode, !.count = 0])
  /\ mpc' = "sleep" /\ mcfg' = NoConfig
  /\ wanted' = [m \in Mode |-> 0]
  /\ UNCHANGED autoAge
  /\ UNCHANGED decideUnchanged

MutantMgrCooling ==
  /\ mpc = "probe"
  /\ Desired # CurrentMode(mcfg)
  /\ Cooling
  /\ SetState([mst EXCEPT !.age = 0])
  /\ mpc' = "sleep" /\ mcfg' = NoConfig
  /\ Wanting
  /\ UNCHANGED autoAge
  /\ UNCHANGED decideUnchanged

\* Decide: cooldown active; the candidate and its count stay.
MgrCooling ==
  /\ mpc = "probe"
  /\ Desired # CurrentMode(mcfg)
  /\ Cooling
  /\ SetState(mst)
  /\ mpc' = "sleep" /\ mcfg' = NoConfig
  /\ Wanting
  /\ UNCHANGED autoAge
  /\ UNCHANGED decideUnchanged

MutantMgrConfirmOnly ==
  /\ mpc = "probe"
  /\ Desired # CurrentMode(mcfg)
  /\ ~Cooling
  /\ SetState([mst EXCEPT !.cand = Desired, !.count = Confirmed])
  /\ mpc' = "sleep" /\ mcfg' = NoConfig
  /\ Wanting
  /\ UNCHANGED autoAge
  /\ UNCHANGED decideUnchanged

MutantMgrConfirm ==
  /\ mpc = "probe"
  /\ Desired # CurrentMode(mcfg)
  /\ ~Cooling
  /\ mst.count + 1 < Confirmations
  /\ SetState([mst EXCEPT !.cand = Desired, !.count = mst.count + 1])
  /\ mpc' = "sleep" /\ mcfg' = NoConfig
  /\ Wanting
  /\ UNCHANGED autoAge
  /\ UNCHANGED decideUnchanged

\* Decide: waiting for confirmations.
MgrConfirm ==
  /\ mpc = "probe"
  /\ Desired # CurrentMode(mcfg)
  /\ ~Cooling
  /\ Confirmed < Confirmations
  /\ SetState([mst EXCEPT !.cand = Desired, !.count = Confirmed])
  /\ mpc' = "sleep" /\ mcfg' = NoConfig
  /\ Wanting
  /\ UNCHANGED autoAge
  /\ UNCHANGED decideUnchanged

MutantMgrSwitch ==
  /\ mpc = "probe"
  /\ Desired # CurrentMode(mcfg)
  /\ ~Cooling
  /\ mst.count + 1 >= Confirmations
  /\ SetState([cand |-> NoMode, count |-> 0, age |-> 0])
  /\ mcfg' = ApplyMode(mcfg, Desired)
  /\ mpc' = "save"
  /\ autoAge' = 0
  /\ wanted' = [m \in Mode |-> 0]
  /\ UNCHANGED decideUnchanged

\* Decide: confirmed change; the state is stamped before anything is done.
MgrSwitch ==
  /\ mpc = "probe"
  /\ Desired # CurrentMode(mcfg)
  /\ ~Cooling
  /\ Confirmed >= Confirmations
  /\ SetState([cand |-> NoMode, count |-> 0, age |-> 0])
  /\ mcfg' = ApplyMode(mcfg, Desired)
  /\ mpc' = "save"
  /\ autoAge' = 0
  /\ wanted' = [m \in Mode |-> 0]
  /\ UNCHANGED decideUnchanged

MutantMgrSave ==
  /\ mpc = "save"
  /\ disk' = mcfg
  /\ mpc' = "sleep" /\ mcfg' = NoConfig
  /\ UNCHANGED <<scfg, applied, dst, mst, loaded, due, handler, health, history>>

\* The whole config of the pass is saved, whoever changed the file since.
MgrSave ==
  /\ mpc = "save"
  /\ disk' = mcfg
  /\ mpc' = "apply"
  /\ UNCHANGED <<scfg, applied, dst, mst, loaded, mcfg, due, handler, health,
                 history>>

\* xray runs the new config.
MgrApply ==
  /\ mpc = "apply"
  /\ applied' = CurrentMode(mcfg)
  /\ mpc' = "sleep" /\ mcfg' = NoConfig
  /\ UNCHANGED <<files, scfg, mst, loaded, due, handler, health, history>>

\* Saving or applying fails: the pass is over, nothing is retried.
MgrFails ==
  /\ mpc \in {"save", "apply"}
  /\ events.requests < MaxRequests
  /\ events' = [events EXCEPT !.requests = @ + 1]
  /\ mpc' = "sleep" /\ mcfg' = NoConfig
  /\ UNCHANGED <<files, scfg, applied, mst, loaded, due, handler, health,
                 autoAge, wanted>>

Manager ==
  \/ MgrLoad \/ MgrSteady \/ MgrCooling \/ MgrConfirm \/ MgrSwitch
  \/ MgrSave \/ MgrApply
-----------------------------------------------------------------------------
(* The API server.                                                         *)

Request ==
  /\ events.requests < MaxRequests
  /\ events' = [events EXCEPT !.requests = @ + 1]

\* failoverMode loads the config and sets mode m, bound to tunnel p.
HandlerLoad(m, p) ==
  /\ hpc = "idle"
  /\ (m = "auto") <=> (p = NoIface)
  /\ Request
  /\ hcfg' = [disk EXCEPT !.mode = m, !.pref = p]
  /\ hpc' = "probe"
  /\ UNCHANGED <<files, scfg, applied, mgr, health, autoAge, wanted>>

\* It probes and moves to the tunnel the admin picked, or to where the
\* manager would go when that one is down.
HandlerProbe ==
  /\ hpc = "probe"
  /\ hcfg' = ApplyMode(hcfg, IF hcfg.pref # NoIface /\ health[hcfg.pref]
                               THEN Via(hcfg.pref)
                               ELSE DesiredMode(hcfg, health))
  /\ hpc' = "save"
  /\ UNCHANGED <<files, scfg, applied, mgr, health, history>>

\* It saves the config and replaces s.cfg.
HandlerSave ==
  /\ hpc = "save"
  /\ disk' = hcfg
  /\ scfg' = hcfg
  /\ hpc' = "state"
  /\ UNCHANGED <<applied, dst, mgr, hcfg, health, history>>

\* It overwrites the failover state file: no candidate, changed just now.
HandlerState ==
  /\ hpc = "state"
  /\ dst' = [cand |-> NoMode, count |-> 0, age |-> 0]
  /\ hpc' = "apply"
  /\ UNCHANGED <<disk, scfg, applied, mgr, hcfg, health, autoAge, wanted, events>>

\* It applies the config to xray, which may fail, and answers.
HandlerApply ==
  /\ hpc = "apply"
  /\ applied' \in {CurrentMode(hcfg), applied}
  /\ hpc' = "idle" /\ hcfg' = NoConfig
  /\ UNCHANGED <<files, scfg, mgr, health, history>>

Handler == HandlerProbe \/ HandlerSave \/ HandlerState \/ HandlerApply

\* Another handler (addUser, setQuota, ...) changes a field of s.cfg that is
\* not modelled and saves the whole of s.cfg.
SaveServerConfig ==
  /\ Request
  /\ disk' = scfg
  /\ UNCHANGED <<dst, scfg, applied, mgr, handler, health, autoAge,
                 wanted>>
-----------------------------------------------------------------------------
(* The environment.                                                        *)

Older(a) == IF a < Cooldown THEN a + 1 ELSE a

\* One interval of time passes; the manager's timer fires.
Tick ==
  /\ due' = TRUE
  /\ mst' = [mst EXCEPT !.age = Older(@)]
  /\ dst' = [dst EXCEPT !.age = Older(@)]
  /\ autoAge' = Older(autoAge)
  /\ UNCHANGED <<disk, scfg, applied, loaded, mpc, mcfg, handler, health,
                 wanted, events>>

Flap(i) ==
  /\ events.flaps < MaxFlaps
  /\ events' = [events EXCEPT !.flaps = @ + 1]
  /\ health' = [health EXCEPT ![i] = ~@]
  /\ UNCHANGED <<files, scfg, applied, mgr, handler, autoAge, wanted>>

\* The daemon dies and starts again: memory is lost, s.cfg is read from disk.
Crash ==
  /\ events.crashes < MaxCrashes
  /\ events' = [events EXCEPT !.crashes = @ + 1]
  /\ scfg' = disk
  /\ mst' = NoState /\ loaded' = FALSE
  /\ mpc' = "sleep" /\ mcfg' = NoConfig /\ due' = TRUE
  /\ hpc' = "idle" /\ hcfg' = NoConfig
  /\ UNCHANGED <<files, applied, health, autoAge, wanted>>

Next ==
  \/ Manager \/ MgrFails
  \/ \E m \in FailoverMode, p \in Ifaces \cup {NoIface} : HandlerLoad(m, p)
  \/ Handler
  \/ SaveServerConfig
  \/ Tick
  \/ \E i \in Ifaces : Flap(i)
  \/ Crash

Spec == Init /\ [][Next]_vars

\* Time passes and the goroutines run.
FairSpec == Spec /\ WF_vars(Tick) /\ WF_vars(Manager) /\ WF_vars(Handler)
-----------------------------------------------------------------------------
(* Properties.                                                             *)

\* The step in which the manager commits itself to a switch.
Switching == mpc = "probe" /\ mpc' = "save"

\* Two automatic switches are a cooldown apart, unless the second returns to
\* the preferred tunnel: across restarts, config saves and admin requests
\* (state.go:137, the state file saved before the config, manager.go:49).
CooldownKept ==
  [][Switching => autoAge >= Cooldown \/ SkipCooldown(mcfg, Desired)]_vars

\* No switch on less evidence than Confirmations passes that wanted that mode
\* since a pass was content or a switch was made, restarts included.
ConfirmationsKept == [][Switching => wanted[Desired] + 1 >= Confirmations]_vars

\* A switch goes to a tunnel that is up, and to the fallback only when none
\* is (state.go:91-110).
SwitchHealthy ==
  [][Switching => IF Desired.tag = Proxy THEN health[Desired.iface]
                                         ELSE \A i \in Ifaces : ~health[i]]_vars

\* history.go:13-14: "only effective changes are appended to history".  A switch
\* that the manager records changes the mode its config routes to.
SwitchEffective ==
  [][Switching => CurrentMode(mcfg') # CurrentMode(mcfg)]_vars

\* Once tunnels, requests and restarts come to rest, stack.json routes to what
\* the failover mode wants, for good.
EventuallyDesired == <>[](CurrentMode(disk) = DesiredMode(disk, health))

\* And, where the manager is the only writer and never fails, so does xray.
Alone == events.requests = 0 /\ events.crashes = 0
EventuallyApplied ==
  []Alone => <>[](applied = DesiredMode(disk, health))
=============================================================================
