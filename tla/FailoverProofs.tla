--------------------------- MODULE FailoverProofs ---------------------------
(***************************************************************************)
(* What holds of the failover manager for every list of tunnels, every     *)
(* cooldown, number of confirmations and bound: typing, and the two        *)
(* promises of Decide, a cooldown between automatic switches and enough    *)
(* passes behind each, whatever admins, other handlers and restarts do.    *)
(***************************************************************************)
EXTENDS Failover, WellFoundedInduction, TLAPS

LEMMA Smallest ==
  ASSUME NEW S, S \subseteq Nat, S # {}
  PROVE  \E n \in S : \A m \in S : n <= m
<1>1. IsWellFoundedOn(OpToRel(<, Nat), Nat)
  BY NatLessThanWellFounded
<1>2. PICK n \in S : \A m \in S : ~ (<<m, n>> \in OpToRel(<, Nat))
  BY <1>1, WFMin
<1>3. ASSUME NEW m \in S PROVE ~ (m < n)
  BY <1>2 DEF OpToRel
<1> QED
  BY <1>3

Healths == [Ifaces -> BOOLEAN]

\* firstHealthyMode returns a tunnel that is up, or the fallback outbound when
\* none is.
LEMMA FirstHealthyPicks ==
  ASSUME NEW up \in Healths
  PROVE  \/ \E i \in Ifaces : up[i] /\ FirstHealthyMode(up) = Via(i)
         \/ /\ \A i \in Ifaces : ~up[i]
            /\ FirstHealthyMode(up) = [tag |-> Fallback, iface |-> NoIface]
<1> DEFINE ok == {n \in DOMAIN Tunnels : up[Tunnels[n]]}
<1>1. CASE ok = {}
  BY <1>1 DEF FirstHealthyMode, Ifaces
<1>2. CASE ok # {}
  <2> DEFINE first == CHOOSE n \in ok : \A m \in ok : n <= m
  <2>1. ok \subseteq Nat
    BY FailoverAssumption
  <2>2. first \in ok
    BY <1>2, <2>1, Smallest
  <2>3. FirstHealthyMode(up) = Via(Tunnels[first])
    BY <1>2 DEF FirstHealthyMode
  <2> QED
    BY <2>2, <2>3 DEF Ifaces
<1> QED
  BY <1>1, <1>2

LEMMA ModeTypes ==
  ASSUME NEW cfg \in Config, NEW up \in Healths
  PROVE  /\ CurrentMode(cfg) \in Mode
         /\ FirstHealthyMode(up) \in Mode
         /\ DesiredMode(cfg, up) \in Mode
<1>1. CurrentMode(cfg) \in Mode
  BY DEF CurrentMode, Mode, Config
<1>2. FirstHealthyMode(up) \in Mode
  BY FirstHealthyPicks DEF Mode, Via
<1> QED
  BY <1>1, <1>2 DEF DesiredMode, Via, Mode, Config

LEMMA ApplyType ==
  ASSUME NEW cfg \in Config, NEW mode \in Mode
  PROVE  ApplyMode(cfg, mode) \in Config
BY DEF ApplyMode, Mode, Config

LEMMA Constants ==
  /\ NoMode \in Mode /\ NoConfig \in Config /\ NoState \in State
  /\ 0 \in Age /\ Cooldown \in Age
  /\ 0 \in 0 .. Confirmations /\ 1 \in 0 .. Confirmations
  /\ 0 \in 0 .. MaxFlaps /\ 0 \in 0 .. MaxRequests /\ 0 \in 0 .. MaxCrashes
  /\ [cand |-> NoMode, count |-> 0, age |-> 0] \in State
BY FailoverAssumption
   DEF NoMode, Mode, NoConfig, Config, FailoverMode, NoState, State, Age

LEMMA OlderType == ASSUME NEW a \in Age PROVE Older(a) \in Age /\ a <= Older(a)
BY FailoverAssumption DEF Age, Older

LEMMA EventTypes ==
  ASSUME TypeOK
  PROVE  /\ events.flaps < MaxFlaps
              => [events EXCEPT !.flaps = @ + 1] \in
                 [flaps : 0 .. MaxFlaps, requests : 0 .. MaxRequests,
                  crashes : 0 .. MaxCrashes]
         /\ events.requests < MaxRequests
              => [events EXCEPT !.requests = @ + 1] \in
                 [flaps : 0 .. MaxFlaps, requests : 0 .. MaxRequests,
                  crashes : 0 .. MaxCrashes]
         /\ events.crashes < MaxCrashes
              => [events EXCEPT !.crashes = @ + 1] \in
                 [flaps : 0 .. MaxFlaps, requests : 0 .. MaxRequests,
                  crashes : 0 .. MaxCrashes]
<1>1. events \in [flaps : 0 .. MaxFlaps, requests : 0 .. MaxRequests,
                  crashes : 0 .. MaxCrashes]
  BY DEF TypeOK
<1>2. MaxFlaps \in Nat /\ MaxRequests \in Nat /\ MaxCrashes \in Nat
  BY FailoverAssumption
<1> QED
  BY <1>1, <1>2, SMTT(30)

\* What a probing pass computes.
LEMMA PassTypes ==
  ASSUME TypeOK
  PROVE  /\ Desired \in Mode
         /\ Confirmed \in Nat \ {0}
         /\ ApplyMode(mcfg, Desired) \in Config
         /\ [wanted EXCEPT ![Desired] = IF @ < Confirmations THEN @ + 1 ELSE @]
              \in [Mode -> 0 .. Confirmations]
<1>1. Desired \in Mode
  BY ModeTypes DEF TypeOK, Desired, Healths
<1>2. Confirmed \in Nat \ {0}
  BY FailoverAssumption DEF TypeOK, Confirmed, State
<1>3. ApplyMode(mcfg, Desired) \in Config
  BY <1>1, ApplyType DEF TypeOK
<1>4. [wanted EXCEPT ![Desired] = IF @ < Confirmations THEN @ + 1 ELSE @]
        \in [Mode -> 0 .. Confirmations]
  BY <1>1, FailoverAssumption DEF TypeOK
<1> QED
  BY <1>1, <1>2, <1>3, <1>4

\* Every variable keeps its type: counts and ages within their limits, and
\* only configured modes reach stack.json, s.cfg and xray.
THEOREM TypeCorrect == Spec => []TypeOK
<1>1. Init => TypeOK
  <2> SUFFICES ASSUME Init PROVE TypeOK
    OBVIOUS
  <2>1. loaded \in BOOLEAN /\ due \in BOOLEAN
    BY DEF Init
  <2>2. disk \in Config
    BY DEF Init, Config, FailoverMode
  <2>3. applied \in Mode
    BY <2>2, ModeTypes DEF Init, Healths
  <2>4. events \in [flaps : 0 .. MaxFlaps, requests : 0 .. MaxRequests,
                    crashes : 0 .. MaxCrashes]
    BY Constants DEF Init
  <2>5. wanted \in [Mode -> 0 .. Confirmations]
    BY Constants DEF Init
  <2> QED
    BY <2>1, <2>2, <2>3, <2>4, <2>5, Constants DEF Init, TypeOK
<1>2. TypeOK /\ [Next]_vars => TypeOK'
  <2> SUFFICES ASSUME TypeOK, [Next]_vars PROVE TypeOK'
    OBVIOUS
  <2> USE Constants DEF handler, mgr, history, files
  <2>1. CASE MgrLoad
    <3>1. loaded' \in BOOLEAN /\ due' \in BOOLEAN
      BY <2>1 DEF MgrLoad
    <3> QED
      BY <2>1, <3>1 DEF MgrLoad, TypeOK
  <2>2. CASE MgrSteady
    <3>1. [mst EXCEPT !.cand = NoMode, !.count = 0] \in State
      BY DEF TypeOK, State
    <3> QED
      BY <2>2, <3>1 DEF MgrSteady, SetState, decideUnchanged, TypeOK
  <2>3. CASE MgrCooling
    BY <2>3, PassTypes DEF MgrCooling, SetState, Wanting, decideUnchanged, TypeOK
  <2>4. CASE MgrConfirm
    <3>1. [mst EXCEPT !.cand = Desired, !.count = Confirmed] \in State
      <4>1. Confirmed \in 0 .. Confirmations
        BY <2>4, PassTypes, FailoverAssumption DEF MgrConfirm
      <4> QED
        BY <4>1, PassTypes DEF TypeOK, State
    <3> QED
      BY <2>4, <3>1, PassTypes
      DEF MgrConfirm, SetState, Wanting, decideUnchanged, TypeOK
  <2>5. CASE MgrSwitch
    BY <2>5, PassTypes DEF MgrSwitch, SetState, decideUnchanged, TypeOK
  <2>6. CASE MgrSave
    BY <2>6 DEF MgrSave, TypeOK
  <2>7. CASE MgrApply
    BY <2>7, ModeTypes DEF MgrApply, TypeOK, Healths
  <2>8. CASE MgrFails
    BY <2>8, EventTypes DEF MgrFails, TypeOK
  <2>9. ASSUME NEW m \in FailoverMode, NEW p \in Ifaces \cup {NoIface},
               HandlerLoad(m, p)
        PROVE TypeOK'
    <3>1. [disk EXCEPT !.mode = m, !.pref = p] \in Config
      BY DEF TypeOK, Config
    <3> QED
      BY <2>9, <3>1, EventTypes DEF HandlerLoad, Request, TypeOK
  <2>10. CASE HandlerProbe
    <3>1. DesiredMode(hcfg, health) \in Mode
      BY ModeTypes DEF TypeOK, Healths
    <3>2. hcfg.pref # NoIface => Via(hcfg.pref) \in Mode
      BY DEF TypeOK, Config, Via, Mode
    <3>3. hcfg' \in Config
      BY <2>10, <3>1, <3>2, ApplyType DEF HandlerProbe, TypeOK
    <3> QED
      BY <2>10, <3>3 DEF HandlerProbe, TypeOK
  <2>11. CASE HandlerSave
    BY <2>11 DEF HandlerSave, TypeOK
  <2>12. CASE HandlerState
    BY <2>12 DEF HandlerState, TypeOK
  <2>13. CASE HandlerApply
    BY <2>13, ModeTypes DEF HandlerApply, TypeOK, Healths
  <2>14. CASE SaveServerConfig
    BY <2>14, EventTypes DEF SaveServerConfig, Request, TypeOK
  <2>15. CASE Tick
    <3>1. due' \in BOOLEAN
      BY <2>15 DEF Tick
    <3>2. mst' \in State /\ dst' \in State
      BY <2>15, OlderType DEF Tick, TypeOK, State
    <3> QED
      BY <2>15, <3>1, <3>2, OlderType DEF Tick, TypeOK
  <2>16. ASSUME NEW i \in Ifaces, Flap(i) PROVE TypeOK'
    <3>1. health' \in [Ifaces -> BOOLEAN]
      BY <2>16 DEF Flap, TypeOK
    <3> QED
      BY <2>16, <3>1, EventTypes DEF Flap, TypeOK
  <2>17. CASE Crash
    <3>1. loaded' \in BOOLEAN /\ due' \in BOOLEAN
      BY <2>17 DEF Crash
    <3> QED
      BY <2>17, <3>1, EventTypes DEF Crash, TypeOK
  <2>18. CASE UNCHANGED vars
    BY <2>18 DEF vars, TypeOK
  <2> QED
    BY <2>1, <2>2, <2>3, <2>4, <2>5, <2>6, <2>7, <2>8, <2>9, <2>10, <2>11,
       <2>12, <2>13, <2>14, <2>15, <2>16, <2>17, <2>18
    DEF Next, Manager, Handler
<1> QED
  BY <1>1, <1>2, PTL DEF Spec
-----------------------------------------------------------------------------
(* The state file, and the manager's copy once it is loaded, never know    *)
(* less than what happened: they date the last automatic switch no earlier *)
(* than it was, and count no pass that did not want the candidate.         *)

Vouched(st) == st.age <= autoAge /\ st.count <= wanted[st.cand]

Loaded == mpc # "sleep" => loaded

StateVouched ==
  /\ TypeOK
  /\ Loaded
  /\ Vouched(dst)
  /\ loaded => Vouched(mst)

\* A pass that wants a mode forgets none of the passes before it.
LEMMA WantingGrows ==
  ASSUME TypeOK, Wanting
  PROVE  \A m \in Mode : wanted[m] <= wanted'[m]
<1> SUFFICES ASSUME NEW m \in Mode PROVE wanted[m] <= wanted'[m]
  OBVIOUS
<1>1. wanted[m] \in Nat /\ wanted \in [Mode -> 0 .. Confirmations]
  BY FailoverAssumption DEF TypeOK
<1>2. CASE m = Desired
  <2>1. wanted'[m] = IF wanted[m] < Confirmations THEN wanted[m] + 1
                                                  ELSE wanted[m]
    BY <1>1, <1>2 DEF Wanting
  <2> QED
    BY <1>1, <2>1
<1>3. CASE m # Desired
  <2>1. wanted'[m] = wanted[m]
    BY <1>1, <1>3 DEF Wanting
  <2> QED
    BY <1>1, <2>1
<1> QED
  BY <1>2, <1>3

LEMMA StateVouchedInv == Spec => []StateVouched
<1>1. Init => Vouched(dst) /\ Loaded /\ ~loaded
  BY Constants, FailoverAssumption DEF Init, Vouched, Loaded, NoState, NoMode, Age
<1>2. StateVouched /\ TypeOK' /\ [Next]_vars
        => Vouched(dst)' /\ Loaded' /\ (loaded => Vouched(mst))'
  <2> SUFFICES ASSUME StateVouched, TypeOK', [Next]_vars
               PROVE  Vouched(dst)' /\ Loaded' /\ (loaded => Vouched(mst))'
    OBVIOUS
  <2> USE DEF Vouched, Loaded, handler, mgr, history, files
  <2>a. TypeOK /\ Loaded /\ Vouched(dst) /\ (loaded => Vouched(mst))
    BY DEF StateVouched
  <2>1. CASE MgrLoad
    BY <2>1, <2>a DEF MgrLoad
  <2>2. CASE MgrSteady
    <3>1. mst' = dst' /\ mst'.age = mst.age /\ mst'.count = 0 /\ mst'.cand \in Mode
      BY <2>2, Constants DEF MgrSteady, SetState, StateVouched, TypeOK, State
    <3>2. wanted' = [m \in Mode |-> 0] /\ autoAge' = autoAge /\ loaded' = loaded
          /\ mpc' = "sleep" /\ mpc = "probe"
      BY <2>2 DEF MgrSteady, decideUnchanged
    <3> QED
      BY <3>1, <3>2, <2>a
  <2>3. ASSUME Wanting PROVE \A m \in Mode : wanted[m] <= wanted'[m]
    BY <2>3, <2>a, WantingGrows
  <2>4. CASE MgrCooling
    <3>1. /\ mst' = mst /\ dst' = mst /\ autoAge' = autoAge /\ loaded' = loaded
          /\ mpc' = "sleep" /\ mpc = "probe" /\ Wanting
      BY <2>4 DEF MgrCooling, SetState, decideUnchanged
    <3>2. mst.cand \in Mode /\ mst.count \in Nat
          /\ wanted[mst.cand] \in Nat /\ wanted'[mst.cand] \in Nat
      BY <2>a, FailoverAssumption DEF TypeOK, State
    <3> QED
      BY <2>3, <3>1, <3>2, <2>a
  <2>5. CASE MgrConfirm
    <3>1. /\ mst' = [mst EXCEPT !.cand = Desired, !.count = Confirmed]
          /\ dst' = mst' /\ autoAge' = autoAge /\ loaded' = loaded
          /\ mpc' = "sleep" /\ mpc = "probe" /\ Wanting
          /\ Confirmed < Confirmations
      BY <2>5 DEF MgrConfirm, SetState, decideUnchanged
    <3>2. mst'.cand = Desired /\ mst'.count = Confirmed /\ mst'.age = mst.age
      BY <3>1, <2>a DEF TypeOK, State
    <3>3. Desired \in Mode /\ wanted[Desired] \in Nat /\ mst.count \in Nat
      <4>1. Desired \in Mode
        BY <2>a, PassTypes
      <4> QED
        BY <4>1, <2>a, FailoverAssumption DEF TypeOK, State
    <3>4. Confirmed <= wanted[Desired] + 1
      BY <2>a, <3>1, <3>3 DEF Confirmed
    <3>5. wanted'[Desired] = IF wanted[Desired] < Confirmations
                               THEN wanted[Desired] + 1 ELSE wanted[Desired]
      BY <3>1, <2>a, PassTypes DEF Wanting, TypeOK
    <3>6. Confirmed <= wanted'[Desired]
      BY <3>1, <3>3, <3>4, <3>5, <2>a, PassTypes, FailoverAssumption
    <3> QED
      BY <3>1, <3>2, <3>6, <2>a
  <2>6. CASE MgrSwitch
    BY <2>6, <2>a, Constants
    DEF MgrSwitch, SetState, decideUnchanged, TypeOK
  <2>7. CASE MgrSave
    BY <2>7, <2>a DEF MgrSave
  <2>8. CASE MgrApply
    BY <2>8, <2>a DEF MgrApply
  <2>9. CASE MgrFails
    BY <2>9, <2>a DEF MgrFails
  <2>10. ASSUME NEW m \in FailoverMode, NEW p \in Ifaces \cup {NoIface},
                HandlerLoad(m, p)
         PROVE Vouched(dst)' /\ Loaded' /\ (loaded => Vouched(mst))'
    BY <2>10, <2>a DEF HandlerLoad
  <2>11. CASE HandlerProbe
    BY <2>11, <2>a DEF HandlerProbe
  <2>12. CASE HandlerSave
    BY <2>12, <2>a DEF HandlerSave
  <2>13. CASE HandlerState
    <3>1. wanted[NoMode] \in Nat /\ autoAge \in Nat
      BY <2>a, Constants, FailoverAssumption DEF TypeOK, Age
    <3> QED
      BY <2>13, <3>1, <2>a DEF HandlerState
  <2>14. CASE HandlerApply
    BY <2>14, <2>a DEF HandlerApply
  <2>15. CASE SaveServerConfig
    BY <2>15, <2>a DEF SaveServerConfig
  <2>16. CASE Tick
    <3>1. ASSUME NEW a \in Age, NEW b \in Age, a <= b PROVE Older(a) <= Older(b)
      BY <3>1, FailoverAssumption DEF Age, Older
    <3>2. mst.age \in Age /\ dst.age \in Age /\ autoAge \in Age
      BY <2>a DEF TypeOK, State
    <3>3. /\ mst'.age = Older(mst.age) /\ dst'.age = Older(dst.age)
          /\ autoAge' = Older(autoAge)
          /\ mst'.cand = mst.cand /\ mst'.count = mst.count
          /\ dst'.cand = dst.cand /\ dst'.count = dst.count
          /\ wanted' = wanted /\ loaded' = loaded /\ mpc' = mpc
      BY <2>16, <2>a DEF Tick, TypeOK, State
    <3> QED
      BY <3>1, <3>2, <3>3, <2>a
  <2>17. ASSUME NEW i \in Ifaces, Flap(i)
         PROVE Vouched(dst)' /\ Loaded' /\ (loaded => Vouched(mst))'
    BY <2>17, <2>a DEF Flap
  <2>18. CASE Crash
    <3>1. ~loaded' /\ mpc' = "sleep"
      BY <2>18 DEF Crash
    <3>2. Vouched(dst)'
      BY <2>18, <2>a DEF Crash
    <3> QED
      BY <3>1, <3>2
  <2>19. CASE UNCHANGED vars
    BY <2>19, <2>a DEF vars
  <2> QED
    BY <2>1, <2>2, <2>4, <2>5, <2>6, <2>7, <2>8, <2>9, <2>10, <2>11,
       <2>12, <2>13, <2>14, <2>15, <2>16, <2>17, <2>18, <2>19
    DEF Next, Manager, Handler
<1> QED
  BY <1>1, <1>2, TypeCorrect, PTL DEF Spec, StateVouched

LEMMA OnlySwitch == ASSUME [Next]_vars, Switching PROVE MgrSwitch
BY DEF Switching, Next, Manager, Handler, vars, handler, mgr, MgrLoad,
   MgrSteady, MgrCooling, MgrConfirm, MgrSave, MgrApply, MgrFails,
   HandlerLoad, HandlerProbe, HandlerSave, HandlerState, HandlerApply,
   SaveServerConfig, Tick, Flap, Crash

\* Two automatic switches are a cooldown apart unless the later one returns to
\* the preferred tunnel: Decide (state.go:137) judges by an age that StateVouched
\* bounds, even when the state file was overwritten or the daemon restarted.
THEOREM CooldownRespected == Spec => CooldownKept
<1>1. StateVouched /\ [Next]_vars
        => (Switching => autoAge >= Cooldown \/ SkipCooldown(mcfg, Desired))
  <2> SUFFICES ASSUME StateVouched, [Next]_vars, Switching
               PROVE  autoAge >= Cooldown \/ SkipCooldown(mcfg, Desired)
    OBVIOUS
  <2>1. MgrSwitch
    BY OnlySwitch
  <2>2. ~Cooling /\ mst.age <= autoAge
    BY <2>1 DEF MgrSwitch, StateVouched, Loaded, Vouched
  <2>3. mst.age \in Nat /\ autoAge \in Nat
    BY FailoverAssumption DEF StateVouched, TypeOK, State, Age
  <2> QED
    BY <2>2, <2>3, FailoverAssumption DEF Cooling
<1> QED
  BY <1>1, StateVouchedInv, PTL DEF Spec, CooldownKept

\* Behind every switch stand Confirmations passes that wanted the same mode,
\* with no content pass and no other switch among them (state.go:143-157).
THEOREM ConfirmationsRespected == Spec => ConfirmationsKept
<1>1. StateVouched /\ [Next]_vars
        => (Switching => wanted[Desired] + 1 >= Confirmations)
  <2> SUFFICES ASSUME StateVouched, [Next]_vars, Switching
               PROVE  wanted[Desired] + 1 >= Confirmations
    OBVIOUS
  <2>1. MgrSwitch
    BY OnlySwitch
  <2>2. Confirmed >= Confirmations /\ mst.count <= wanted[mst.cand]
    BY <2>1 DEF MgrSwitch, StateVouched, Loaded, Vouched
  <2>3. Desired \in Mode
    BY PassTypes DEF StateVouched
  <2>4. mst.count \in Nat /\ wanted[mst.cand] \in Nat /\ wanted[Desired] \in Nat
    BY <2>3, FailoverAssumption DEF StateVouched, TypeOK, State
  <2> QED
    BY <2>2, <2>4, FailoverAssumption DEF Confirmed
<1> QED
  BY <1>1, StateVouchedInv, PTL DEF Spec, ConfirmationsKept

\* A switch goes to a tunnel that is up, or to the fallback when none is: the
\* manual mode's "stay" never names a new mode (state.go:91-110).
THEOREM SwitchesToHealthy == Spec => SwitchHealthy
<1>1. TypeOK /\ [Next]_vars
        => (Switching => IF Desired.tag = Proxy THEN health[Desired.iface]
                                          ELSE \A i \in Ifaces : ~health[i])
  <2> SUFFICES ASSUME TypeOK, [Next]_vars, Switching
               PROVE  IF Desired.tag = Proxy THEN health[Desired.iface]
                                       ELSE \A i \in Ifaces : ~health[i]
    OBVIOUS
  <2>1. MgrSwitch
    BY OnlySwitch
  <2>2. Desired # CurrentMode(mcfg)
    BY <2>1 DEF MgrSwitch
  <2>3. CASE mcfg.mode = "preferred" /\ mcfg.pref # NoIface /\ health[mcfg.pref]
    BY <2>3 DEF Desired, DesiredMode, Via
  <2>4. CASE ~(mcfg.mode = "preferred" /\ mcfg.pref # NoIface /\ health[mcfg.pref])
    <3>1. Desired = FirstHealthyMode(health)
      BY <2>2, <2>4 DEF Desired, DesiredMode
    <3>2. health \in Healths
      BY DEF TypeOK, Healths
    <3> QED
      BY <3>1, <3>2, FirstHealthyPicks, FailoverAssumption DEF Via
  <2> QED
    BY <2>3, <2>4
<1> QED
  BY <1>1, TypeCorrect, PTL DEF Spec, SwitchHealthy

\* The mode a config routes to once a mode is applied to it: that mode, unless
\* it is the fallback and there is none (state.go:58-72).
LEMMA AppliedIsCurrent ==
  ASSUME NEW cfg \in Config, NEW mode \in Mode,
         mode.tag = Proxy \/ (mode.tag # NoTag /\ mode.iface = NoIface)
  PROVE  CurrentMode(ApplyMode(cfg, mode)) = mode
<1>1. CASE mode.tag = Proxy
  BY <1>1, FailoverAssumption DEF CurrentMode, ApplyMode, Config, Mode
<1>2. CASE mode.tag # Proxy
  BY <1>2, FailoverAssumption DEF CurrentMode, ApplyMode, Config, Mode
<1> QED
  BY <1>1, <1>2

\* Every switch that the manager records changes the mode its config routes to,
\* where a fallback outbound is configured (history.go:13-14): a switch to no
\* fallback at all, ApplyMode maps to the present mode.
THEOREM SwitchesChangeMode ==
  ASSUME Fallback # NoTag
  PROVE  Spec => SwitchEffective
<1>1. TypeOK /\ [Next]_vars
        => (Switching => CurrentMode(mcfg') # CurrentMode(mcfg))
  <2> SUFFICES ASSUME TypeOK, [Next]_vars, Switching
               PROVE  CurrentMode(mcfg') # CurrentMode(mcfg)
    OBVIOUS
  <2>1. /\ Desired # CurrentMode(mcfg)
        /\ mcfg' = ApplyMode(mcfg, Desired)
    BY OnlySwitch DEF MgrSwitch
  <2>2. Desired \in Mode /\ mcfg \in Config /\ health \in Healths
    BY PassTypes DEF TypeOK, Healths
  <2>3. Desired.tag = Proxy \/ (Desired.tag # NoTag /\ Desired.iface = NoIface)
    <3>1. CASE mcfg.mode = "preferred" /\ mcfg.pref # NoIface /\ health[mcfg.pref]
      BY <3>1 DEF Desired, DesiredMode, Via
    <3>2. CASE ~(mcfg.mode = "preferred" /\ mcfg.pref # NoIface /\ health[mcfg.pref])
      <4>1. Desired = FirstHealthyMode(health)
        BY <2>1, <3>2 DEF Desired, DesiredMode
      <4> QED
        BY <2>2, <4>1, FirstHealthyPicks DEF Via
    <3> QED
      BY <3>1, <3>2
  <2>4. CurrentMode(ApplyMode(mcfg, Desired)) = Desired
    BY <2>2, <2>3, AppliedIsCurrent
  <2> QED
    BY <2>1, <2>4
<1> QED
  BY <1>1, TypeCorrect, PTL DEF Spec, SwitchEffective
=============================================================================
