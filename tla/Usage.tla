-------------------------------- MODULE Usage --------------------------------
(***************************************************************************)
(* Accounting of the users' traffic: internal/usage (usage.go, reset.go),  *)
(* internal/enforce/quota.go and the handlers that touch the same file:    *)
(* syncUsage, resetUsage, quotaApply of internal/api/server.go and         *)
(* setUserPeriods of internal/api/users_periods.go.                        *)
(*                                                                         *)
(* Every job reads xray's counters, or not, then loads the state file,     *)
(* works on its copy, and saves the whole copy; no lock covers the three.  *)
(*                                                                         *)
(* Simplifications: uplink and downlink, which the code treats alike and   *)
(* apart, are one counter; a save is atomic (see AtomicFile); time is      *)
(* counted from 1 in fractions of a day, without calendar or daylight      *)
(* saving; all users have the same quotas; the config is one copy.         *)
(***************************************************************************)
EXTENDS Integers

CONSTANTS
  Users,
  Syncers,        \* the periodic sync and requests to sync
  Resetters,      \* requests to reset the counters
  Roller,         \* the period-reset loop
  Editor,         \* requests to change the time of the daily reset
  Enforcer,       \* requests to apply the quotas
  Periods,        \* "daily", and the others
  Length,         \* how long each period is
  Quota,          \* quota_bytes, 0 for none
  Cap,            \* the quota of each period, 0 for none
  FirstReset,     \* when the days of each user begin, before it is changed
  MaxTraffic, MaxTime, MaxRestarts, MaxRequests, MaxFailures  \* bounds

Jobs == Syncers \cup Resetters \cup {Roller, Editor, Enforcer}

ASSUME UsageAssumption ==
  /\ "daily" \in Periods
  /\ Length \in [Periods -> Nat \ {0}]
  /\ Quota \in Nat /\ Cap \in [Periods -> Nat]
  /\ FirstReset \in [Users -> 0 .. Length["daily"] - 1]
  /\ MaxTraffic \in Nat /\ MaxTime \in Nat \ {0}
  /\ MaxRestarts \in Nat /\ MaxRequests \in Nat /\ MaxFailures \in Nat
  /\ Syncers \cap Resetters = {}
  /\ (Syncers \cup Resetters) \cap {Roller, Editor, Enforcer} = {}
  /\ Roller # Editor /\ Roller # Enforcer /\ Editor # Enforcer

VARIABLES
  real,      \* xray's counters
  file,      \* the user state file
  pc,        \* what each job is about to do
  raw,       \* the counters a job was given, of the users xray listed
  mem,       \* the state a job is going to save
  who,       \* the user the editor works for
  over,      \* the users the enforcer is going to disable
  enabled,   \* the users' Enabled
  resetAt,   \* the users' time of day for the daily reset
  now,
  carried,   \* history: all traffic so far
  at,        \* history: carried when a job queried xray
  events     \* history: restarts, requests, failures and resets so far

vars == <<real, file, pc, raw, mem, who, over, enabled, resetAt, now,
          carried, at, events>>
jobVars == <<pc, raw, mem, who, over, at>>
panel == <<enabled, resetAt>>
world == <<real, now, carried>>

Zeros == [u \in Users |-> 0]
UserState == [totals : [Users -> Nat], lastRaw : [Users -> Nat],
              spent : [Periods -> [Users -> Nat]],
              due : [Periods -> [Users -> Nat]]]
NoState == [totals |-> Zeros, lastRaw |-> Zeros,
            spent |-> [p \in Periods |-> Zeros],
            due |-> [p \in Periods |-> Zeros]]
NoRaw == [u \in {} |-> 0]

TypeOK ==
  /\ real \in [Users -> Nat] /\ carried \in [Users -> 0 .. MaxTraffic]
  /\ file \in UserState
  /\ pc \in [Jobs -> {"idle", "load", "save"}]
  /\ raw = [j \in Jobs |-> raw[j]]
  /\ \A j \in Jobs : /\ DOMAIN raw[j] \subseteq Users
                     /\ \A u \in DOMAIN raw[j] : raw[j][u] \in Nat
  /\ mem \in [Jobs -> UserState]
  /\ who \in SUBSET Users /\ over \in SUBSET Users
  /\ enabled \in [Users -> BOOLEAN]
  /\ resetAt \in [Users -> 0 .. Length["daily"] - 1]
  /\ now \in 1 .. MaxTime
  /\ at \in [Jobs -> [Users -> 0 .. MaxTraffic]]
  /\ events \in [restarts : 0 .. MaxRestarts, requests : 0 .. MaxRequests,
                 failures : 0 .. MaxFailures, resets : Nat]

Init ==
  /\ real = Zeros /\ carried = Zeros
  /\ file = NoState
  /\ pc = [j \in Jobs |-> "idle"]
  /\ raw = [j \in Jobs |-> NoRaw]
  /\ mem = [j \in Jobs |-> NoState]
  /\ who = {} /\ over = {}
  /\ enabled = [u \in Users |-> TRUE]
  /\ resetAt = FirstReset
  /\ now = 1
  /\ at = [j \in Jobs |-> Zeros]
  /\ events = [restarts |-> 0, requests |-> 0, failures |-> 0, resets |-> 0]
-----------------------------------------------------------------------------
(* What the jobs compute.                                                  *)

MutantCharge(cur, last) == cur - last

\* SyncUsers: the traffic since the last sync; a counter that went down is
\* taken to have started again from zero.
Charge(cur, last) == IF cur < last THEN cur ELSE cur - last

MutantAdded(st, r, u) ==
  IF u \in DOMAIN r /\ st.lastRaw[u] # 0 THEN Charge(r[u], st.lastRaw[u]) ELSE 0

\* What a sync adds for user u.
Added(st, r, u) == IF u \in DOMAIN r THEN Charge(r[u], st.lastRaw[u]) ELSE 0

MutantSyncUsers(st, r) ==
  [st EXCEPT !.totals = [u \in Users |-> @[u] + Added(st, r, u)],
             !.spent = [p \in Periods |-> [u \in Users |-> @[p][u] + Added(st, r, u)]]]

\* SyncUsers
SyncUsers(st, r) ==
  [totals  |-> [u \in Users |-> st.totals[u] + Added(st, r, u)],
   lastRaw |-> [u \in Users |-> IF u \in DOMAIN r THEN r[u] ELSE st.lastRaw[u]],
   spent   |-> [p \in Periods |-> [u \in Users |->
                  st.spent[p][u] + Added(st, r, u)]],
   due     |-> st.due]

MutantResetUsers(st, r) ==
  [st EXCEPT !.totals = Zeros,
             !.lastRaw = [u \in Users |-> IF u \in DOMAIN r THEN r[u] ELSE 0]]

\* ResetUsers: everything from zero, with the counters of now as the baseline.
ResetUsers(st, r) ==
  [NoState EXCEPT !.lastRaw = [u \in Users |-> IF u \in DOMAIN r THEN r[u] ELSE 0]]

\* nextDailyReset, nextWeeklyReset, nextMonthlyReset: the next boundary.
NextReset(p, u) ==
  LET t == IF p = "daily" THEN resetAt[u] ELSE 0
  IN  now + Length[p] - ((now + Length[p] - t) % Length[p])

MutantElapsed(st, p, u) == st.due[p][u] # 0 /\ now > st.due[p][u]

Elapsed(st, p, u) == st.due[p][u] # 0 /\ now >= st.due[p][u]

\* ApplyPeriodResets: seed a missing deadline, roll over what is due.
ApplyPeriodResets(st) ==
  [totals  |-> st.totals,
   lastRaw |-> st.lastRaw,
   spent   |-> [p \in Periods |-> [u \in Users |->
                  IF Elapsed(st, p, u) THEN 0 ELSE st.spent[p][u]]],
   due     |-> [p \in Periods |-> [u \in Users |->
                  IF st.due[p][u] = 0 \/ Elapsed(st, p, u) THEN NextReset(p, u)
                                                           ELSE st.due[p][u]]]]

\* setUserPeriods: the daily deadlines of some users are forgotten.
ForgetDaily(st, some) ==
  [st EXCEPT !.due = [p \in Periods |-> [u \in Users |->
     IF p = "daily" /\ u \in some THEN 0 ELSE st.due[p][u]]]]

\* PlanQuota: the total or one of the periods has reached its quota.
OverQuota(st, u) ==
  \/ Quota > 0 /\ st.totals[u] >= Quota
  \/ \E p \in Periods : Cap[p] > 0 /\ st.spent[p][u] >= Cap[p]
-----------------------------------------------------------------------------
(* The jobs.                                                               *)

Goto(j, where) == pc' = [pc EXCEPT ![j] = where]

Request ==
  /\ events.requests < MaxRequests
  /\ events' = [events EXCEPT !.requests = @ + 1]

\* QueryXrayUsers: xray lists the users that had traffic, and may list more.
Query(j) ==
  /\ pc[j] = "idle"
  /\ \E listed \in SUBSET Users :
       /\ {u \in Users : real[u] > 0} \subseteq listed
       /\ raw' = [raw EXCEPT ![j] = [u \in listed |-> real[u]]]
  /\ at' = [at EXCEPT ![j] = carried]
  /\ Goto(j, "load")
  /\ UNCHANGED <<file, mem, who, over, panel, world>>

\* syncOnce and syncUsage
StartSync(j) == Query(j) /\ UNCHANGED events

\* resetUsage
StartReset(j) ==
  /\ events.requests < MaxRequests
  /\ events' = [events EXCEPT !.requests = @ + 1, !.resets = @ + 1]
  /\ Query(j)

Load(j, st) ==
  /\ mem' = [mem EXCEPT ![j] = st]
  /\ Goto(j, "save")
  /\ UNCHANGED <<file, raw, at, who, over, panel, world, events>>

MutantSyncLoad(j) ==
  /\ pc[j] = "load"
  /\ \A u \in DOMAIN raw[j] : raw[j][u] >= file.lastRaw[u]
  /\ Load(j, SyncUsers(file, raw[j]))

SyncLoad(j) == pc[j] = "load" /\ Load(j, SyncUsers(file, raw[j]))

ResetLoad(j) == pc[j] = "load" /\ Load(j, ResetUsers(file, raw[j]))

\* runOneReset, when something is due.
RollLoad ==
  /\ pc[Roller] = "idle"
  /\ ApplyPeriodResets(file) # file
  /\ Load(Roller, ApplyPeriodResets(file))

\* setUserPeriods: a new time is saved in the config and the daily deadline is
\* to be forgotten.
EditStart(u, t) ==
  /\ pc[Editor] = "idle" /\ t # resetAt[u]
  /\ Request
  /\ resetAt' = [resetAt EXCEPT ![u] = t]
  /\ who' = {u}
  /\ Goto(Editor, "load")
  /\ UNCHANGED <<file, raw, mem, over, enabled, at, world>>

\* setUserPeriods without a time: back to 00:00, the deadline stays.
EditClear(u) ==
  /\ pc[Editor] = "idle" /\ resetAt[u] # 0
  /\ Request
  /\ resetAt' = [resetAt EXCEPT ![u] = 0]
  /\ UNCHANGED <<file, jobVars, enabled, world>>

EditLoad == pc[Editor] = "load" /\ Load(Editor, ForgetDaily(file, who))

\* quotaApply loads the state and plans.
EnforceLoad ==
  /\ pc[Enforcer] = "idle"
  /\ Request
  /\ over' = {u \in Users : enabled[u] /\ OverQuota(file, u)}
  /\ Goto(Enforcer, "load")
  /\ UNCHANGED <<file, raw, mem, who, at, panel, world>>

\* It disables the users of the plan: in s.cfg at once, whose list of users
\* the copy it saves shares.
EnforceSave ==
  /\ pc[Enforcer] = "load"
  /\ enabled' = [u \in Users |-> enabled[u] /\ u \notin over]
  /\ over' = {}
  /\ Goto(Enforcer, "idle")
  /\ UNCHANGED <<file, raw, mem, who, at, resetAt, world, events>>

\* A job lets go of what it was working on.
Forget(j) ==
  /\ Goto(j, "idle")
  /\ raw' = [raw EXCEPT ![j] = NoRaw]
  /\ mem' = [mem EXCEPT ![j] = NoState]
  /\ at' = [at EXCEPT ![j] = Zeros]
  /\ who' = IF j = Editor THEN {} ELSE who
  /\ over' = IF j = Enforcer THEN {} ELSE over

\* SaveUserState: the whole state, whatever was saved since the load.
Save(j) ==
  /\ pc[j] = "save"
  /\ file' = mem[j]
  /\ Forget(j)
  /\ UNCHANGED <<panel, world, events>>

\* An error ends a job; a restart of the daemon ends them all.
Fail(j) ==
  /\ pc[j] # "idle"
  /\ events.failures < MaxFailures
  /\ events' = [events EXCEPT !.failures = @ + 1]
  /\ Forget(j)
  /\ UNCHANGED <<file, panel, world>>
-----------------------------------------------------------------------------
(* The environment.                                                        *)

Carry(u) ==
  /\ carried[u] < MaxTraffic
  /\ real' = [real EXCEPT ![u] = @ + 1]
  /\ carried' = [carried EXCEPT ![u] = @ + 1]
  /\ UNCHANGED <<file, jobVars, panel, now, events>>

XrayRestart ==
  /\ events.restarts < MaxRestarts
  /\ events' = [events EXCEPT !.restarts = @ + 1]
  /\ real' = Zeros
  /\ UNCHANGED <<file, jobVars, panel, now, carried>>

Tick ==
  /\ now < MaxTime
  /\ now' = now + 1
  /\ UNCHANGED <<real, file, jobVars, panel, carried, events>>

\* updateUser enables a user again.
EnableUser(u) ==
  /\ ~enabled[u]
  /\ enabled' = [enabled EXCEPT ![u] = TRUE]
  /\ UNCHANGED <<file, jobVars, resetAt, world, events>>

Sync(j) == StartSync(j) \/ SyncLoad(j) \/ Save(j)
Roll == RollLoad \/ Save(Roller)
Edit == EditLoad \/ Save(Editor)

Next ==
  \/ \E j \in Syncers : Sync(j)
  \/ \E j \in Resetters : StartReset(j) \/ ResetLoad(j) \/ Save(j)
  \/ Roll
  \/ \E u \in Users : EditClear(u) \/ \E t \in 0 .. Length["daily"] - 1 : EditStart(u, t)
  \/ Edit
  \/ EnforceLoad \/ EnforceSave
  \/ \E j \in Jobs : Fail(j)
  \/ \E u \in Users : Carry(u) \/ EnableUser(u)
  \/ XrayRestart
  \/ Tick

Spec == Init /\ [][Next]_vars

\* The loops tick and a request that was accepted is answered.
FairSpec ==
  /\ Spec
  /\ \A j \in Syncers : WF_vars(Sync(j))
  /\ \A j \in Resetters : WF_vars(ResetLoad(j) \/ Save(j))
  /\ WF_vars(Roll) /\ WF_vars(Edit) /\ WF_vars(EnforceSave)
-----------------------------------------------------------------------------
(* Properties.                                                             *)

\* What is charged to a period is part of what is charged in total, whichever
\* jobs overwrite each other's copies (SyncUsers and ResetUsers treat the
\* counters alike, ApplyPeriodResets only lowers the periods').
PeriodWithinTotal ==
  \A p \in Periods, u \in Users : file.spent[p][u] <= file.totals[u]

\* A user is never charged for more than was carried, whatever jobs overwrite
\* each other's copies and however often xray restarts, while the periodic
\* sync is the only sync (usage.go:153-177).
NeverOvercharged == \A u \in Users : file.totals[u] <= carried[u]

\* Until xray restarts or an operator resets the counters, what a user was
\* charged and what the next sync will add are all that was carried: a stale
\* copy that the reset loop, the editor or a failed sync leaves behind takes
\* the charge back together with the baseline it was computed from, while the
\* periodic sync is the only sync (usage.go:153-177, SyncUsers).
NothingLost ==
  events.restarts = 0 /\ events.resets = 0 =>
    \A u \in Users : file.totals[u] + real[u] = file.lastRaw[u] + carried[u]

\* A user that is disabled for a quota did carry that much (quota.go:33-69),
\* as long as the periodic sync is the only sync.
DisabledForCause ==
  \A u \in Users :
    ~enabled[u] => \/ Quota > 0 /\ carried[u] >= Quota
                   \/ \E p \in Periods : Cap[p] > 0 /\ carried[u] >= Cap[p]

\* Once traffic, restarts and requests come to rest, the file agrees with
\* xray's counters, whatever stale copies were saved before.
EventuallyCounted ==
  <>[](\A u \in Users : real[u] > 0 => file.lastRaw[u] = real[u])

\* The reset loop saves while no other job holds a copy it loaded before.
Undisturbed == pc[Roller] = "save" => \A j \in Jobs \ {Roller} : pc[j] # "save"

\* No deadline stays in the past: a sync that overwrites a rollover delays it
\* and, unless the two collide at every turn, does not prevent it.
EventuallyRolled ==
  <>[]Undisturbed =>
    <>[](\A p \in Periods, u \in Users : file.due[p][u] > now)

\* usage.go:158-160: a negative delta is a "fresh baseline" because "xray's
\* counters reset to zero".  A sync sees a counter below the recorded one only
\* if xray restarted.
BaselineIsFresh ==
  [][\A j \in Syncers : pc[j] = "load" /\ pc'[j] = "save" =>
       \A u \in DOMAIN raw[j] :
         raw[j][u] < file.lastRaw[u] => events.restarts > 0]_vars
=============================================================================
