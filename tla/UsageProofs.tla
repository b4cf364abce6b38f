----------------------------- MODULE UsageProofs -----------------------------
(***************************************************************************)
(* What holds of the usage accounting for all users, periods, quotas and   *)
(* bounds: typing, periods within totals and, where a single job syncs,    *)
(* that nobody is charged for, or disabled over, traffic never carried.    *)
(***************************************************************************)
EXTENDS Usage, TLAPS

LEMMA NextResetType ==
  ASSUME TypeOK, NEW p \in Periods, NEW u \in Users
  PROVE  NextReset(p, u) \in Nat
<1> DEFINE L == Length[p]
           t == IF p = "daily" THEN resetAt[u] ELSE 0
<1>1. L \in Nat /\ L > 0 /\ Length["daily"] \in Nat
  BY UsageAssumption
<1>2. now \in Nat /\ t \in Nat
  <2>1. resetAt[u] \in Nat
    BY <1>1 DEF TypeOK
  <2>2. now \in Nat
    BY UsageAssumption DEF TypeOK
  <2> QED
    BY <2>1, <2>2
<1>3. (now + L - t) % L \in 0 .. L - 1
  BY <1>1, <1>2
<1>4. NextReset(p, u) = now + L - ((now + L - t) % L)
  BY DEF NextReset
<1> HIDE DEF L, t
<1> QED
  BY <1>1, <1>2, <1>3, <1>4

LEMMA ChargeType ==
  ASSUME NEW c \in Nat, NEW l \in Nat
  PROVE  Charge(c, l) \in Nat /\ Charge(c, l) <= c
BY DEF Charge

LEMMA SyncType ==
  ASSUME NEW st \in UserState, NEW r, DOMAIN r \subseteq Users,
         \A u \in DOMAIN r : r[u] \in Nat
  PROVE  SyncUsers(st, r) \in UserState
<1>1. \A u \in Users : Added(st, r, u) \in Nat
  BY ChargeType DEF UserState, Added
<1> QED
  BY <1>1 DEF UserState, SyncUsers

LEMMA StateTypes ==
  /\ NoState \in UserState
  /\ Zeros \in [Users -> Nat]
  /\ Zeros \in [Users -> 0 .. MaxTraffic]
BY UsageAssumption DEF NoState, UserState, Zeros

LEMMA ResetType ==
  ASSUME NEW st, NEW r, DOMAIN r \subseteq Users,
         \A u \in DOMAIN r : r[u] \in Nat
  PROVE  ResetUsers(st, r) \in UserState
BY StateTypes DEF ResetUsers, NoState, UserState, Zeros

LEMMA RollType ==
  ASSUME TypeOK, NEW st \in UserState
  PROVE  ApplyPeriodResets(st) \in UserState
<1>1. \A p \in Periods, u \in Users : NextReset(p, u) \in Nat
  BY NextResetType
<1>2. [p \in Periods |-> [u \in Users |->
         IF Elapsed(st, p, u) THEN 0 ELSE st.spent[p][u]]]
        \in [Periods -> [Users -> Nat]]
  BY DEF UserState
<1>3. [p \in Periods |-> [u \in Users |->
         IF st.due[p][u] = 0 \/ Elapsed(st, p, u) THEN NextReset(p, u)
                                                  ELSE st.due[p][u]]]
        \in [Periods -> [Users -> Nat]]
  BY <1>1 DEF UserState
<1> QED
  BY <1>2, <1>3 DEF ApplyPeriodResets, UserState

LEMMA EditType ==
  ASSUME NEW st \in UserState, NEW S
  PROVE  ForgetDaily(st, S) \in UserState
<1>1. [p \in Periods |-> [u \in Users |->
         IF p = "daily" /\ u \in S THEN 0 ELSE st.due[p][u]]]
        \in [Periods -> [Users -> Nat]]
  BY DEF UserState
<1> QED
  BY <1>1 DEF UserState, ForgetDaily

Events == [restarts : 0 .. MaxRestarts, requests : 0 .. MaxRequests,
           failures : 0 .. MaxFailures, resets : Nat]

LEMMA EventTypes ==
  ASSUME TypeOK
  PROVE  /\ events \in Events
         /\ events.restarts < MaxRestarts
              => [events EXCEPT !.restarts = @ + 1] \in Events
         /\ events.requests < MaxRequests
              => /\ [events EXCEPT !.requests = @ + 1] \in Events
                 /\ [events EXCEPT !.requests = @ + 1, !.resets = @ + 1] \in Events
         /\ events.failures < MaxFailures
              => [events EXCEPT !.failures = @ + 1] \in Events
<1>1. /\ events.restarts \in Nat /\ events.requests \in Nat
      /\ events.failures \in Nat /\ events.resets \in Nat
      /\ MaxRestarts \in Nat /\ MaxRequests \in Nat /\ MaxFailures \in Nat
  BY UsageAssumption DEF TypeOK
<1>2. events \in Events
  BY DEF TypeOK, Events
<1>3. ASSUME events.restarts < MaxRestarts
      PROVE  [events EXCEPT !.restarts = @ + 1] \in Events
  <2>1. events.restarts + 1 \in 0 .. MaxRestarts
    BY <1>1, <1>3
  <2> QED
    BY <1>2, <2>1 DEF Events
<1>4. ASSUME events.requests < MaxRequests
      PROVE  /\ [events EXCEPT !.requests = @ + 1] \in Events
             /\ [events EXCEPT !.requests = @ + 1, !.resets = @ + 1] \in Events
  <2>1. events.requests + 1 \in 0 .. MaxRequests /\ events.resets + 1 \in Nat
    BY <1>1, <1>4
  <2>2. ASSUME NEW n \in 0 .. MaxRequests, NEW k \in Nat
        PROVE  /\ [events EXCEPT !.requests = n] \in Events
               /\ [events EXCEPT !.requests = n, !.resets = k] \in Events
    BY <1>2, <2>2 DEF Events
  <2> QED
    BY <2>1, <2>2
<1>5. ASSUME events.failures < MaxFailures
      PROVE  [events EXCEPT !.failures = @ + 1] \in Events
  <2>1. events.failures + 1 \in 0 .. MaxFailures
    BY <1>1, <1>5
  <2> QED
    BY <1>2, <2>1 DEF Events
<1> QED
  BY <1>2, <1>3, <1>4, <1>5

LEMMA DayType == 0 \in 0 .. Length["daily"] - 1
BY UsageAssumption

\* A job that ends leaves well-typed job variables.
LEMMA ForgetType ==
  ASSUME TypeOK, NEW j \in Jobs, Forget(j)
  PROVE  /\ pc' \in [Jobs -> {"idle", "load", "save"}]
         /\ raw' = [i \in Jobs |-> raw'[i]]
         /\ \A i \in Jobs : /\ DOMAIN raw'[i] \subseteq Users
                            /\ \A u \in DOMAIN raw'[i] : raw'[i][u] \in Nat
         /\ mem' \in [Jobs -> UserState]
         /\ who' \in SUBSET Users /\ over' \in SUBSET Users
         /\ at' \in [Jobs -> [Users -> 0 .. MaxTraffic]]
<1>1. DOMAIN NoRaw = {}
  BY DEF NoRaw
<1>2. /\ raw' = [i \in Jobs |-> raw'[i]]
      /\ \A i \in Jobs : raw'[i] = IF i = j THEN NoRaw ELSE raw[i]
  BY DEF Forget, TypeOK
<1>3. \A i \in Jobs : /\ DOMAIN raw'[i] \subseteq Users
                      /\ \A u \in DOMAIN raw'[i] : raw'[i][u] \in Nat
  <2> HIDE DEF NoRaw
  <2> QED
    BY <1>1, <1>2 DEF TypeOK
<1> QED
  BY <1>2, <1>3, StateTypes DEF Forget, Goto, TypeOK

LEMMA LoadType ==
  ASSUME TypeOK, NEW j \in Jobs, NEW st \in UserState, Load(j, st)
  PROVE  TypeOK'
BY DEF Load, Goto, TypeOK, panel, world

LEMMA QueryType ==
  ASSUME TypeOK, NEW j \in Jobs, Query(j),
         events' \in Events
  PROVE  TypeOK'
<1>1. PICK listed \in SUBSET Users :
        raw' = [raw EXCEPT ![j] = [u \in listed |-> real[u]]]
  BY DEF Query
<1>2. /\ raw' = [i \in Jobs |-> raw'[i]]
      /\ \A i \in Jobs : raw'[i] = IF i = j THEN [u \in listed |-> real[u]]
                                            ELSE raw[i]
  BY <1>1 DEF TypeOK
<1>3. \A i \in Jobs : /\ DOMAIN raw'[i] \subseteq Users
                      /\ \A u \in DOMAIN raw'[i] : raw'[i][u] \in Nat
  BY <1>2, UsageAssumption DEF TypeOK
<1>4. /\ pc' \in [Jobs -> {"idle", "load", "save"}]
      /\ at' \in [Jobs -> [Users -> 0 .. MaxTraffic]]
  BY DEF Query, Goto, TypeOK
<1>5. UNCHANGED <<file, mem, who, over, enabled, resetAt, real, now, carried>>
  BY DEF Query, panel, world
<1> QED
  BY <1>2, <1>3, <1>4, <1>5 DEF TypeOK, Events

LEMMA JobsAre ==
  /\ Syncers \subseteq Jobs /\ Resetters \subseteq Jobs
  /\ Roller \in Jobs /\ Editor \in Jobs /\ Enforcer \in Jobs
BY DEF Jobs

\* Every variable keeps its type: no counter and no charge is ever negative.
THEOREM TypeCorrect == Spec => []TypeOK
<1>1. Init => TypeOK
  <2> SUFFICES ASSUME Init PROVE TypeOK
    OBVIOUS
  <2>1. enabled \in [Users -> BOOLEAN]
    BY DEF Init
  <2>2. /\ raw = [j \in Jobs |-> raw[j]]
        /\ \A j \in Jobs : raw[j] = NoRaw
    BY DEF Init
  <2>3. DOMAIN NoRaw = {}
    BY DEF NoRaw
  <2>4. \A j \in Jobs : /\ DOMAIN raw[j] \subseteq Users
                        /\ \A u \in DOMAIN raw[j] : raw[j][u] \in Nat
    BY <2>2, <2>3
  <2> QED
    BY <2>1, <2>2, <2>4, StateTypes, DayType, UsageAssumption
    DEF Init, TypeOK, Zeros
<1>2. TypeOK /\ [Next]_vars => TypeOK'
  <2> SUFFICES ASSUME TypeOK, [Next]_vars PROVE TypeOK'
    OBVIOUS
  <2> USE JobsAre
  <2>1. ASSUME NEW j \in Jobs, Save(j) PROVE TypeOK'
    <3>1. file' \in UserState
      BY <2>1 DEF Save, TypeOK
    <3> QED
      BY <2>1, <3>1, ForgetType DEF Save, TypeOK, panel, world
  <2>2. ASSUME NEW j \in Jobs, Fail(j) PROVE TypeOK'
    BY <2>2, ForgetType, EventTypes DEF Events, Fail, TypeOK, panel, world
  <2>3. ASSUME NEW j \in Syncers, StartSync(j) PROVE TypeOK'
    BY <2>3, QueryType, EventTypes DEF StartSync
  <2>4. ASSUME NEW j \in Resetters, StartReset(j) PROVE TypeOK'
    BY <2>4, QueryType, EventTypes DEF StartReset, Request
  <2>5. ASSUME NEW j \in Syncers, SyncLoad(j) PROVE TypeOK'
    <3>1. SyncUsers(file, raw[j]) \in UserState
      BY <2>5, SyncType DEF TypeOK
    <3> QED
      BY <2>5, <3>1, LoadType DEF SyncLoad
  <2>6. ASSUME NEW j \in Resetters, ResetLoad(j) PROVE TypeOK'
    <3>1. ResetUsers(file, raw[j]) \in UserState
      BY <2>6, ResetType DEF TypeOK
    <3> QED
      BY <2>6, <3>1, LoadType DEF ResetLoad
  <2>7. CASE RollLoad
    <3>1. ApplyPeriodResets(file) \in UserState
      BY RollType DEF TypeOK
    <3> QED
      BY <2>7, <3>1, LoadType DEF RollLoad
  <2>8. ASSUME NEW u \in Users, NEW t \in 0 .. Length["daily"] - 1, EditStart(u, t)
        PROVE TypeOK'
    BY <2>8, EventTypes DEF Events, EditStart, Request, Goto, TypeOK, world
  <2>9. ASSUME NEW u \in Users, EditClear(u) PROVE TypeOK'
    BY <2>9, EventTypes, DayType DEF Events, EditClear, Request, TypeOK, jobVars, world
  <2>10. CASE EditLoad
    <3>1. ForgetDaily(file, who) \in UserState
      BY EditType DEF TypeOK
    <3> QED
      BY <2>10, <3>1, LoadType DEF EditLoad
  <2>11. CASE EnforceLoad
    <3>1. over' \in SUBSET Users
      BY <2>11 DEF EnforceLoad
    <3> QED
      BY <2>11, <3>1, EventTypes DEF Events, EnforceLoad, Request, Goto, TypeOK, panel, world
  <2>12. CASE EnforceSave
    <3>1. enabled' \in [Users -> BOOLEAN]
      BY <2>12 DEF EnforceSave, TypeOK
    <3> QED
      BY <2>12, <3>1 DEF EnforceSave, Goto, TypeOK, world
  <2>13. ASSUME NEW u \in Users, Carry(u) PROVE TypeOK'
    BY <2>13, UsageAssumption DEF Carry, TypeOK, jobVars, panel
  <2>14. ASSUME NEW u \in Users, EnableUser(u) PROVE TypeOK'
    <3>1. enabled' \in [Users -> BOOLEAN]
      BY <2>14 DEF EnableUser, TypeOK
    <3> QED
      BY <2>14, <3>1 DEF EnableUser, TypeOK, jobVars, world
  <2>15. CASE XrayRestart
    BY <2>15, EventTypes, StateTypes DEF Events, XrayRestart, TypeOK, jobVars, panel
  <2>16. CASE Tick
    BY <2>16, UsageAssumption DEF Tick, TypeOK, jobVars, panel
  <2>17. CASE UNCHANGED vars
    BY <2>17 DEF vars, TypeOK
  <2> QED
    BY <2>1, <2>2, <2>3, <2>4, <2>5, <2>6, <2>7, <2>8, <2>9, <2>10, <2>11,
       <2>12, <2>13, <2>14, <2>15, <2>16, <2>17
    DEF Next, Sync, Roll, Edit
<1> QED
  BY <1>1, <1>2, PTL DEF Spec
-----------------------------------------------------------------------------
(* Periods within totals: true of the file and of every copy.              *)

Within(st) == \A p \in Periods, u \in Users : st.spent[p][u] <= st.totals[u]

PeriodsInv == TypeOK /\ Within(file) /\ \A j \in Jobs : Within(mem[j])

\* The next state of the file and the copies, whatever the step: the file is
\* kept or becomes a copy, a copy is kept, emptied, or computed from the file.
Computed(j, st) ==
  \/ j \in Syncers /\ pc[j] = "load" /\ st = SyncUsers(file, raw[j])
  \/ j \in Resetters /\ pc[j] = "load" /\ st = ResetUsers(file, raw[j])
  \/ j = Roller /\ st = ApplyPeriodResets(file)
  \/ j = Editor /\ st = ForgetDaily(file, who)

LEMMA Copies ==
  ASSUME TypeOK, [Next]_vars
  PROVE  /\ file' = file \/ \E j \in Jobs : file' = mem[j]
         /\ \A j \in Jobs :
              \/ mem'[j] = mem[j]
              \/ mem'[j] = NoState
              \/ Computed(j, mem'[j]) /\ pc'[j] = "save"
<1> USE JobsAre
<1> DEFINE Goal == /\ file' = file \/ \E j \in Jobs : file' = mem[j]
                   /\ \A j \in Jobs : \/ mem'[j] = mem[j]
                                      \/ mem'[j] = NoState
                                      \/ Computed(j, mem'[j]) /\ pc'[j] = "save"
<1>1. ASSUME NEW j \in Jobs, Save(j) PROVE Goal
  BY <1>1 DEF Save, Forget, TypeOK
<1>2. ASSUME NEW j \in Jobs, Fail(j) PROVE Goal
  BY <1>2 DEF Fail, Forget, TypeOK
<1>3. ASSUME NEW j \in Jobs, NEW st, Load(j, st), Computed(j, st) PROVE Goal
  <2>1. file' = file /\ mem' = [mem EXCEPT ![j] = st] /\ pc'[j] = "save"
    BY <1>3 DEF Load, Goto, TypeOK
  <2>2. mem'[j] = st /\ \A i \in Jobs \ {j} : mem'[i] = mem[i]
    BY <2>1 DEF TypeOK
  <2> QED
    BY <1>3, <2>1, <2>2
<1>4. ASSUME NEW j \in Syncers, SyncLoad(j) PROVE Goal
  BY <1>3, <1>4 DEF SyncLoad, Computed
<1>5. ASSUME NEW j \in Resetters, ResetLoad(j) PROVE Goal
  BY <1>3, <1>5 DEF ResetLoad, Computed
<1>6. CASE RollLoad
  BY <1>3, <1>6 DEF RollLoad, Computed
<1>7. CASE EditLoad
  BY <1>3, <1>7 DEF EditLoad, Computed
<1>8. CASE UNCHANGED <<file, mem>>
  BY <1>8
<1>9. \/ \E j \in Jobs : Save(j) \/ Fail(j)
      \/ \E j \in Syncers : SyncLoad(j)
      \/ \E j \in Resetters : ResetLoad(j)
      \/ RollLoad \/ EditLoad
      \/ UNCHANGED <<file, mem>>
  BY DEF Next, Sync, Roll, Edit, StartSync, StartReset, Query, EditStart,
     EditClear, EnforceLoad, EnforceSave, Carry, EnableUser, XrayRestart, Tick,
     vars, jobVars
<1> QED
  BY <1>1, <1>2, <1>4, <1>5, <1>6, <1>7, <1>8, <1>9

\* The jobs that read xray's counters.
Readers == Syncers \cup Resetters

\* Steps as the counters see them: one is read, forgotten, carried to or
\* started again, or left alone by a job that does not go on to load.
LEMMA StepKinds ==
  ASSUME [Next]_vars
  PROVE  \/ \E j \in Jobs : Query(j) \/ (Forget(j) /\ UNCHANGED world)
         \/ \E u \in Users : Carry(u)
         \/ XrayRestart
         \/ \E j \in Jobs, where \in {"idle", "load", "save"} :
              /\ Goto(j, where) /\ (j \in Readers => where # "load")
              /\ UNCHANGED <<raw, at, world>>
         \/ UNCHANGED <<real, carried, raw, at, pc>>
<1> USE JobsAre
<1>1. Editor \notin Readers /\ Enforcer \notin Readers
  BY UsageAssumption DEF Readers
<1>2. CASE \E j \in Jobs : Save(j) \/ Fail(j)
  BY <1>2 DEF Save, Fail
<1>3. ASSUME NEW j \in Jobs, NEW st, Load(j, st)
      PROVE  /\ Goto(j, "save") /\ UNCHANGED <<raw, at, world>>
  BY <1>3 DEF Load
<1>4. CASE \E j \in Syncers : SyncLoad(j)
  BY <1>3, <1>4 DEF SyncLoad
<1>5. CASE \E j \in Resetters : ResetLoad(j)
  BY <1>3, <1>5 DEF ResetLoad
<1>6. CASE RollLoad \/ EditLoad
  BY <1>3, <1>6 DEF RollLoad, EditLoad
<1>7. CASE \E u \in Users, t \in 0 .. Length["daily"] - 1 : EditStart(u, t)
  BY <1>1, <1>7 DEF EditStart
<1>8. CASE EnforceLoad \/ EnforceSave
  BY <1>1, <1>8 DEF EnforceLoad, EnforceSave
<1>9. CASE \/ \E u \in Users : EditClear(u) \/ EnableUser(u)
           \/ Tick \/ UNCHANGED vars
  BY <1>9 DEF EditClear, EnableUser, Tick, vars, jobVars, world
<1>10. CASE \/ \E j \in Syncers : StartSync(j)
            \/ \E j \in Resetters : StartReset(j)
  BY <1>10 DEF StartSync, StartReset
<1>11. CASE XrayRestart \/ \E u \in Users : Carry(u)
  BY <1>11
<1> QED
  BY <1>2, <1>4, <1>5, <1>6, <1>7, <1>8, <1>9, <1>10, <1>11
  DEF Next, Sync, Roll, Edit

\* No interleaving of syncs, rollovers, edits and resets charges a period more
\* than the total.
THEOREM PeriodsWithinTotals == Spec => []PeriodWithinTotal
<1>1. Within(NoState)
  BY DEF Within, NoState, Zeros
<1>2. Init => Within(file) /\ \A j \in Jobs : Within(mem[j])
  BY <1>1 DEF Init
<1>3. PeriodsInv /\ TypeOK' /\ [Next]_vars
        => (Within(file) /\ \A j \in Jobs : Within(mem[j]))'
  <2> SUFFICES ASSUME PeriodsInv, [Next]_vars
               PROVE  Within(file') /\ \A j \in Jobs : Within(mem'[j])
    BY DEF Within
  <2>1. TypeOK /\ Within(file) /\ \A j \in Jobs : Within(mem[j])
    BY DEF PeriodsInv
  <2>2. file \in UserState
    BY <2>1 DEF TypeOK
  <2>3. ASSUME NEW j \in Jobs, pc[j] = "load" PROVE Within(SyncUsers(file, raw[j]))
    <3>1. \A u \in Users : Added(file, raw[j], u) \in Nat
      BY <2>1, <2>2, ChargeType DEF TypeOK, UserState, Added
    <3> QED
      BY <3>1, <2>1, <2>2 DEF SyncUsers, Within, UserState
  <2>4. \A j \in Jobs : Within(ResetUsers(file, raw[j]))
    BY DEF ResetUsers, NoState, Within, Zeros
  <2>5. Within(ApplyPeriodResets(file))
    BY <2>1, <2>2 DEF ApplyPeriodResets, Within, UserState
  <2>6. Within(ForgetDaily(file, who))
    BY <2>1, <2>2 DEF ForgetDaily, Within, UserState
  <2>7. \A j \in Jobs : \A st : Computed(j, st) => Within(st)
    BY <2>3, <2>4, <2>5, <2>6, JobsAre DEF Computed
  <2> QED
    BY <1>1, <2>1, <2>7, Copies
<1> QED
  BY <1>2, <1>3, TypeCorrect, PTL DEF Spec, PeriodsInv, PeriodWithinTotal, Within
-----------------------------------------------------------------------------
(* Nobody is charged for more than was carried.                            *)

\* A single job syncs: the periodic loop, and nobody clicks Sync meanwhile.
OneSync == \A i, j \in Syncers : i = j

\* What a state has charged and would be charged on the next sync was carried.
Sound(st) ==
  \A u \in Users : st.totals[u] + Charge(real[u], st.lastRaw[u]) <= carried[u]

\* Counters that were read are no more than was carried then, and become a
\* baseline that leaves no more to charge than was carried since.
ReadSound(j) ==
  \A u \in DOMAIN raw[j] : /\ raw[j][u] <= at[j][u]
                           /\ at[j][u] + Charge(real[u], raw[j][u]) <= carried[u]

\* The same as Sound at the moment job j read the counters.
Chargeable(j, st) ==
  \A u \in DOMAIN raw[j] :
    st.totals[u] + Charge(raw[j][u], st.lastRaw[u]) <= at[j][u]

ChargeSafe ==
  /\ \A u \in Users : real[u] <= carried[u]
  /\ Sound(file) /\ \A i \in Jobs : Sound(mem[i])
  /\ \A j \in Jobs : ReadSound(j)
  /\ \A j \in Syncers : pc[j] = "load" =>
       Chargeable(j, file) /\ \A i \in Jobs : Chargeable(j, mem[i])

ChargeInv == TypeOK /\ ChargeSafe

LEMMA ChargeGrows ==
  ASSUME NEW c \in Nat, NEW l \in Nat
  PROVE  Charge(c + 1, l) <= Charge(c, l) + 1 /\ Charge(0, l) = 0 /\ Charge(c, c) = 0
BY DEF Charge

LEMMA StatesTyped ==
  ASSUME TypeOK
  PROVE  /\ \A u \in Users : real[u] \in Nat /\ carried[u] \in Nat
         /\ file \in UserState /\ \A j \in Jobs : mem[j] \in UserState
         /\ \A j \in Jobs : /\ DOMAIN raw[j] \subseteq Users
                            /\ \A u \in DOMAIN raw[j] : raw[j][u] \in Nat
         /\ \A j \in Jobs, u \in Users : at[j][u] \in Nat
BY UsageAssumption DEF TypeOK

\* A step of the world after which nobody would be charged for more than the
\* step carried keeps every state and every reading sound.
LEMMA WorldStep ==
  ASSUME ChargeInv,
         UNCHANGED <<file, mem, raw, at, pc>>,
         \A u \in Users : real'[u] <= carried'[u],
         \A u \in Users, l \in Nat, b \in Nat :
           b + Charge(real[u], l) <= carried[u]
             => b + Charge(real'[u], l) <= carried'[u]
  PROVE  ChargeSafe'
<1>1. TypeOK /\ ChargeSafe
  BY DEF ChargeInv
<1>2. ASSUME NEW st \in UserState, Sound(st)
      PROVE  \A u \in Users : st.totals[u] + Charge(real'[u], st.lastRaw[u]) <= carried'[u]
  BY <1>2 DEF Sound, UserState
<1>3. Sound(file)'
  BY <1>1, <1>2, StatesTyped DEF ChargeSafe, Sound
<1>4. \A i \in Jobs : Sound(mem[i])'
  BY <1>1, <1>2, StatesTyped DEF ChargeSafe, Sound
<1>5. \A j \in Jobs : ReadSound(j)'
  BY <1>1, StatesTyped DEF ChargeSafe, ReadSound
<1>6. \A j \in Syncers : pc'[j] = "load" =>
         Chargeable(j, file)' /\ \A i \in Jobs : Chargeable(j, mem[i])'
  BY <1>1 DEF ChargeSafe, Chargeable
<1> QED
  BY <1>3, <1>4, <1>5, <1>6 DEF ChargeSafe

LEMMA CarryStep ==
  ASSUME ChargeInv, NEW u \in Users, Carry(u)
  PROVE  ChargeSafe'
<1>1. /\ UNCHANGED <<file, mem, raw, at, pc>>
      /\ \A v \in Users :
           IF v = u THEN real'[v] = real[v] + 1 /\ carried'[v] = carried[v] + 1
                    ELSE real'[v] = real[v] /\ carried'[v] = carried[v]
  BY DEF Carry, jobVars, ChargeInv, TypeOK
<1>2. ASSUME NEW v \in Users, NEW l \in Nat, NEW b \in Nat,
             b + Charge(real[v], l) <= carried[v]
      PROVE  b + Charge(real'[v], l) <= carried'[v]
  <2>1. real[v] \in Nat /\ carried[v] \in Nat
    BY StatesTyped DEF ChargeInv
  <2>2. Charge(real[v], l) \in Nat /\ Charge(real[v] + 1, l) \in Nat
    <3>1. real[v] + 1 \in Nat
      BY <2>1
    <3> QED
      BY <2>1, <3>1, ChargeType
  <2>3. Charge(real[v] + 1, l) <= Charge(real[v], l) + 1
    BY <2>1, ChargeGrows
  <2> QED
    BY <1>1, <1>2, <2>1, <2>2, <2>3
<1>3. \A v \in Users : real'[v] <= carried'[v]
  BY <1>1, StatesTyped DEF ChargeInv, ChargeSafe
<1> QED
  BY <1>1, <1>2, <1>3, WorldStep

LEMMA RestartStep ==
  ASSUME ChargeInv, XrayRestart
  PROVE  ChargeSafe'
<1>1. /\ UNCHANGED <<file, mem, raw, at, pc>>
      /\ carried' = carried /\ \A v \in Users : real'[v] = 0
  BY DEF XrayRestart, jobVars, Zeros
<1>2. ASSUME NEW v \in Users, NEW l \in Nat, NEW b \in Nat,
             b + Charge(real[v], l) <= carried[v]
      PROVE  b + Charge(real'[v], l) <= carried'[v]
  <2>1. real[v] \in Nat /\ carried[v] \in Nat
    BY StatesTyped DEF ChargeInv
  <2>2. Charge(real[v], l) \in Nat /\ Charge(0, l) = 0
    BY <2>1, ChargeType, ChargeGrows
  <2> QED
    BY <1>1, <1>2, <2>1, <2>2
<1>3. \A v \in Users : real'[v] <= carried'[v]
  BY <1>1, StatesTyped DEF ChargeInv
<1> QED
  BY <1>1, <1>2, <1>3, WorldStep

\* Reading xray's counters.
LEMMA QueryStep ==
  ASSUME ChargeInv, NEW j \in Jobs, Query(j), TypeOK'
  PROVE  ChargeSafe'
<1>1. TypeOK /\ ChargeSafe
  BY DEF ChargeInv
<1>2. PICK listed \in SUBSET Users :
        raw' = [raw EXCEPT ![j] = [u \in listed |-> real[u]]]
  BY DEF Query
<1>3. /\ file' = file /\ mem' = mem /\ real' = real /\ carried' = carried
      /\ at' = [at EXCEPT ![j] = carried] /\ pc' = [pc EXCEPT ![j] = "load"]
  BY DEF Query, Goto, world
<1>4. /\ raw'[j] = [u \in listed |-> real[u]] /\ at'[j] = carried
      /\ \A i \in Jobs \ {j} : raw'[i] = raw[i] /\ at'[i] = at[i] /\ pc'[i] = pc[i]
  BY <1>1, <1>2, <1>3 DEF TypeOK
<1>5. \A u \in Users : real'[u] <= carried'[u]
  BY <1>1, <1>3 DEF ChargeSafe
<1>6. Sound(file)' /\ \A i \in Jobs : Sound(mem[i])'
  BY <1>1, <1>3 DEF ChargeSafe, Sound
<1>7. ReadSound(j)'
  <2>1. \A u \in Users : Charge(real[u], real[u]) = 0
    BY <1>1, StatesTyped, ChargeGrows
  <2> QED
    BY <1>1, <1>3, <1>4, <2>1, StatesTyped DEF ReadSound, ChargeSafe
<1>8. \A i \in Jobs \ {j} : ReadSound(i)'
  BY <1>1, <1>3, <1>4 DEF ChargeSafe, ReadSound
<1>9. Chargeable(j, file)' /\ \A i \in Jobs : Chargeable(j, mem[i])'
  BY <1>1, <1>3, <1>4 DEF ChargeSafe, Sound, Chargeable
<1>10. \A k \in Syncers \ {j} : pc'[k] = "load" =>
          Chargeable(k, file)' /\ \A i \in Jobs : Chargeable(k, mem[i])'
  BY <1>1, <1>3, <1>4, JobsAre DEF ChargeSafe, Chargeable
<1> QED
  BY <1>5, <1>6, <1>7, <1>8, <1>9, <1>10 DEF ChargeSafe

\* What a job computes, and an empty copy, are as sound as the file.
LEMMA ComputedSound ==
  ASSUME OneSync, ChargeInv, NEW j \in Jobs, NEW st, Computed(j, st)
  PROVE  /\ Sound(st)
         /\ \A k \in Syncers \ {j} : pc[k] = "load" => Chargeable(k, st)
<1> USE JobsAre
<1>1. TypeOK /\ ChargeSafe
  BY DEF ChargeInv
<1>a. /\ \A u \in Users : real[u] \in Nat /\ carried[u] \in Nat
      /\ file \in UserState
      /\ \A i \in Jobs : /\ DOMAIN raw[i] \subseteq Users
                         /\ \A u \in DOMAIN raw[i] : raw[i][u] \in Nat
      /\ \A i \in Jobs, u \in Users : at[i][u] \in Nat
  BY <1>1, StatesTyped
<1>2. CASE j \in Syncers /\ pc[j] = "load" /\ st = SyncUsers(file, raw[j])
  <2>1. ASSUME NEW u \in Users
        PROVE  st.totals[u] + Charge(real[u], st.lastRaw[u]) <= carried[u]
    <3>1. CASE u \in DOMAIN raw[j]
      <4> DEFINE c == Charge(raw[j][u], file.lastRaw[u])
                 d == Charge(real[u], raw[j][u])
      <4>1. st.totals[u] = file.totals[u] + c /\ st.lastRaw[u] = raw[j][u]
        BY <1>2, <3>1 DEF SyncUsers, Added
      <4>2. file.totals[u] + c <= at[j][u]
        BY <1>1, <1>2, <3>1 DEF ChargeSafe, Chargeable
      <4>3. at[j][u] + d <= carried[u]
        BY <1>1, <3>1 DEF ChargeSafe, ReadSound
      <4>4. /\ file.totals[u] \in Nat /\ file.lastRaw[u] \in Nat
            /\ raw[j][u] \in Nat /\ real[u] \in Nat
            /\ carried[u] \in Nat /\ at[j][u] \in Nat
        BY <1>a, <3>1 DEF UserState
      <4>5. c \in Nat /\ d \in Nat
        BY <4>4, ChargeType
      <4> HIDE DEF c
      <4> QED
        BY <4>1, <4>2, <4>3, <4>4, <4>5
    <3>2. CASE u \notin DOMAIN raw[j]
      <4>1. st.totals[u] = file.totals[u] + 0 /\ st.lastRaw[u] = file.lastRaw[u]
        BY <1>2, <3>2 DEF SyncUsers, Added
      <4>2. file.totals[u] \in Nat
        BY <1>a DEF UserState
      <4> QED
        BY <1>1, <4>1, <4>2 DEF ChargeSafe, Sound
    <3> QED
      BY <3>1, <3>2
  <2>2. \A k \in Syncers : k = j
    BY <1>2 DEF OneSync
  <2> QED
    BY <2>1, <2>2 DEF Sound
<1>3. CASE j \in Resetters /\ pc[j] = "load" /\ st = ResetUsers(file, raw[j])
  <2>1. \A u \in Users : st.totals[u] = 0 /\ st.lastRaw[u] \in Nat
    BY <1>3, <1>a DEF ResetUsers, NoState, Zeros
  <2>2. \A c \in Nat, u \in Users : Charge(c, st.lastRaw[u]) \in Nat
                                    /\ Charge(c, st.lastRaw[u]) <= c
    BY <2>1, ChargeType
  <2>3. ASSUME NEW u \in Users
        PROVE  st.totals[u] + Charge(real[u], st.lastRaw[u]) <= carried[u]
    <3>1. real[u] <= carried[u] /\ real[u] \in Nat /\ carried[u] \in Nat
      BY <1>1, <1>a DEF ChargeSafe
    <3>2. /\ Charge(real[u], st.lastRaw[u]) \in Nat
          /\ Charge(real[u], st.lastRaw[u]) <= real[u]
      BY <2>2, <3>1
    <3> QED
      BY <2>1, <3>1, <3>2
  <2>4. \A k \in Syncers : Chargeable(k, st)
    <3> SUFFICES ASSUME NEW k \in Syncers, NEW u \in DOMAIN raw[k]
                 PROVE  st.totals[u] + Charge(raw[k][u], st.lastRaw[u]) <= at[k][u]
      BY DEF Chargeable
    <3>1. u \in Users /\ raw[k][u] \in Nat /\ at[k][u] \in Nat
      BY <1>a
    <3>2. raw[k][u] <= at[k][u]
      BY <1>1 DEF ChargeSafe, ReadSound
    <3> QED
      BY <2>1, <2>2, <3>1, <3>2
  <2> QED
    BY <2>3, <2>4 DEF Sound
<1>4. CASE st.totals = file.totals /\ st.lastRaw = file.lastRaw
  BY <1>1, <1>4 DEF ChargeSafe, Sound, Chargeable
<1>5. CASE j = Roller /\ st = ApplyPeriodResets(file)
  BY <1>4, <1>5 DEF ApplyPeriodResets
<1>6. CASE j = Editor /\ st = ForgetDaily(file, who)
  BY <1>4, <1>6, <1>a DEF ForgetDaily, UserState
<1> QED
  BY <1>2, <1>3, <1>5, <1>6 DEF Computed

LEMMA EmptySound ==
  ASSUME ChargeInv
  PROVE  Sound(NoState) /\ \A k \in Syncers : Chargeable(k, NoState)
<1> USE JobsAre
<1>1. \A u \in Users : NoState.totals[u] = 0 /\ NoState.lastRaw[u] = 0
  BY DEF NoState, Zeros
<1>2. \A c \in Nat : Charge(c, 0) = c
  BY DEF Charge
<1> QED
  BY <1>1, <1>2, StatesTyped DEF ChargeInv, ChargeSafe, Sound, Chargeable, ReadSound

\* A step that leaves traffic and readings alone, except those it forgets.
LEMMA JobStep ==
  ASSUME OneSync, ChargeInv, [Next]_vars,
         UNCHANGED <<real, carried>>,
         \A j \in Jobs : \/ raw'[j] = raw[j] /\ at'[j] = at[j]
                         \/ raw'[j] = NoRaw /\ pc'[j] = "idle",
         \A j \in Jobs : pc'[j] = "load" /\ j \in Syncers => pc[j] = "load"
  PROVE  ChargeSafe'
<1> USE JobsAre
<1>1. TypeOK /\ ChargeSafe
  BY DEF ChargeInv
<1>2. ASSUME NEW st, \/ st = file \/ st = NoState
                     \/ \E i \in Jobs : st = mem[i]
      PROVE  Sound(st) /\ \A k \in Syncers : pc[k] = "load" => Chargeable(k, st)
  BY <1>1, <1>2, EmptySound DEF ChargeSafe
<1>3. ASSUME NEW st, Sound(st)
      PROVE  \A u \in Users : st.totals[u] + Charge(real'[u], st.lastRaw[u]) <= carried'[u]
  BY <1>3 DEF Sound
<1>4. Sound(file) /\ \A i \in Jobs : Sound(mem[i])
  BY <1>1 DEF ChargeSafe
<1>5. Sound(file')
  BY <1>1, <1>2, Copies
<1>6. \A i \in Jobs : Sound(mem'[i])
  BY <1>1, <1>2, Copies, ComputedSound
<1>7. Sound(file)' /\ \A i \in Jobs : Sound(mem[i])'
  BY <1>5, <1>6 DEF Sound
<1>8. \A j \in Jobs : ReadSound(j)'
  BY <1>1 DEF ChargeSafe, ReadSound, NoRaw
<1>9. ASSUME NEW k \in Syncers, pc'[k] = "load"
      PROVE  Chargeable(k, file)' /\ \A i \in Jobs : Chargeable(k, mem[i])'
  <2>1. pc[k] = "load" /\ raw'[k] = raw[k] /\ at'[k] = at[k]
    BY <1>9
  <2>2. Chargeable(k, file')
    BY <1>1, <1>2, <2>1, Copies
  <2>3. ASSUME NEW i \in Jobs PROVE Chargeable(k, mem'[i])
    <3>1. CASE mem'[i] = mem[i] \/ mem'[i] = NoState
      BY <1>2, <2>1, <3>1
    <3>2. CASE Computed(i, mem'[i]) /\ pc'[i] = "save"
      BY <1>9, <2>1, <3>2, ComputedSound
    <3> QED
      BY <1>1, <3>1, <3>2, Copies
  <2> QED
    BY <2>1, <2>2, <2>3 DEF Chargeable
<1>10. \A u \in Users : real'[u] <= carried'[u]
  BY <1>1 DEF ChargeSafe
<1> QED
  BY <1>7, <1>8, <1>9, <1>10 DEF ChargeSafe

\* While a single job syncs, nobody is charged for more than was carried: not
\* by a sync, not by a stale copy saved over a newer one, not by a reset that
\* races with the sync, not after a restart of xray.
THEOREM ChargedOnce ==
  ASSUME OneSync
  PROVE  Spec => []NeverOvercharged
<1> USE JobsAre
<1>1. Init => ChargeSafe
  <2> SUFFICES ASSUME Init PROVE ChargeSafe
    OBVIOUS
  <2>1. /\ \A u \in Users : real[u] = 0 /\ carried[u] = 0
        /\ file = NoState /\ \A j \in Jobs : mem[j] = NoState
        /\ \A j \in Jobs : raw[j] = NoRaw /\ pc[j] = "idle"
    BY DEF Init, Zeros
  <2>2. \A u \in Users : NoState.totals[u] = 0 /\ NoState.lastRaw[u] = 0
    BY DEF NoState, Zeros
  <2>3. ASSUME NEW u \in Users
        PROVE  NoState.totals[u] + Charge(real[u], NoState.lastRaw[u]) <= carried[u]
    <3>1. real[u] = 0 /\ carried[u] = 0
      BY <2>1
    <3>2. Charge(real[u], NoState.lastRaw[u]) = 0
      BY <2>2, <3>1 DEF Charge
    <3>3. NoState.totals[u] = 0
      BY <2>2
    <3> QED
      BY <3>1, <3>2, <3>3
  <2>4. \A j \in Jobs : ReadSound(j)
    BY <2>1 DEF ReadSound, NoRaw
  <2> QED
    BY <2>1, <2>3, <2>4 DEF ChargeSafe, Sound
<1>2. ChargeInv /\ TypeOK' /\ [Next]_vars => ChargeSafe'
  <2> SUFFICES ASSUME ChargeInv, TypeOK', [Next]_vars PROVE ChargeSafe'
    OBVIOUS
  <2>a. TypeOK
    BY DEF ChargeInv
  <2>1. ASSUME NEW j \in Jobs, Query(j) PROVE ChargeSafe'
    BY <2>1, QueryStep
  <2>2. ASSUME NEW u \in Users, Carry(u) PROVE ChargeSafe'
    BY <2>2, CarryStep
  <2>3. CASE XrayRestart
    BY <2>3, RestartStep
  <2>4. ASSUME NEW j \in Jobs, Forget(j), UNCHANGED world PROVE ChargeSafe'
    <3>1. \A i \in Jobs \ {j} : raw'[i] = raw[i] /\ at'[i] = at[i] /\ pc'[i] = pc[i]
      BY <2>4, <2>a DEF Forget, Goto, TypeOK
    <3>2. raw'[j] = NoRaw /\ pc'[j] = "idle"
      BY <2>4, <2>a DEF Forget, Goto, TypeOK
    <3>3. UNCHANGED <<real, carried>>
      BY <2>4 DEF world
    <3> QED
      BY <3>1, <3>2, <3>3, JobStep
  <2>5. ASSUME NEW j \in Jobs, NEW where \in {"idle", "load", "save"}, Goto(j, where),
               j \in Syncers => where # "load",
               UNCHANGED <<raw, at, world>>
        PROVE  ChargeSafe'
    <3>1. \A i \in Jobs : pc'[i] = IF i = j THEN where ELSE pc[i]
      BY <2>5, <2>a DEF Goto, TypeOK
    <3>2. UNCHANGED <<real, carried, raw, at>>
      BY <2>5 DEF world
    <3> QED
      BY <2>5, <3>1, <3>2, JobStep
  <2>6. CASE UNCHANGED <<real, carried, raw, at, pc>>
    BY <2>6, JobStep
  <2>7. Syncers \subseteq Readers
    BY DEF Readers
  <2> QED
    BY <2>1, <2>2, <2>3, <2>4, <2>5, <2>6, <2>7, StepKinds
<1>3. ChargeInv => NeverOvercharged
  <2> SUFFICES ASSUME ChargeInv, NEW u \in Users PROVE file.totals[u] <= carried[u]
    BY DEF NeverOvercharged
  <2>1. /\ file.totals[u] \in Nat /\ file.lastRaw[u] \in Nat
        /\ real[u] \in Nat /\ carried[u] \in Nat
    BY StatesTyped DEF ChargeInv, UserState
  <2>2. Charge(real[u], file.lastRaw[u]) \in Nat
    BY <2>1, ChargeType
  <2> QED
    BY <2>1, <2>2 DEF ChargeInv, ChargeSafe, Sound
<1> QED
  BY <1>1, <1>2, <1>3, TypeCorrect, PTL DEF Spec, ChargeInv

Cause(u) == \/ Quota > 0 /\ carried[u] >= Quota
            \/ \E p \in Periods : Cap[p] > 0 /\ carried[u] >= Cap[p]

Caused == \A u \in Users : ~enabled[u] \/ u \in over => Cause(u)

\* Nor is anyone disabled for a quota the traffic carried never reached.
THEOREM NobodyDisabledEarly ==
  ASSUME OneSync
  PROVE  Spec => []DisabledForCause
<1>1. Init => Caused
  BY DEF Init, Caused
<1>2. TypeOK /\ PeriodWithinTotal /\ NeverOvercharged /\ TypeOK' /\ Caused /\ [Next]_vars
        => Caused'
  <2> SUFFICES ASSUME TypeOK, PeriodWithinTotal, NeverOvercharged, TypeOK', Caused,
                      [Next]_vars, NEW u \in Users, ~enabled'[u] \/ u \in over'
               PROVE  Cause(u)'
    BY DEF Caused
  <2>1. carried[u] \in Nat /\ carried'[u] \in Nat /\ Quota \in Nat
        /\ \A p \in Periods : Cap[p] \in Nat
    BY UsageAssumption DEF TypeOK
  <2>2. carried[u] <= carried'[u]
    <3>1. CASE \E v \in Users : Carry(v)
      BY <2>1, <3>1 DEF Carry, TypeOK
    <3>2. CASE carried' = carried
      BY <2>1, <3>2
    <3> QED
      BY <3>1, <3>2
      DEF Next, Sync, Roll, Edit, StartSync, StartReset, Query, SyncLoad,
          ResetLoad, RollLoad, EditLoad, Load, Save, Fail, EditStart, EditClear,
          EnforceLoad, EnforceSave, EnableUser, XrayRestart, Tick, vars, world
  <2>3. Cause(u) => Cause(u)'
    BY <2>1, <2>2 DEF Cause
  <2>4. CASE EnforceLoad
    <3>1. CASE u \in over'
      <4>1. OverQuota(file, u)
        BY <2>4, <3>1 DEF EnforceLoad
      <4>2. /\ file.totals[u] <= carried[u]
            /\ \A p \in Periods : file.spent[p][u] <= file.totals[u]
        BY DEF NeverOvercharged, PeriodWithinTotal
      <4>3. /\ file.totals[u] \in Nat
            /\ \A p \in Periods : file.spent[p][u] \in Nat
        BY DEF TypeOK, UserState
      <4>4. Cause(u)
        BY <2>1, <4>1, <4>2, <4>3 DEF OverQuota, Cause
      <4> QED
        BY <2>3, <4>4
    <3>2. CASE u \notin over'
      <4>1. ~enabled[u]
        BY <2>4, <3>2 DEF EnforceLoad, panel
      <4> QED
        BY <2>3, <4>1 DEF Caused
    <3> QED
      BY <3>1, <3>2
  <2>5. CASE EnforceSave
    <3>1. ~enabled[u] \/ u \in over
      BY <2>5 DEF EnforceSave
    <3> QED
      BY <2>3, <3>1 DEF Caused
  <2>6. CASE \E v \in Users : EnableUser(v)
    <3>1. ~enabled[u] \/ u \in over
      BY <2>6 DEF EnableUser, TypeOK, jobVars
    <3> QED
      BY <2>3, <3>1 DEF Caused
  <2>7. CASE \E j \in Jobs : Forget(j) /\ enabled' = enabled
    <3>1. ~enabled[u] \/ u \in over
      BY <2>7 DEF Forget
    <3> QED
      BY <2>3, <3>1 DEF Caused
  <2>8. CASE UNCHANGED <<enabled, over>>
    BY <2>3, <2>8 DEF Caused
  <2>9. \/ EnforceLoad \/ EnforceSave \/ \E v \in Users : EnableUser(v)
        \/ \E j \in Jobs : Forget(j) /\ enabled' = enabled
        \/ UNCHANGED <<enabled, over>>
    BY JobsAre
    DEF Next, Sync, Roll, Edit, StartSync, StartReset, Query, SyncLoad,
        ResetLoad, RollLoad, EditLoad, Load, Save, Fail, EditStart, EditClear,
        Carry, XrayRestart, Tick, vars, jobVars, panel
  <2> QED
    BY <2>4, <2>5, <2>6, <2>7, <2>8, <2>9
<1>3. Caused => DisabledForCause
  BY DEF Caused, DisabledForCause, Cause
<1> QED
  BY <1>1, <1>2, <1>3, TypeCorrect, PeriodsWithinTotals, ChargedOnce, PTL DEF Spec
-----------------------------------------------------------------------------
(* A counter below its baseline means that xray restarted, as long as the  *)
(* jobs that read the counters do not overlap.                             *)

\* No two jobs that read the counters are under way at the same time.
NoOverlap == \A i, j \in Readers : pc[i] # "idle" /\ pc[j] # "idle" => i = j

Below(st) == \A u \in Users : st.lastRaw[u] <= real[u]

BelowReading(j, st) == \A u \in DOMAIN raw[j] : st.lastRaw[u] <= raw[j][u]

\* Before xray's first restart no baseline, not even in a stale copy, is above
\* the counters, or above what a job that is about to load has read.
FreshBaselines ==
  /\ Below(file) /\ \A i \in Jobs : Below(mem[i])
  /\ \A j \in Readers : pc[j] = "load" =>
       /\ \A u \in DOMAIN raw[j] : raw[j][u] <= real[u]
       /\ BelowReading(j, file) /\ \A i \in Jobs : BelowReading(j, mem[i])

FreshInv == events.restarts = 0 => FreshBaselines

LEMMA FreshInit == Init => FreshBaselines
<1> SUFFICES ASSUME Init PROVE FreshBaselines
  OBVIOUS
<1>1. /\ \A u \in Users : real[u] = 0
      /\ file = NoState /\ \A j \in Jobs : mem[j] = NoState /\ pc[j] = "idle"
  BY DEF Init, Zeros
<1>2. \A u \in Users : NoState.lastRaw[u] = 0
  BY DEF NoState, Zeros
<1>3. Readers \subseteq Jobs
  BY DEF Readers, Jobs
<1> QED
  BY <1>1, <1>2, <1>3 DEF FreshBaselines, Below

LEMMA ComputedFresh ==
  ASSUME NoOverlap, TypeOK, FreshBaselines, NEW j \in Jobs, NEW st, Computed(j, st)
  PROVE  /\ Below(st)
         /\ \A k \in Readers \ {j} : pc[k] = "load" => BelowReading(k, st)
<1>1. /\ file \in UserState
      /\ \A u \in Users : real[u] \in Nat
      /\ DOMAIN raw[j] \subseteq Users /\ \A u \in DOMAIN raw[j] : raw[j][u] \in Nat
  BY StatesTyped
<1>2. CASE j \in Readers /\ pc[j] = "load"
  <2>1. \A k \in Readers \ {j} : pc[k] # "load"
    BY <1>2 DEF NoOverlap
  <2>2. \A u \in DOMAIN raw[j] : raw[j][u] <= real[u]
    BY <1>2 DEF FreshBaselines
  <2>3. CASE st = SyncUsers(file, raw[j])
    BY <1>1, <2>1, <2>2, <2>3 DEF SyncUsers, FreshBaselines, Below
  <2>4. CASE st = ResetUsers(file, raw[j])
    <3>1. \A u \in Users : st.lastRaw[u] = IF u \in DOMAIN raw[j] THEN raw[j][u] ELSE 0
      BY <2>4 DEF ResetUsers, NoState
    <3> QED
      BY <1>1, <2>1, <2>2, <3>1 DEF Below
  <2>5. CASE st.lastRaw = file.lastRaw
    BY <2>1, <2>5 DEF FreshBaselines, Below
  <2>6. st.lastRaw = file.lastRaw \/ st = SyncUsers(file, raw[j]) \/ st = ResetUsers(file, raw[j])
    BY <1>1 DEF Computed, ApplyPeriodResets, ForgetDaily, UserState
  <2> QED
    BY <2>3, <2>4, <2>5, <2>6
<1>3. CASE st.lastRaw = file.lastRaw
  BY <1>3 DEF FreshBaselines, Below, BelowReading
<1>4. (j \in Readers /\ pc[j] = "load") \/ st.lastRaw = file.lastRaw
  BY <1>1 DEF Computed, Readers, ApplyPeriodResets, ForgetDaily, UserState
<1> QED
  BY <1>2, <1>3, <1>4

\* A step of a job that neither reads the counters nor is the restart.
LEMMA FreshJobStep ==
  ASSUME NoOverlap, TypeOK, FreshBaselines, [Next]_vars, UNCHANGED real,
         \A j \in Readers : pc'[j] = "load" => pc[j] = "load" /\ raw'[j] = raw[j]
  PROVE  FreshBaselines'
<1>1. \A u \in Users : NoState.lastRaw[u] = 0
  BY DEF NoState, Zeros
<1>2. Readers \subseteq Jobs
  BY DEF Readers, Jobs
<1>3. ASSUME NEW st, st = file \/ st = NoState \/ \E i \in Jobs : st = mem[i]
      PROVE  Below(st) /\ \A k \in Readers : pc[k] = "load" => BelowReading(k, st)
  <2>1. CASE st = NoState
    BY <1>1, <1>2, <2>1, StatesTyped DEF Below, BelowReading
  <2> QED
    BY <1>3, <2>1 DEF FreshBaselines
<1>4. Below(file') /\ \A i \in Jobs : Below(mem'[i])
  BY <1>3, Copies, ComputedFresh
<1>5. Below(file)' /\ \A i \in Jobs : Below(mem[i])'
  BY <1>4 DEF Below
<1>6. ASSUME NEW k \in Readers, pc'[k] = "load"
      PROVE  /\ \A u \in DOMAIN raw'[k] : raw'[k][u] <= real'[u]
             /\ BelowReading(k, file)' /\ \A i \in Jobs : BelowReading(k, mem[i])'
  <2>1. pc[k] = "load" /\ raw'[k] = raw[k]
    BY <1>6
  <2>2. \A u \in DOMAIN raw[k] : raw[k][u] <= real[u]
    BY <2>1 DEF FreshBaselines
  <2>3. BelowReading(k, file')
    BY <1>3, <2>1, Copies
  <2>4. ASSUME NEW i \in Jobs PROVE BelowReading(k, mem'[i])
    <3>1. CASE mem'[i] = mem[i] \/ mem'[i] = NoState
      BY <1>3, <2>1, <3>1
    <3>2. CASE Computed(i, mem'[i]) /\ pc'[i] = "save"
      BY <1>6, <2>1, <3>2, ComputedFresh
    <3> QED
      BY <3>1, <3>2, Copies
  <2> QED
    BY <2>1, <2>2, <2>3, <2>4 DEF BelowReading
<1> QED
  BY <1>5, <1>6 DEF FreshBaselines

LEMMA FreshKeeps ==
  TypeOK /\ TypeOK' /\ NoOverlap /\ FreshInv /\ [Next]_vars => FreshInv'
<1> SUFFICES ASSUME TypeOK, TypeOK', NoOverlap, FreshInv, [Next]_vars, events'.restarts = 0
             PROVE  FreshBaselines'
  BY DEF FreshInv
<1>1. ~XrayRestart
  BY UsageAssumption DEF XrayRestart, TypeOK
<1>2. events.restarts = 0
  BY <1>1 DEF Next, Sync, Roll, Edit, StartSync, StartReset, Query, SyncLoad, ResetLoad,
     RollLoad, EditLoad, Load, Save, Fail, EditStart, EditClear, Request, EnforceLoad,
     EnforceSave, Carry, EnableUser, Tick, vars, TypeOK
<1>3. FreshBaselines
  BY <1>2 DEF FreshInv
<1>4. Readers \subseteq Jobs
  BY DEF Readers, Jobs
<1>5. ASSUME NEW j \in Jobs, Query(j) PROVE FreshBaselines'
  <2>1. PICK listed \in SUBSET Users :
          raw' = [raw EXCEPT ![j] = [u \in listed |-> real[u]]]
    BY <1>5 DEF Query
  <2>2. file' = file /\ mem' = mem /\ real' = real /\ pc' = [pc EXCEPT ![j] = "load"]
    BY <1>5 DEF Query, Goto, world
  <2>3. /\ raw'[j] = [u \in listed |-> real[u]]
        /\ \A i \in Jobs \ {j} : raw'[i] = raw[i] /\ pc'[i] = pc[i]
    BY <2>1, <2>2 DEF TypeOK
  <2>4. \A u \in Users : real[u] <= real[u]
    BY StatesTyped
  <2>5. /\ \A u \in DOMAIN raw'[j] : raw'[j][u] <= real'[u]
        /\ BelowReading(j, file)' /\ \A i \in Jobs : BelowReading(j, mem[i])'
    BY <1>3, <2>2, <2>3, <2>4 DEF FreshBaselines, Below, BelowReading
  <2>6. ASSUME NEW k \in Readers \ {j}, pc'[k] = "load"
        PROVE  /\ \A u \in DOMAIN raw'[k] : raw'[k][u] <= real'[u]
               /\ BelowReading(k, file)' /\ \A i \in Jobs : BelowReading(k, mem[i])'
    BY <1>3, <1>4, <2>2, <2>3, <2>6 DEF FreshBaselines, BelowReading
  <2>7. Below(file)' /\ \A i \in Jobs : Below(mem[i])'
    BY <1>3, <2>2 DEF FreshBaselines, Below
  <2> QED
    BY <2>5, <2>6, <2>7 DEF FreshBaselines
<1>6. ASSUME NEW u \in Users, Carry(u) PROVE FreshBaselines'
  <2>1. /\ UNCHANGED <<file, mem, raw, pc>>
        /\ \A v \in Users : real'[v] = IF v = u THEN real[v] + 1 ELSE real[v]
    BY <1>6 DEF Carry, jobVars, TypeOK
  <2>2. \A v \in Users, n \in Nat : n <= real[v] => n <= real'[v]
    BY <2>1, StatesTyped
  <2>3. ASSUME NEW st \in UserState, Below(st)
        PROVE  \A v \in Users : st.lastRaw[v] <= real'[v]
    BY <2>2, <2>3 DEF Below, UserState
  <2>4. Below(file)' /\ \A i \in Jobs : Below(mem[i])'
    BY <1>3, <2>1, <2>3, StatesTyped DEF FreshBaselines, Below
  <2>5. \A j \in Readers : pc'[j] = "load" =>
          /\ \A v \in DOMAIN raw'[j] : raw'[j][v] <= real'[v]
          /\ BelowReading(j, file)' /\ \A i \in Jobs : BelowReading(j, mem[i])'
    BY <1>3, <1>4, <2>1, <2>2, StatesTyped DEF FreshBaselines, BelowReading
  <2> QED
    BY <2>4, <2>5 DEF FreshBaselines
<1>7. ASSUME NEW j \in Jobs, Forget(j), UNCHANGED world PROVE FreshBaselines'
  <2>1. \A i \in Jobs \ {j} : raw'[i] = raw[i] /\ pc'[i] = pc[i]
    BY <1>7 DEF Forget, Goto, TypeOK
  <2>2. pc'[j] = "idle"
    BY <1>7 DEF Forget, Goto, TypeOK
  <2> QED
    BY <1>3, <1>4, <1>7, <2>1, <2>2, FreshJobStep DEF world
<1>8. ASSUME NEW j \in Jobs, NEW where \in {"idle", "load", "save"}, Goto(j, where),
             j \in Readers => where # "load", UNCHANGED <<raw, at, world>>
      PROVE  FreshBaselines'
  <2>1. \A i \in Jobs : pc'[i] = IF i = j THEN where ELSE pc[i]
    BY <1>8 DEF Goto, TypeOK
  <2> QED
    BY <1>3, <1>4, <1>8, <2>1, FreshJobStep DEF world
<1>9. CASE UNCHANGED <<real, carried, raw, at, pc>>
  BY <1>3, <1>9, FreshJobStep
<1> QED
  BY <1>1, <1>5, <1>6, <1>7, <1>8, <1>9, StepKinds

\* When syncs and resets do not overlap, a sync takes a counter to have started
\* again only after xray restarted, whatever copies the reset loop and the
\* editor save over newer ones (usage.go:158).
THEOREM FreshWithoutOverlap == Spec /\ []NoOverlap => BaselineIsFresh
<1>1. Init => FreshInv
  BY FreshInit DEF FreshInv
<1>2. TypeOK /\ FreshInv /\ [Next]_vars
        => \A j \in Syncers : pc[j] = "load" /\ pc'[j] = "save" =>
             \A u \in DOMAIN raw[j] :
               raw[j][u] < file.lastRaw[u] => events.restarts > 0
  <2> SUFFICES ASSUME TypeOK, FreshInv, NEW j \in Syncers, pc[j] = "load",
                      NEW u \in DOMAIN raw[j], raw[j][u] < file.lastRaw[u]
               PROVE  events.restarts > 0
    OBVIOUS
  <2>1. j \in Readers /\ j \in Jobs
    BY DEF Readers, Jobs
  <2>2. raw[j][u] \in Nat /\ file.lastRaw[u] \in Nat
    BY <2>1, StatesTyped DEF UserState
  <2>3. ~FreshBaselines
    BY <2>1, <2>2 DEF FreshBaselines, BelowReading
  <2>4. events.restarts \in Nat
    BY UsageAssumption DEF TypeOK
  <2> QED
    BY <2>3, <2>4 DEF FreshInv
<1> QED
  BY <1>1, <1>2, FreshKeeps, TypeCorrect, PTL DEF Spec, BaselineIsFresh
-----------------------------------------------------------------------------
(* Nothing is lost or charged twice: before the first reset and restart     *)
(* every copy has charged exactly its baseline.                             *)

Even(st) == \A u \in Users : st.totals[u] = st.lastRaw[u]

\* Resets are what may overlap with the only sync.
Unreset ==
  /\ \A j \in Resetters : pc[j] = "idle"
  /\ \A u \in Users : real[u] = carried[u]

EvenInv ==
  events.restarts = 0 /\ events.resets = 0 =>
    /\ Unreset /\ FreshBaselines
    /\ Even(file) /\ \A j \in Jobs : Even(mem[j])

\* Neither history counter ever goes down.
LEMMA QuietPast ==
  ASSUME TypeOK, [Next]_vars, events'.restarts = 0 /\ events'.resets = 0
  PROVE  /\ events.restarts = 0 /\ events.resets = 0
         /\ ~XrayRestart /\ \A j \in Resetters : ~StartReset(j)
<1>1. ~XrayRestart
  BY UsageAssumption DEF XrayRestart, TypeOK
<1>2. \A j \in Resetters : ~StartReset(j)
  <2> SUFFICES ASSUME NEW j \in Resetters, StartReset(j) PROVE FALSE
    OBVIOUS
  <2>1. events.resets \in Nat /\ events \in Events
    BY DEF TypeOK, Events
  <2>2. events' = [events EXCEPT !.requests = @ + 1, !.resets = @ + 1]
    BY DEF StartReset
  <2>3. events'.resets = events.resets + 1
    BY <2>1, <2>2 DEF Events
  <2> QED
    BY <2>1, <2>3
<1>3. \/ events' = events
      \/ events' = [events EXCEPT !.requests = @ + 1]
      \/ events' = [events EXCEPT !.failures = @ + 1]
  BY <1>1, <1>2 DEF Next, Sync, Roll, Edit, StartSync, SyncLoad, ResetLoad,
     RollLoad, EditLoad, Load, Save, Fail, EditStart, EditClear, Request, EnforceLoad,
     EnforceSave, Carry, EnableUser, Tick, vars
<1>4. events'.restarts = events.restarts /\ events'.resets = events.resets
  BY <1>3 DEF TypeOK
<1> QED
  BY <1>1, <1>2, <1>4

\* Only a reset that starts, or a restart, ends the quiet past.
LEMMA UnresetKeeps ==
  ASSUME TypeOK, Unreset, [Next]_vars, ~XrayRestart,
         \A j \in Resetters : ~StartReset(j)
  PROVE  Unreset'
<1>1. \A j \in Resetters : pc'[j] = "idle"
  <2> SUFFICES ASSUME NEW j \in Resetters PROVE pc'[j] = "idle"
    OBVIOUS
  <2>1. /\ pc[j] = "idle" /\ j \in Jobs /\ j \notin Syncers
        /\ j # Roller /\ j # Editor /\ j # Enforcer
    BY JobsAre, UsageAssumption DEF Unreset
  <2>2. ASSUME NEW i \in Jobs \ {j}, NEW where, Goto(i, where) PROVE pc'[j] = "idle"
    BY <2>1, <2>2 DEF Goto, TypeOK
  <2>3. ASSUME NEW i \in Jobs, Forget(i) PROVE pc'[j] = "idle"
    BY <2>1, <2>3 DEF Forget, Goto, TypeOK
  <2>4. CASE \E i \in Jobs : Save(i) \/ Fail(i)
    BY <2>3, <2>4 DEF Save, Fail
  <2>5. CASE \E i \in Syncers : StartSync(i) \/ SyncLoad(i)
    BY <2>1, <2>2, <2>5, JobsAre DEF StartSync, Query, SyncLoad, Load
  <2>6. CASE \E i \in Resetters : ResetLoad(i)
    BY <2>1, <2>2, <2>6, JobsAre DEF Unreset, ResetLoad, Load
  <2>7. CASE RollLoad \/ EditLoad \/ EnforceLoad \/ EnforceSave
    BY <2>1, <2>2, <2>7, JobsAre DEF RollLoad, EditLoad, Load, EnforceLoad, EnforceSave
  <2>8. CASE \E u \in Users, t \in 0 .. Length["daily"] - 1 : EditStart(u, t)
    BY <2>1, <2>2, <2>8, JobsAre DEF EditStart
  <2>9. CASE UNCHANGED pc
    BY <2>1, <2>9
  <2>10. \/ \E i \in Jobs : Save(i) \/ Fail(i)
         \/ \E i \in Syncers : StartSync(i) \/ SyncLoad(i)
         \/ \E i \in Resetters : ResetLoad(i)
         \/ RollLoad \/ EditLoad \/ EnforceLoad \/ EnforceSave
         \/ \E u \in Users, t \in 0 .. Length["daily"] - 1 : EditStart(u, t)
         \/ UNCHANGED pc
    BY JobsAre DEF Next, Sync, Roll, Edit, EditClear, Carry, EnableUser, Tick,
       vars, jobVars
  <2> QED
    BY <2>4, <2>5, <2>6, <2>7, <2>8, <2>9, <2>10
<1>2. \A u \in Users : real'[u] = carried'[u]
  <2>1. (\E u \in Users : Carry(u)) \/ UNCHANGED <<real, carried>>
    BY StepKinds DEF Query, world
  <2>2. ASSUME NEW u \in Users, Carry(u) PROVE \A v \in Users : real'[v] = carried'[v]
    BY <2>2 DEF Carry, Unreset, TypeOK
  <2> QED
    BY <2>1, <2>2 DEF Unreset
<1> QED
  BY <1>1, <1>2 DEF Unreset

\* What a job computes from an even file is even.
LEMMA ComputedEven ==
  ASSUME TypeOK, Unreset, FreshBaselines, Even(file),
         NEW j \in Jobs, NEW st, Computed(j, st)
  PROVE  Even(st)
<1>1. /\ file \in UserState
      /\ DOMAIN raw[j] \subseteq Users /\ \A u \in DOMAIN raw[j] : raw[j][u] \in Nat
  BY StatesTyped
<1>2. CASE j \in Syncers /\ pc[j] = "load" /\ st = SyncUsers(file, raw[j])
  <2>1. \A u \in DOMAIN raw[j] : file.lastRaw[u] <= raw[j][u]
    BY <1>2 DEF FreshBaselines, BelowReading, Readers
  <2>2. \A u \in DOMAIN raw[j] : Added(file, raw[j], u) = raw[j][u] - file.lastRaw[u]
    BY <1>1, <2>1 DEF Added, Charge, UserState
  <2>3. \A u \in Users : u \notin DOMAIN raw[j] => Added(file, raw[j], u) = 0
    BY DEF Added
  <2>4. \A u \in Users :
          /\ st.totals[u] = file.totals[u] + Added(file, raw[j], u)
          /\ st.lastRaw[u] = IF u \in DOMAIN raw[j] THEN raw[j][u] ELSE file.lastRaw[u]
    BY <1>2 DEF SyncUsers
  <2>5. \A u \in Users : /\ file.totals[u] = file.lastRaw[u]
                         /\ file.lastRaw[u] \in Nat
    BY <1>1 DEF Even, UserState
  <2>6. ASSUME NEW u \in Users PROVE st.totals[u] = st.lastRaw[u]
    <3>1. CASE u \in DOMAIN raw[j]
      BY <1>1, <2>2, <2>4, <2>5, <3>1
    <3>2. CASE u \notin DOMAIN raw[j]
      BY <2>3, <2>4, <2>5, <3>2
    <3> QED
      BY <3>1, <3>2
  <2> QED
    BY <2>6 DEF Even
<1>3. CASE j \in Resetters /\ pc[j] = "load"
  BY <1>3 DEF Unreset
<1>4. CASE st = ApplyPeriodResets(file) \/ st = ForgetDaily(file, who)
  <2>1. st.totals = file.totals /\ st.lastRaw = file.lastRaw
    BY <1>1, <1>4 DEF ApplyPeriodResets, ForgetDaily, UserState
  <2> QED
    BY <2>1 DEF Even
<1> QED
  BY <1>2, <1>3, <1>4 DEF Computed

\* Whatever stale copies the reset loop and the editor save, whichever jobs
\* fail half way, traffic is charged exactly once (usage.go:153-177).
THEOREM ChargedExactly ==
  ASSUME OneSync PROVE Spec => []NothingLost
<1>1. Init => EvenInv
  <2> SUFFICES ASSUME Init PROVE EvenInv
    OBVIOUS
  <2>1. \A u \in Users : NoState.totals[u] = 0 /\ NoState.lastRaw[u] = 0
    BY DEF NoState, Zeros
  <2>2. FreshBaselines
    BY FreshInit
  <2> QED
    BY <2>1, <2>2, JobsAre DEF Init, EvenInv, Unreset, Even, Zeros
<1>2. TypeOK /\ TypeOK' /\ EvenInv /\ [Next]_vars => EvenInv'
  <2> SUFFICES ASSUME TypeOK, TypeOK', EvenInv, [Next]_vars,
                      events'.restarts = 0 /\ events'.resets = 0
               PROVE  /\ Unreset' /\ FreshBaselines'
                      /\ Even(file)' /\ \A j \in Jobs : Even(mem[j])'
    BY DEF EvenInv
  <2>1. /\ events.restarts = 0 /\ events.resets = 0
        /\ ~XrayRestart /\ \A j \in Resetters : ~StartReset(j)
    BY QuietPast
  <2>2. /\ Unreset /\ FreshBaselines
        /\ Even(file) /\ \A j \in Jobs : Even(mem[j])
    BY <2>1 DEF EvenInv
  <2>3. NoOverlap
    BY <2>2, OneSync DEF NoOverlap, Unreset, Readers, OneSync
  <2>4. FreshBaselines'
    BY <2>1, <2>2, <2>3, FreshKeeps DEF FreshInv
  <2>5. Unreset'
    BY <2>1, <2>2, UnresetKeeps
  <2>6. Even(NoState)
    BY DEF Even, NoState, Zeros
  <2>7. Even(file') /\ \A j \in Jobs : Even(mem'[j])
    BY <2>2, <2>6, Copies, ComputedEven
  <2> QED
    BY <2>4, <2>5, <2>7 DEF Even
<1>3. TypeOK /\ EvenInv => NothingLost
  <2> SUFFICES ASSUME TypeOK, EvenInv, events.restarts = 0 /\ events.resets = 0
               PROVE  \A u \in Users : file.totals[u] + real[u] = file.lastRaw[u] + carried[u]
    BY DEF NothingLost
  <2> QED
    BY StatesTyped DEF EvenInv, Unreset, Even, UserState
<1> QED
  BY <1>1, <1>2, <1>3, TypeCorrect, PTL DEF Spec
=============================================================================
