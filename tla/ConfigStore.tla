---------------------------- MODULE ConfigStore ----------------------------
(***************************************************************************)
(* stack.json, the copy of it the daemon works with (s.cfg), and the       *)
(* snapshots.  The handlers of the panel come in three disciplines:        *)
(*   - most change s.cfg in place and then save it (mem first);            *)
(*   - the relay and SNI-spoof handlers do so and take the change back     *)
(*     when the save fails;                                                *)
(*   - the others load stack.json, change that copy, save it and only then *)
(*     make it s.cfg (disk first).                                         *)
(* Beside them a goroutine that stamps an API token, the failover manager  *)
(* and the command line load stack.json and save it later.  All of them    *)
(* are jobs that run at the same time: net/http gives every request a      *)
(* goroutine, no lock protects s.cfg, and every save goes through the one  *)
(* name stack.json.tmp.                                                    *)
(*                                                                         *)
(* Simplifications:                                                        *)
(*   - a change of s.cfg, and the copy a save takes of it, are one step    *)
(*     each: what a data race makes of a list inside it is left out;       *)
(*   - a capture of a snapshot and an apply are one step each (the apply   *)
(*     is the subject of XrayApply);                                       *)
(*   - of a config the parts are kept that Validate relates or that        *)
(*     writers may lose: a domain, an endpoint or a site is a name, a      *)
(*     user's three kinds of quota and session limit are one field, which  *)
(*     is in range or not; time stamps, passwords, the session secret and  *)
(*     the subscription tokens are left out;                               *)
(*   - requests that are refused before they change anything are no steps; *)
(*   - firewall and tc commands are left out, but for their failure;       *)
(*   - the daemon runs with -allow-apply.                                  *)
(***************************************************************************)
EXTENDS Naturals, FiniteSets

CONSTANTS
  Users, Socks, Admins, Tokens, Domains, Endpoints, Sites, Tunnels,
  FixedPorts,      \* of the VLESS, local SOCKS and API inbounds
  BandwidthPorts,  \* what NextBandwidthPort chooses from
  SocksPorts,      \* what an admin asks for
  AutoCap,         \* autoSnapshotCap
  FirstConfig,     \* stack.json at the beginning
  None, Torn,      \* no value, and half a file
  Raw,             \* an xray config of no stack.json: edited by hand, or half written
  Jobs,            \* what can be under way at once: requests, goroutines, commands
  MaxTime, MaxJobs, MaxFaults

Ports == FixedPorts \cup BandwidthPorts \cup SocksPorts

ASSUME PortsAssumption == Ports \subseteq Nat \ {0}
ASSUME CapAssumption == AutoCap \in Nat \ {0}
ASSUME BoundsAssumption ==
  MaxTime \in Nat \ {0} /\ {MaxJobs, MaxFaults} \subseteq Nat

User == [on : BOOLEAN, limit : {"ok", "negative"}, port : Ports \cup {0}]

Config == [users : [Users -> User \cup {None}],
           socks : [Socks -> Ports \cup {None}],
           admins : SUBSET Admins,
           tokens : SUBSET Tokens,
           domains : SUBSET Domains,
           endpoints : [Endpoints -> {"absent", "good", "bad"}],
           relay : [sites : SUBSET Sites, listen : {"good", "bad"}],
           via : Tunnels]

Seconds == 1 .. MaxTime

Render(c) == [on |-> {u \in Users : c.users[u] # None /\ c.users[u].on},
              domains |-> c.domains, via |-> c.via]

VARIABLES
  disk,      \* stack.json, Torn where it is not a whole config
  tmp,       \* what the name stack.json.tmp leads to
  mem,       \* s.cfg
  live,      \* the xray config file, what it was rendered from
  dir,       \* the snapshots, by the second that names them
  now,
  up,        \* the daemon runs
  pc,        \* the place of each job
  op,        \* which kind it is
  copy,      \* the config a disk-first job has changed, or what to take back
  text,      \* the config it is about to write
  held,      \* what the file it has open for writing is called
  target,    \* the snapshot to roll back to, or the users a quota plan disables
  answer,    \* of the job that ended last
  begun, faults,  \* how many jobs and failures there have been
  met,       \* two jobs have had stack.json.tmp, or stack.json, open at once
  alone,     \* the jobs in whose time no other has changed anything
  undo       \* the pair that a rollback has captured, and then replaced

vars == <<disk, tmp, mem, live, dir, now, up, pc, op, copy, text, held, target, answer,
          begun, faults, met, alone, undo>>
files == <<disk, tmp, live, dir>>
job == <<op, copy, text, target, answer>>

-----------------------------------------------------------------------------
(* Config.Validate *)

UserPort(c, u) == IF c.users[u] = None THEN 0 ELSE c.users[u].port

PortsUnique(c) ==
  /\ \A u \in Users :
       UserPort(c, u) # 0 =>
         /\ UserPort(c, u) \notin FixedPorts
         /\ \A v \in Users \ {u} : UserPort(c, v) # UserPort(c, u)
         /\ \A s \in Socks : c.socks[s] # UserPort(c, u)
  /\ \A s \in Socks :
       c.socks[s] # None =>
         /\ c.socks[s] \notin FixedPorts
         /\ \A t \in Socks \ {s} : c.socks[t] # c.socks[s]

LimitsInRange(c) == \A u \in Users : c.users[u] # None => c.users[u].limit = "ok"
EndpointsValid(c) == \A e \in Endpoints : c.endpoints[e] # "bad"
RelayValid(c) == c.relay.listen = "good"

Validate(c) == PortsUnique(c) /\ LimitsInRange(c) /\ EndpointsValid(c) /\ RelayValid(c)

Loads(c) == c # Torn /\ Validate(c)

(* The program starts with a config that it can load.  It need not name an *)
(* administrator: until it does, a token or a local caller is let in.      *)
ASSUME FirstAssumption == FirstConfig \in Config /\ Validate(FirstConfig)

-----------------------------------------------------------------------------
(* The methods that change a config: what they make of config c.           *)

Present(c) == {u \in Users : c.users[u] # None}

AddUser(c, u) == [c EXCEPT !.users[u] = [on |-> TRUE, limit |-> "ok", port |-> 0]]
DeleteUser(c, u) == [c EXCEPT !.users[u] = None]
SetUserEnabled(c, u, on) == [c EXCEPT !.users[u].on = on]
SetUserLimit(c, u, l) == [c EXCEPT !.users[u].limit = l]

UpdateUser(c, u, v, on) ==
  [c EXCEPT !.users = [w \in Users |->
     IF w = v THEN [c.users[u] EXCEPT !.on = on]
     ELSE IF w = u THEN None ELSE c.users[w]]]

(* A bandwidth port is the least free one.                                 *)
Used(c) == FixedPorts \cup {UserPort(c, u) : u \in Users} \cup {c.socks[s] : s \in Socks}
FreePorts(c) == BandwidthPorts \ Used(c)
NextBandwidthPort(c) == CHOOSE p \in FreePorts(c) : \A q \in FreePorts(c) : p <= q

ClearBandwidth(c, u) == [c EXCEPT !.users[u].port = 0]
SetBandwidth(c, u) ==
  IF c.users[u].port = 0 THEN [c EXCEPT !.users[u].port = NextBandwidthPort(c)] ELSE c

(* AddSOCKS and UpdateSOCKS compare the port with those of other SOCKS     *)
(* inbounds only; Validate looks at the rest once it has been set.         *)
SetSOCKS(c, s, p) == [c EXCEPT !.socks[s] = p]
MutantDeleteSOCKS(c, s) == [c EXCEPT !.socks[s] = 0]
DeleteSOCKS(c, s) == [c EXCEPT !.socks[s] = None]
SocksFree(c, s, p) == \A t \in Socks \ {s} : c.socks[t] # p

AddAdmin(c, a) == [c EXCEPT !.admins = @ \cup {a}]

Deletable(c) == IF Cardinality(c.admins) <= 1 THEN {} ELSE c.admins
DeleteAdmin(c, a) == [c EXCEPT !.admins = @ \ {a}]

(* The requests: the configs each group of handlers can make of c.         *)

UserEdits(c) ==
  {AddUser(c, u) : u \in Users \ Present(c)}
  \cup {DeleteUser(c, u) : u \in Present(c)}
  \cup {UpdateUser(c, u, v, on) : u \in Present(c), v \in Users \ Present(c), on \in BOOLEAN}
  \cup {SetUserEnabled(c, u, on) : u \in Present(c), on \in BOOLEAN}
  \cup {SetUserLimit(c, u, l) : u \in Present(c), l \in {"ok", "negative"}}

BandwidthEdits(c) ==
  {SetBandwidth(c, u) : u \in {v \in Present(c) : c.users[v].port # 0 \/ FreePorts(c) # {}}}
  \cup {ClearBandwidth(c, u) : u \in Present(c)}

AdminEdits(c) ==
  {AddAdmin(c, a) : a \in Admins \ c.admins}
  \cup {DeleteAdmin(c, a) : a \in Deletable(c)}

TokenEdits(c) ==
  {[c EXCEPT !.tokens = @ \cup {t}] : t \in Tokens \ c.tokens}
  \cup {[c EXCEPT !.tokens = @ \ {t}] : t \in c.tokens}

DomainEdits(c) ==
  {[c EXCEPT !.domains = @ \cup {d}] : d \in Domains}
  \cup {[c EXCEPT !.domains = @ \ {d}] : d \in Domains}

SocksEdits(c) ==
  {SetSOCKS(c, s, p) : s \in {t \in Socks : c.socks[t] = None},
                       p \in {q \in SocksPorts : \A t \in Socks : c.socks[t] # q}}
  \cup (UNION {{SetSOCKS(c, s, p) : p \in {q \in SocksPorts : SocksFree(c, s, q)}}
                 : s \in {t \in Socks : c.socks[t] # None}})
  \cup {DeleteSOCKS(c, s) : s \in {t \in Socks : c.socks[t] # None}}

RelayEdits(c) ==
  {[c EXCEPT !.relay.listen = l] : l \in {"good", "bad"}}
  \cup {[c EXCEPT !.relay.sites = @ \cup {s}] : s \in Sites \ c.relay.sites}
  \cup {[c EXCEPT !.relay.sites = @ \ {s}] : s \in c.relay.sites}

EndpointEdits(c) ==
  {[c EXCEPT !.endpoints[e] = g] : e \in Endpoints, g \in {"good", "bad"}}
  \cup {[c EXCEPT !.endpoints[e] = "absent"] : e \in {f \in Endpoints : c.endpoints[f] # "absent"}}

FailoverEdits(c) == {[c EXCEPT !.via = t] : t \in Tunnels}

Disable(c, over) ==
  [c EXCEPT !.users = [u \in Users |->
     IF u \in over THEN [c.users[u] EXCEPT !.on = FALSE] ELSE c.users[u]]]

-----------------------------------------------------------------------------
(* The snapshot store.  A directory without meta.json has no source; it is *)
(* what an interrupted capture leaves.                                     *)

Snapshot == [source : {"manual", "auto", "none"}, stack : Config \cup {Torn},
             xray : [on : SUBSET Users, domains : SUBSET Domains, via : Tunnels]
                    \cup {Raw, None}]

ASSUME ValueAssumption ==
  {None, Torn} \cap Config = {} /\ None # Torn /\ None \notin Snapshot

Autos(d) == {t \in Seconds : d[t] # None /\ d[t].source = "auto"}

MutantNewestAutos(d) == {t \in Autos(d) : Cardinality({u \in Autos(d) : u < t}) < AutoCap}
NewestAutos(d) == {t \in Autos(d) : Cardinality({u \in Autos(d) : u > t}) < AutoCap}

Prune(d) == [t \in Seconds |-> IF t \in Autos(d) \ NewestAutos(d) THEN None ELSE d[t]]

Taken(s) == [dir EXCEPT ![now] = [source |-> s, stack |-> disk, xray |-> live]]

(* A copy that fails: the one of stack.json, or the one of the xray config. *)
Broken ==
  {dir} \cup {[dir EXCEPT ![now] =
                 [source |-> IF @ = None THEN "none" ELSE @.source, stack |-> s,
                  xray |-> IF @ = None THEN None ELSE @.xray]] : s \in {disk, Torn}}

CaptureFails ==
  /\ faults < MaxFaults
  /\ faults' = faults + 1
  /\ dir' \in Broken

(* A capture that finds stack.json open for a rollback copies a part of it. *)
Capture(s) ==
  /\ \/ dir' = (IF s = "auto" THEN Prune(Taken(s)) ELSE Taken(s)) /\ UNCHANGED faults
     \/ CaptureFails
  /\ met' = (met \/ \E j \in Jobs : held[j] = "disk")

-----------------------------------------------------------------------------
(* Jobs.  One step of job j changes nothing of the others but, where it    *)
(* changes a file or s.cfg, that they have not been alone, and where it    *)
(* captures, that their own captures may be pruned or overwritten.         *)

Goto(j, p) == pc' = [pc EXCEPT ![j] = p]
Disturb(j) == alone' = {i \in {j} : pc'[i] # "idle" /\ (pc[i] = "idle" \/ i \in alone)}
Join(j) == alone' = {i \in alone \cup {j} : pc'[i] # "idle"}
Forget(j) == undo' = [i \in Jobs |-> IF i = j THEN undo[i] ELSE None]

End(j, a) ==
  /\ Goto(j, "idle")
  /\ op' = [op EXCEPT ![j] = "none"]
  /\ copy' = [copy EXCEPT ![j] = None]
  /\ text' = [text EXCEPT ![j] = None]
  /\ target' = [target EXCEPT ![j] = None]
  /\ answer' = a

Init ==
  /\ disk = FirstConfig
  /\ tmp = None
  /\ mem = FirstConfig
  /\ live = Render(FirstConfig)
  /\ \E s \in {None, [source |-> "auto", stack |-> FirstConfig, xray |-> Raw]} :
       dir = [t \in Seconds |-> IF t = 1 THEN s ELSE None]
  /\ now = 1
  /\ up = TRUE
  /\ pc = [j \in Jobs |-> "idle"]
  /\ op = [j \in Jobs |-> "none"]
  /\ copy = [j \in Jobs |-> None]
  /\ text = [j \in Jobs |-> None]
  /\ held = [j \in Jobs |-> "none"]
  /\ target = [j \in Jobs |-> None]
  /\ answer = "none"
  /\ begun = 0 /\ faults = 0
  /\ met = FALSE
  /\ alone = {}
  /\ undo = [j \in Jobs |-> None]

(* Every request is authenticated against stack.json, and refused when     *)
(* that does not load.                                                     *)
Request ==
  /\ up /\ begun < MaxJobs
  /\ Loads(disk)
  /\ begun' = begun + 1

Begin(j, kind, place) ==
  /\ pc[j] = "idle"
  /\ Goto(j, place)
  /\ op' = [op EXCEPT ![j] = IF place = "idle" THEN "none" ELSE kind]
  /\ answer' = "none"
  /\ undo' = [undo EXCEPT ![j] = None]

(* A mem-first handler has changed s.cfg; where the method's Validate      *)
(* refuses, the handler answers and s.cfg stays as it has become.          *)
Memory(j, kind, c, next) ==
  /\ Request
  /\ Begin(j, kind, IF Validate(c) THEN next ELSE "idle")
  /\ mem' = c
  /\ Disturb(j)
  /\ UNCHANGED <<files, now, up, copy, text, held, target, faults, met>>

EditUsers(j) == \E c \in UserEdits(mem) : Memory(j, "plain", c, "save")
EditBandwidth(j) == \E c \in BandwidthEdits(mem) : Memory(j, "bandwidth", c, "save")
EditTokens(j) == \E c \in TokenEdits(mem) : Memory(j, "plain", c, "save")
EditAdmins(j) == \E c \in AdminEdits(mem) : Memory(j, "admins", c, "save")
EditSOCKS(j) == \E c \in SocksEdits(mem) : Memory(j, "plain", c, "snap")

(* AddDirectDomain and DeleteDirectDomain do not call Validate.            *)
EditDomains(j) ==
  \E c \in DomainEdits(mem) :
    /\ Request
    /\ Begin(j, "routing", "snap")
    /\ mem' = c
    /\ Disturb(j)
    /\ UNCHANGED <<files, now, up, copy, text, held, target, faults, met>>

(* The relay handlers keep what was there before in copy and leave         *)
(* validation to the save.                                                 *)
EditRelay(j) ==
  \E c \in RelayEdits(mem) :
    /\ Request
    /\ Begin(j, "reverting", "save")
    /\ mem' = c
    /\ copy' = [copy EXCEPT ![j] = mem]
    /\ Disturb(j)
    /\ UNCHANGED <<files, now, up, text, held, target, faults, met>>

(* login makes stack.json s.cfg, whether or not the password is right.     *)
(* With the right one it saves it with the time of the login, and before   *)
(* that with a session secret if there is none.                            *)
Login(j) ==
  /\ Request
  /\ \/ Begin(j, "login", "idle")
     \/ \E kind \in {"login", "secret"} : Begin(j, kind, "save")
  /\ mem' = disk
  /\ Disturb(j)
  /\ UNCHANGED <<files, now, up, copy, text, held, target, faults, met>>

(* quotaApply plans, takes its snapshot, and then disables the users of    *)
(* the plan one by one in the list that next shares with s.cfg.  It stops  *)
(* at one who is gone, or if the config does not validate.                 *)
QuotaApply(j) ==
  \E over \in SUBSET {u \in Present(mem) : mem.users[u].on} :
    /\ Request
    /\ Begin(j, "quota", "quota")
    /\ target' = [target EXCEPT ![j] = over]
    /\ Join(j)
    /\ UNCHANGED <<files, mem, now, up, copy, text, held, faults, met>>

QuotaPlan(j) ==
  /\ pc[j] = "quota"
  /\ Capture("auto") /\ Forget(j)
  /\ target[j] \subseteq Present(mem)
  /\ target[j] = {} \/ Validate(mem)
  /\ mem' = Disable(mem, target[j])
  /\ copy' = [copy EXCEPT ![j] = mem']
  /\ Goto(j, "save")
  /\ Disturb(j)
  /\ UNCHANGED <<disk, tmp, live, now, up, op, text, held, target, answer, begun>>

QuotaStops(j) ==
  /\ pc[j] = "quota"
  /\ Capture("auto") /\ Forget(j)
  /\ \E over \in SUBSET (target[j] \cap Present(mem)) :
       /\ IF Validate(mem) THEN ~(target[j] \subseteq Present(mem))
          ELSE \/ \E u \in target[j] : over = {u}
               \/ over = {} /\ ~(target[j] \subseteq Present(mem))
       /\ mem' = Disable(mem, over)
  /\ End(j, "error")
  /\ Disturb(j)
  /\ UNCHANGED <<disk, tmp, live, now, up, held, begun>>

(* The disk-first handlers change a copy of stack.json: the endpoints, the *)
(* failover mode, and the settings of the xray installer, of which nothing *)
(* is kept here.  SetFailoverMode may refuse after the snapshot.           *)
Copy(j, kind, c, next) ==
  /\ Request
  /\ Begin(j, kind, next)
  /\ copy' = [copy EXCEPT ![j] = IF next = "idle" THEN None ELSE c]
  /\ Join(j)
  /\ UNCHANGED <<files, mem, now, up, text, held, target, faults, met>>

EditEndpoints(j) ==
  /\ Loads(disk)
  /\ \E c \in EndpointEdits(disk) : Copy(j, "fresh", c, IF Validate(c) THEN "snap" ELSE "idle")
EditFailover(j) ==
  /\ Loads(disk)
  /\ \/ \E c \in FailoverEdits(disk) : Copy(j, "switch", c, "snap")
     \/ Copy(j, "refused", disk, "snap")
EditInstaller(j) == Copy(j, "fresh", disk, "save")

Snap(j) ==
  /\ pc[j] = "snap"
  /\ Capture("auto") /\ Forget(j)
  /\ IF op[j] = "refused" THEN End(j, "error") ELSE Goto(j, "save") /\ UNCHANGED job
  /\ Disturb(j)
  /\ UNCHANGED <<disk, tmp, mem, live, now, up, held, begun>>

-----------------------------------------------------------------------------
(* stack.Save *)

Besides == {"touch", "manager", "cli"}
Fresh == {"fresh", "switch", "quota"} \cup Besides
Saved(j) == IF op[j] \in Fresh THEN copy[j] ELSE mem

(* It validates and marshals what it is given.                             *)
MutantMarshal(j) ==
  /\ pc[j] = "save"
  /\ text' = [text EXCEPT ![j] = Saved(j)]
  /\ Goto(j, "open")
  /\ UNCHANGED <<files, mem, now, up, op, copy, held, target, answer, begun, faults, met, alone, undo>>
Marshal(j) ==
  /\ pc[j] = "save"
  /\ Validate(Saved(j))
  /\ text' = [text EXCEPT ![j] = Saved(j)]
  /\ Goto(j, "open")
  /\ UNCHANGED <<files, mem, now, up, op, copy, held, target, answer, begun, faults, met, alone, undo>>

(* It opens stack.json.tmp, which empties it.                              *)
OpenTmp(j) ==
  /\ pc[j] = "open"
  /\ tmp' = Torn
  /\ held' = [held EXCEPT ![j] = "tmp"]
  /\ met' = (met \/ \E i \in Jobs \ {j} : pc[i] \in {"write", "rename"})
  /\ Goto(j, "write")
  /\ Disturb(j)
  /\ UNCHANGED <<disk, live, dir, mem, now, up, op, copy, text, target, answer, begun, faults, undo>>

(* What a file holds when c has been written over it.                      *)
Written(old, c) == IF old = Torn THEN {c} ELSE {c, Torn}

(* It writes to the file it has opened, whatever that is called by now.    *)
WriteTmp(j) ==
  /\ pc[j] = "write"
  /\ IF held[j] = "tmp" THEN tmp' \in Written(tmp, text[j]) ELSE UNCHANGED tmp
  /\ IF held[j] = "disk" THEN disk' \in Written(disk, text[j]) ELSE UNCHANGED disk
  /\ held' = [held EXCEPT ![j] = "none"]
  /\ Goto(j, "rename")
  /\ Disturb(j)
  /\ UNCHANGED <<live, dir, mem, now, up, op, copy, text, target, answer, begun, faults, met, undo>>

Renamed(h) == IF h = "tmp" THEN "disk" ELSE IF h = "disk" THEN "gone" ELSE h

(* It renames what bears the name stack.json.tmp.  The handlers that work  *)
(* on a copy make it s.cfg then; login saves a second time.                *)
Applied == {"bandwidth", "routing", "switch", "quota", "manager"}

MutantRename(j) ==
  /\ pc[j] = "rename" /\ tmp # None
  /\ disk' = tmp
  /\ tmp' = None
  /\ held' = [i \in Jobs |-> Renamed(held[i])]
  /\ IF op[j] \in Applied THEN Goto(j, "apply") /\ UNCHANGED job
     ELSE End(j, "ok")
  /\ Disturb(j)
  /\ UNCHANGED <<mem, live, dir, now, up, begun, faults, met, undo>>
Rename(j) ==
  /\ pc[j] = "rename" /\ tmp # None
  /\ disk' = tmp
  /\ tmp' = None
  /\ held' = [i \in Jobs |-> Renamed(held[i])]
  /\ mem' = IF op[j] \in Fresh \ Besides THEN copy[j] ELSE mem
  /\ \/ op[j] \in Applied /\ Goto(j, "apply") /\ UNCHANGED job
     \/ /\ op[j] = "secret"
        /\ Goto(j, "save")
        /\ op' = [op EXCEPT ![j] = "login"]
        /\ UNCHANGED <<copy, text, target, answer>>
     \/ op[j] \notin Applied \cup {"secret"} /\ End(j, "ok")
  /\ Disturb(j)
  /\ UNCHANGED <<live, dir, now, up, begun, faults, met, undo>>

(* A save that is refused, or fails at one of its steps.  A file that was  *)
(* being written is left half written.  login does not look at the error   *)
(* of its last save.                                                       *)
SaveFails(j) ==
  /\ \/ pc[j] = "save" /\ ~Validate(Saved(j)) /\ UNCHANGED faults
     \/ pc[j] = "rename" /\ tmp = None /\ UNCHANGED faults
     \/ pc[j] \in {"open", "write", "rename"} /\ faults < MaxFaults /\ faults' = faults + 1
  /\ tmp' = IF held[j] = "tmp" THEN Torn ELSE tmp
  /\ disk' = IF held[j] = "disk" THEN Torn ELSE disk
  /\ held' = [held EXCEPT ![j] = "none"]
  /\ mem' = IF op[j] = "reverting" THEN [mem EXCEPT !.relay = copy[j].relay] ELSE mem
  /\ End(j, IF op[j] = "login" THEN "ok" ELSE "error")
  /\ Disturb(j)
  /\ UNCHANGED <<live, dir, now, up, begun, met, undo>>

(* The xray config is rendered from s.cfg, or from the copy that was saved. *)
(* A failure, before or after it is replaced, leaves everything else in    *)
(* place and is answered, or only noted in the answer.                     *)
Rendering(j) == Render(IF op[j] \in {"switch", "manager"} THEN copy[j] ELSE mem)

Apply(j) ==
  /\ pc[j] = "apply"
  /\ \/ live' = Rendering(j) /\ End(j, "ok") /\ UNCHANGED faults
     \/ /\ faults < MaxFaults
        /\ faults' = faults + 1
        /\ live' \in {live, Rendering(j)}
        /\ End(j, IF op[j] \in {"routing", "switch"} THEN "ok" ELSE "error")
  /\ Disturb(j)
  /\ UNCHANGED <<disk, tmp, mem, dir, now, up, held, begun, met, undo>>

-----------------------------------------------------------------------------
(* Requests of one step: bandwidthApply, of which only the snapshot is     *)
(* kept, and a snapshot by hand, alone or before an apply of stack.json or *)
(* of an edited config.                                                    *)
Manual ==
  /\ Request
  /\ \/ Capture("auto") /\ UNCHANGED live
     \/ Capture("manual") /\ live' \in {live, Render(disk), Raw}
  /\ alone' = {}
  /\ undo' = [i \in Jobs |-> None]
  /\ UNCHANGED <<disk, tmp, mem, now, up, pc, op, copy, text, held, target, answer>>

(* snapshotsRollback *)
Rollback(j) ==
  \E t \in Seconds :
    /\ dir[t] # None
    /\ Request
    /\ Begin(j, "rollback", "pre")
    /\ target' = [target EXCEPT ![j] = t]
    /\ Join(j)
    /\ UNCHANGED <<files, mem, now, up, copy, text, held, faults, met>>

(* The snapshot before the rollback; the rollback goes on without it.      *)
PreSnapshot(j) ==
  /\ pc[j] = "pre"
  /\ Capture("auto")
  /\ undo' = [i \in Jobs |-> IF i = j /\ faults' = faults THEN <<disk, live>> ELSE None]
  /\ Goto(j, "restore")
  /\ Disturb(j)
  /\ UNCHANGED <<disk, tmp, mem, live, now, up, op, copy, text, held, target, answer, begun>>

(* copyFile opens the snapshot, and then stack.json for writing, which     *)
(* empties it.                                                             *)
RestoreOpen(j) ==
  /\ pc[j] = "restore"
  /\ dir[target[j]] # None
  /\ text' = [text EXCEPT ![j] = dir[target[j]].stack]
  /\ disk' = Torn
  /\ held' = [held EXCEPT ![j] = "disk"]
  /\ met' = (met \/ \E i \in Jobs : held[i] = "disk")
  /\ undo' = [undo EXCEPT ![j] = IF @ # None /\ j \in alone THEN <<disk, live>> ELSE None]
  /\ Goto(j, "stack")
  /\ Disturb(j)
  /\ UNCHANGED <<tmp, live, dir, mem, now, up, op, copy, target, answer, begun, faults>>

RestoreFails(j) ==
  /\ pc[j] = "restore"
  /\ \/ dir[target[j]] = None /\ UNCHANGED faults
     \/ faults < MaxFaults /\ faults' = faults + 1
  /\ End(j, "error")
  /\ alone' = alone \ {j}
  /\ UNCHANGED <<files, mem, now, up, held, begun, met, undo>>

(* Where a writer has renamed its file over stack.json meanwhile, what is  *)
(* copied goes to a file that has no name any more.                        *)
RestoreStack(j) ==
  /\ pc[j] = "stack"
  /\ held' = [held EXCEPT ![j] = "none"]
  /\ \/ /\ IF held[j] = "disk" THEN disk' \in Written(disk, text[j]) ELSE UNCHANGED disk
        /\ Goto(j, "xray")
        /\ UNCHANGED <<job, faults>>
     \/ /\ faults < MaxFaults
        /\ faults' = faults + 1
        /\ disk' = IF held[j] = "disk" THEN Torn ELSE disk
        /\ End(j, "error")
  /\ Disturb(j)
  /\ UNCHANGED <<tmp, live, dir, mem, now, up, begun, met, undo>>

(* The xray config of the snapshot is copied in one step.                  *)
RestoreXray(j) ==
  /\ pc[j] = "xray"
  /\ LET found == dir[target[j]] # None /\ dir[target[j]].xray # None IN
       \/ found /\ live' = dir[target[j]].xray /\ End(j, "ok") /\ UNCHANGED faults
       \/ ~found /\ UNCHANGED <<live, faults>> /\ End(j, "error")
       \/ /\ faults < MaxFaults
          /\ faults' = faults + 1
          /\ live' \in {live, Raw}
          /\ End(j, "error")
  /\ Disturb(j)
  /\ UNCHANGED <<disk, tmp, mem, dir, now, up, held, begun, met, undo>>

-----------------------------------------------------------------------------
(* The writers beside the requests *)

OtherLoads(j, kind, c) ==
  /\ begun < MaxJobs
  /\ begun' = begun + 1
  /\ Begin(j, kind, "save")
  /\ copy' = [copy EXCEPT ![j] = c]
  /\ Join(j)
  /\ UNCHANGED <<files, mem, now, up, text, held, target, faults, met>>

TouchToken(j) == up /\ Loads(disk) /\ disk.tokens # {} /\ OtherLoads(j, "touch", disk)
ManagerLoads(j) ==
  up /\ Loads(disk) /\ \E t \in Tunnels : OtherLoads(j, "manager", [disk EXCEPT !.via = t])
CliAdminAdd(j) ==
  Loads(disk) /\ \E a \in Admins \ disk.admins : OtherLoads(j, "cli", AddAdmin(disk, a))

-----------------------------------------------------------------------------
Tick ==
  /\ now < MaxTime
  /\ now' = now + 1
  /\ UNCHANGED <<files, mem, up, pc, job, held, begun, faults, met, alone, undo>>

(* The daemon dies with its requests and its goroutines; the command line  *)
(* is a process of its own.                                                *)
Crash ==
  /\ up /\ faults < MaxFaults
  /\ faults' = faults + 1
  /\ up' = FALSE
  /\ LET cli == {j \in Jobs : op[j] = "cli"} IN
       /\ pc' = [j \in Jobs |-> IF j \in cli THEN pc[j] ELSE "idle"]
       /\ op' = [j \in Jobs |-> IF j \in cli THEN op[j] ELSE "none"]
       /\ copy' = [j \in Jobs |-> IF j \in cli THEN copy[j] ELSE None]
       /\ text' = [j \in Jobs |-> IF j \in cli THEN text[j] ELSE None]
       /\ held' = [j \in Jobs |-> IF j \in cli THEN held[j] ELSE "none"]
       /\ target' = [j \in Jobs |-> None]
  /\ answer' = "none"
  /\ alone' = {}
  /\ UNCHANGED <<files, mem, now, begun, met, undo>>

Start ==
  /\ ~up
  /\ Loads(disk)
  /\ up' = TRUE
  /\ mem' = disk
  /\ alone' = {}
  /\ UNCHANGED <<files, now, pc, job, held, begun, faults, met, undo>>

Edit(j) ==
  \/ EditUsers(j) \/ EditBandwidth(j) \/ EditTokens(j) \/ EditAdmins(j) \/ EditSOCKS(j)
  \/ EditDomains(j) \/ EditRelay(j) \/ Login(j) \/ QuotaApply(j)
  \/ EditEndpoints(j) \/ EditFailover(j) \/ EditInstaller(j) \/ Rollback(j)
Proceed(j) ==
  \/ QuotaPlan(j) \/ QuotaStops(j) \/ Snap(j)
  \/ Marshal(j) \/ OpenTmp(j) \/ WriteTmp(j) \/ Rename(j) \/ SaveFails(j) \/ Apply(j)
  \/ PreSnapshot(j) \/ RestoreOpen(j) \/ RestoreFails(j) \/ RestoreStack(j) \/ RestoreXray(j)
Other(j) == TouchToken(j) \/ ManagerLoads(j) \/ CliAdminAdd(j)

Next == (\E j \in Jobs : Edit(j) \/ Proceed(j) \/ Other(j)) \/ Manual \/ Tick \/ Crash \/ Start

Spec == Init /\ [][Next]_vars

-----------------------------------------------------------------------------
(* The variables hold what they are meant to hold.                         *)
TypeOK ==
  /\ disk \in Config \cup {Torn}
  /\ tmp \in Config \cup {Torn, None}
  /\ mem \in Config
  /\ DOMAIN dir = Seconds
  /\ \A t \in Seconds : dir[t] = None \/ dir[t] \in Snapshot
  /\ now \in Seconds
  /\ {up, met} \subseteq BOOLEAN
  /\ alone \subseteq Jobs
  /\ answer \in {"none", "ok", "error"}
  /\ \A j \in Jobs :
       /\ pc[j] \in {"idle", "quota", "snap", "save", "open", "write", "rename", "apply",
                     "pre", "restore", "stack", "xray"}
       /\ op[j] \in Fresh \cup {"none", "plain", "admins", "login", "secret", "bandwidth",
                                "routing", "reverting", "refused", "rollback"}
       /\ copy[j] \in Config \cup {None}
       /\ text[j] \in Config \cup {Torn, None}
       /\ held[j] \in {"none", "tmp", "disk", "gone"}

(* The daemon can start again and requests are let in: stack.json holds a  *)
(* config that Validate accepts, although s.cfg may be one it refuses, and *)
(* whatever is saved at the same time.  It is torn only while a rollback   *)
(* copies, after a failure or a crash, or where two jobs have had one file *)
(* open at once; and what is not torn is valid even then.                  *)
StoredLoads ==
  /\ disk = Torn => faults > 0 \/ met \/ \E j \in Jobs : pc[j] = "stack"
  /\ disk # Torn => Validate(disk)

(* A request that is answered ok has left the same config in stack.json    *)
(* and in s.cfg, unless another job has changed something meanwhile.  A    *)
(* rollback asks for a restart, and login does not say what became of its  *)
(* save.                                                                   *)
AnsweredStored ==
  [][\A j \in alone :
       /\ pc[j] # "idle" /\ pc'[j] = "idle" /\ answer' = "ok"
       /\ op[j] \notin Besides \cup {"rollback", "login"}
       => disk' = mem']_vars

(* A rollback can be undone, whether it succeeds, fails half way or is cut *)
(* off: the pair it overwrites is among the snapshots, if it could be      *)
(* captured at all, until another request takes one.                       *)
UndoKept ==
  \A j \in Jobs :
    undo[j] # None =>
      \E t \in Seconds : dir[t] # None /\ dir[t].stack = undo[j][1] /\ dir[t].xray = undo[j][2]

(* An administrator added by the command line is not clobbered by a save   *)
(* of the stale s.cfg: of the requests during which nothing else changes,  *)
(* only one to delete an administrator, or a rollback, takes one out of    *)
(* stack.json.                                                             *)
AdminsKept ==
  [][\A j \in alone :
       pc'[j] # pc[j] /\ disk # Torn /\ disk' # Torn /\ ~(disk.admins \subseteq disk'.admins)
       => op[j] \in {"admins", "rollback"}]_vars

=============================================================================
