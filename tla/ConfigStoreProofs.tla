-------------------------- MODULE ConfigStoreProofs --------------------------
(***************************************************************************)
(* What holds of stack.json, s.cfg and the snapshots for all sets of       *)
(* users, ports, administrators and so on, any cap on automatic snapshots  *)
(* and any number of requests, writers, failures and crashes.              *)
(***************************************************************************)
EXTENDS ConfigStore, FiniteSetTheorems, WellFoundedInduction, TLAPS

LEMMA Least ==
  ASSUME NEW S, S \subseteq Nat, S # {}
  PROVE  \E n \in S : \A m \in S : n <= m
<1>1. IsWellFoundedOn(OpToRel(<, Nat), Nat)
  BY NatLessThanWellFounded
<1>2. PICK n \in S : \A m \in S : ~ (<<m, n>> \in OpToRel(<, Nat))
  BY <1>1, WFMin
<1>3. ASSUME NEW m \in S PROVE ~ (m < n)
  BY <1>2 DEF OpToRel
<1> QED
  BY <1>3

-----------------------------------------------------------------------------
(* What the requests make of a config is a config.                         *)

LEMMA UserIs ==
  ASSUME NEW w \in User
  PROVE  /\ \A on \in BOOLEAN : [w EXCEPT !.on = on] \in User
         /\ \A l \in {"ok", "negative"} : [w EXCEPT !.limit = l] \in User
         /\ \A p \in Ports \cup {0} : [w EXCEPT !.port = p] \in User
BY DEF User

LEMMA WithUsers ==
  ASSUME NEW c \in Config, NEW f \in [Users -> User \cup {None}]
  PROVE  [c EXCEPT !.users = f] \in Config
BY DEF Config

LEMMA WithUser ==
  ASSUME NEW c \in Config, NEW u \in Users, NEW w \in User \cup {None}
  PROVE  [c EXCEPT !.users[u] = w] \in Config
<1>1. [c.users EXCEPT ![u] = w] \in [Users -> User \cup {None}]
  BY DEF Config
<1> QED
  BY <1>1, WithUsers

LEMMA PresentIs ==
  ASSUME NEW c \in Config, NEW u \in Present(c)
  PROVE  u \in Users /\ c.users[u] \in User
BY DEF Present, Config

LEMMA UserEditsAre ==
  ASSUME NEW c \in Config
  PROVE  UserEdits(c) \subseteq Config
<1>1. \A u \in Users : AddUser(c, u) \in Config /\ DeleteUser(c, u) \in Config
  <2>1. [on |-> TRUE, limit |-> "ok", port |-> 0] \in User
    BY DEF User
  <2> QED
    BY <2>1, WithUser DEF AddUser, DeleteUser
<1>3. ASSUME NEW u \in Present(c), NEW on \in BOOLEAN
      PROVE  SetUserEnabled(c, u, on) \in Config
  <2> DEFINE w == [c.users[u] EXCEPT !.on = on]
  <2>1. u \in Users /\ w \in User
    BY PresentIs, UserIs
  <2>2. SetUserEnabled(c, u, on) = [c EXCEPT !.users[u] = w]
    BY DEF SetUserEnabled
  <2> HIDE DEF w
  <2> QED
    BY <2>1, <2>2, WithUser
<1>4. ASSUME NEW u \in Present(c), NEW l \in {"ok", "negative"}
      PROVE  SetUserLimit(c, u, l) \in Config
  <2> DEFINE w == [c.users[u] EXCEPT !.limit = l]
  <2>1. u \in Users /\ w \in User
    BY PresentIs, UserIs
  <2>2. SetUserLimit(c, u, l) = [c EXCEPT !.users[u] = w]
    BY DEF SetUserLimit
  <2> HIDE DEF w
  <2> QED
    BY <2>1, <2>2, WithUser
<1>5. ASSUME NEW u \in Present(c), NEW v \in Users, NEW on \in BOOLEAN
      PROVE  UpdateUser(c, u, v, on) \in Config
  <2> DEFINE w == [c.users[u] EXCEPT !.on = on]
  <2>1. w \in User
    BY PresentIs, UserIs
  <2>2. UpdateUser(c, u, v, on) =
          [c EXCEPT !.users = [x \in Users |-> IF x = v THEN w
                                 ELSE IF x = u THEN None ELSE c.users[x]]]
    BY DEF UpdateUser
  <2>3. \A x \in Users : c.users[x] \in User \cup {None}
    BY DEF Config
  <2> HIDE DEF w
  <2>4. [x \in Users |-> IF x = v THEN w ELSE IF x = u THEN None ELSE c.users[x]]
          \in [Users -> User \cup {None}]
    BY <2>1, <2>3
  <2> QED
    BY <2>2, <2>4, WithUsers
<1> QED
  BY <1>1, <1>3, <1>4, <1>5 DEF UserEdits, Present

LEMMA NextPortIs ==
  ASSUME NEW c, FreePorts(c) # {}
  PROVE  NextBandwidthPort(c) \in BandwidthPorts
<1>1. FreePorts(c) \subseteq BandwidthPorts /\ FreePorts(c) \subseteq Nat
  BY PortsAssumption DEF FreePorts, Ports
<1>2. \E p \in FreePorts(c) : \A q \in FreePorts(c) : p <= q
  BY <1>1, Least
<1> QED
  BY <1>1, <1>2 DEF NextBandwidthPort

LEMMA BandwidthEditsAre ==
  ASSUME NEW c \in Config
  PROVE  BandwidthEdits(c) \subseteq Config
<1>1. ASSUME NEW u \in Present(c), NEW p \in Ports \cup {0}
      PROVE  [c EXCEPT !.users[u].port = p] \in Config
  <2> DEFINE w == [c.users[u] EXCEPT !.port = p]
  <2>1. u \in Users /\ w \in User
    BY PresentIs, UserIs
  <2>2. [c EXCEPT !.users[u].port = p] = [c EXCEPT !.users[u] = w]
    OBVIOUS
  <2> HIDE DEF w
  <2> QED
    BY <2>1, <2>2, WithUser
<1>3. FreePorts(c) # {} => NextBandwidthPort(c) \in Ports \cup {0}
  BY NextPortIs DEF Ports
<1>4. \A u \in Present(c) : ClearBandwidth(c, u) \in Config
  BY <1>1 DEF ClearBandwidth
<1>5. \A u \in Present(c) :
        c.users[u].port # 0 \/ FreePorts(c) # {} => SetBandwidth(c, u) \in Config
  BY <1>1, <1>3 DEF SetBandwidth
<1> QED
  BY <1>4, <1>5 DEF BandwidthEdits

LEMMA SocksEditsAre ==
  ASSUME NEW c \in Config
  PROVE  SocksEdits(c) \subseteq Config
<1>1. \A s \in Socks : DeleteSOCKS(c, s) \in Config
  BY DEF DeleteSOCKS, Config
<1>2. \A s \in Socks, p \in SocksPorts : SetSOCKS(c, s, p) \in Config
  BY DEF SetSOCKS, Config, Ports
<1> QED
  BY <1>1, <1>2 DEF SocksEdits

LEMMA OtherEditsAre ==
  ASSUME NEW c \in Config
  PROVE  /\ TokenEdits(c) \subseteq Config
         /\ DomainEdits(c) \subseteq Config
         /\ EndpointEdits(c) \subseteq Config
         /\ FailoverEdits(c) \subseteq Config
<1>1. TokenEdits(c) \subseteq Config
  BY DEF TokenEdits, Config
<1>2. DomainEdits(c) \subseteq Config
  BY DEF DomainEdits, Config
<1>3. EndpointEdits(c) \subseteq Config
  BY DEF EndpointEdits, Config
<1>4. FailoverEdits(c) \subseteq Config
  BY DEF FailoverEdits, Config
<1> QED
  BY <1>1, <1>2, <1>3, <1>4

LEMMA WithRelay ==
  ASSUME NEW c \in Config, NEW r \in [sites : SUBSET Sites, listen : {"good", "bad"}]
  PROVE  [c EXCEPT !.relay = r] \in Config
BY DEF Config

LEMMA RelayEditsAre ==
  ASSUME NEW c \in Config
  PROVE  RelayEdits(c) \subseteq Config
<1> DEFINE r == c.relay
<1>1. r \in [sites : SUBSET Sites, listen : {"good", "bad"}]
  BY DEF Config
<1>2. ASSUME NEW l \in {"good", "bad"}
      PROVE  [c EXCEPT !.relay.listen = l] \in Config
  <2>1. [r EXCEPT !.listen = l] \in [sites : SUBSET Sites, listen : {"good", "bad"}]
    BY <1>1
  <2> QED
    BY <2>1, WithRelay
<1>3. ASSUME NEW S \in SUBSET Sites
      PROVE  [c EXCEPT !.relay.sites = S] \in Config
  <2>1. [r EXCEPT !.sites = S] \in [sites : SUBSET Sites, listen : {"good", "bad"}]
    BY <1>1
  <2> QED
    BY <2>1, WithRelay
<1>4. r.sites \in SUBSET Sites
  BY <1>1
<1> QED
  BY <1>2, <1>3, <1>4 DEF RelayEdits

LEMMA DisableIs ==
  ASSUME NEW c \in Config, NEW over \in SUBSET Present(c)
  PROVE  Disable(c, over) \in Config
<1> DEFINE f(u) == [c.users[u] EXCEPT !.on = FALSE]
<1>1. \A u \in over : f(u) \in User
  BY PresentIs, UserIs
<1>2. \A u \in Users : c.users[u] \in User \cup {None}
  BY DEF Config
<1> HIDE DEF f
<1>3. [u \in Users |-> IF u \in over THEN f(u) ELSE c.users[u]] \in [Users -> User \cup {None}]
  BY <1>1, <1>2
<1> QED
  BY <1>3, WithUsers DEF f, Disable

LEMMA AdminEditsAre ==
  ASSUME NEW c \in Config
  PROVE  AdminEdits(c) \subseteq Config
BY DEF AdminEdits, AddAdmin, DeleteAdmin, Deletable, Config

\* What a handler makes of the config c it is given.
LEMMA EditsAre ==
  ASSUME NEW c \in Config
  PROVE  /\ UserEdits(c) \cup BandwidthEdits(c) \cup TokenEdits(c) \subseteq Config
         /\ AdminEdits(c) \cup SocksEdits(c) \cup DomainEdits(c) \cup RelayEdits(c) \subseteq Config
         /\ EndpointEdits(c) \cup FailoverEdits(c) \subseteq Config
BY UserEditsAre, BandwidthEditsAre, OtherEditsAre, SocksEditsAre, RelayEditsAre, AdminEditsAre

-----------------------------------------------------------------------------
(* Types *)

Rendered == [on : SUBSET Users, domains : SUBSET Domains, via : Tunnels]
Dirs == [Seconds -> Snapshot \cup {None}]
Places == {"idle", "quota", "snap", "save", "open", "write", "rename", "apply",
           "pre", "restore", "stack", "xray"}
Kinds == Fresh \cup {"none", "plain", "admins", "login", "secret", "bandwidth",
                     "routing", "reverting", "refused", "rollback"}
Names == {"none", "tmp", "disk", "gone"}
Pairs == (Config \cup {Torn}) \X (Rendered \cup {Raw})

\* A job at place p, of kind o, has what its next steps use: the config to
\* save or to render, the text to write, the open file, the snapshot.
ReadyAt(p, o, c, t, h, g) ==
  /\ p \in Places /\ o \in Kinds /\ h \in Names
  /\ c \in Config \cup {None} /\ t \in Config \cup {Torn, None}
  /\ g \in {None} \cup Seconds \cup SUBSET Users
  /\ p = "idle" <=> o = "none"
  /\ p \notin {"idle", "quota"} /\ o \in Fresh \cup {"reverting"} => c \in Config
  /\ p = "quota" => o = "quota" /\ g \in SUBSET Users
  /\ p = "snap" => o # "rollback"
  /\ p \in {"open", "write", "rename"} => t \in Config /\ Validate(t)
  /\ p = "write" => h # "none"
  /\ p = "stack" => h \in {"disk", "gone"} /\ t # None
  /\ h # "none" => p \in {"write", "stack"}
  /\ o = "rollback" <=> p \in {"pre", "restore", "stack", "xray"}
  /\ o = "rollback" => g \in Seconds

JobsInv ==
  /\ pc \in [Jobs -> Places]
  /\ op \in [Jobs -> Kinds]
  /\ copy \in [Jobs -> Config \cup {None}]
  /\ text \in [Jobs -> Config \cup {Torn, None}]
  /\ held \in [Jobs -> Names]
  /\ target \in [Jobs -> {None} \cup Seconds \cup SUBSET Users]
  /\ \A j \in Jobs : ReadyAt(pc[j], op[j], copy[j], text[j], held[j], target[j])

FilesInv ==
  /\ disk \in Config \cup {Torn}
  /\ tmp \in Config \cup {Torn, None}
  /\ mem \in Config
  /\ live \in Rendered \cup {Raw}
  /\ dir \in Dirs
  /\ now \in Seconds
  /\ up \in BOOLEAN /\ met \in BOOLEAN
  /\ alone \subseteq {j \in Jobs : pc[j] # "idle"}
  /\ answer \in {"none", "ok", "error"}
  /\ faults \in Nat
  /\ undo \in [Jobs -> Pairs \cup {None}]

TypeInv == FilesInv /\ JobsInv

LEMMA TypeInvImplies ==
  ASSUME TypeInv
  PROVE  TypeOK
<1>1. \A j \in Jobs : ReadyAt(pc[j], op[j], copy[j], text[j], held[j], target[j])
  BY DEF TypeInv, JobsInv
<1> QED
  BY <1>1 DEF TypeInv, FilesInv, TypeOK, Dirs, ReadyAt, Places, Kinds, Names

LEMMA RenderIs ==
  ASSUME NEW c \in Config
  PROVE  Render(c) \in Rendered
BY DEF Render, Rendered, Config

\* What one step makes of job j.
Turn(j, p, o, c, t, h, g) ==
  /\ pc' = [pc EXCEPT ![j] = p]
  /\ op' = [op EXCEPT ![j] = o]
  /\ copy' = [copy EXCEPT ![j] = c]
  /\ text' = [text EXCEPT ![j] = t]
  /\ held' = [held EXCEPT ![j] = h]
  /\ target' = [target EXCEPT ![j] = g]

LEMMA Same ==
  ASSUME JobsInv, NEW j \in Jobs
  PROVE  /\ pc = [pc EXCEPT ![j] = pc[j]]
         /\ op = [op EXCEPT ![j] = op[j]]
         /\ copy = [copy EXCEPT ![j] = copy[j]]
         /\ text = [text EXCEPT ![j] = text[j]]
         /\ held = [held EXCEPT ![j] = held[j]]
         /\ target = [target EXCEPT ![j] = target[j]]
BY DEF JobsInv

LEMMA TurnIs ==
  ASSUME JobsInv, NEW j \in Jobs, NEW p, NEW o, NEW c, NEW t, NEW h, NEW g,
         Turn(j, p, o, c, t, h, g)
  PROVE  /\ pc'[j] = p /\ op'[j] = o /\ copy'[j] = c /\ text'[j] = t /\ held'[j] = h /\ target'[j] = g
         /\ \A i \in Jobs \ {j} :
              /\ pc'[i] = pc[i] /\ op'[i] = op[i] /\ copy'[i] = copy[i]
              /\ text'[i] = text[i] /\ held'[i] = held[i] /\ target'[i] = target[i]
BY DEF JobsInv, Turn

LEMMA TurnReady ==
  ASSUME JobsInv, NEW j \in Jobs, NEW p, NEW o, NEW c, NEW t, NEW h, NEW g,
         Turn(j, p, o, c, t, h, g), ReadyAt(p, o, c, t, h, g)
  PROVE  JobsInv'
<1>1. /\ p \in Places /\ o \in Kinds /\ h \in Names
      /\ c \in Config \cup {None} /\ t \in Config \cup {Torn, None}
      /\ g \in {None} \cup Seconds \cup SUBSET Users
  BY DEF ReadyAt
<1>2. pc' \in [Jobs -> Places] /\ op' \in [Jobs -> Kinds] /\ held' \in [Jobs -> Names]
  BY <1>1 DEF JobsInv, Turn
<1>3. copy' \in [Jobs -> Config \cup {None}] /\ text' \in [Jobs -> Config \cup {Torn, None}]
  BY <1>1 DEF JobsInv, Turn
<1>4. target' \in [Jobs -> {None} \cup Seconds \cup SUBSET Users]
  BY <1>1 DEF JobsInv, Turn
<1>5. \A i \in Jobs : ReadyAt(pc[i], op[i], copy[i], text[i], held[i], target[i])'
  BY TurnIs DEF JobsInv
<1> QED
  BY <1>2, <1>3, <1>4, <1>5 DEF JobsInv

-----------------------------------------------------------------------------
(* Captures *)

\* A snapshot of the present pair.
LEMMA TakenIs ==
  ASSUME TypeInv, NEW s \in {"manual", "auto"}
  PROVE  /\ Taken(s) \in Dirs
         /\ \A t \in Seconds \ {now} : Taken(s)[t] = dir[t]
         /\ Taken(s)[now] = [source |-> s, stack |-> disk, xray |-> live]
         /\ Taken(s)[now] # None
<1>1. [source |-> s, stack |-> disk, xray |-> live] \in Snapshot
  BY DEF TypeInv, FilesInv, Snapshot, Rendered
<1>2. now \in Seconds /\ dir \in Dirs
  BY DEF TypeInv, FilesInv
<1> QED
  BY <1>1, <1>2, ValueAssumption DEF Taken, Dirs

\* Pruning keeps snapshots or removes them, and never the newest.
LEMMA PruneIs ==
  ASSUME NEW d \in Dirs
  PROVE  /\ Prune(d) \in Dirs
         /\ \A t \in Seconds : Prune(d)[t] \in {d[t], None}
         /\ \A n \in Seconds : (\A t \in Seconds : t > n => d[t] = None) => Prune(d)[n] = d[n]
<1>1. Prune(d) \in Dirs /\ \A t \in Seconds : Prune(d)[t] \in {d[t], None}
  BY DEF Prune, Dirs
<1>2. ASSUME NEW n \in Seconds, \A t \in Seconds : t > n => d[t] = None
      PROVE  Prune(d)[n] = d[n]
  <2>1. {u \in Autos(d) : u > n} = {}
    BY <1>2 DEF Autos
  <2>2. Cardinality({}) = 0
    BY FS_EmptySet
  <2>3. Cardinality({u \in Autos(d) : u > n}) < AutoCap
    BY <2>1, <2>2, CapAssumption
  <2>4. n \notin Autos(d) \ NewestAutos(d)
    BY <2>3 DEF NewestAutos
  <2> QED
    BY <2>4 DEF Prune
<1> QED
  BY <1>1, <1>2

\* A capture that fails may leave a directory that holds one file, or half.
LEMMA BrokenIs ==
  ASSUME TypeInv, NEW d \in Broken
  PROVE  /\ d \in Dirs
         /\ \A t \in Seconds \ {now} : d[t] = dir[t]
         /\ d[now] = dir[now] \/ d[now].stack \in {disk, Torn}
<1>1. now \in Seconds /\ dir \in Dirs /\ disk \in Config \cup {Torn}
  BY DEF TypeInv, FilesInv
<1>2. CASE d = dir
  BY <1>1, <1>2
<1>3. ASSUME NEW s \in {disk, Torn},
             d = [dir EXCEPT ![now] =
                   [source |-> IF @ = None THEN "none" ELSE @.source, stack |-> s,
                    xray |-> IF @ = None THEN None ELSE @.xray]]
      PROVE  /\ d \in Dirs
             /\ \A t \in Seconds \ {now} : d[t] = dir[t]
             /\ d[now].stack \in {disk, Torn}
  <2> DEFINE w == [source |-> IF dir[now] = None THEN "none" ELSE dir[now].source, stack |-> s,
                   xray |-> IF dir[now] = None THEN None ELSE dir[now].xray]
  <2>1. dir[now] \in Snapshot \cup {None}
    BY <1>1 DEF Dirs
  <2>2. w \in Snapshot /\ w.stack = s
    BY <2>1, <1>1 DEF Snapshot
  <2>3. d = [dir EXCEPT ![now] = w]
    BY <1>3
  <2> HIDE DEF w
  <2> QED
    BY <1>1, <2>2, <2>3 DEF Dirs
<1> QED
  BY <1>2, <1>3 DEF Broken

LEMMA CaptureIs ==
  ASSUME TypeInv, NEW s \in {"manual", "auto"}, Capture(s)
  PROVE  /\ dir' \in Dirs
         /\ faults' \in Nat /\ faults' >= faults
         /\ met' \in BOOLEAN /\ (met => met')
         /\ (\E j \in Jobs : held[j] = "disk") => met'
         /\ \A t \in Seconds : t > now => dir'[t] \in {dir[t], None}
         /\ \A t \in Seconds :
              \/ dir'[t] \in {dir[t], None}
              \/ dir'[t].stack = disk
              \/ dir'[t].stack = Torn /\ faults' > 0
<1>0. /\ now \in Seconds /\ faults \in Nat /\ met \in BOOLEAN
      /\ \A t \in Seconds : t > now => t \in Seconds \ {now}
  BY BoundsAssumption DEF TypeInv, FilesInv, Seconds
<1>1. met' \in BOOLEAN /\ (met => met') /\ ((\E j \in Jobs : held[j] = "disk") => met')
  BY <1>0, Zenon DEF Capture
<1>2. CASE dir' = Taken(s) /\ UNCHANGED faults
  <2>1. dir' \in Dirs /\ dir'[now].stack = disk /\ \A t \in Seconds \ {now} : dir'[t] = dir[t]
    BY <1>2, TakenIs
  <2>2. faults' \in Nat /\ faults' >= faults
    BY <1>0, <1>2
  <2> QED
    BY <1>0, <1>1, <2>1, <2>2
<1>3. CASE dir' = Prune(Taken(s)) /\ UNCHANGED faults
  <2> DEFINE d == Taken(s)
  <2>1. d \in Dirs /\ d[now].stack = disk /\ \A t \in Seconds \ {now} : d[t] = dir[t]
    BY TakenIs
  <2>2. dir' = Prune(d)
    BY <1>3
  <2> HIDE DEF d
  <2>3. dir' \in Dirs /\ \A t \in Seconds : dir'[t] \in {d[t], None}
    BY <2>1, <2>2, PruneIs
  <2>4. \A t \in Seconds \ {now} : dir'[t] \in {dir[t], None}
    BY <2>1, <2>3
  <2>5. dir'[now] = None \/ dir'[now].stack = disk
    BY <1>0, <2>1, <2>3
  <2>6. faults' \in Nat /\ faults' >= faults
    BY <1>0, <1>3
  <2> QED
    BY <1>0, <1>1, <2>3, <2>4, <2>5, <2>6
<1>4. CASE CaptureFails
  <2>1. dir' \in Broken /\ faults' = faults + 1
    BY <1>4 DEF CaptureFails
  <2>2. /\ dir' \in Dirs
        /\ \A t \in Seconds \ {now} : dir'[t] = dir[t]
        /\ dir'[now] = dir[now] \/ dir'[now].stack \in {disk, Torn}
    BY <2>1, BrokenIs
  <2>3. faults' \in Nat /\ faults' >= faults /\ faults' > 0
    BY <1>0, <2>1
  <2> QED
    BY <1>0, <1>1, <2>2, <2>3
<1> QED
  BY <1>2, <1>3, <1>4 DEF Capture

-----------------------------------------------------------------------------
(* How a job begins: a request, or a writer beside the requests.           *)

LEMMA AloneIs ==
  ASSUME TypeInv, NEW j \in Jobs, Disturb(j) \/ Join(j) \/ alone' = {}
  PROVE  alone' \subseteq {i \in Jobs : pc'[i] # "idle"}
BY DEF TypeInv, FilesInv, Disturb, Join

LEMMA IdleIs ==
  ASSUME TypeInv, NEW j \in Jobs, pc[j] = "idle"
  PROVE  /\ op[j] = "none" /\ held[j] = "none"
         /\ copy[j] \in Config \cup {None} /\ text[j] \in Config \cup {Torn, None}
         /\ target[j] \in {None} \cup Seconds \cup SUBSET Users
BY DEF TypeInv, JobsInv, ReadyAt

Started(j) ==
  /\ pc[j] = "idle" /\ disk \in Config /\ Validate(disk)
  /\ \E p \in {"idle", "save", "snap", "quota", "pre"} : \E o, c, g :
       Turn(j, p, o, c, text[j], held[j], g) /\ ReadyAt(p, o, c, text[j], held[j], g)
  /\ mem' \in Config /\ answer' = "none"
  /\ undo' = [undo EXCEPT ![j] = None]
  /\ Disturb(j) \/ (Join(j) /\ UNCHANGED mem)
  /\ UNCHANGED <<disk, tmp, live, dir, now, up, faults, met>>

LEMMA StartedReady ==
  ASSUME TypeInv, NEW j \in Jobs, pc[j] = "idle",
         NEW p \in {"idle", "save", "snap", "quota", "pre"}, NEW o \in Kinds,
         NEW c \in Config \cup {None}, NEW g \in {None} \cup Seconds \cup SUBSET Users,
         p = "idle" <=> o = "none",
         p \in {"save", "snap"} /\ o \in Fresh \cup {"reverting"} => c \in Config,
         p = "quota" => o = "quota" /\ g \in SUBSET Users,
         p = "pre" => g \in Seconds,
         o = "rollback" <=> p = "pre"
  PROVE  ReadyAt(p, o, c, text[j], held[j], g)
<1>1. held[j] = "none" /\ text[j] \in Config \cup {Torn, None}
  BY IdleIs
<1>2. "quota" \in Fresh /\ "rollback" \notin Fresh
  BY DEF Fresh, Besides
<1>3. p \in Places /\ p \notin {"open", "write", "rename", "stack", "restore", "xray", "apply"}
  BY DEF Places
<1>4. p \notin {"idle", "quota"} /\ o \in Fresh \cup {"reverting"} => c \in Config
  BY <1>2
<1> QED
  BY <1>1, <1>3, <1>4 DEF ReadyAt, Names

\* A request that changes s.cfg.
LEMMA MemoryIs ==
  ASSUME TypeInv, NEW j \in Jobs, NEW c \in Config,
         NEW k \in {"plain", "bandwidth", "admins", "routing"}, NEW p \in {"save", "snap"},
         Memory(j, k, c, p)
  PROVE  Started(j)
<1> DEFINE q == IF Validate(c) THEN p ELSE "idle"
           o == IF q = "idle" THEN "none" ELSE k
<1>1. /\ pc[j] = "idle" /\ disk \in Config /\ Validate(disk) /\ mem' \in Config /\ answer' = "none"
      /\ undo' = [undo EXCEPT ![j] = None] /\ Disturb(j)
      /\ UNCHANGED <<disk, tmp, live, dir, now, up, faults, met>>
  BY DEF Memory, Request, Loads, Begin, files, TypeInv, FilesInv
<1>2. Turn(j, q, o, copy[j], text[j], held[j], target[j])
  BY Same DEF Memory, Begin, Goto, Turn, TypeInv
<1>3. q \in {"idle", p}
  OBVIOUS
<1>5. o \in Kinds /\ (q = "idle" <=> o = "none") /\ o # "rollback" /\ o \notin Fresh \cup {"reverting"}
  BY DEF Kinds, Fresh, Besides
<1>6. copy[j] \in Config \cup {None} /\ target[j] \in {None} \cup Seconds \cup SUBSET Users
  BY <1>1, IdleIs
<1>7. /\ q \in {"idle", "save", "snap", "quota", "pre"} /\ q \notin {"quota", "pre"}
      /\ q \in {"save", "snap"} /\ o \in Fresh \cup {"reverting"} => copy[j] \in Config
  BY <1>3, <1>5
<1> HIDE DEF q, o
<1>4. ReadyAt(q, o, copy[j], text[j], held[j], target[j])
  BY <1>1, <1>5, <1>6, <1>7, StartedReady
<1> QED
  BY <1>1, <1>2, <1>3, <1>4 DEF Started

LEMMA CopyIs ==
  ASSUME TypeInv, NEW j \in Jobs, NEW c \in Config,
         NEW k \in {"fresh", "switch", "refused"}, NEW p \in {"idle", "save", "snap"},
         Copy(j, k, c, p)
  PROVE  Started(j)
<1> DEFINE o == IF p = "idle" THEN "none" ELSE k
           d == IF p = "idle" THEN None ELSE c
<1>1. /\ pc[j] = "idle" /\ disk \in Config /\ Validate(disk) /\ mem' \in Config /\ answer' = "none"
      /\ undo' = [undo EXCEPT ![j] = None] /\ Join(j)
      /\ UNCHANGED <<disk, tmp, mem, live, dir, now, up, faults, met>>
  BY DEF Copy, Request, Loads, Begin, files, TypeInv, FilesInv
<1>2. Turn(j, p, o, d, text[j], held[j], target[j])
  BY Same DEF Copy, Begin, Goto, Turn, TypeInv
<1>4. o \in Kinds /\ (p = "idle" <=> o = "none") /\ o # "rollback" /\ d \in Config \cup {None}
  BY DEF Kinds, Fresh, Besides
<1>5. target[j] \in {None} \cup Seconds \cup SUBSET Users
  BY <1>1, IdleIs
<1>6. p \in {"save", "snap"} => d \in Config
  OBVIOUS
<1> HIDE DEF o, d
<1>3. ReadyAt(p, o, d, text[j], held[j], target[j])
  BY <1>1, <1>4, <1>5, <1>6, StartedReady
<1> QED
  BY <1>1, <1>2, <1>3 DEF Started

LEMMA OtherIs ==
  ASSUME TypeInv, NEW j \in Jobs, NEW k \in Besides, NEW c \in Config, Loads(disk),
         OtherLoads(j, k, c)
  PROVE  Started(j)
<1>1. /\ pc[j] = "idle" /\ disk \in Config /\ Validate(disk) /\ mem' \in Config /\ answer' = "none"
      /\ undo' = [undo EXCEPT ![j] = None] /\ Join(j)
      /\ UNCHANGED <<disk, tmp, mem, live, dir, now, up, faults, met>>
  BY DEF OtherLoads, Loads, Begin, files, TypeInv, FilesInv
<1>2. Turn(j, "save", k, c, text[j], held[j], target[j])
  BY Same DEF OtherLoads, Begin, Goto, Turn, TypeInv
<1>3. ReadyAt("save", k, c, text[j], held[j], target[j])
  BY <1>1, StartedReady, IdleIs DEF Kinds, Fresh, Besides
<1> QED
  BY <1>1, <1>2, <1>3 DEF Started

LEMMA BeginIs ==
  ASSUME TypeInv, NEW j \in Jobs, Edit(j) \/ Other(j)
  PROVE  Started(j)
<1>0. mem \in Config /\ (Loads(disk) => disk \in Config)
  BY DEF Loads, TypeInv, FilesInv
<1>1. CASE EditUsers(j) \/ EditBandwidth(j) \/ EditTokens(j) \/ EditAdmins(j) \/ EditSOCKS(j)
  <2>1. PICK c \in Config, k \in {"plain", "bandwidth", "admins"}, p \in {"save", "snap"} :
          Memory(j, k, c, p)
    BY <1>0, <1>1, EditsAre DEF EditUsers, EditBandwidth, EditTokens, EditAdmins, EditSOCKS
  <2> QED
    BY <2>1, MemoryIs
<1>2. CASE EditDomains(j)
  <2>1. /\ pc[j] = "idle" /\ disk \in Config /\ Validate(disk) /\ answer' = "none"
        /\ undo' = [undo EXCEPT ![j] = None] /\ Disturb(j)
        /\ UNCHANGED <<disk, tmp, live, dir, now, up, faults, met>>
    BY <1>2, <1>0 DEF EditDomains, Request, Loads, Begin, files
  <2>2. mem' \in Config
    BY <1>2, <1>0, EditsAre DEF EditDomains
  <2>3. Turn(j, "snap", "routing", copy[j], text[j], held[j], target[j])
    BY <1>2, Same DEF EditDomains, Begin, Goto, Turn, TypeInv
  <2>4. ReadyAt("snap", "routing", copy[j], text[j], held[j], target[j])
    BY <2>1, StartedReady, IdleIs DEF Kinds, Fresh, Besides
  <2> QED
    BY <2>1, <2>2, <2>3, <2>4 DEF Started
<1>3. CASE EditRelay(j)
  <2>1. /\ pc[j] = "idle" /\ disk \in Config /\ Validate(disk) /\ answer' = "none"
        /\ undo' = [undo EXCEPT ![j] = None] /\ Disturb(j)
        /\ UNCHANGED <<disk, tmp, live, dir, now, up, faults, met>>
    BY <1>3, <1>0 DEF EditRelay, Request, Loads, Begin, files
  <2>2. mem' \in Config
    BY <1>3, <1>0, EditsAre DEF EditRelay
  <2>3. Turn(j, "save", "reverting", mem, text[j], held[j], target[j])
    BY <1>3, Same DEF EditRelay, Begin, Goto, Turn, TypeInv
  <2>4. ReadyAt("save", "reverting", mem, text[j], held[j], target[j])
    BY <1>0, <2>1, StartedReady, IdleIs DEF Kinds, Fresh, Besides
  <2> QED
    BY <2>1, <2>2, <2>3, <2>4 DEF Started
<1>4. CASE Login(j)
  <2>1. /\ pc[j] = "idle" /\ disk \in Config /\ Validate(disk) /\ answer' = "none"
        /\ undo' = [undo EXCEPT ![j] = None] /\ Disturb(j) /\ mem' = disk
        /\ UNCHANGED <<disk, tmp, live, dir, now, up, faults, met>>
    BY <1>4, <1>0 DEF Login, Request, Loads, Begin, files
  <2>2. PICK p \in {"idle", "save"}, k \in {"login", "secret"} : Begin(j, k, p)
    BY <1>4 DEF Login
  <2> DEFINE o == IF p = "idle" THEN "none" ELSE k
  <2>3. Turn(j, p, o, copy[j], text[j], held[j], target[j])
    BY <1>4, <2>2, Same DEF Login, Begin, Goto, Turn, TypeInv
  <2>5. o \in Kinds /\ (p = "idle" <=> o = "none") /\ o # "rollback" /\ o \notin Fresh \cup {"reverting"}
    BY DEF Kinds, Fresh, Besides
  <2>6. copy[j] \in Config \cup {None} /\ target[j] \in {None} \cup Seconds \cup SUBSET Users
    BY <2>1, IdleIs
  <2>7. /\ p \in {"idle", "save", "snap", "quota", "pre"} /\ p \notin {"quota", "pre"}
        /\ p \in {"save", "snap"} /\ o \in Fresh \cup {"reverting"} => copy[j] \in Config
    BY <2>5
  <2> HIDE DEF o
  <2>4. ReadyAt(p, o, copy[j], text[j], held[j], target[j])
    BY <2>1, <2>5, <2>6, <2>7, StartedReady
  <2> QED
    BY <2>1, <2>3, <2>4 DEF Started
<1>5. CASE QuotaApply(j)
  <2>1. /\ pc[j] = "idle" /\ disk \in Config /\ Validate(disk) /\ answer' = "none"
        /\ undo' = [undo EXCEPT ![j] = None] /\ Join(j)
        /\ UNCHANGED <<disk, tmp, mem, live, dir, now, up, faults, met>>
    BY <1>5, <1>0 DEF QuotaApply, Request, Loads, Begin, files
  <2>2. PICK over \in SUBSET Users : target' = [target EXCEPT ![j] = over]
    BY <1>5 DEF QuotaApply, Present
  <2>3. Turn(j, "quota", "quota", copy[j], text[j], held[j], over)
    BY <1>5, <2>2, Same DEF QuotaApply, Begin, Goto, Turn, TypeInv
  <2>4. ReadyAt("quota", "quota", copy[j], text[j], held[j], over)
    BY <2>1, StartedReady, IdleIs DEF Kinds, Fresh, Besides
  <2> QED
    BY <1>0, <2>1, <2>3, <2>4 DEF Started
<1>6. CASE Rollback(j)
  <2>1. /\ pc[j] = "idle" /\ disk \in Config /\ Validate(disk) /\ answer' = "none"
        /\ undo' = [undo EXCEPT ![j] = None] /\ Join(j)
        /\ UNCHANGED <<disk, tmp, mem, live, dir, now, up, faults, met>>
    BY <1>6, <1>0 DEF Rollback, Request, Loads, Begin, files
  <2>2. PICK t \in Seconds : target' = [target EXCEPT ![j] = t]
    BY <1>6 DEF Rollback
  <2>3. Turn(j, "pre", "rollback", copy[j], text[j], held[j], t)
    BY <1>6, <2>2, Same DEF Rollback, Begin, Goto, Turn, TypeInv
  <2>4. ReadyAt("pre", "rollback", copy[j], text[j], held[j], t)
    BY <2>1, StartedReady, IdleIs DEF Kinds, Fresh, Besides
  <2> QED
    BY <1>0, <2>1, <2>3, <2>4 DEF Started
<1>7. CASE EditEndpoints(j) \/ EditFailover(j) \/ EditInstaller(j)
  <2>1. disk \in Config
    BY <1>0, <1>7 DEF EditEndpoints, EditFailover, EditInstaller, Copy, Request
  <2>2. PICK c \in Config, k \in {"fresh", "switch", "refused"}, p \in {"idle", "save", "snap"} :
          Copy(j, k, c, p)
    BY <1>7, <2>1, EditsAre DEF EditEndpoints, EditFailover, EditInstaller
  <2> QED
    BY <2>2, CopyIs
<1>8. CASE Other(j)
  <2>1. disk \in Config /\ Loads(disk)
    BY <1>0, <1>8 DEF Other, TouchToken, ManagerLoads, CliAdminAdd
  <2>2. \A t \in Tunnels : [disk EXCEPT !.via = t] \in Config
    BY <2>1 DEF Config
  <2>3. \A a \in Admins : AddAdmin(disk, a) \in Config
    BY <2>1 DEF Config, AddAdmin
  <2>4. PICK c \in Config, k \in Besides : OtherLoads(j, k, c)
    BY <1>8, <2>1, <2>2, <2>3 DEF Other, TouchToken, ManagerLoads, CliAdminAdd, Besides
  <2> QED
    BY <2>1, <2>4, OtherIs
<1> QED
  BY <1>1, <1>2, <1>3, <1>4, <1>5, <1>6, <1>7, <1>8 DEF Edit

-----------------------------------------------------------------------------
(* TypeOK, and that each place of a job has what its next step uses: a     *)
(* config to save, a text to write, an open file, a snapshot.              *)

LEMMA StartedTypes ==
  ASSUME TypeInv, NEW j \in Jobs, Started(j)
  PROVE  TypeInv'
<1>1. JobsInv'
  BY TurnReady DEF Started, TypeInv
<1>2. alone' \subseteq {i \in Jobs : pc'[i] # "idle"}
  BY AloneIs DEF Started
<1>3. undo' \in [Jobs -> Pairs \cup {None}]
  BY DEF Started, TypeInv, FilesInv
<1>4. mem' \in Config /\ answer' = "none"
      /\ UNCHANGED <<disk, tmp, live, dir, now, up, faults, met>>
  BY DEF Started
<1> QED
  BY <1>1, <1>2, <1>3, <1>4 DEF TypeInv, FilesInv

LEMMA NowIs ==
  ASSUME TypeInv, NEW j \in Jobs
  PROVE  /\ ReadyAt(pc[j], op[j], copy[j], text[j], held[j], target[j])
         /\ pc[j] \notin {"write", "stack"} =>
              held[j] = "none" /\ held = [held EXCEPT ![j] = "none"]
BY DEF TypeInv, JobsInv, ReadyAt, Names

\* A job that ends holds nothing any more.
LEMMA EndIs ==
  ASSUME TypeInv, NEW j \in Jobs, NEW a, End(j, a), held' = [held EXCEPT ![j] = "none"]
  PROVE  /\ JobsInv' /\ Turn(j, "idle", "none", None, None, "none", None)
         /\ pc' = [pc EXCEPT ![j] = "idle"] /\ answer' = a
<1>1. Turn(j, "idle", "none", None, None, "none", None)
  BY DEF End, Goto, Turn
<1>2. ReadyAt("idle", "none", None, None, "none", None)
  BY DEF ReadyAt, Places, Kinds, Names, Fresh, Besides
<1> QED
  BY <1>1, <1>2, TurnReady DEF TypeInv, End, Goto

\* A job that goes on, with its kind, its copy and its target.
LEMMA GoIs ==
  ASSUME TypeInv, NEW j \in Jobs, NEW p, NEW t, NEW h,
         pc' = [pc EXCEPT ![j] = p], text' = [text EXCEPT ![j] = t],
         held' = [held EXCEPT ![j] = h], UNCHANGED <<op, copy, target>>,
         ReadyAt(p, op[j], copy[j], t, h, target[j])
  PROVE  JobsInv'
<1>1. Turn(j, p, op[j], copy[j], t, h, target[j])
  BY Same DEF Turn, TypeInv
<1> QED
  BY <1>1, TurnReady DEF TypeInv

LEMMA PairIs ==
  ASSUME TypeInv
  PROVE  <<disk, live>> \in Pairs
BY DEF TypeInv, FilesInv, Pairs

\* The ghosts, as the steps set them.
LEMMA GhostsAre ==
  ASSUME TypeInv, NEW j \in Jobs,
         \/ Disturb(j) \/ Join(j) \/ alone' = {}
         \/ alone' = alone /\ \E p \in Places \ {"idle"} : pc' = [pc EXCEPT ![j] = p]
         \/ alone' = alone \ {j} /\ pc' = [pc EXCEPT ![j] = "idle"],
         \/ UNCHANGED undo \/ Forget(j) \/ undo' = [undo EXCEPT ![j] = None]
         \/ undo' = [undo EXCEPT ![j] = <<disk, live>>]
         \/ undo' = [i \in Jobs |-> IF i = j THEN <<disk, live>> ELSE None]
         \/ undo' = [i \in Jobs |-> None]
  PROVE  /\ alone' \subseteq {i \in Jobs : pc'[i] # "idle"}
         /\ undo' \in [Jobs -> Pairs \cup {None}]
<1>1. undo \in [Jobs -> Pairs \cup {None}] /\ alone \subseteq {i \in Jobs : pc[i] # "idle"}
      /\ pc \in [Jobs -> Places]
  BY DEF TypeInv, FilesInv, JobsInv
<1>2. undo' \in [Jobs -> Pairs \cup {None}]
  BY <1>1, PairIs DEF Forget
<1>3. CASE Disturb(j) \/ Join(j) \/ alone' = {}
  BY <1>2, <1>3, AloneIs
<1>4. CASE alone' = alone /\ \E p \in Places \ {"idle"} : pc' = [pc EXCEPT ![j] = p]
  <2>1. PICK p \in Places \ {"idle"} : pc' = [pc EXCEPT ![j] = p]
    BY <1>4
  <2>2. ASSUME NEW i \in alone PROVE pc'[i] # "idle"
    BY <1>1, <2>1
  <2> QED
    BY <1>1, <1>2, <1>4, <2>2
<1>5. CASE alone' = alone \ {j} /\ pc' = [pc EXCEPT ![j] = "idle"]
  BY <1>1, <1>2, <1>5
<1> QED
  BY <1>3, <1>4, <1>5

LEMMA SavedIs ==
  ASSUME TypeInv, NEW j \in Jobs, pc[j] \in {"save", "open", "write", "rename", "apply"}
  PROVE  /\ Saved(j) \in Config
         /\ op[j] \in Fresh \cup {"reverting"} => copy[j] \in Config
BY NowIs DEF TypeInv, FilesInv, Saved, ReadyAt

LEMMA CaptureSteps ==
  ASSUME TypeInv, NEW j \in Jobs, QuotaPlan(j) \/ QuotaStops(j) \/ Snap(j) \/ PreSnapshot(j)
  PROVE  TypeInv'
<1>0. pc[j] \in {"quota", "snap", "pre"} /\ Capture("auto") /\ Disturb(j)
      /\ UNCHANGED <<disk, tmp, live, now, up, held, begun>>
  BY DEF QuotaPlan, QuotaStops, Snap, PreSnapshot
<1>1. held[j] = "none" /\ held' = [held EXCEPT ![j] = "none"] /\ text = [text EXCEPT ![j] = text[j]]
  BY <1>0, NowIs, Same DEF TypeInv
<1>2. dir' \in Dirs /\ faults' \in Nat /\ met' \in BOOLEAN
  BY <1>0, CaptureIs
<1>3. alone' \subseteq {i \in Jobs : pc'[i] # "idle"} /\ undo' \in [Jobs -> Pairs \cup {None}]
  <2>1. CASE PreSnapshot(j)
    <3>1. \/ undo' = [i \in Jobs |-> IF i = j THEN <<disk, live>> ELSE None]
          \/ undo' = [i \in Jobs |-> None]
      BY <2>1 DEF PreSnapshot
    <3> QED
      BY <1>0, <3>1, GhostsAre
  <2>2. CASE Forget(j)
    BY <1>0, <2>2, GhostsAre
  <2> QED
    BY <2>1, <2>2 DEF QuotaPlan, QuotaStops, Snap
<1>4. mem' \in Config
  <2>1. mem \in Config
    BY DEF TypeInv, FilesInv
  <2>2. \A over \in SUBSET Present(mem) : Disable(mem, over) \in Config
    BY <2>1, DisableIs
  <2> QED
    BY <2>1, <2>2 DEF QuotaPlan, QuotaStops, Snap, PreSnapshot
<1>5. answer' \in {"none", "ok", "error"} /\ JobsInv'
  <2>0. answer \in {"none", "ok", "error"}
    BY DEF TypeInv, FilesInv
  <2>1. CASE End(j, "error")
    BY <1>1, <2>1, EndIs
  <2>2. CASE QuotaPlan(j)
    <3>1. pc[j] = "quota" /\ pc' = [pc EXCEPT ![j] = "save"]
          /\ copy' = [copy EXCEPT ![j] = mem'] /\ UNCHANGED <<op, text, target, answer>>
      BY <2>2 DEF QuotaPlan, Goto
    <3>2. Turn(j, "save", op[j], mem', text[j], "none", target[j])
      BY <3>1, <1>1, Same DEF Turn, TypeInv
    <3>3. op[j] = "quota" /\ text[j] \in Config \cup {Torn, None} /\ op[j] \in Kinds
          /\ target[j] \in SUBSET Users
      BY <3>1, NowIs DEF ReadyAt
    <3>4. ReadyAt("save", op[j], mem', text[j], "none", target[j])
      BY <1>4, <3>3 DEF ReadyAt, Places, Names
    <3> QED
      BY <2>0, <3>1, <3>2, <3>4, TurnReady DEF TypeInv
  <2>3. CASE Snap(j) /\ ~End(j, "error")
    <3>1. pc[j] = "snap" /\ pc' = [pc EXCEPT ![j] = "save"] /\ UNCHANGED <<op, copy, text, target, answer>>
      BY <2>3 DEF Snap, Goto, job
    <3>2. ReadyAt("save", op[j], copy[j], text[j], "none", target[j])
      BY <3>1, NowIs DEF ReadyAt, Places, Names
    <3> QED
      BY <2>0, <1>1, <3>1, <3>2, GoIs
  <2>4. CASE PreSnapshot(j)
    <3>1. pc[j] = "pre" /\ pc' = [pc EXCEPT ![j] = "restore"]
          /\ UNCHANGED <<op, copy, text, target, answer>>
      BY <2>4 DEF PreSnapshot, Goto
    <3>2. ReadyAt("restore", op[j], copy[j], text[j], "none", target[j])
      BY <3>1, NowIs DEF ReadyAt, Places, Names
    <3> QED
      BY <2>0, <1>1, <3>1, <3>2, GoIs
  <2> QED
    BY <2>1, <2>2, <2>3, <2>4 DEF QuotaStops
<1> QED
  BY <1>0, <1>2, <1>3, <1>4, <1>5 DEF TypeInv, FilesInv

LEMMA SaveSteps ==
  ASSUME TypeInv, NEW j \in Jobs, Marshal(j) \/ OpenTmp(j) \/ WriteTmp(j)
  PROVE  TypeInv'
<1>0. ReadyAt(pc[j], op[j], copy[j], text[j], held[j], target[j])
  BY NowIs
<1>1. CASE Marshal(j)
  <2>1. pc[j] = "save" /\ Validate(Saved(j)) /\ pc' = [pc EXCEPT ![j] = "open"]
        /\ text' = [text EXCEPT ![j] = Saved(j)]
        /\ UNCHANGED <<disk, tmp, live, dir, mem, now, up, op, copy, held, target, answer,
                       faults, met, alone, undo>>
    BY <1>1 DEF Marshal, Goto, files
  <2>2. Saved(j) \in Config /\ held' = [held EXCEPT ![j] = "none"]
    BY <2>1, SavedIs, NowIs
  <2>3. ReadyAt("open", op[j], copy[j], Saved(j), "none", target[j])
    BY <1>0, <2>1, <2>2 DEF ReadyAt, Places, Names
  <2>4. JobsInv'
    BY <2>1, <2>2, <2>3, GoIs
  <2>5. alone' \subseteq {i \in Jobs : pc'[i] # "idle"} /\ undo' \in [Jobs -> Pairs \cup {None}]
    <3>1. "open" \in Places \ {"idle"}
      BY DEF Places
    <3> QED
      BY <2>1, <3>1, GhostsAre
  <2> QED
    BY <2>1, <2>4, <2>5 DEF TypeInv, FilesInv
<1>2. CASE OpenTmp(j)
  <2>1. pc[j] = "open" /\ tmp' = Torn /\ held' = [held EXCEPT ![j] = "tmp"] /\ met' \in BOOLEAN
        /\ pc' = [pc EXCEPT ![j] = "write"] /\ Disturb(j)
        /\ UNCHANGED <<disk, live, dir, mem, now, up, op, copy, text, target, answer, faults, undo>>
    BY <1>2 DEF OpenTmp, Goto, TypeInv, FilesInv
  <2>2. ReadyAt("write", op[j], copy[j], text[j], "tmp", target[j])
    BY <1>0, <2>1 DEF ReadyAt, Places, Names
  <2>3. JobsInv'
    BY <2>1, <2>2, Same, GoIs DEF TypeInv
  <2>4. alone' \subseteq {i \in Jobs : pc'[i] # "idle"} /\ undo' \in [Jobs -> Pairs \cup {None}]
    BY <2>1, GhostsAre
  <2> QED
    BY <2>1, <2>3, <2>4 DEF TypeInv, FilesInv
<1>3. CASE WriteTmp(j)
  <2>1. pc[j] = "write" /\ held' = [held EXCEPT ![j] = "none"]
        /\ pc' = [pc EXCEPT ![j] = "rename"] /\ Disturb(j)
        /\ UNCHANGED <<live, dir, mem, now, up, op, copy, text, target, answer, faults, met, undo>>
    BY <1>3 DEF WriteTmp, Goto
  <2>2. text[j] \in Config /\ disk \in Config \cup {Torn} /\ tmp \in Config \cup {Torn, None}
    BY <1>0, <2>1 DEF ReadyAt, TypeInv, FilesInv
  <2>3. disk' \in Config \cup {Torn} /\ tmp' \in Config \cup {Torn, None}
    BY <1>3, <2>2 DEF WriteTmp, Written
  <2>4. ReadyAt("rename", op[j], copy[j], text[j], "none", target[j])
    BY <1>0, <2>1 DEF ReadyAt, Places, Names
  <2>5. JobsInv'
    BY <2>1, <2>4, Same, GoIs DEF TypeInv
  <2>6. alone' \subseteq {i \in Jobs : pc'[i] # "idle"} /\ undo' \in [Jobs -> Pairs \cup {None}]
    BY <2>1, GhostsAre
  <2> QED
    BY <2>1, <2>3, <2>5, <2>6 DEF TypeInv, FilesInv
<1> QED
  BY <1>1, <1>2, <1>3

\* A rename gives every open file another name, or none.
LEMMA RenamedReady ==
  ASSUME NEW p, NEW o, NEW c, NEW t, NEW h, NEW g, ReadyAt(p, o, c, t, h, g)
  PROVE  ReadyAt(p, o, c, t, Renamed(h), g)
<1>1. Renamed(h) \in Names /\ (Renamed(h) = "none" <=> h = "none")
      /\ (h \in {"disk", "gone"} => Renamed(h) \in {"disk", "gone"})
  BY DEF ReadyAt, Renamed, Names
<1> QED
  BY <1>1 DEF ReadyAt

LEMMA RenameTypes ==
  ASSUME TypeInv, NEW j \in Jobs, Rename(j)
  PROVE  TypeInv'
<1>1. /\ pc[j] = "rename" /\ tmp # None /\ disk' = tmp /\ tmp' = None
      /\ held' = [i \in Jobs |-> Renamed(held[i])]
      /\ mem' = IF op[j] \in Fresh \ Besides THEN copy[j] ELSE mem
      /\ Disturb(j)
      /\ UNCHANGED <<live, dir, now, up, faults, met, undo>>
  BY DEF Rename
<1>2. mem' \in Config
  BY <1>1, SavedIs DEF TypeInv, FilesInv
<1>3. held[j] = "none" /\ Renamed("none") = "none"
  BY <1>1, NowIs DEF Renamed
<1>4. JobsInv
  BY DEF TypeInv
<1>5. ReadyAt(pc[j], op[j], copy[j], text[j], held[j], target[j])
  BY NowIs
<1>6. PICK p, o, c, t, g :
        /\ pc' = [pc EXCEPT ![j] = p] /\ op' = [op EXCEPT ![j] = o]
        /\ copy' = [copy EXCEPT ![j] = c] /\ text' = [text EXCEPT ![j] = t]
        /\ target' = [target EXCEPT ![j] = g]
        /\ answer' \in {"none", "ok", "error"}
        /\ ReadyAt(p, o, c, t, "none", g)
  <2>0. answer \in {"none", "ok", "error"}
    BY DEF TypeInv, FilesInv
  <2>1. CASE Goto(j, "apply") /\ UNCHANGED job
    <3>1. ReadyAt("apply", op[j], copy[j], text[j], "none", target[j])
      BY <1>1, <1>5 DEF ReadyAt, Places, Names
    <3> QED
      BY <1>4, <2>0, <2>1, <3>1, Same DEF Goto, job
  <2>2. CASE Goto(j, "save") /\ op' = [op EXCEPT ![j] = "login"] /\ UNCHANGED <<copy, text, target, answer>>
    <3>1. ReadyAt("save", "login", copy[j], text[j], "none", target[j])
      BY <1>1, <1>5 DEF ReadyAt, Places, Names, Kinds, Fresh, Besides
    <3> QED
      BY <1>4, <2>0, <2>2, <3>1, Same DEF Goto
  <2>3. CASE End(j, "ok")
    <3>1. ReadyAt("idle", "none", None, None, "none", None)
      BY DEF ReadyAt, Places, Kinds, Names, Fresh, Besides
    <3> QED
      BY <2>3, <3>1 DEF End, Goto
  <2> QED
    BY <2>1, <2>2, <2>3 DEF Rename
<1>7. JobsInv'
  <2>1. /\ p \in Places /\ o \in Kinds /\ c \in Config \cup {None} /\ t \in Config \cup {Torn, None}
        /\ g \in {None} \cup Seconds \cup SUBSET Users
    BY <1>6 DEF ReadyAt
  <2>2. held' \in [Jobs -> Names]
    BY <1>1, <1>4 DEF JobsInv, Names, Renamed
  <2>3. ASSUME NEW i \in Jobs
        PROVE  ReadyAt(pc[i], op[i], copy[i], text[i], held[i], target[i])'
    <3>1. CASE i = j
      <4>1. /\ pc'[j] = p /\ op'[j] = o /\ copy'[j] = c /\ text'[j] = t /\ target'[j] = g
            /\ held'[j] = "none"
        BY <1>1, <1>3, <1>4, <1>6 DEF JobsInv
      <4> QED
        BY <1>6, <3>1, <4>1
    <3>2. CASE i # j
      <4>1. /\ pc'[i] = pc[i] /\ op'[i] = op[i] /\ copy'[i] = copy[i] /\ text'[i] = text[i]
            /\ target'[i] = target[i] /\ held'[i] = Renamed(held[i])
        BY <1>1, <1>4, <1>6, <3>2 DEF JobsInv
      <4> QED
        BY <4>1, NowIs, RenamedReady
    <3> QED
      BY <3>1, <3>2
  <2>4. /\ pc' \in [Jobs -> Places] /\ op' \in [Jobs -> Kinds]
        /\ copy' \in [Jobs -> Config \cup {None}] /\ text' \in [Jobs -> Config \cup {Torn, None}]
        /\ target' \in [Jobs -> {None} \cup Seconds \cup SUBSET Users]
    BY <1>4, <1>6, <2>1 DEF JobsInv
  <2> QED
    BY <2>2, <2>3, <2>4 DEF JobsInv
<1>8. alone' \subseteq {i \in Jobs : pc'[i] # "idle"} /\ undo' \in [Jobs -> Pairs \cup {None}]
  BY <1>1, GhostsAre
<1>9. disk' \in Config \cup {Torn}
  BY <1>1 DEF TypeInv, FilesInv
<1> QED
  BY <1>1, <1>2, <1>6, <1>7, <1>8, <1>9 DEF TypeInv, FilesInv

LEMMA EndSteps ==
  ASSUME TypeInv, NEW j \in Jobs, SaveFails(j) \/ Apply(j) \/ RestoreFails(j) \/ RestoreXray(j)
  PROVE  TypeInv'
<1>0. ReadyAt(pc[j], op[j], copy[j], text[j], held[j], target[j])
  BY NowIs
<1>1. PICK a \in {"ok", "error"} : End(j, a)
  BY DEF SaveFails, Apply, RestoreFails, RestoreXray
<1>2. held' = [held EXCEPT ![j] = "none"]
  <2>1. CASE SaveFails(j)
    BY <2>1 DEF SaveFails
  <2>2. CASE Apply(j) \/ RestoreFails(j) \/ RestoreXray(j)
    <3>1. held' = held /\ pc[j] \notin {"write", "stack"}
      BY <2>2 DEF Apply, RestoreFails, RestoreXray
    <3> QED
      BY <3>1, NowIs
  <2> QED
    BY <2>1, <2>2
<1>3. JobsInv' /\ answer' = a /\ pc' = [pc EXCEPT ![j] = "idle"]
  BY <1>1, <1>2, EndIs
<1>4. alone' \subseteq {i \in Jobs : pc'[i] # "idle"} /\ undo' \in [Jobs -> Pairs \cup {None}]
  <2>1. UNCHANGED undo /\ (Disturb(j) \/ alone' = alone \ {j})
    BY DEF SaveFails, Apply, RestoreFails, RestoreXray
  <2> QED
    BY <1>3, <2>1, GhostsAre
<1>5. /\ disk \in Config \cup {Torn} /\ tmp \in Config \cup {Torn, None} /\ mem \in Config
      /\ live \in Rendered \cup {Raw} /\ dir \in Dirs /\ now \in Seconds /\ up \in BOOLEAN
      /\ met \in BOOLEAN /\ faults \in Nat
  BY DEF TypeInv, FilesInv
<1>6. faults' \in Nat
  BY <1>5 DEF SaveFails, Apply, RestoreFails, RestoreXray
<1>7. disk' \in Config \cup {Torn} /\ tmp' \in Config \cup {Torn, None}
      /\ UNCHANGED <<dir, now, up, met>>
  BY <1>5 DEF SaveFails, Apply, RestoreFails, RestoreXray, files
<1>8. mem' \in Config
  <2>1. CASE SaveFails(j)
    <3>1. mem' = IF op[j] = "reverting" THEN [mem EXCEPT !.relay = copy[j].relay] ELSE mem
      BY <2>1 DEF SaveFails
    <3>2. CASE op[j] = "reverting"
      <4>1. copy[j] \in Config
        BY <2>1, <3>2, SavedIs DEF SaveFails
      <4>2. copy[j].relay \in [sites : SUBSET Sites, listen : {"good", "bad"}]
        BY <4>1 DEF Config
      <4> QED
        BY <1>5, <3>1, <3>2, <4>2, WithRelay
    <3> QED
      BY <1>5, <3>1, <3>2
  <2>2. CASE Apply(j) \/ RestoreFails(j) \/ RestoreXray(j)
    BY <1>5, <2>2 DEF Apply, RestoreFails, RestoreXray
  <2> QED
    BY <2>1, <2>2
<1>9. live' \in Rendered \cup {Raw}
  <2>1. CASE SaveFails(j) \/ RestoreFails(j)
    BY <1>5, <2>1 DEF SaveFails, RestoreFails, files
  <2>2. CASE Apply(j)
    <3>1. IF op[j] \in {"switch", "manager"} THEN copy[j] \in Config ELSE mem \in Config
      BY <1>5, <2>2, SavedIs DEF Apply, Fresh, Besides
    <3>2. Rendering(j) \in Rendered
      BY <3>1, RenderIs DEF Rendering
    <3> QED
      BY <1>5, <2>2, <3>2 DEF Apply
  <2>3. CASE RestoreXray(j)
    <3>1. target[j] \in Seconds
      BY <1>0, <2>3 DEF RestoreXray, ReadyAt
    <3>2. dir[target[j]] \in Snapshot \cup {None}
      BY <1>5, <3>1 DEF Dirs
    <3>3. dir[target[j]] # None /\ dir[target[j]].xray # None =>
            dir[target[j]].xray \in Rendered \cup {Raw}
      BY <3>2 DEF Snapshot, Rendered
    <3> QED
      BY <1>5, <2>3, <3>3 DEF RestoreXray
  <2> QED
    BY <2>1, <2>2, <2>3
<1> QED
  BY <1>3, <1>4, <1>5, <1>6, <1>7, <1>8, <1>9 DEF TypeInv, FilesInv

LEMMA RestoreSteps ==
  ASSUME TypeInv, NEW j \in Jobs, RestoreOpen(j) \/ RestoreStack(j)
  PROVE  TypeInv'
<1>0. ReadyAt(pc[j], op[j], copy[j], text[j], held[j], target[j])
  BY NowIs
<1>1. CASE RestoreOpen(j)
  <2>1. /\ pc[j] = "restore" /\ dir[target[j]] # None /\ disk' = Torn
        /\ text' = [text EXCEPT ![j] = dir[target[j]].stack]
        /\ held' = [held EXCEPT ![j] = "disk"] /\ pc' = [pc EXCEPT ![j] = "stack"]
        /\ Disturb(j) /\ met' \in BOOLEAN
        /\ UNCHANGED <<tmp, live, dir, mem, now, up, op, copy, target, answer, faults>>
    BY <1>1 DEF RestoreOpen, Goto, TypeInv, FilesInv
  <2>2. op[j] = "rollback" /\ target[j] \in Seconds
    BY <1>0, <2>1 DEF ReadyAt
  <2>3. dir[target[j]].stack \in Config \cup {Torn} /\ dir[target[j]].stack # None
    <3>1. dir[target[j]] \in Snapshot
      BY <2>1, <2>2 DEF TypeInv, FilesInv, Dirs
    <3> QED
      BY <3>1, ValueAssumption DEF Snapshot
  <2>4. ReadyAt("stack", op[j], copy[j], dir[target[j]].stack, "disk", target[j])
    BY <1>0, <2>1, <2>2, <2>3 DEF ReadyAt, Places, Names, Fresh, Besides
  <2>5. JobsInv'
    BY <2>1, <2>4, GoIs
  <2>6. alone' \subseteq {i \in Jobs : pc'[i] # "idle"} /\ undo' \in [Jobs -> Pairs \cup {None}]
    <3>1. undo' = [undo EXCEPT ![j] = <<disk, live>>] \/ undo' = [undo EXCEPT ![j] = None]
      BY <1>1 DEF RestoreOpen
    <3> QED
      BY <2>1, <3>1, GhostsAre
  <2> QED
    BY <2>1, <2>5, <2>6 DEF TypeInv, FilesInv
<1>2. CASE RestoreStack(j)
  <2>1. pc[j] = "stack" /\ held' = [held EXCEPT ![j] = "none"] /\ Disturb(j)
        /\ UNCHANGED <<tmp, live, dir, mem, now, up, met, undo>>
    BY <1>2 DEF RestoreStack
  <2>2. /\ text[j] \in Config \cup {Torn} /\ disk \in Config \cup {Torn}
        /\ faults \in Nat /\ answer \in {"none", "ok", "error"}
    BY <1>0, <2>1 DEF ReadyAt, TypeInv, FilesInv
  <2>3. disk' \in Config \cup {Torn} /\ faults' \in Nat
    BY <1>2, <2>2 DEF RestoreStack, Written
  <2>4. JobsInv' /\ answer' \in {"none", "ok", "error"}
    <3>1. CASE pc' = [pc EXCEPT ![j] = "xray"] /\ UNCHANGED job
      <4>1. ReadyAt("xray", op[j], copy[j], text[j], "none", target[j])
        BY <1>0, <2>1 DEF ReadyAt, Places, Names, Fresh, Besides
      <4> QED
        BY <2>1, <2>2, <3>1, <4>1, Same, GoIs DEF job, TypeInv
    <3>2. CASE End(j, "error")
      BY <2>1, <3>2, EndIs
    <3> QED
      BY <1>2, <3>1, <3>2 DEF RestoreStack, Goto
  <2>5. alone' \subseteq {i \in Jobs : pc'[i] # "idle"} /\ undo' \in [Jobs -> Pairs \cup {None}]
    BY <2>1, GhostsAre
  <2> QED
    BY <2>1, <2>3, <2>4, <2>5 DEF TypeInv, FilesInv
<1> QED
  BY <1>1, <1>2

LEMMA DaemonSteps ==
  ASSUME TypeInv, Manual \/ Tick \/ Crash \/ Start
  PROVE  TypeInv'
<1>0. /\ disk \in Config \cup {Torn} /\ tmp \in Config \cup {Torn, None} /\ mem \in Config
      /\ live \in Rendered \cup {Raw} /\ dir \in Dirs /\ now \in Seconds /\ up \in BOOLEAN
      /\ met \in BOOLEAN /\ faults \in Nat /\ alone \subseteq {j \in Jobs : pc[j] # "idle"}
      /\ answer \in {"none", "ok", "error"} /\ undo \in [Jobs -> Pairs \cup {None}]
  BY DEF TypeInv, FilesInv
<1>1. CASE Manual
  <2>1. PICK s \in {"manual", "auto"} : Capture(s)
    BY <1>1 DEF Manual
  <2>2. dir' \in Dirs /\ faults' \in Nat /\ met' \in BOOLEAN
    BY <2>1, CaptureIs
  <2>3. live' \in Rendered \cup {Raw}
    <3>1. disk \in Config
      BY <1>0, <1>1 DEF Manual, Request, Loads
    <3> QED
      BY <1>0, <1>1, <3>1, RenderIs DEF Manual
  <2>4. JobsInv'
    BY <1>1 DEF Manual, TypeInv, JobsInv, ReadyAt
  <2>5. undo' \in [Jobs -> Pairs \cup {None}] /\ alone' = {}
        /\ UNCHANGED <<disk, tmp, mem, now, up, answer>>
    BY <1>1 DEF Manual
  <2> QED
    BY <1>0, <2>2, <2>3, <2>4, <2>5 DEF TypeInv, FilesInv
<1>2. CASE Tick
  <2>1. now' \in Seconds
    BY <1>0, <1>2, BoundsAssumption DEF Tick, Seconds
  <2>2. JobsInv' /\ UNCHANGED <<files, mem, up, pc, answer, faults, met, alone, undo>>
    BY <1>2 DEF Tick, job, TypeInv, JobsInv, ReadyAt
  <2> QED
    BY <1>0, <2>1, <2>2 DEF TypeInv, FilesInv, files
<1>3. CASE Crash
  <2> DEFINE cli == {j \in Jobs : op[j] = "cli"}
  <2>1. /\ pc' = [j \in Jobs |-> IF j \in cli THEN pc[j] ELSE "idle"]
        /\ op' = [j \in Jobs |-> IF j \in cli THEN op[j] ELSE "none"]
        /\ copy' = [j \in Jobs |-> IF j \in cli THEN copy[j] ELSE None]
        /\ text' = [j \in Jobs |-> IF j \in cli THEN text[j] ELSE None]
        /\ held' = [j \in Jobs |-> IF j \in cli THEN held[j] ELSE "none"]
        /\ target' = [j \in Jobs |-> None]
    BY <1>3 DEF Crash
  <2>2. ASSUME NEW j \in Jobs
        PROVE  ReadyAt(pc[j], op[j], copy[j], text[j], held[j], target[j])'
    <3>1. CASE j \in cli
      <4>1. op[j] = "cli"
        BY <3>1
      <4>2. /\ pc'[j] = pc[j] /\ op'[j] = op[j] /\ copy'[j] = copy[j] /\ text'[j] = text[j]
            /\ held'[j] = held[j] /\ target'[j] = None
        BY <2>1, <3>1
      <4>3. ReadyAt(pc[j], op[j], copy[j], text[j], held[j], None)
        BY <4>1, NowIs DEF ReadyAt
      <4> QED
        BY <4>2, <4>3
    <3>2. CASE j \notin cli
      <4>1. ReadyAt("idle", "none", None, None, "none", None)
        BY DEF ReadyAt, Places, Kinds, Names, Fresh, Besides
      <4> QED
        BY <2>1, <3>2, <4>1
    <3> QED
      BY <3>1, <3>2
  <2>3. JobsInv'
    <3>1. /\ pc \in [Jobs -> Places] /\ op \in [Jobs -> Kinds]
          /\ copy \in [Jobs -> Config \cup {None}] /\ text \in [Jobs -> Config \cup {Torn, None}]
          /\ held \in [Jobs -> Names]
      BY DEF TypeInv, JobsInv
    <3>2. pc' \in [Jobs -> Places] /\ op' \in [Jobs -> Kinds] /\ held' \in [Jobs -> Names]
      BY <2>1, <3>1 DEF Places, Kinds, Names
    <3>3. /\ copy' \in [Jobs -> Config \cup {None}] /\ text' \in [Jobs -> Config \cup {Torn, None}]
          /\ target' \in [Jobs -> {None} \cup Seconds \cup SUBSET Users]
      BY <2>1, <3>1
    <3> QED
      BY <2>2, <3>2, <3>3 DEF JobsInv
  <2>4. /\ alone' = {} /\ answer' = "none" /\ up' = FALSE /\ faults' = faults + 1
        /\ UNCHANGED <<files, mem, now, met, undo>>
    BY <1>3 DEF Crash
  <2>5. /\ disk' \in Config \cup {Torn} /\ tmp' \in Config \cup {Torn, None} /\ mem' \in Config
        /\ live' \in Rendered \cup {Raw} /\ dir' \in Dirs /\ now' \in Seconds
    BY <1>0, <2>4 DEF files
  <2>8. up' \in BOOLEAN
    BY <1>3, Zenon DEF Crash
  <2>6. met' \in BOOLEAN /\ answer' \in {"none", "ok", "error"} /\ faults' \in Nat
    BY <1>0, <2>4
  <2>7. alone' \subseteq {j \in Jobs : pc[j] # "idle"}' /\ undo' \in [Jobs -> Pairs \cup {None}]'
    BY <1>0, <2>4 DEF Pairs, Rendered
  <2> QED
    BY <2>3, <2>5, <2>6, <2>7, <2>8 DEF TypeInv, FilesInv, Dirs, Pairs, Rendered
<1>4. CASE Start
  <2>1. disk \in Config
    BY <1>0, <1>4 DEF Start, Loads
  <2>2. JobsInv' /\ UNCHANGED <<files, now, pc, answer, faults, met, undo>>
        /\ up' = TRUE /\ mem' = disk /\ alone' = {}
    BY <1>4 DEF Start, job, TypeInv, JobsInv, ReadyAt
  <2> QED
    BY <1>0, <2>1, <2>2 DEF TypeInv, FilesInv, files
<1> QED
  BY <1>1, <1>2, <1>3, <1>4

THEOREM TypeCorrect == Spec => []TypeInv
<1>1. Init => TypeInv
  <2> SUFFICES ASSUME Init PROVE TypeInv
    OBVIOUS
  <2>1. /\ disk \in Config /\ tmp = None /\ mem \in Config /\ now = 1 /\ up = TRUE /\ met = FALSE
        /\ alone = {} /\ answer = "none" /\ faults = 0 /\ undo = [j \in Jobs |-> None]
        /\ live \in Rendered
    BY FirstAssumption, RenderIs DEF Init
  <2>2. 1 \in Seconds
    BY BoundsAssumption DEF Seconds
  <2>3. [source |-> "auto", stack |-> FirstConfig, xray |-> Raw] \in Snapshot
    BY FirstAssumption DEF Snapshot
  <2>4. dir \in Dirs
    BY <2>3 DEF Init, Dirs
  <2>5. ReadyAt("idle", "none", None, None, "none", None)
    BY DEF ReadyAt, Places, Kinds, Names, Fresh, Besides
  <2>6. /\ pc = [j \in Jobs |-> "idle"] /\ op = [j \in Jobs |-> "none"]
        /\ copy = [j \in Jobs |-> None] /\ text = [j \in Jobs |-> None]
        /\ held = [j \in Jobs |-> "none"] /\ target = [j \in Jobs |-> None]
    BY DEF Init
  <2>7. /\ "idle" \in Places /\ "none" \in Kinds /\ "none" \in Names
    BY DEF Places, Kinds, Names
  <2>8. JobsInv
    BY <2>5, <2>6, <2>7 DEF JobsInv
  <2> QED
    BY <2>1, <2>2, <2>4, <2>8 DEF TypeInv, FilesInv
<1>2. TypeInv /\ [Next]_vars => TypeInv'
  <2> SUFFICES ASSUME TypeInv, [Next]_vars PROVE TypeInv'
    OBVIOUS
  <2>1. ASSUME NEW j \in Jobs, Edit(j) \/ Other(j) PROVE TypeInv'
    BY <2>1, BeginIs, StartedTypes
  <2>2. ASSUME NEW j \in Jobs, Proceed(j) PROVE TypeInv'
    BY <2>2, CaptureSteps, SaveSteps, RenameTypes, EndSteps, RestoreSteps DEF Proceed
  <2>3. CASE UNCHANGED vars
    BY <2>3 DEF vars, TypeInv, FilesInv, JobsInv, ReadyAt
  <2> QED
    BY <2>1, <2>2, <2>3, DaemonSteps DEF Next
<1> QED
  BY <1>1, <1>2, PTL DEF Spec

\* The variables hold what they are meant to hold.
THEOREM WellTyped == Spec => []TypeOK
<1>1. TypeInv => TypeOK
  BY TypeInvImplies
<1> QED
  BY <1>1, TypeCorrect, PTL

-----------------------------------------------------------------------------
(* stack.json loads.  It is torn only after a failure, or where two jobs   *)
(* have had a file open at once, or while a rollback has it open; and what *)
(* is not torn is valid.  For that, as long as no two jobs have met: one   *)
(* job at a time is between opening stack.json.tmp and renaming it, what   *)
(* it has open has still that name, and the file is a whole config when it *)
(* comes to the rename; and one rollback at a time has stack.json open,    *)
(* which is torn as long.  The snapshots and the texts that rollbacks copy *)
(* are as good as stack.json was when they were taken.                     *)

Good(s) == IF s = Torn THEN faults > 0 \/ met ELSE Validate(s)

OneWriter ==
  /\ \A i, j \in Jobs : pc[i] \in {"write", "rename"} /\ pc[j] \in {"write", "rename"} => i = j
  /\ \A j \in Jobs :
       /\ pc[j] = "write" => held[j] = "tmp" /\ tmp = Torn
       /\ pc[j] = "rename" => tmp \in Config

OneRestorer ==
  /\ \A i, j \in Jobs : held[i] = "disk" /\ held[j] = "disk" => i = j
  /\ \A j \in Jobs : held[j] = "disk" => disk = Torn

SafeInv ==
  /\ disk = Torn => faults > 0 \/ met \/ \E j \in Jobs : held[j] = "disk"
  /\ disk # Torn => Validate(disk)
  /\ tmp \notin {Torn, None} => Validate(tmp)
  /\ \A t \in Seconds : dir[t] # None => Good(dir[t].stack)
  /\ \A j \in Jobs : pc[j] = "stack" => Good(text[j])
  /\ ~met => OneWriter /\ OneRestorer

LEMMA SafeInvImplies ==
  ASSUME TypeInv, SafeInv
  PROVE  StoredLoads
<1>1. ASSUME NEW j \in Jobs, held[j] = "disk", ~met
      PROVE  pc[j] = "stack"
  <2>1. pc[j] \in {"write", "stack"}
    BY <1>1, NowIs DEF ReadyAt
  <2> QED
    BY <1>1, <2>1 DEF SafeInv, OneWriter
<1> QED
  BY <1>1 DEF SafeInv, StoredLoads

\* What a file held only while a config is saved, or none, says of the place.
LEMMA HeldIs ==
  ASSUME TypeInv, NEW j \in Jobs
  PROVE  /\ held[j] # "none" => pc[j] \in {"write", "stack"}
         /\ held[j] = "tmp" => pc[j] = "write"
         /\ pc[j] = "stack" => held[j] \in {"disk", "gone"}
BY NowIs DEF ReadyAt, Names

\* A step that leaves the files alone, and lets no job begin to use one.
Quiet ==
  /\ UNCHANGED <<disk, tmp>>
  /\ faults' \in Nat /\ faults' >= faults /\ (met => met')
  /\ \A i \in Jobs :
       \/ pc'[i] = pc[i] /\ held'[i] = held[i] /\ text'[i] = text[i]
       \/ /\ pc'[i] \notin {"write", "rename", "stack"} /\ held'[i] = "none"
          /\ held[i] # "disk" \/ faults' > 0
  /\ \A t \in Seconds :
       \/ dir'[t] \in {dir[t], None}
       \/ dir'[t].stack = disk /\ ((\E j \in Jobs : held[j] = "disk") => met')
       \/ dir'[t].stack = Torn /\ faults' > 0

LEMMA QuietSafe ==
  ASSUME TypeInv, SafeInv, Quiet
  PROVE  SafeInv'
<1>0. faults \in Nat /\ (faults > 0 => faults' > 0) /\ met \in BOOLEAN
  BY DEF TypeInv, FilesInv, Quiet
<1>1. disk' = Torn => faults' > 0 \/ met' \/ \E j \in Jobs : held'[j] = "disk"
  <2>1. SUFFICES ASSUME disk = Torn, ~(faults' > 0), ~met' PROVE \E j \in Jobs : held'[j] = "disk"
    BY DEF Quiet
  <2>2. PICK j \in Jobs : held[j] = "disk"
    BY <2>1, <1>0 DEF SafeInv, Quiet
  <2> QED
    BY <2>1, <2>2 DEF Quiet
<1>2. disk' # Torn => Validate(disk')
  BY DEF SafeInv, Quiet
<1>3. tmp' \notin {Torn, None} => Validate(tmp')
  BY DEF SafeInv, Quiet
<1>4. ASSUME NEW t \in Seconds, dir'[t] # None PROVE Good(dir[t].stack)'
  <2>1. CASE dir'[t] = dir[t]
    BY <1>0, <1>4, <2>1 DEF SafeInv, Good, Quiet
  <2>2. CASE dir'[t].stack = disk /\ ((\E j \in Jobs : held[j] = "disk") => met')
    BY <1>0, <2>2 DEF SafeInv, Good, Quiet
  <2>3. CASE dir'[t].stack = Torn /\ faults' > 0
    BY <2>3 DEF Good
  <2> QED
    BY <1>4, <2>1, <2>2, <2>3 DEF Quiet
<1>5. ASSUME NEW j \in Jobs, pc'[j] = "stack" PROVE Good(text[j])'
  <2>1. pc[j] = "stack" /\ text'[j] = text[j]
    BY <1>5 DEF Quiet
  <2> QED
    BY <1>0, <2>1 DEF SafeInv, Good, Quiet
<1>6. ASSUME ~met' PROVE OneWriter' /\ OneRestorer'
  <2>1. OneWriter /\ OneRestorer
    BY <1>6 DEF SafeInv, Quiet
  <2>2. ASSUME NEW i \in Jobs
        PROVE  /\ pc'[i] \in {"write", "rename"} => pc[i] = pc'[i] /\ held[i] = held'[i]
               /\ held'[i] = "disk" => held[i] = "disk"
    BY DEF Quiet
  <2>3. disk' = disk /\ tmp' = tmp
    BY DEF Quiet
  <2>4. OneWriter'
    BY <2>1, <2>2, <2>3 DEF OneWriter
  <2>5. OneRestorer'
    BY <2>1, <2>2, <2>3 DEF OneRestorer
  <2> QED
    BY <2>4, <2>5
<1> QED
  BY <1>1, <1>2, <1>3, <1>4, <1>5, <1>6 DEF SafeInv

LEMMA StartedSafe ==
  ASSUME TypeInv, SafeInv, NEW j \in Jobs, Started(j)
  PROVE  SafeInv'
<1>1. PICK p \in {"idle", "save", "snap", "quota", "pre"} : \E o, c, g :
        Turn(j, p, o, c, text[j], held[j], g)
  BY DEF Started
<1>2. PICK o, c, g : Turn(j, p, o, c, text[j], held[j], g)
  BY <1>1
<1>3. held[j] = "none"
  BY IdleIs DEF Started
<1>4. ASSUME NEW i \in Jobs
      PROVE  \/ pc'[i] = pc[i] /\ held'[i] = held[i] /\ text'[i] = text[i]
             \/ pc'[i] \notin {"write", "rename", "stack"} /\ held'[i] = "none" /\ held[i] # "disk"
  <2>1. /\ pc'[j] = p /\ held'[j] = "none"
        /\ \A k \in Jobs \ {j} : pc'[k] = pc[k] /\ text'[k] = text[k] /\ held'[k] = held[k]
    BY <1>2, <1>3, TurnIs DEF TypeInv
  <2> QED
    BY <1>3, <2>1
<1>5. UNCHANGED <<disk, tmp, dir, faults, met>> /\ faults \in Nat
  BY DEF Started, TypeInv, FilesInv
<1>6. Quiet
  BY <1>4, <1>5 DEF Quiet
<1> QED
  BY <1>6, QuietSafe

\* The steps of a job that leave stack.json and stack.json.tmp alone.
LEMMA QuietSteps ==
  ASSUME TypeInv, SafeInv, NEW j \in Jobs,
         \/ QuotaPlan(j) \/ QuotaStops(j) \/ Snap(j) \/ PreSnapshot(j)
         \/ Marshal(j) \/ Apply(j) \/ RestoreFails(j) \/ RestoreXray(j)
  PROVE  SafeInv'
<1>0. faults \in Nat /\ met \in BOOLEAN /\ JobsInv
  BY DEF TypeInv, FilesInv
<1>1. pc[j] \notin {"write", "stack"} /\ UNCHANGED <<disk, tmp, held>>
  BY DEF QuotaPlan, QuotaStops, Snap, PreSnapshot, Marshal, Apply, RestoreFails, RestoreXray, files
<1>2. held[j] = "none"
  BY <1>1, NowIs
<1>3. PICK p \in {"idle", "save", "restore", "open"} : pc' = [pc EXCEPT ![j] = p]
  BY DEF QuotaPlan, QuotaStops, Snap, PreSnapshot, Marshal, Apply, RestoreFails, RestoreXray,
         End, Goto
<1>4. \E t : text' = [text EXCEPT ![j] = t]
  <2>1. \/ text' = [text EXCEPT ![j] = None] \/ text' = text
        \/ text' = [text EXCEPT ![j] = Saved(j)]
    BY DEF QuotaPlan, QuotaStops, Snap, PreSnapshot, Marshal, Apply, RestoreFails, RestoreXray,
           End, job
  <2> QED
    BY <1>0, <2>1, Same
<1>5. ASSUME NEW i \in Jobs
      PROVE  \/ pc'[i] = pc[i] /\ held'[i] = held[i] /\ text'[i] = text[i]
             \/ pc'[i] \notin {"write", "rename", "stack"} /\ held'[i] = "none" /\ held[i] # "disk"
  <2>1. pc'[j] = p /\ \A k \in Jobs \ {j} : pc'[k] = pc[k] /\ text'[k] = text[k]
    BY <1>0, <1>3, <1>4 DEF JobsInv
  <2> QED
    BY <1>1, <1>2, <2>1
<1>6. CASE QuotaPlan(j) \/ QuotaStops(j) \/ Snap(j) \/ PreSnapshot(j)
  <2>1. Capture("auto")
    BY <1>6 DEF QuotaPlan, QuotaStops, Snap, PreSnapshot
  <2>2. Quiet
    BY <1>1, <1>5, <2>1, CaptureIs DEF Quiet
  <2> QED
    BY <2>2, QuietSafe
<1>7. CASE Marshal(j) \/ Apply(j) \/ RestoreFails(j) \/ RestoreXray(j)
  <2>1. UNCHANGED <<dir, met>> /\ faults' \in Nat /\ faults' >= faults
    BY <1>0, <1>7 DEF Marshal, Apply, RestoreFails, RestoreXray, files
  <2>2. Quiet
    BY <1>1, <1>5, <2>1 DEF Quiet
  <2> QED
    BY <2>2, QuietSafe
<1> QED
  BY <1>6, <1>7

LEMMA DaemonSafe ==
  ASSUME TypeInv, SafeInv, Manual \/ Tick \/ Crash \/ Start
  PROVE  SafeInv'
<1>0. faults \in Nat
  BY DEF TypeInv, FilesInv
<1>1. CASE Manual
  <2>1. PICK s \in {"manual", "auto"} : Capture(s)
    BY <1>1 DEF Manual
  <2>2. UNCHANGED <<disk, tmp, pc, text, held>>
    BY <1>1 DEF Manual
  <2>3. Quiet
    BY <2>1, <2>2, CaptureIs DEF Quiet
  <2> QED
    BY <2>3, QuietSafe
<1>2. CASE Tick \/ Start
  <2>1. Quiet
    BY <1>0, <1>2 DEF Quiet, Tick, Start, files, job
  <2> QED
    BY <2>1, QuietSafe
<1>3. CASE Crash
  <2>1. faults' = faults + 1 /\ UNCHANGED <<disk, tmp, dir, met>>
    BY <1>3 DEF Crash, files
  <2>2. faults' \in Nat /\ faults' >= faults /\ faults' > 0
    BY <1>0, <2>1
  <2>3. ASSUME NEW i \in Jobs
        PROVE  \/ pc'[i] = pc[i] /\ held'[i] = held[i] /\ text'[i] = text[i]
               \/ pc'[i] = "idle" /\ held'[i] = "none"
    BY <1>3 DEF Crash
  <2>4. Quiet
    BY <2>1, <2>2, <2>3 DEF Quiet
  <2> QED
    BY <2>4, QuietSafe
<1> QED
  BY <1>1, <1>2, <1>3

\* The steps of a save.  Each looks at three things: the files, the texts
\* of rollbacks, and what holds as long as no two jobs have met.
LEMMA OpenSafe ==
  ASSUME TypeInv, SafeInv, NEW j \in Jobs, OpenTmp(j)
  PROVE  SafeInv'
<1>0. JobsInv /\ met \in BOOLEAN
  BY DEF TypeInv, FilesInv
<1>1. /\ pc[j] = "open" /\ tmp' = Torn
      /\ met' = (met \/ \E i \in Jobs \ {j} : pc[i] \in {"write", "rename"})
      /\ pc'[j] = "write" /\ held'[j] = "tmp"
      /\ \A i \in Jobs \ {j} : pc'[i] = pc[i] /\ held'[i] = held[i]
      /\ UNCHANGED <<disk, dir, text, faults>>
  BY <1>0 DEF OpenTmp, Goto, JobsInv
<1>2. held[j] = "none" /\ (met => met')
  BY <1>1, NowIs
<1>3. disk' = Torn => faults' > 0 \/ met' \/ \E i \in Jobs : held'[i] = "disk"
  <2>1. \A i \in Jobs : held[i] = "disk" => held'[i] = "disk"
    BY <1>1, <1>2
  <2> QED
    BY <1>1, <1>2, <2>1 DEF SafeInv
<1>4. /\ \A t \in Seconds : dir'[t] # None => Good(dir[t].stack)'
      /\ \A i \in Jobs : pc'[i] = "stack" => Good(text[i])'
  BY <1>1, <1>2 DEF SafeInv, Good
<1>5. ASSUME ~met' PROVE OneWriter' /\ OneRestorer'
  <2>1. OneWriter /\ OneRestorer
    BY <1>2, <1>5 DEF SafeInv
  <2>2. \A i \in Jobs \ {j} : pc[i] \notin {"write", "rename"}
    BY <1>1, <1>5
  <2>3. OneWriter'
    BY <1>1, <2>2 DEF OneWriter
  <2>4. OneRestorer'
    BY <1>1, <2>1 DEF OneRestorer
  <2> QED
    BY <2>3, <2>4
<1>6. disk' # Torn => Validate(disk')
  BY <1>1 DEF SafeInv
<1> QED
  BY <1>1, <1>3, <1>4, <1>5, <1>6 DEF SafeInv

LEMMA WriteSafe ==
  ASSUME TypeInv, SafeInv, NEW j \in Jobs, WriteTmp(j)
  PROVE  SafeInv'
<1>0. JobsInv /\ met \in BOOLEAN /\ faults \in Nat
  BY DEF TypeInv, FilesInv
<1>1. /\ pc[j] = "write" /\ pc'[j] = "rename" /\ held'[j] = "none"
      /\ \A i \in Jobs \ {j} : pc'[i] = pc[i] /\ held'[i] = held[i]
      /\ UNCHANGED <<dir, text, faults, met>>
  BY <1>0 DEF WriteTmp, Goto, JobsInv
<1>2. /\ IF held[j] = "tmp" THEN tmp' \in Written(tmp, text[j]) ELSE UNCHANGED tmp
      /\ IF held[j] = "disk" THEN disk' \in Written(disk, text[j]) ELSE UNCHANGED disk
  BY DEF WriteTmp
<1>3. text[j] \in Config /\ Validate(text[j]) /\ Torn \notin Config /\ None \notin Config
  BY <1>1, NowIs, ValueAssumption DEF ReadyAt
<1>4. disk' # Torn => Validate(disk')
  BY <1>2, <1>3 DEF SafeInv, Written
<1>5. tmp' \notin {Torn, None} => Validate(tmp')
  BY <1>2, <1>3 DEF SafeInv, Written
<1>6. /\ \A t \in Seconds : dir'[t] # None => Good(dir[t].stack)'
      /\ \A i \in Jobs : pc'[i] = "stack" => Good(text[i])'
  BY <1>1 DEF SafeInv, Good
<1>7. ASSUME ~met'
      PROVE  /\ OneWriter' /\ OneRestorer' /\ held[j] = "tmp" /\ disk' = disk
  <2>1. OneWriter /\ OneRestorer
    BY <1>1, <1>7 DEF SafeInv
  <2>2. held[j] = "tmp" /\ tmp = Torn
    BY <1>1, <2>1 DEF OneWriter
  <2>3. tmp' = text[j] /\ disk' = disk
    BY <1>2, <2>2 DEF Written
  <2>4. \A i \in Jobs \ {j} : pc[i] \notin {"write", "rename"}
    BY <1>1, <2>1 DEF OneWriter
  <2>5. OneWriter'
    BY <1>1, <1>3, <2>3, <2>4 DEF OneWriter
  <2>6. OneRestorer'
    BY <1>1, <2>1, <2>3 DEF OneRestorer
  <2> QED
    BY <2>2, <2>3, <2>5, <2>6
<1>8. disk' = Torn => faults' > 0 \/ met' \/ \E i \in Jobs : held'[i] = "disk"
  <2>1. SUFFICES ASSUME disk' = Torn, ~(faults' > 0), ~met'
                 PROVE \E i \in Jobs : held'[i] = "disk"
    OBVIOUS
  <2>2. disk = Torn /\ held[j] = "tmp" /\ ~(faults > 0) /\ ~met
    BY <1>1, <1>7, <2>1
  <2>3. PICK i \in Jobs : held[i] = "disk"
    BY <2>2 DEF SafeInv
  <2> QED
    BY <1>1, <2>2, <2>3
<1> QED
  BY <1>1, <1>4, <1>5, <1>6, <1>7, <1>8 DEF SafeInv

LEMMA RenameSafe ==
  ASSUME TypeInv, SafeInv, NEW j \in Jobs, Rename(j)
  PROVE  SafeInv'
<1>0. JobsInv /\ met \in BOOLEAN /\ faults \in Nat
  BY DEF TypeInv, FilesInv
<1>1. /\ pc[j] = "rename" /\ tmp # None /\ disk' = tmp /\ tmp' = None
      /\ held' = [i \in Jobs |-> Renamed(held[i])]
      /\ UNCHANGED <<dir, faults, met>>
  BY DEF Rename
<1>2. PICK p \in {"apply", "save", "idle"} : pc' = [pc EXCEPT ![j] = p]
  BY DEF Rename, Goto, End
<1>3. text' = text \/ text' = [text EXCEPT ![j] = None]
  BY DEF Rename, End, job
<1>4. /\ pc'[j] = p
      /\ \A i \in Jobs \ {j} : pc'[i] = pc[i] /\ text'[i] = text[i]
  BY <1>0, <1>2, <1>3 DEF JobsInv
<1>5. disk' # Torn => Validate(disk')
  BY <1>1 DEF SafeInv
<1>6. /\ \A t \in Seconds : dir'[t] # None => Good(dir[t].stack)'
      /\ \A i \in Jobs : pc'[i] = "stack" => Good(text[i])'
  BY <1>1, <1>4 DEF SafeInv, Good
<1>7. ASSUME ~met' PROVE OneWriter' /\ OneRestorer' /\ disk' # Torn
  <2>1. OneWriter /\ OneRestorer
    BY <1>1, <1>7 DEF SafeInv
  <2>2. disk' # Torn
    BY <1>1, <2>1, ValueAssumption DEF OneWriter
  <2>3. \A i \in Jobs \ {j} : pc[i] \notin {"write", "rename"}
    BY <1>1, <2>1 DEF OneWriter
  <2>4. \A i \in Jobs : held[i] # "tmp"
    BY <1>1, <2>3, HeldIs
  <2>5. \A i \in Jobs : held'[i] # "disk"
    BY <1>1, <2>4 DEF Renamed
  <2>6. OneWriter'
    BY <1>4, <2>3 DEF OneWriter
  <2>7. OneRestorer'
    BY <2>5 DEF OneRestorer
  <2> QED
    BY <2>2, <2>6, <2>7
<1> QED
  BY <1>1, <1>5, <1>6, <1>7 DEF SafeInv

LEMMA SaveFailsSafe ==
  ASSUME TypeInv, SafeInv, NEW j \in Jobs, SaveFails(j)
  PROVE  SafeInv'
<1>0. JobsInv /\ met \in BOOLEAN /\ faults \in Nat
  BY DEF TypeInv, FilesInv
<1>1. /\ pc[j] \in {"save", "open", "write", "rename"}
      /\ tmp' = (IF held[j] = "tmp" THEN Torn ELSE tmp)
      /\ disk' = (IF held[j] = "disk" THEN Torn ELSE disk)
      /\ faults' = faults \/ faults' = faults + 1
      /\ UNCHANGED <<dir, met>>
  BY DEF SaveFails
<1>2. /\ pc'[j] = "idle" /\ held'[j] = "none"
      /\ \A i \in Jobs \ {j} : pc'[i] = pc[i] /\ held'[i] = held[i] /\ text'[i] = text[i]
  BY <1>0 DEF SaveFails, End, Goto, JobsInv
<1>3. held[j] # "none" => pc[j] = "write" /\ faults' = faults + 1
  BY <1>1, HeldIs DEF SaveFails
<1>4. disk' = Torn => faults' > 0 \/ met' \/ \E i \in Jobs : held'[i] = "disk"
  <2>1. CASE held[j] = "none"
    <3>1. disk' = disk
      BY <1>1, <2>1
    <3>2. faults > 0 => faults' > 0
      BY <1>0, <1>1
    <3>3. \A i \in Jobs : held[i] = "disk" => held'[i] = "disk"
      BY <1>2, <2>1
    <3> QED
      BY <1>1, <3>1, <3>2, <3>3 DEF SafeInv
  <2>2. CASE held[j] # "none"
    BY <1>0, <1>3, <2>2
  <2> QED
    BY <2>1, <2>2
<1>5. (disk' # Torn => Validate(disk')) /\ (tmp' \notin {Torn, None} => Validate(tmp'))
  BY <1>1 DEF SafeInv
<1>6. /\ \A t \in Seconds : dir'[t] # None => Good(dir[t].stack)'
      /\ \A i \in Jobs : pc'[i] = "stack" => Good(text[i])'
  <2>1. faults > 0 => faults' > 0
    BY <1>0, <1>1
  <2> QED
    BY <1>1, <1>2, <2>1 DEF SafeInv, Good
<1>7. ASSUME ~met' PROVE OneWriter' /\ OneRestorer'
  <2>1. OneWriter /\ OneRestorer
    BY <1>1, <1>7 DEF SafeInv
  <2>2. tmp' = tmp \/ \A i \in Jobs \ {j} : pc[i] \notin {"write", "rename"}
    BY <1>1, <1>3, <2>1 DEF OneWriter
  <2>3. OneWriter'
    BY <1>2, <2>1, <2>2 DEF OneWriter
  <2>4. OneRestorer'
    BY <1>1, <1>2, <2>1 DEF OneRestorer
  <2> QED
    BY <2>3, <2>4
<1> QED
  BY <1>4, <1>5, <1>6, <1>7 DEF SafeInv

\* The steps of a rollback that write stack.json.
LEMMA RestoreOpenSafe ==
  ASSUME TypeInv, SafeInv, NEW j \in Jobs, RestoreOpen(j)
  PROVE  SafeInv'
<1>0. JobsInv /\ met \in BOOLEAN /\ faults \in Nat
  BY DEF TypeInv, FilesInv
<1>1. /\ pc[j] = "restore" /\ dir[target[j]] # None /\ disk' = Torn
      /\ met' = (met \/ \E i \in Jobs : held[i] = "disk")
      /\ pc'[j] = "stack" /\ held'[j] = "disk" /\ text'[j] = dir[target[j]].stack
      /\ \A i \in Jobs \ {j} : pc'[i] = pc[i] /\ held'[i] = held[i] /\ text'[i] = text[i]
      /\ UNCHANGED <<tmp, dir, faults>>
  BY <1>0 DEF RestoreOpen, Goto, JobsInv
<1>2. target[j] \in Seconds /\ (met => met')
  BY <1>1, NowIs DEF ReadyAt
<1>3. Good(dir[target[j]].stack)
  BY <1>1, <1>2 DEF SafeInv
<1>4. /\ \A t \in Seconds : dir'[t] # None => Good(dir[t].stack)'
      /\ \A i \in Jobs : pc'[i] = "stack" => Good(text[i])'
  BY <1>1, <1>2, <1>3 DEF SafeInv, Good
<1>5. ASSUME ~met' PROVE OneWriter' /\ OneRestorer'
  <2>1. OneWriter /\ OneRestorer
    BY <1>2, <1>5 DEF SafeInv
  <2>2. \A i \in Jobs : held[i] # "disk"
    BY <1>1, <1>5
  <2>3. OneWriter'
    BY <1>1, <2>1 DEF OneWriter
  <2>4. OneRestorer'
    BY <1>1, <2>2 DEF OneRestorer
  <2> QED
    BY <2>3, <2>4
<1> QED
  BY <1>1, <1>4, <1>5 DEF SafeInv

LEMMA RestoreStackSafe ==
  ASSUME TypeInv, SafeInv, NEW j \in Jobs, RestoreStack(j)
  PROVE  SafeInv'
<1>0. JobsInv /\ met \in BOOLEAN /\ faults \in Nat
  BY DEF TypeInv, FilesInv
<1>1. /\ pc[j] = "stack" /\ held'[j] = "none"
      /\ \A i \in Jobs \ {j} : held'[i] = held[i]
      /\ UNCHANGED <<tmp, dir, met>>
  BY <1>0 DEF RestoreStack, JobsInv
<1>2. PICK p \in {"idle", "xray"} : pc' = [pc EXCEPT ![j] = p]
  BY DEF RestoreStack, Goto, End
<1>3. \E t : text' = [text EXCEPT ![j] = t]
  BY <1>0, Same DEF RestoreStack, End, job
<1>4. pc'[j] = p /\ \A i \in Jobs \ {j} : pc'[i] = pc[i] /\ text'[i] = text[i]
  BY <1>0, <1>2, <1>3 DEF JobsInv
<1>5. \/ /\ faults' = faults
         /\ IF held[j] = "disk" THEN disk' \in Written(disk, text[j]) ELSE disk' = disk
      \/ faults' = faults + 1 /\ disk' = IF held[j] = "disk" THEN Torn ELSE disk
  BY DEF RestoreStack
<1>6. Good(text[j]) /\ (faults > 0 => faults' > 0) /\ faults' \in Nat
  BY <1>0, <1>1, <1>5 DEF SafeInv
<1>7. disk' # Torn => Validate(disk')
  BY <1>5, <1>6 DEF SafeInv, Good, Written
<1>8. disk' = Torn => faults' > 0 \/ met' \/ \E i \in Jobs : held'[i] = "disk"
  <2>1. SUFFICES ASSUME disk' = Torn, ~(faults' > 0), ~met
                 PROVE \E i \in Jobs : held'[i] = "disk"
    BY <1>1
  <2>2. faults' = faults /\ ~(faults > 0)
    BY <1>0, <1>5, <1>6, <2>1
  <2>3. text[j] # Torn
    BY <1>6, <2>1, <2>2 DEF Good
  <2>4. OneRestorer
    BY <2>1 DEF SafeInv
  <2>5. held[j] # "disk"
    BY <1>0, <1>5, <2>1, <2>2, <2>3, <2>4 DEF OneRestorer, Written
  <2>6. disk = Torn
    BY <1>5, <2>1, <2>5
  <2>7. PICK i \in Jobs : held[i] = "disk"
    BY <2>1, <2>2, <2>6 DEF SafeInv
  <2> QED
    BY <1>1, <2>5, <2>7
<1>9. /\ \A t \in Seconds : dir'[t] # None => Good(dir[t].stack)'
      /\ \A i \in Jobs : pc'[i] = "stack" => Good(text[i])'
  BY <1>1, <1>4, <1>6 DEF SafeInv, Good
<1>10. ASSUME ~met' PROVE OneWriter' /\ OneRestorer'
  <2>1. OneWriter /\ OneRestorer
    BY <1>1, <1>10 DEF SafeInv
  <2>2. OneWriter'
    BY <1>1, <1>4, <2>1 DEF OneWriter
  <2>3. ASSUME NEW i \in Jobs, held'[i] = "disk" PROVE held[i] = "disk" /\ disk' = disk
    <3>1. i # j /\ held[i] = "disk"
      BY <1>1, <2>3
    <3>2. held[j] # "disk"
      BY <2>1, <3>1 DEF OneRestorer
    <3> QED
      BY <1>5, <3>1, <3>2
  <2>4. OneRestorer'
    BY <2>1, <2>3 DEF OneRestorer
  <2> QED
    BY <2>2, <2>4
<1> QED
  BY <1>1, <1>7, <1>8, <1>9, <1>10 DEF SafeInv

\* The daemon can start again, and requests are let in: stack.json loads,
\* but for a torn write, which a failure, an overlap or a running rollback
\* explains.
THEOREM AlwaysLoads == Spec => []StoredLoads
<1>1. Init => SafeInv
  <2> SUFFICES ASSUME Init PROVE SafeInv
    OBVIOUS
  <2>1. /\ disk = FirstConfig /\ tmp = None /\ disk # Torn /\ Validate(disk)
        /\ \A j \in Jobs : pc[j] = "idle" /\ held[j] = "none"
    BY FirstAssumption, ValueAssumption DEF Init
  <2>2. \A t \in Seconds : dir[t] # None => dir[t].stack = FirstConfig
    BY DEF Init
  <2>3. \A t \in Seconds : dir[t] # None => Good(dir[t].stack)
    BY <2>1, <2>2 DEF Good
  <2> QED
    BY <2>1, <2>3 DEF SafeInv, OneWriter, OneRestorer
<1>2. TypeInv /\ SafeInv /\ [Next]_vars => SafeInv'
  <2> SUFFICES ASSUME TypeInv, SafeInv, [Next]_vars PROVE SafeInv'
    OBVIOUS
  <2>1. ASSUME NEW j \in Jobs, Edit(j) \/ Other(j) PROVE SafeInv'
    BY <2>1, BeginIs, StartedSafe
  <2>2. ASSUME NEW j \in Jobs, Proceed(j) PROVE SafeInv'
    BY <2>2, QuietSteps, OpenSafe, WriteSafe, RenameSafe, SaveFailsSafe, RestoreOpenSafe,
       RestoreStackSafe DEF Proceed
  <2>3. CASE UNCHANGED vars
    BY <2>3 DEF vars, SafeInv, Good, OneWriter, OneRestorer
  <2> QED
    BY <2>1, <2>2, <2>3, DaemonSafe DEF Next
<1>3. TypeInv /\ SafeInv => StoredLoads
  BY SafeInvImplies
<1> QED
  BY <1>1, <1>2, <1>3, TypeCorrect, PTL DEF Spec

-----------------------------------------------------------------------------
(* A rollback can be undone.  What it replaces was captured a moment ago,  *)
(* in the newest directory, which pruning keeps, unless another job has    *)
(* changed a file since then, or another capture has taken its place.      *)

Kept(d, p) == \E t \in Seconds : d[t] # None /\ d[t].stack = p[1] /\ d[t].xray = p[2]

UndoInv ==
  /\ \A t \in Seconds : t > now => dir[t] = None
  /\ \A j \in Jobs :
       /\ undo[j] # None => Kept(dir, undo[j])
       /\ pc[j] \in {"quota", "snap", "pre"} => undo[j] = None
       /\ pc[j] = "restore" /\ j \in alone /\ undo[j] # None => undo[j] = <<disk, live>>

\* A step that captures nothing.
NoCapture ==
  /\ UNCHANGED dir
  /\ \A t \in Seconds : t > now' => t > now
  /\ \A i \in Jobs :
       /\ undo'[i] \in {undo[i], None}
       /\ pc'[i] \in {"quota", "snap", "pre"} => undo'[i] = None \/ pc'[i] = pc[i]
       /\ pc'[i] = "restore" /\ i \in alone' =>
            pc[i] = "restore" /\ i \in alone /\ UNCHANGED <<disk, live>>

LEMMA NoCaptureKeeps ==
  ASSUME UndoInv, NoCapture
  PROVE  UndoInv'
BY DEF UndoInv, NoCapture, Kept

\* A step that captures, and forgets the pair of every rollback.
LEMMA ForgottenKeeps ==
  ASSUME TypeInv, UndoInv, NEW s \in {"manual", "auto"}, Capture(s), UNCHANGED now,
         \A i \in Jobs : undo'[i] = None
  PROVE  UndoInv'
BY CaptureIs DEF UndoInv

LEMMA PreSnapshotKeeps ==
  ASSUME TypeInv, UndoInv, NEW j \in Jobs, PreSnapshot(j)
  PROVE  UndoInv'
<1>0. now \in Seconds /\ faults \in Nat /\ JobsInv /\ \A t \in Seconds : t > now => t # now
  BY DEF TypeInv, FilesInv, Seconds
<1>1. /\ Capture("auto") /\ UNCHANGED <<disk, live, now>>
      /\ undo' = [i \in Jobs |-> IF i = j /\ faults' = faults THEN <<disk, live>> ELSE None]
      /\ pc'[j] = "restore"
  BY <1>0 DEF PreSnapshot, Goto, JobsInv
<1>2. CASE faults' = faults
  <2> DEFINE d == Taken("auto")
  <2>1. dir' = Prune(d)
    BY <1>0, <1>1, <1>2 DEF Capture, CaptureFails
  <2>2. /\ d \in Dirs /\ d[now] # None /\ \A t \in Seconds \ {now} : d[t] = dir[t]
        /\ d[now] = [source |-> "auto", stack |-> disk, xray |-> live]
    BY TakenIs
  <2> HIDE DEF d
  <2>3. \A t \in Seconds : t > now => d[t] = None
    BY <1>0, <2>2 DEF UndoInv
  <2>4. dir'[now] = d[now] /\ \A t \in Seconds : dir'[t] \in {d[t], None}
    BY <1>0, <2>1, <2>2, <2>3, PruneIs
  <2>5. Kept(dir', <<disk, live>>)
    BY <1>0, <2>2, <2>4 DEF Kept
  <2>6. \A t \in Seconds : t > now' => dir'[t] = None
    BY <1>1, <2>3, <2>4
  <2> QED
    BY <1>1, <2>5, <2>6 DEF UndoInv
<1>3. CASE faults' # faults
  BY <1>1, <1>3, ForgottenKeeps
<1> QED
  BY <1>2, <1>3

LEMMA RestoreOpenKeeps ==
  ASSUME TypeInv, UndoInv, NEW j \in Jobs, RestoreOpen(j)
  PROVE  UndoInv'
<1>0. JobsInv /\ undo \in [Jobs -> Pairs \cup {None}]
  BY DEF TypeInv, FilesInv
<1>1. /\ pc[j] = "restore" /\ pc'[j] = "stack" /\ UNCHANGED <<dir, now>>
      /\ undo'[j] = (IF undo[j] # None /\ j \in alone THEN <<disk, live>> ELSE None)
      /\ \A i \in Jobs \ {j} : pc'[i] = pc[i] /\ undo'[i] = undo[i]
      /\ alone' \subseteq {j}
  BY <1>0 DEF RestoreOpen, Goto, Disturb, JobsInv
<1>2. undo'[j] # None => Kept(dir, undo'[j])
  BY <1>1 DEF UndoInv
<1> QED
  BY <1>1, <1>2 DEF UndoInv

LEMMA ProceedKeeps ==
  ASSUME TypeInv, UndoInv, NEW j \in Jobs, Proceed(j)
  PROVE  UndoInv'
<1>0. JobsInv /\ undo \in [Jobs -> Pairs \cup {None}]
  BY DEF TypeInv, FilesInv
<1>1. CASE QuotaPlan(j) \/ QuotaStops(j) \/ Snap(j)
  <2>1. Capture("auto") /\ Forget(j) /\ pc[j] \in {"quota", "snap"} /\ UNCHANGED now
    BY <1>1 DEF QuotaPlan, QuotaStops, Snap
  <2>2. \A i \in Jobs : undo'[i] = None
    BY <2>1 DEF Forget, UndoInv
  <2> QED
    BY <2>1, <2>2, ForgottenKeeps
<1>2. CASE Marshal(j) \/ OpenTmp(j) \/ WriteTmp(j) \/ Rename(j) \/ SaveFails(j) \/ Apply(j)
           \/ RestoreFails(j) \/ RestoreStack(j) \/ RestoreXray(j)
  <2>1. UNCHANGED <<dir, now, undo>>
    BY <1>2 DEF Marshal, OpenTmp, WriteTmp, Rename, SaveFails, Apply, RestoreFails, RestoreStack,
                RestoreXray, files
  <2>2. PICK p \in {"open", "write", "rename", "apply", "save", "xray", "idle"} :
          pc' = [pc EXCEPT ![j] = p]
    BY <1>2 DEF Marshal, OpenTmp, WriteTmp, Rename, SaveFails, Apply, RestoreFails, RestoreStack,
                RestoreXray, End, Goto
  <2>3. pc'[j] = p /\ \A i \in Jobs \ {j} : pc'[i] = pc[i]
    BY <1>0, <2>2 DEF JobsInv
  <2>4. alone' \subseteq {j} \/ (alone' \subseteq alone /\ UNCHANGED <<disk, live>>)
    BY <1>2 DEF Marshal, OpenTmp, WriteTmp, Rename, SaveFails, Apply, RestoreFails, RestoreStack,
                RestoreXray, Disturb, files
  <2>5. NoCapture
    BY <2>1, <2>3, <2>4 DEF NoCapture
  <2> QED
    BY <2>5, NoCaptureKeeps
<1> QED
  BY <1>1, <1>2, PreSnapshotKeeps, RestoreOpenKeeps DEF Proceed

LEMMA StartedKeeps ==
  ASSUME TypeInv, UndoInv, NEW j \in Jobs, Started(j)
  PROVE  UndoInv'
<1>0. JobsInv /\ undo \in [Jobs -> Pairs \cup {None}]
  BY DEF TypeInv, FilesInv
<1>1. PICK p \in {"idle", "save", "snap", "quota", "pre"} : \E o, c, g :
        Turn(j, p, o, c, text[j], held[j], g)
  BY DEF Started
<1>2. pc'[j] = p /\ \A i \in Jobs \ {j} : pc'[i] = pc[i]
  BY <1>0, <1>1, TurnIs
<1>3. undo'[j] = None /\ \A i \in Jobs \ {j} : undo'[i] = undo[i]
  BY <1>0 DEF Started
<1>4. alone' \subseteq alone \cup {j} /\ UNCHANGED <<disk, live, dir, now>>
  BY DEF Started, Disturb, Join
<1>5. NoCapture
  BY <1>2, <1>3, <1>4 DEF NoCapture
<1> QED
  BY <1>5, NoCaptureKeeps

LEMMA DaemonKeeps ==
  ASSUME TypeInv, UndoInv, Manual \/ Tick \/ Crash \/ Start
  PROVE  UndoInv'
<1>0. now \in Seconds
  BY DEF TypeInv, FilesInv
<1>1. CASE Manual
  <2>1. PICK s \in {"manual", "auto"} : Capture(s)
    BY <1>1 DEF Manual
  <2>2. UNCHANGED now /\ \A i \in Jobs : undo'[i] = None
    BY <1>1 DEF Manual
  <2> QED
    BY <2>1, <2>2, ForgottenKeeps
<1>2. CASE Tick
  <2>1. now' = now + 1 /\ UNCHANGED <<files, pc, alone, undo>>
    BY <1>2 DEF Tick
  <2>2. \A t \in Seconds : t > now' => t > now
    BY <1>0, <2>1 DEF Seconds
  <2>3. NoCapture
    BY <2>1, <2>2 DEF NoCapture, files
  <2> QED
    BY <2>3, NoCaptureKeeps
<1>3. CASE Crash \/ Start
  <2>1. alone' = {} /\ UNCHANGED <<files, now, undo>>
    BY <1>3 DEF Crash, Start
  <2>2. \A i \in Jobs : pc'[i] \in {pc[i], "idle"}
    BY <1>3 DEF Crash, Start
  <2>3. NoCapture
    BY <2>1, <2>2 DEF NoCapture, files
  <2> QED
    BY <2>3, NoCaptureKeeps
<1> QED
  BY <1>1, <1>2, <1>3

\* What a rollback overwrites is among the snapshots, whatever becomes of
\* the rollback, until another request takes a snapshot.
THEOREM AlwaysUndoable == Spec => []UndoKept
<1>1. Init => UndoInv
  <2> SUFFICES ASSUME Init PROVE UndoInv
    OBVIOUS
  <2>1. now = 1 /\ \A j \in Jobs : pc[j] = "idle" /\ undo[j] = None
    BY DEF Init
  <2>2. \A t \in Seconds : t > 1 => dir[t] = None
    BY DEF Init, Seconds
  <2> QED
    BY <2>1, <2>2 DEF UndoInv
<1>2. TypeInv /\ UndoInv /\ [Next]_vars => UndoInv'
  <2> SUFFICES ASSUME TypeInv, UndoInv, [Next]_vars PROVE UndoInv'
    OBVIOUS
  <2>1. ASSUME NEW j \in Jobs, Edit(j) \/ Other(j) PROVE UndoInv'
    BY <2>1, BeginIs, StartedKeeps
  <2>2. CASE UNCHANGED vars
    BY <2>2 DEF vars, UndoInv
  <2> QED
    BY <2>1, <2>2, ProceedKeeps, DaemonKeeps DEF Next
<1>3. UndoInv => UndoKept
  BY DEF UndoInv, UndoKept, Kept
<1> QED
  BY <1>1, <1>2, <1>3, TypeCorrect, PTL DEF Spec

-----------------------------------------------------------------------------
(* What is answered ok has been stored.  While a job is alone, the text it *)
(* writes is the config it is to save, stack.json.tmp is its own, and once *)
(* that has been renamed, stack.json holds s.cfg.                          *)

StoredAt(j) ==
  /\ pc[j] \in {"open", "write", "rename"} => text[j] = Saved(j)
  /\ pc[j] = "write" => held[j] = "tmp" /\ tmp = Torn
  /\ pc[j] = "rename" => tmp = text[j]
  /\ pc[j] = "apply" /\ op[j] # "manager" => disk = mem

AnswerInv == \A j \in alone : StoredAt(j)

Stores ==
  \A j \in alone :
    /\ pc[j] # "idle" /\ pc'[j] = "idle" /\ answer' = "ok"
    /\ op[j] \notin Besides \cup {"rollback", "login"}
    => disk' = mem'

\* A job that another one's step leaves alone is as it was.
LEMMA Untouched ==
  ASSUME NEW i \in Jobs, StoredAt(i), UNCHANGED <<disk, tmp, mem>>,
         pc'[i] = pc[i], op'[i] = op[i], copy'[i] = copy[i], text'[i] = text[i], held'[i] = held[i]
  PROVE  StoredAt(i)'
BY DEF StoredAt, Saved

LEMMA StartedAnswers ==
  ASSUME TypeInv, AnswerInv, NEW j \in Jobs, Started(j)
  PROVE  AnswerInv' /\ Stores
<1>0. JobsInv /\ alone \subseteq Jobs
  BY DEF TypeInv, FilesInv
<1>1. PICK p \in {"idle", "save", "snap", "quota", "pre"} : \E o, c, g :
        Turn(j, p, o, c, text[j], held[j], g)
  BY DEF Started
<1>2. /\ pc'[j] = p
      /\ \A i \in Jobs \ {j} : /\ pc'[i] = pc[i] /\ op'[i] = op[i] /\ copy'[i] = copy[i]
                               /\ text'[i] = text[i] /\ held'[i] = held[i]
  BY <1>0, <1>1, TurnIs
<1>3. answer' = "none" /\ UNCHANGED <<disk, tmp>>
      /\ (alone' \subseteq {j} \/ (alone' \subseteq alone \cup {j} /\ UNCHANGED mem))
  BY DEF Started, Disturb, Join
<1>4. StoredAt(j)'
  BY <1>2 DEF StoredAt
<1>5. ASSUME NEW i \in alone', i # j PROVE StoredAt(i)'
  <2>1. i \in alone /\ i \in Jobs /\ UNCHANGED mem
    BY <1>0, <1>3, <1>5
  <2>2. StoredAt(i)
    BY <2>1 DEF AnswerInv
  <2> QED
    BY <1>2, <1>3, <1>5, <2>1, <2>2, Untouched
<1>6. AnswerInv'
  BY <1>4, <1>5 DEF AnswerInv
<1> QED
  BY <1>3, <1>6 DEF Stores

\* A step that changes a file or s.cfg leaves no other job alone.
LEMMA DisturbIs ==
  ASSUME TypeInv, AnswerInv, NEW j \in Jobs, Disturb(j), pc[j] # "idle",
         j \in alone => StoredAt(j)' \/ pc'[j] = "idle"
  PROVE  AnswerInv'
<1>1. ASSUME NEW i \in alone' PROVE i = j /\ j \in alone /\ pc'[j] # "idle"
  BY <1>1 DEF Disturb
<1> QED
  BY <1>1 DEF AnswerInv

LEMMA ProceedAnswers ==
  ASSUME TypeInv, AnswerInv, NEW j \in Jobs, Proceed(j)
  PROVE  AnswerInv' /\ Stores
<1>0. JobsInv /\ alone \subseteq Jobs
  BY DEF TypeInv, FilesInv
<1>a. ASSUME j \in alone PROVE StoredAt(j)
  BY <1>a DEF AnswerInv
<1>b. ASSUME NEW p, pc' = [pc EXCEPT ![j] = p]
      PROVE  pc'[j] = p /\ \A i \in Jobs \ {j} : pc'[i] = pc[i]
  BY <1>0, <1>b DEF JobsInv
<1>1. CASE QuotaPlan(j) \/ Snap(j) \/ PreSnapshot(j) \/ RestoreOpen(j) \/ RestoreStack(j)
  <2>1. Disturb(j) /\ pc[j] # "idle"
    BY <1>1 DEF QuotaPlan, Snap, PreSnapshot, RestoreOpen, RestoreStack
  <2>2. \/ \E p \in {"save", "restore", "stack", "xray"} : pc' = [pc EXCEPT ![j] = p]
        \/ pc' = [pc EXCEPT ![j] = "idle"] /\ answer' = "error"
    BY <1>1 DEF QuotaPlan, Snap, PreSnapshot, RestoreOpen, RestoreStack, End, Goto
  <2>3. \E p : pc' = [pc EXCEPT ![j] = p]
    BY <2>2
  <2>4. \A i \in Jobs \ {j} : pc'[i] = pc[i]
    BY <1>b, <2>3
  <2>5. pc'[j] \in {"save", "restore", "stack", "xray"} \/ (pc'[j] = "idle" /\ answer' = "error")
    BY <1>b, <2>2
  <2>7. AnswerInv'
    BY <2>1, <2>5, DisturbIs DEF StoredAt
  <2>6. Stores
    BY <1>0, <2>4, <2>5 DEF Stores
  <2> QED
    BY <2>6, <2>7
<1>2. CASE QuotaStops(j) \/ SaveFails(j) \/ RestoreXray(j)
  <2>1. Disturb(j) /\ pc[j] # "idle" /\ pc' = [pc EXCEPT ![j] = "idle"]
    BY <1>2 DEF QuotaStops, SaveFails, RestoreXray, End, Goto
  <2>2. pc'[j] = "idle" /\ \A i \in Jobs \ {j} : pc'[i] = pc[i]
    BY <1>b, <2>1
  <2>3. AnswerInv'
    BY <2>1, <2>2, DisturbIs
  <2>4. answer' = "ok" => op[j] \in {"login", "rollback"}
    <3>1. CASE QuotaStops(j)
      BY <3>1 DEF QuotaStops, End
    <3>2. CASE SaveFails(j)
      BY <3>2 DEF SaveFails, End
    <3>3. CASE RestoreXray(j)
      BY <3>3, NowIs DEF RestoreXray, ReadyAt
    <3> QED
      BY <1>2, <3>1, <3>2, <3>3
  <2>5. Stores
    BY <1>0, <2>2, <2>4 DEF Stores
  <2> QED
    BY <2>3, <2>5
<1>3. CASE Marshal(j)
  <2>1. /\ pc' = [pc EXCEPT ![j] = "open"] /\ text' = [text EXCEPT ![j] = Saved(j)]
        /\ UNCHANGED <<disk, tmp, mem, op, copy, held, alone>>
    BY <1>3 DEF Marshal, Goto, files
  <2>2. pc'[j] = "open" /\ text'[j] = Saved(j)
        /\ \A i \in Jobs \ {j} : pc'[i] = pc[i] /\ text'[i] = text[i]
    BY <1>0, <2>1 DEF JobsInv
  <2>3. StoredAt(j)'
    BY <2>1, <2>2 DEF StoredAt, Saved
  <2>4. ASSUME NEW i \in alone', i # j PROVE StoredAt(i)'
    <3>1. i \in Jobs /\ StoredAt(i)
      BY <1>0, <2>1, <2>4 DEF AnswerInv
    <3> QED
      BY <2>1, <2>2, <2>4, <3>1, Untouched
  <2>5. AnswerInv'
    BY <2>3, <2>4 DEF AnswerInv
  <2>6. Stores
    BY <1>0, <2>2 DEF Stores
  <2> QED
    BY <2>5, <2>6
<1>4. CASE OpenTmp(j)
  <2>1. /\ pc[j] = "open" /\ pc' = [pc EXCEPT ![j] = "write"] /\ Disturb(j) /\ tmp' = Torn
        /\ held'[j] = "tmp" /\ UNCHANGED <<mem, op, copy, text>>
    BY <1>0, <1>4 DEF OpenTmp, Goto, JobsInv
  <2>2. pc'[j] = "write" /\ \A i \in Jobs \ {j} : pc'[i] = pc[i]
    BY <1>b, <2>1
  <2>3. j \in alone => StoredAt(j)'
    BY <1>a, <2>1, <2>2 DEF StoredAt, Saved
  <2>4. AnswerInv'
    BY <2>1, <2>3, DisturbIs
  <2>5. Stores
    BY <1>0, <2>2 DEF Stores
  <2> QED
    BY <2>4, <2>5
<1>5. CASE WriteTmp(j)
  <2>1. /\ pc[j] = "write" /\ pc' = [pc EXCEPT ![j] = "rename"] /\ Disturb(j)
        /\ IF held[j] = "tmp" THEN tmp' \in Written(tmp, text[j]) ELSE UNCHANGED tmp
        /\ UNCHANGED <<mem, op, copy, text>>
    BY <1>5 DEF WriteTmp, Goto
  <2>2. pc'[j] = "rename" /\ \A i \in Jobs \ {j} : pc'[i] = pc[i]
    BY <1>b, <2>1
  <2>3. j \in alone => StoredAt(j)'
    BY <1>a, <2>1, <2>2 DEF StoredAt, Saved, Written
  <2>4. AnswerInv'
    BY <2>1, <2>3, DisturbIs
  <2>5. Stores
    BY <1>0, <2>2 DEF Stores
  <2> QED
    BY <2>4, <2>5
<1>6. CASE Rename(j)
  <2>1. /\ pc[j] = "rename" /\ disk' = tmp /\ Disturb(j)
        /\ mem' = IF op[j] \in Fresh \ Besides THEN copy[j] ELSE mem
    BY <1>6 DEF Rename
  <2>2. \/ pc' = [pc EXCEPT ![j] = "apply"] /\ op[j] \in Applied /\ op' = op
        \/ pc' = [pc EXCEPT ![j] = "save"] \/ pc' = [pc EXCEPT ![j] = "idle"]
    BY <1>6 DEF Rename, Goto, End, job
  <2>3. \A i \in Jobs \ {j} : pc'[i] = pc[i]
    BY <1>b, <2>2
  <2>4. pc'[j] \in {"save", "idle"} \/ (pc'[j] = "apply" /\ op[j] \in Applied /\ op'[j] = op[j])
    BY <1>b, <2>2
  <2>5. j \in alone /\ op[j] \notin Besides => disk' = mem'
    BY <1>a, <2>1 DEF StoredAt, Saved
  <2>6. op[j] \in Applied /\ op[j] # "manager" => op[j] \notin Besides
    BY DEF Applied, Besides
  <2>7. j \in alone => StoredAt(j)' \/ pc'[j] = "idle"
    BY <2>3, <2>4, <2>5, <2>6 DEF StoredAt
  <2>8. AnswerInv'
    BY <2>1, <2>7, DisturbIs
  <2>9. Stores
    BY <1>0, <2>3, <2>5 DEF Stores
  <2> QED
    BY <2>8, <2>9
<1>7. CASE Apply(j)
  <2>1. /\ pc[j] = "apply" /\ pc' = [pc EXCEPT ![j] = "idle"] /\ Disturb(j)
        /\ UNCHANGED <<disk, mem>>
    BY <1>7 DEF Apply, End, Goto
  <2>2. pc'[j] = "idle" /\ \A i \in Jobs \ {j} : pc'[i] = pc[i]
    BY <1>b, <2>1
  <2>3. AnswerInv'
    BY <2>1, <2>2, DisturbIs
  <2>4. j \in alone /\ op[j] \notin Besides => disk' = mem'
    BY <1>a, <2>1 DEF StoredAt, Besides
  <2>5. Stores
    BY <1>0, <2>2, <2>4 DEF Stores
  <2> QED
    BY <2>3, <2>5
<1>8. CASE RestoreFails(j)
  <2>1. /\ pc' = [pc EXCEPT ![j] = "idle"] /\ answer' = "error" /\ alone' = alone \ {j}
        /\ UNCHANGED <<disk, tmp, mem, held>>
        /\ op' = [op EXCEPT ![j] = "none"] /\ copy' = [copy EXCEPT ![j] = None]
        /\ text' = [text EXCEPT ![j] = None]
    BY <1>8 DEF RestoreFails, End, Goto, files
  <2>2. \A i \in Jobs \ {j} : /\ pc'[i] = pc[i] /\ op'[i] = op[i] /\ copy'[i] = copy[i]
                              /\ text'[i] = text[i] /\ held'[i] = held[i]
    BY <1>0, <2>1 DEF JobsInv
  <2>3. ASSUME NEW i \in alone' PROVE StoredAt(i)'
    <3>1. i \in Jobs /\ i # j /\ StoredAt(i)
      BY <1>0, <2>1, <2>3 DEF AnswerInv
    <3> QED
      BY <2>1, <2>2, <3>1, Untouched
  <2> QED
    BY <2>1, <2>3 DEF AnswerInv, Stores
<1> QED
  BY <1>1, <1>2, <1>3, <1>4, <1>5, <1>6, <1>7, <1>8 DEF Proceed

LEMMA DaemonAnswers ==
  ASSUME TypeInv, AnswerInv, Manual \/ Tick \/ Crash \/ Start
  PROVE  AnswerInv' /\ Stores
<1>1. CASE Manual \/ Start
  BY <1>1 DEF Manual, Start, AnswerInv, Stores
<1>2. CASE Tick
  BY <1>2 DEF Tick, files, job, AnswerInv, StoredAt, Saved, Stores
<1>3. CASE Crash
  BY <1>3 DEF Crash, AnswerInv, Stores
<1> QED
  BY <1>1, <1>2, <1>3

\* A request that is answered ok, and in whose time no other job has changed
\* anything, has left the same config in stack.json and in s.cfg.
THEOREM AlwaysStored == Spec => AnsweredStored
<1>1. Init => AnswerInv
  BY DEF Init, AnswerInv
<1>2. TypeInv /\ AnswerInv /\ [Next]_vars => AnswerInv' /\ [Stores]_vars
  <2> SUFFICES ASSUME TypeInv, AnswerInv, [Next]_vars PROVE AnswerInv' /\ [Stores]_vars
    OBVIOUS
  <2>1. ASSUME NEW j \in Jobs, Edit(j) \/ Other(j) PROVE AnswerInv' /\ Stores
    BY <2>1, BeginIs, StartedAnswers
  <2>2. CASE UNCHANGED vars
    BY <2>2 DEF vars, AnswerInv, StoredAt, Saved
  <2> QED
    BY <2>1, <2>2, ProceedAnswers, DaemonAnswers DEF Next
<1>3. [Stores]_vars <=> [\A j \in alone :
       /\ pc[j] # "idle" /\ pc'[j] = "idle" /\ answer' = "ok"
       /\ op[j] \notin Besides \cup {"rollback", "login"}
       => disk' = mem']_vars
  BY DEF Stores
<1> QED
  BY <1>1, <1>2, <1>3, TypeCorrect, PTL DEF Spec, AnsweredStored

=============================================================================
