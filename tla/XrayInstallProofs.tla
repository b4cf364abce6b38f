------------------------- MODULE XrayInstallProofs -------------------------
(***************************************************************************)
(* What holds of the installer for any number of requests, versions,       *)
(* failures and restarts of the daemon.                                    *)
(***************************************************************************)
EXTENDS XrayInstall, SequenceTheorems, TLAPS

-----------------------------------------------------------------------------
(* The version directories.  Taking one out of the list and rotating it    *)
(* keep the list free of repetitions.                                      *)

Listed(s) == {s[i] : i \in DOMAIN s}

LEMMA WithoutLists ==
  ASSUME TypeOK, NEW v
  PROVE  /\ Without(v) \in Seq(Versions) /\ Distinct(Without(v))
         /\ Listed(Without(v)) = OnDisk \ {v}
<1>1. dirs \in Seq(Versions) /\ Len(dirs) \in Nat /\ DOMAIN dirs = 1 .. Len(dirs)
  BY LenProperties DEF TypeOK
<1>2. CASE v \notin OnDisk
  BY <1>2 DEF Without, TypeOK, Listed, OnDisk
<1>3. CASE v \in OnDisk
  <2> DEFINE at == CHOOSE i \in DOMAIN dirs : dirs[i] = v
             a == SubSeq(dirs, 1, at - 1)
             b == SubSeq(dirs, at + 1, Len(dirs))
             w == a \o b
  <2>1. at \in 1 .. Len(dirs) /\ dirs[at] = v
    BY <1>1, <1>3 DEF OnDisk
  <2>2. Without(v) = w
    BY <1>3 DEF Without
  <2> HIDE DEF at, a, b, w
  <2>3. /\ a \in Seq(Versions) /\ Len(a) = at - 1
        /\ \A i \in 1 .. at - 1 : a[i] = dirs[i]
    BY <1>1, <2>1, SubSeqProperties DEF a
  <2>4. /\ b \in Seq(Versions) /\ Len(b) = Len(dirs) - at
        /\ \A i \in 1 .. Len(dirs) - at : b[i] = dirs[at + i]
    <3>1. at + 1 \in Int /\ Len(dirs) \in Int /\ Len(dirs) - (at + 1) + 1 = Len(dirs) - at
      BY <1>1, <2>1
    <3>2. \A i \in at + 1 .. Len(dirs) : dirs[i] \in Versions
      BY <1>1, <2>1, ElementOfSeq
    <3>3. /\ b \in Seq(Versions)
          /\ Len(b) = IF at + 1 <= Len(dirs) THEN Len(dirs) - (at + 1) + 1 ELSE 0
          /\ \A i \in 1 .. Len(dirs) - (at + 1) + 1 : b[i] = dirs[at + 1 + i - 1]
      BY <3>1, <3>2, SubSeqProperties DEF b
    <3>4. Len(b) = Len(dirs) - at
      BY <1>1, <2>1, <3>3
    <3>5. \A i \in 1 .. Len(dirs) - at : at + 1 + i - 1 = at + i
      BY <1>1, <2>1
    <3> QED
      BY <3>1, <3>3, <3>4, <3>5
  <2>5. /\ w \in Seq(Versions) /\ Len(w) = Len(dirs) - 1
        /\ \A i \in 1 .. Len(dirs) - 1 : w[i] = IF i < at THEN dirs[i] ELSE dirs[i + 1]
    <3>1. /\ w \in Seq(Versions) /\ Len(w) = Len(a) + Len(b)
          /\ \A i \in 1 .. Len(a) + Len(b) :
               w[i] = IF i <= Len(a) THEN a[i] ELSE b[i - Len(a)]
      BY <2>3, <2>4, ConcatProperties DEF w
    <3>2. Len(a) + Len(b) = Len(dirs) - 1
      BY <1>1, <2>1, <2>3, <2>4
    <3>3. ASSUME NEW i \in 1 .. Len(dirs) - 1
          PROVE  w[i] = IF i < at THEN dirs[i] ELSE dirs[i + 1]
      <4>1. CASE i < at
        BY <1>1, <2>1, <2>3, <3>1, <3>2, <4>1
      <4>2. CASE i >= at
        <5>1. i - (at - 1) \in 1 .. Len(dirs) - at /\ at + (i - (at - 1)) = i + 1
          BY <1>1, <2>1, <4>2
        <5>2. w[i] = b[i - (at - 1)]
          <6>1. w[i] = IF i <= Len(a) THEN a[i] ELSE b[i - Len(a)]
            BY <3>1, <3>2
          <6>2. Len(a) = at - 1 /\ ~(i <= at - 1)
            BY <1>1, <2>1, <2>3, <4>2
          <6> QED
            BY <6>1, <6>2
        <5> QED
          BY <2>4, <4>2, <5>1, <5>2, <2>1
      <4> QED
        BY <2>1, <4>1, <4>2
    <3> QED
      BY <3>1, <3>2, <3>3
  <2>6. DOMAIN w = 1 .. Len(dirs) - 1
    BY <2>5, LenProperties
  <2>7. \A i, j \in 1 .. Len(dirs) : dirs[i] = dirs[j] => i = j
    BY <1>1 DEF TypeOK, Distinct
  <2>8. Distinct(w)
    BY <1>1, <2>1, <2>5, <2>6, <2>7 DEF Distinct
  <2>9. ASSUME NEW d PROVE d \in Listed(w) <=> d \in OnDisk \ {v}
    <3>1. ASSUME d \in Listed(w) PROVE d \in OnDisk \ {v}
      <4>1. PICK i \in 1 .. Len(dirs) - 1 : w[i] = d
        BY <2>6, <3>1 DEF Listed
      <4> QED
        <5>1. PICK j \in 1 .. Len(dirs) : j # at /\ dirs[j] = d
          BY <1>1, <2>1, <2>5, <4>1
        <5> QED
          BY <1>1, <2>1, <2>7, <5>1 DEF OnDisk
    <3>2. ASSUME d \in OnDisk, d # v PROVE d \in Listed(w)
      <4>1. PICK i \in 1 .. Len(dirs) : dirs[i] = d
        BY <1>1, <3>2 DEF OnDisk
      <4>2. i # at
        BY <2>1, <3>2, <4>1
      <4>3. CASE i < at
        BY <1>1, <2>1, <2>5, <2>6, <4>1, <4>3 DEF Listed
      <4>4. CASE i > at
        <5>1. i - 1 \in 1 .. Len(dirs) - 1 /\ w[i - 1] = d
          BY <1>1, <2>1, <2>5, <4>1, <4>4
        <5> QED
          BY <2>6, <5>1 DEF Listed
      <4> QED
        BY <1>1, <2>1, <4>1, <4>2, <4>3, <4>4
    <3> QED
      BY <3>1, <3>2
  <2> QED
    BY <2>2, <2>5, <2>8, <2>9
<1> QED
  BY <1>2, <1>3

LEMMA NewestLists ==
  ASSUME TypeOK
  PROVE  Newest \in Seq(Versions) /\ Distinct(Newest) /\ Listed(Newest) \subseteq OnDisk
<1>1. dirs \in Seq(Versions) /\ Len(dirs) \in Nat /\ DOMAIN dirs = 1 .. Len(dirs)
  BY LenProperties DEF TypeOK
<1>2. CASE Len(dirs) <= MaxKeptVersions
  BY <1>2 DEF Newest, TypeOK, Listed, OnDisk
<1>3. CASE ~(Len(dirs) <= MaxKeptVersions)
  <2> DEFINE n == SubSeq(dirs, 1, 2)
  <2>1. Newest = n /\ Len(dirs) > 2
    BY <1>1, <1>3 DEF Newest, MaxKeptVersions
  <2>2. n \in Seq(Versions) /\ Len(n) = 2 /\ \A i \in 1 .. 2 : n[i] = dirs[i]
    BY <1>1, <2>1, SubSeqProperties
  <2> HIDE DEF n
  <2>3. DOMAIN n = 1 .. 2
    BY <2>2, LenProperties
  <2>4. \A i \in DOMAIN n : i \in DOMAIN dirs /\ n[i] = dirs[i]
    BY <1>1, <2>1, <2>2, <2>3
  <2>5. Distinct(n) /\ Listed(n) \subseteq OnDisk
    BY <2>4 DEF TypeOK, Distinct, Listed, OnDisk
  <2> QED
    BY <2>1, <2>2, <2>5
<1> QED
  BY <1>2, <1>3

LEMMA AppendLists ==
  ASSUME NEW s \in Seq(Versions), Distinct(s), NEW v \in Versions \ Listed(s)
  PROVE  /\ Append(s, v) \in Seq(Versions) /\ Distinct(Append(s, v))
         /\ Listed(Append(s, v)) = Listed(s) \cup {v}
<1>1. Len(s) \in Nat /\ DOMAIN s = 1 .. Len(s)
  BY LenProperties
<1>2. /\ Append(s, v) \in Seq(Versions) /\ Len(Append(s, v)) = Len(s) + 1
      /\ \A i \in 1 .. Len(s) : Append(s, v)[i] = s[i]
      /\ Append(s, v)[Len(s) + 1] = v
  BY AppendProperties
<1>3. DOMAIN Append(s, v) = DOMAIN s \cup {Len(s) + 1} /\ Len(s) + 1 \notin DOMAIN s
  BY <1>1, <1>2, LenProperties
<1>4. \A i \in DOMAIN s : s[i] # v
  BY DEF Listed
<1> QED
  BY <1>1, <1>2, <1>3, <1>4 DEF Distinct, Listed

LEMMA KeptLists ==
  ASSUME TypeOK, NEW v
  PROVE  /\ Kept(v) \in Seq(Versions) /\ Distinct(Kept(v))
         /\ Listed(Kept(v)) \subseteq OnDisk
         /\ v \in OnDisk => v \in Listed(Kept(v))
<1>1. OnDisk \subseteq Versions
  BY LenProperties, ElementOfSeq DEF TypeOK, OnDisk
<1> QED
  BY <1>1, NewestLists, AppendLists DEF Kept, Listed

LEMMA InFrontLists ==
  ASSUME TypeOK, NEW v \in Versions
  PROVE  /\ <<v>> \o Without(v) \in Seq(Versions) /\ Distinct(<<v>> \o Without(v))
         /\ Listed(<<v>> \o Without(v)) = OnDisk \cup {v}
<1> DEFINE w == Without(v)
           s == <<v>> \o w
<1>1. /\ w \in Seq(Versions) /\ Distinct(w) /\ Listed(w) = OnDisk \ {v}
      /\ Len(w) \in Nat /\ DOMAIN w = 1 .. Len(w)
  BY WithoutLists, LenProperties
<1> HIDE DEF w
<1>2. /\ <<v>> \in Seq(Versions) /\ Len(<<v>>) = 1
  OBVIOUS
<1>3. /\ s \in Seq(Versions) /\ Len(s) = Len(w) + 1 /\ s[1] = v
      /\ \A i \in 2 .. Len(w) + 1 : s[i] = w[i - 1]
  BY <1>1, <1>2, ConcatProperties
<1>4. DOMAIN s = 1 .. Len(w) + 1
  BY <1>3, LenProperties
<1> HIDE DEF s
<1>5. \A i \in 1 .. Len(w) : w[i] # v
  BY <1>1 DEF Listed
<1>6. Distinct(s)
  <2>1. ASSUME NEW i \in 1 .. Len(w) + 1, NEW j \in 1 .. Len(w) + 1, s[i] = s[j]
        PROVE  i = j
    <3>1. CASE i = 1 \/ j = 1
      BY <1>1, <1>3, <1>5, <2>1, <3>1
    <3>2. CASE i # 1 /\ j # 1
      <4>1. i - 1 \in DOMAIN w /\ j - 1 \in DOMAIN w /\ w[i - 1] = w[j - 1]
        BY <1>1, <1>3, <2>1, <3>2
      <4> QED
        BY <1>1, <4>1 DEF Distinct
    <3> QED
      BY <3>1, <3>2
  <2> QED
    BY <1>4, <2>1 DEF Distinct
<1>7. ASSUME NEW d PROVE d \in Listed(s) <=> d = v \/ d \in Listed(w)
  <2>1. ASSUME d \in Listed(w) PROVE d \in Listed(s)
    <3>1. PICK i \in 1 .. Len(w) : w[i] = d
      BY <1>1, <2>1 DEF Listed
    <3>2. i + 1 \in 1 .. Len(w) + 1 /\ s[i + 1] = d
      BY <1>1, <1>3, <3>1
    <3> QED
      BY <1>4, <3>2 DEF Listed
  <2>2. v \in Listed(s)
    BY <1>1, <1>3, <1>4 DEF Listed
  <2>3. ASSUME d \in Listed(s), d # v PROVE d \in Listed(w)
    <3>1. PICK i \in 1 .. Len(w) + 1 : s[i] = d
      BY <1>4, <2>3 DEF Listed
    <3>2. i - 1 \in 1 .. Len(w) /\ w[i - 1] = d
      BY <1>1, <1>3, <2>3, <3>1
    <3> QED
      BY <1>1, <3>2 DEF Listed
  <2> QED
    BY <2>1, <2>2, <2>3
<1>8. s = <<v>> \o Without(v)
  BY DEF s, w
<1> QED
  BY <1>1, <1>3, <1>6, <1>7, <1>8

LEMMA BecomesNewest ==
  ASSUME TypeOK, NEW v \in Versions, dirs' = <<v>> \o Without(v)
  PROVE  dirs' \in Seq(Versions) /\ Distinct(dirs)' /\ OnDisk' = OnDisk \cup {v}
<1> DEFINE s == <<v>> \o Without(v)
<1>1. s \in Seq(Versions) /\ Distinct(s) /\ Listed(s) = OnDisk \cup {v}
  BY InFrontLists
<1>2. dirs' = s
  OBVIOUS
<1> HIDE DEF s
<1> QED
  BY <1>1, <1>2 DEF Distinct, Listed, OnDisk

-----------------------------------------------------------------------------
(* Types.                                                                  *)

LEMMA Constants ==
  /\ None \notin Versions /\ Idle \in Operation /\ NoTouch \in Touch
BY InstallAssumption DEF Idle, Operation, Kinds, Steps, NoTouch, Touch

\* At which steps an operation can be, by its kind.
LEMMA Places ==
  ASSUME NEW o \in Operation
  PROVE  /\ o.kind \in Kinds
         /\ o.kind = "none" => o.pc = "idle"
         /\ o.kind = "install" =>
              o.pc \in {"latest", "fetch", "stage", "clear", "mkdir", "move", "link",
                        "flip", "geo", "save", "rotate", "restart", "end"}
         /\ o.kind = "rollback" => o.pc \in {"link", "flip", "save", "restart", "end"}
         /\ o.kind = "reset" => o.pc \in {"unlink", "wipe", "forget", "restart", "end"}
         /\ o.ver \in Versions \cup {None}
         /\ o.kind \in {"install", "rollback"} => o.ver \in Versions
BY DEF Operation, Kinds, Steps

\* A request becomes another operation: it goes on, ends, arrives or is gone.
LEMMA Becomes ==
  ASSUME TypeOK, NEW r \in Requests, NEW o \in Operation, op' = [op EXCEPT ![r] = o]
  PROVE  /\ op' \in [Requests -> Operation]
         /\ op'[r] = o
         /\ \A q \in Requests \ {r} : op'[q] = op[q]
BY DEF TypeOK

LEMMA Elsewhere ==
  ASSUME NEW o \in Operation, NEW pc \in Steps(o.kind)
  PROVE  [o EXCEPT !.pc = pc] \in Operation
BY DEF Operation

LEMMA GoesOn ==
  ASSUME TypeOK, NEW r \in Requests, NEW pc \in Steps(op[r].kind), Goto(r, pc)
  PROVE  /\ op' \in [Requests -> Operation]
         /\ op'[r].kind = op[r].kind /\ op'[r].pc = pc /\ op'[r].ver = op[r].ver
         /\ \A q \in Requests \ {r} : op'[q] = op[q]
<1>1. op[r] \in Operation
  BY DEF TypeOK
<1>2. [op[r] EXCEPT !.pc = pc] \in Operation
  BY <1>1, Elsewhere
<1>3. op' = [op EXCEPT ![r] = [op[r] EXCEPT !.pc = pc]]
  BY DEF Goto
<1>4. op' \in [Requests -> Operation] /\ op'[r] = [op[r] EXCEPT !.pc = pc]
      /\ \A q \in Requests \ {r} : op'[q] = op[q]
  BY <1>2, <1>3, Becomes
<1> QED
  BY <1>1, <1>4 DEF Operation

LEMMA GoesToEnd ==
  ASSUME TypeOK, NEW r \in Requests, "end" \in Steps(op[r].kind),
         NEW result \in {"done", "failed", "not restarted"}, Ends(r, result)
  PROVE  /\ op' \in [Requests -> Operation]
         /\ op'[r].kind = op[r].kind /\ op'[r].pc = "end" /\ op'[r].ver = op[r].ver
         /\ op'[r].result = result
         /\ \A q \in Requests \ {r} : op'[q] = op[q]
<1> DEFINE o == [op[r] EXCEPT !.pc = "end", !.result = result]
<1>1. op[r] \in Operation /\ op \in [Requests -> Operation]
  BY DEF TypeOK
<1>2. /\ o \in Operation /\ o.kind = op[r].kind /\ o.pc = "end" /\ o.ver = op[r].ver
      /\ o.result = result
  BY <1>1 DEF Operation
<1>3. op' = [op EXCEPT ![r] = o]
  BY <1>1 DEF Ends, Operation
<1> HIDE DEF o
<1>4. op' \in [Requests -> Operation] /\ op'[r] = o /\ \A q \in Requests \ {r} : op'[q] = op[q]
  BY <1>2, <1>3, Becomes
<1> QED
  BY <1>2, <1>4

TreeTypes ==
  /\ dirs \in Seq(Versions) /\ Distinct(dirs)
  /\ full \subseteq OnDisk
  /\ {link, tmpLink} \subseteq Versions \cup {None}
RestTypes ==
  /\ state \in Versions \cup {None}
  /\ running \in Versions \cup {Image}
  /\ job \in Requests \cup {None}
  /\ touch \in [Touchers -> Touch]
  /\ alone \subseteq Requests /\ calm \in BOOLEAN /\ serial \in BOOLEAN
  /\ calls \in 0 .. MaxCalls /\ faults \in 0 .. MaxFaults

\* Whatever saves meet, state.json records a version or none.
LEMMA SavingTypes ==
  ASSUME TypeOK, NEW rs \in SUBSET Requests, NEW ts \in SUBSET Touchers
  PROVE  Saving(rs, ts) \subseteq Versions \cup {None}
<1>1. \A r \in rs : op[r].ver \in Versions \cup {None}
  BY Places DEF TypeOK
<1>2. \A t \in ts : touch[t].loaded \in Versions \cup {None}
  BY DEF TypeOK, Touch
<1> QED
  BY <1>1, <1>2 DEF Saving

LEMMA SavedTypes ==
  ASSUME TypeOK, NEW new \in Versions \cup {None},
         NEW others \in SUBSET (Versions \cup {None}), SaveState(new, others)
  PROVE  state' \in Versions \cup {None} /\ serial' \in BOOLEAN
BY DEF SaveState

LEMMA TouchTypes ==
  ASSUME TypeOK, NEW t \in Touchers, GoTouch(t)
  PROVE  touch' \in [Touchers -> Touch]
<1>1. touch \in [Touchers -> Touch]
  BY DEF TypeOK
<1>2. [touch[t] EXCEPT !.pc = "load"] \in Touch
  BY <1>1 DEF Touch
<1>3. touch' = [touch EXCEPT ![t] = [touch[t] EXCEPT !.pc = "load"]]
  BY <1>1 DEF GoTouch
<1> QED
  BY <1>1, <1>2, <1>3

LEMMA ResolveType ==
  ASSUME TypeOK
  PROVE  Resolve \in Versions \cup {Image} /\ OnDisk \subseteq Versions
<1>1. OnDisk \subseteq Versions
  BY LenProperties, ElementOfSeq DEF TypeOK, OnDisk
<1> QED
  BY <1>1 DEF TypeOK, Resolve

LEMMA ArriveTypes ==
  ASSUME TypeOK, NEW r \in Requests, NEW kind \in {"install", "rollback", "reset"},
         NEW pc \in Steps(kind), NEW v \in Versions \cup {None},
         kind \in {"install", "rollback"} => v \in Versions, Arrive(r, kind, pc, v),
         job' \in Requests \cup {None}
  PROVE  TypeOK' /\ op' = [op EXCEPT ![r] = [kind |-> kind, pc |-> pc, ver |-> v,
                                             result |-> "none"]]
<1> DEFINE o == [kind |-> kind, pc |-> pc, ver |-> v, result |-> "none"]
<1>1. o \in Operation
  BY DEF TypeOK, Operation, Kinds
<1>2. op' = [op EXCEPT ![r] = o]
  BY DEF Arrive
<1> HIDE DEF o
<1>3. op' \in [Requests -> Operation]
  BY <1>1, <1>2, Becomes
<1>4. calls' \in 0 .. MaxCalls
  BY InstallAssumption DEF Arrive, TypeOK
<1>5. alone' \subseteq Requests
  BY DEF Arrive, TypeOK
<1>6. calm' \in BOOLEAN /\ serial' \in BOOLEAN
  BY DEF Arrive
<1>7. UNCHANGED <<tree, state, running, touch, faults>>
  BY DEF Arrive
<1> QED
  BY <1>2, <1>3, <1>4, <1>5, <1>6, <1>7 DEF TypeOK, tree, OnDisk, Distinct, o

\* Every variable keeps its type; in particular the list of version
\* directories names none twice, after any installs, rotations and resets
\* that overlap.
THEOREM TypeCorrect == Spec => []TypeOK
<1>1. Init => TypeOK
  <2> SUFFICES ASSUME Init PROVE TypeOK
    OBVIOUS
  <2>1. dirs \in Seq(Versions) /\ Distinct(dirs) /\ full \subseteq OnDisk
    BY InstallAssumption DEF Init
  <2>2. OnDisk \subseteq Versions
    BY <2>1, LenProperties, ElementOfSeq DEF OnDisk
  <2>3. link \in Versions \cup {None} /\ tmpLink = None /\ state \in Versions \cup {None}
    <3>1. full # {} => link \in full /\ state = link
      BY DEF Init
    <3>2. full = {} => link = None /\ state = link
      BY DEF Init
    <3> QED
      BY <2>1, <2>2, <3>1, <3>2 DEF Init
  <2>4. running \in Versions \cup {Image}
    BY <2>1, <2>2 DEF Init, Resolve
  <2>5. op \in [Requests -> Operation] /\ touch \in [Touchers -> Touch]
    BY Constants DEF Init
  <2>6. calls \in 0 .. MaxCalls /\ faults \in 0 .. MaxFaults
        /\ calm \in BOOLEAN /\ serial \in BOOLEAN /\ job = None /\ alone = {}
    BY InstallAssumption DEF Init
  <2> QED
    BY <2>1, <2>3, <2>4, <2>5, <2>6 DEF TypeOK
<1>2. TypeOK /\ [Next]_vars => TypeOK'
  <2> SUFFICES ASSUME TypeOK, [Next]_vars PROVE TypeOK'
    OBVIOUS
  <2> USE DEF tree, ghost
  <2>0. /\ op \in [Requests -> Operation] /\ TreeTypes /\ RestTypes
        /\ (op \in [Requests -> Operation])' /\ TreeTypes' /\ RestTypes' => TypeOK'
    BY DEF TypeOK, TreeTypes, RestTypes
  <2>a. UNCHANGED tree => TreeTypes'
    BY <2>0 DEF TreeTypes, OnDisk, Distinct
  <2>b. UNCHANGED <<running, job, touch, ghost, calls, faults>>
          /\ state' \in Versions \cup {None} /\ serial' \in BOOLEAN => RestTypes'
    BY <2>0 DEF RestTypes
  <2>c. UNCHANGED <<state, running, job, touch, ghost, serial, calls, faults>> => RestTypes'
    BY <2>0 DEF RestTypes
  <2>d. ASSUME UNCHANGED <<running, job, op, ghost, calls, faults, tree>>,
               touch' \in [Touchers -> Touch],
               state' \in Versions \cup {None}, serial' \in BOOLEAN
        PROVE  TypeOK'
    <3>1. RestTypes'
      BY <2>0, <2>d DEF RestTypes
    <3> QED
      BY <2>0, <2>a, <2>d, <3>1
  <2>e. ASSUME NEW r \in Requests
        PROVE  op[r] \in Operation
    BY <2>0
  <2>1. ASSUME NEW r \in Requests, End(r) PROVE TypeOK'
    <3>1. op' \in [Requests -> Operation]
      BY <2>1, Becomes, Constants DEF End
    <3>2. RestTypes'
      BY <2>0, <2>1 DEF End, RestTypes
    <3> QED
      BY <2>0, <2>a, <2>1, <3>1, <3>2 DEF End
  <2>20. ASSUME NEW r \in Requests, Latest(r) PROVE TypeOK'
    <3>1. "fetch" \in Steps(op[r].kind) /\ "end" \in Steps(op[r].kind)
      BY <2>20 DEF Latest, At, Steps
    <3>2. op' \in [Requests -> Operation]
      BY <2>20, <3>1, GoesOn, GoesToEnd DEF Latest
    <3>3. touch' \in [Touchers -> Touch]
      BY <2>0, <2>20, TouchTypes DEF Latest, RestTypes
    <3>4. UNCHANGED <<tree, state, running, job, ghost, serial, calls, faults>>
      BY <2>20 DEF Latest
    <3>5. RestTypes'
      BY <2>0, <3>3, <3>4 DEF RestTypes
    <3> QED
      BY <2>0, <2>a, <3>2, <3>4, <3>5
  <2>2. ASSUME NEW r \in Requests, Fetch(r) \/ Stage(r) PROVE TypeOK'
    <3>1. PICK pc \in {"stage", "clear"} : Goto(r, pc) \/ Ends(r, "failed")
      BY <2>2 DEF Fetch, Stage, Prepare
    <3>2. pc \in Steps(op[r].kind) /\ "end" \in Steps(op[r].kind)
      BY <2>2, <3>1 DEF Fetch, Stage, Prepare, At, Steps
    <3>3. op' \in [Requests -> Operation]
      BY <3>1, <3>2, GoesOn, GoesToEnd
    <3> QED
      BY <2>0, <2>a, <2>c, <2>2, <3>3 DEF Fetch, Stage, Prepare
  <2>3. ASSUME NEW r \in Requests, Clear(r) PROVE TypeOK'
    <3>1. "mkdir" \in Steps(op[r].kind)
      BY <2>3 DEF Clear, At, Steps
    <3>2. op' \in [Requests -> Operation]
      BY <2>3, <3>1, GoesOn DEF Clear
    <3>3. dirs' \in Seq(Versions) /\ Distinct(dirs)' /\ OnDisk' = OnDisk \ {op[r].ver}
      BY <2>3, WithoutLists DEF Clear, Distinct, OnDisk, Listed
    <3>4. TreeTypes'
      BY <2>0, <2>3, <3>3 DEF Clear, TreeTypes
    <3> QED
      BY <2>0, <2>c, <2>3, <3>2, <3>4 DEF Clear
  <2>21. ASSUME NEW r \in Requests, Mkdir(r) PROVE TypeOK'
    <3>1. "move" \in Steps(op[r].kind) /\ op[r].ver \in Versions
      BY <2>21, <2>e, Places DEF Mkdir, At, Steps
    <3>2. op' \in [Requests -> Operation]
      BY <2>21, <3>1, GoesOn DEF Mkdir
    <3>3. dirs' \in Seq(Versions) /\ Distinct(dirs)' /\ OnDisk \subseteq OnDisk'
      <4>1. CASE op[r].ver \in OnDisk
        BY <2>0, <2>21, <4>1 DEF Mkdir, TreeTypes, Distinct, OnDisk
      <4>2. CASE op[r].ver \notin OnDisk
        <5>1. dirs' = <<op[r].ver>> \o Without(op[r].ver)
          BY <2>21, <4>2 DEF Mkdir, Without
        <5> QED
          BY <3>1, <5>1, BecomesNewest
      <4> QED
        BY <4>1, <4>2
    <3>4. TreeTypes'
      BY <2>0, <2>21, <3>3 DEF Mkdir, TreeTypes
    <3> QED
      BY <2>0, <2>c, <2>21, <3>2, <3>4 DEF Mkdir
  <2>4. ASSUME NEW r \in Requests, Move(r) PROVE TypeOK'
    <3>1. op[r].kind = "install" /\ op[r].ver \in Versions
      BY <2>4, <2>e, Places DEF Move, At
    <3>2. op' \in [Requests -> Operation]
      <4>1. "link" \in Steps(op[r].kind) /\ "end" \in Steps(op[r].kind)
        BY <3>1 DEF Steps
      <4> QED
        BY <2>4, <4>1, GoesOn, GoesToEnd DEF Move
    <3>3. TreeTypes'
      <4>1. CASE op[r].ver \in OnDisk
        <5>1. dirs' \in Seq(Versions) /\ Distinct(dirs)' /\ OnDisk' = OnDisk \cup {op[r].ver}
          BY <2>4, <3>1, <4>1, BecomesNewest DEF Move
        <5> QED
          BY <2>0, <2>4, <4>1, <5>1 DEF Move, TreeTypes
      <4>2. CASE op[r].ver \notin OnDisk
        BY <2>a, <2>4, <4>2 DEF Move
      <4> QED
        BY <4>1, <4>2
    <3> QED
      BY <2>0, <2>c, <2>4, <3>2, <3>3 DEF Move
  <2>5. ASSUME NEW r \in Requests, Link(r) PROVE TypeOK'
    <3>1. "flip" \in Steps(op[r].kind) /\ op[r].ver \in Versions
      BY <2>5, <2>e, Places DEF Link, Kinds, Steps
    <3>2. op' \in [Requests -> Operation]
      BY <2>5, <3>1, GoesOn DEF Link
    <3>3. TreeTypes'
      BY <2>0, <2>5, <3>1 DEF Link, TreeTypes, OnDisk, Distinct
    <3> QED
      BY <2>0, <2>c, <2>5, <3>2, <3>3 DEF Link
  <2>6. ASSUME NEW r \in Requests, Flip(r) PROVE TypeOK'
    <3>1. /\ op[r].kind \in {"install", "rollback"}
          /\ (IF op[r].kind = "install" THEN "geo" ELSE "save") \in Steps(op[r].kind)
          /\ "end" \in Steps(op[r].kind)
      BY <2>6, <2>e, Places DEF Flip, Kinds, Steps
    <3>2. op' \in [Requests -> Operation]
      BY <2>6, <3>1, GoesOn, GoesToEnd DEF Flip
    <3>3. TreeTypes'
      BY <2>0, <2>6 DEF Flip, TreeTypes, OnDisk, Distinct
    <3> QED
      BY <2>0, <2>c, <2>6, <3>2, <3>3 DEF Flip
  <2>7. ASSUME NEW r \in Requests, Geo(r) PROVE TypeOK'
    <3>1. "save" \in Steps(op[r].kind)
      BY <2>7 DEF Geo, At, Steps
    <3>2. op' \in [Requests -> Operation]
      BY <2>7, <3>1, GoesOn DEF Geo
    <3> QED
      BY <2>0, <2>a, <2>c, <2>7, <3>2 DEF Geo
  <2>8. ASSUME NEW r \in Requests, Save(r) PROVE TypeOK'
    <3>1. /\ (IF op[r].kind = "install" THEN "rotate" ELSE "restart") \in Steps(op[r].kind)
          /\ op[r].ver \in Versions \cup {None}
      BY <2>8, <2>e, Places DEF Save, Steps, Kinds
    <3>2. op' \in [Requests -> Operation]
      BY <2>8, <3>1, GoesOn DEF Save
    <3>3. state' \in Versions \cup {None} /\ serial' \in BOOLEAN
      BY <2>8, <3>1, SavingTypes, SavedTypes DEF Save
    <3> QED
      BY <2>0, <2>a, <2>b, <2>8, <3>2, <3>3 DEF Save
  <2>9. ASSUME NEW r \in Requests, Rotate(r) PROVE TypeOK'
    <3>1. "restart" \in Steps(op[r].kind)
      BY <2>9 DEF Rotate, At, Steps
    <3>2. op' \in [Requests -> Operation]
      BY <2>9, <3>1, GoesOn DEF Rotate
    <3>3. TreeTypes'
      BY <2>0, <2>9, KeptLists DEF Rotate, TreeTypes, Distinct
    <3> QED
      BY <2>0, <2>c, <2>9, <3>2, <3>3 DEF Rotate
  <2>10. ASSUME NEW r \in Requests, Unlink(r) PROVE TypeOK'
    <3>1. "wipe" \in Steps(op[r].kind)
      BY <2>10 DEF Unlink, At, Steps
    <3>2. op' \in [Requests -> Operation]
      BY <2>10, <3>1, GoesOn DEF Unlink
    <3>3. TreeTypes'
      BY <2>0, <2>10 DEF Unlink, TreeTypes, OnDisk, Distinct
    <3> QED
      BY <2>0, <2>c, <2>10, <3>2, <3>3 DEF Unlink
  <2>11. ASSUME NEW r \in Requests, Wipe(r) PROVE TypeOK'
    <3>1. "forget" \in Steps(op[r].kind)
      BY <2>11 DEF Wipe, At, Steps
    <3>2. op' \in [Requests -> Operation]
      BY <2>0, <2>11, <3>1, GoesOn DEF Wipe
    <3>3. TreeTypes'
      <4>1. ASSUME NEW v \in OnDisk, dirs' = Without(v), full' = full \ {v}
            PROVE  TreeTypes'
        <5> DEFINE w == Without(v)
        <5>0. w \in Seq(Versions) /\ Distinct(w) /\ Listed(w) = OnDisk \ {v} /\ dirs' = w
          BY <4>1, WithoutLists
        <5> HIDE DEF w
        <5>1. dirs' \in Seq(Versions) /\ Distinct(dirs)' /\ OnDisk' = OnDisk \ {v}
          BY <5>0 DEF Distinct, OnDisk, Listed
        <5> QED
          BY <2>0, <2>11, <4>1, <5>1 DEF Wipe, TreeTypes
      <4>2. ASSUME UNCHANGED <<dirs, full>> PROVE TreeTypes'
        BY <2>a, <2>11, <4>2 DEF Wipe
      <4> QED
        BY <2>11, <4>1, <4>2 DEF Wipe
    <3> QED
      BY <2>0, <2>c, <2>11, <3>2, <3>3 DEF Wipe
  <2>22. ASSUME NEW r \in Requests, Forget(r) PROVE TypeOK'
    <3>1. "restart" \in Steps(op[r].kind)
      BY <2>22 DEF Forget, At, Steps
    <3>2. op' \in [Requests -> Operation]
      BY <2>22, <3>1, GoesOn DEF Forget
    <3> QED
      BY <2>0, <2>a, <2>b, <2>22, <3>2 DEF Forget
  <2>12. ASSUME NEW r \in Requests, Restart(r) PROVE TypeOK'
    <3>1. "end" \in Steps(op[r].kind)
      BY <2>12, <2>e, Places DEF Restart, Kinds, Steps
    <3>2. op' \in [Requests -> Operation]
      BY <2>12, <3>1, GoesToEnd DEF Restart
    <3>3. RestTypes'
      BY <2>0, <2>12, ResolveType DEF Restart, RestTypes
    <3> QED
      BY <2>0, <2>a, <2>12, <3>2, <3>3 DEF Restart
  <2>13. ASSUME NEW t \in Touchers, CheckLatest(t) PROVE TypeOK'
    <3>1. touch' \in [Touchers -> Touch]
      BY <2>13, TouchTypes DEF CheckLatest
    <3>2. calls' \in 0 .. MaxCalls
      BY <2>0, <2>13, InstallAssumption DEF CheckLatest, RestTypes
    <3> QED
      BY <2>0, <2>a, <2>13, <3>1, <3>2 DEF CheckLatest, RestTypes
  <2>23. ASSUME NEW t \in Touchers, TouchLoad(t) PROVE TypeOK'
    <3>1. [pc |-> "save", loaded |-> state] \in Touch
      BY <2>0 DEF Touch, RestTypes
    <3>2. touch' \in [Touchers -> Touch]
      BY <2>0, <2>23, <3>1 DEF TouchLoad, RestTypes
    <3> QED
      BY <2>0, <2>d, <2>23, <3>2 DEF TouchLoad, RestTypes
  <2>24. ASSUME NEW t \in Touchers, TouchSave(t) PROVE TypeOK'
    <3>1. touch' \in [Touchers -> Touch]
      BY <2>0, <2>24, Constants DEF TouchSave, RestTypes
    <3>2. touch[t].loaded \in Versions \cup {None} /\ state \in Versions \cup {None}
      BY <2>0 DEF RestTypes, Touch
    <3>3. state' \in Versions \cup {None} /\ serial' \in BOOLEAN
      BY <2>24, <3>2, SavingTypes, SavedTypes DEF TouchSave
    <3> QED
      BY <2>d, <2>24, <3>1, <3>3 DEF TouchSave
  <2>14. ASSUME NEW r \in Requests, Begin(r) PROVE TypeOK'
    <3>1. PICK v \in Versions, pc \in {"latest", "fetch"} :
            Arrive(r, "install", pc, v) /\ job' = r
      BY <2>14 DEF Begin
    <3>2. pc \in Steps("install")
      BY DEF Steps
    <3> QED
      BY <3>1, <3>2, ArriveTypes
  <2>15. ASSUME NEW r \in Requests, Rollback(r) \/ ResetToImage(r) PROVE TypeOK'
    <3>1. "link" \in Steps("rollback") /\ "unlink" \in Steps("reset")
      BY DEF Steps
    <3>2. job \in Requests \cup {None}
      BY DEF TypeOK
    <3>3. CASE Rollback(r)
      <4>1. dirs[2] \in Versions
        BY <3>3, LenProperties, ElementOfSeq DEF Rollback, TypeOK
      <4> QED
        BY <3>1, <3>2, <3>3, <4>1, ArriveTypes DEF Rollback
    <3>4. CASE ResetToImage(r)
      BY <3>1, <3>2, <3>4, ArriveTypes DEF ResetToImage
    <3> QED
      BY <2>15, <3>3, <3>4
  <2>16. ASSUME NEW r \in Requests, Fail(r) PROVE TypeOK'
    <3>1. "end" \in Steps(op[r].kind)
      BY <2>16, <2>e, Places DEF Fail, Kinds, Steps
    <3>2. op' \in [Requests -> Operation]
      BY <2>16, <3>1, GoesToEnd DEF Fail
    <3>3. RestTypes'
      <4>1. faults' \in 0 .. MaxFaults
        <5>1. faults \in 0 .. MaxFaults /\ MaxFaults \in Nat
          BY InstallAssumption DEF TypeOK
        <5>2. faults < MaxFaults /\ faults' = faults + 1
          BY <2>16 DEF Fail
        <5> QED
          BY <5>1, <5>2
      <4>2. UNCHANGED <<state, running, job, touch, ghost, serial, calls>>
        BY <2>16 DEF Fail
      <4> QED
        BY <2>0, <4>1, <4>2 DEF RestTypes
    <3>4. TreeTypes'
      BY <2>0, <2>16 DEF Fail, TreeTypes, OnDisk, Distinct
    <3> QED
      BY <2>0, <3>2, <3>3, <3>4
  <2>17. CASE Crash
    <3>1. op' \in [Requests -> Operation]
      BY <2>17, Constants DEF Crash
    <3>2. touch' \in [Touchers -> Touch]
      BY <2>17, Constants DEF Crash
    <3>3. RestTypes'
      BY <2>0, <2>17, <3>2, ResolveType, InstallAssumption DEF Crash, RestTypes
    <3> QED
      BY <2>0, <2>a, <2>17, <3>1, <3>3 DEF Crash
  <2>18. CASE Respawn
    BY <2>0, <2>a, <2>18, ResolveType DEF Respawn, RestTypes
  <2>19. CASE UNCHANGED vars
    BY <2>0, <2>a, <2>19 DEF vars, RestTypes
  <2> QED
    BY <2>1, <2>2, <2>3, <2>4, <2>5, <2>6, <2>7, <2>8, <2>9, <2>10, <2>11, <2>12,
       <2>13, <2>14, <2>15, <2>16, <2>17, <2>18, <2>19, <2>20, <2>21, <2>22, <2>23,
       <2>24 DEF Next, Step
<1> QED
  BY <1>1, <1>2, PTL DEF Spec

-----------------------------------------------------------------------------
\* A request is under way.
Active(r) == op[r].pc \notin {"idle", "end"}

\* What a request has found or made when no other is under way.
CalmOf(r) ==
  /\ op[r].kind = "install" /\ op[r].pc \in {"link", "flip"} => op[r].ver \in full
  /\ op[r].pc = "flip" => tmpLink = op[r].ver
  /\ op[r].kind = "install" /\ op[r].pc \in {"geo", "save", "rotate"} =>
       link = op[r].ver
  /\ op[r].pc = "wipe" => link = None

\* As long as no two requests overlapped, one at most is under way.
Calm ==
  /\ \A q, r \in Requests : Active(q) /\ Active(r) => q = r
  /\ \A r \in Requests : CalmOf(r)

CalmInv == calm => Calm

\* What a step of a request does to it and to the others.
LEMMA StepGoesOn ==
  ASSUME TypeOK, NEW r \in Requests, NEW pc, Goto(r, pc)
  PROVE  /\ op'[r].kind = op[r].kind /\ op'[r].pc = pc /\ op'[r].ver = op[r].ver
         /\ \A q \in Requests \ {r} : op'[q] = op[q]
<1>1. op \in [Requests -> Operation] /\ op[r] \in Operation
  BY DEF TypeOK
<1>2. op' = [op EXCEPT ![r] = [op[r] EXCEPT !.pc = pc]]
  BY DEF Goto
<1>3. op'[r] = [op[r] EXCEPT !.pc = pc] /\ \A q \in Requests \ {r} : op'[q] = op[q]
  BY <1>1, <1>2
<1> QED
  BY <1>1, <1>3 DEF Operation

LEMMA StepEnds ==
  ASSUME TypeOK, NEW r \in Requests, NEW result, Ends(r, result)
  PROVE  /\ op'[r].kind = op[r].kind /\ op'[r].pc = "end" /\ op'[r].ver = op[r].ver
         /\ op'[r].result = result
         /\ \A q \in Requests \ {r} : op'[q] = op[q]
<1> DEFINE o == [op[r] EXCEPT !.pc = "end", !.result = result]
<1>1. op \in [Requests -> Operation] /\ op[r] \in Operation
  BY DEF TypeOK
<1>2. o.kind = op[r].kind /\ o.pc = "end" /\ o.ver = op[r].ver /\ o.result = result
  BY <1>1 DEF Operation
<1>3. op' = [op EXCEPT ![r] = o]
  BY <1>1 DEF Ends, Operation
<1> HIDE DEF o
<1> QED
  BY <1>1, <1>2, <1>3

\* A step of the one request that is under way.
LEMMA CalmStep ==
  ASSUME Calm, NEW r \in Requests, Active(r),
         \A q \in Requests \ {r} : op'[q] = op[q], CalmOf(r)'
  PROVE  Calm'
<1>1. \A q \in Requests \ {r} : op'[q].pc \in {"idle", "end"}
  BY DEF Calm, Active
<1>2. \A q \in Requests \ {r} : CalmOf(q)'
  BY <1>1 DEF CalmOf
<1>3. \A q \in Requests \ {r} : ~Active(q)'
  BY <1>1 DEF Active
<1> HIDE DEF CalmOf, Active
<1> QED
  BY <1>2, <1>3 DEF Calm

\* A step that leaves the tree alone and after which requests are as they
\* were or not under way.
LEMMA CalmKept ==
  ASSUME Calm, UNCHANGED tree,
         \A q \in Requests : op'[q] = op[q] \/ op'[q].pc \in {"idle", "end"}
  PROVE  Calm'
<1>1. ASSUME NEW q \in Requests PROVE CalmOf(q)'
  BY DEF Calm, CalmOf, tree
<1>2. \A q, r \in Requests : Active(q)' /\ Active(r)' => q = r
  BY DEF Calm, Active
<1> HIDE DEF CalmOf
<1> QED
  BY <1>1, <1>2 DEF Calm

\* A request arrives and no other is under way.
LEMMA CalmArrival ==
  ASSUME TypeOK, calm', NEW r \in Requests, NEW kind, NEW v,
         NEW pc \in {"latest", "fetch", "link", "unlink"}, Arrive(r, kind, pc, v),
         kind = "install" => pc # "link"
  PROVE  Calm'
<1> DEFINE o == [kind |-> kind, pc |-> pc, ver |-> v, result |-> "none"]
<1>1. op' = [op EXCEPT ![r] = o] /\ op \in [Requests -> Operation]
  BY DEF Arrive, TypeOK
<1>2. o.kind = kind /\ o.pc = pc
  OBVIOUS
<1> HIDE DEF o
<1>3. op'[r].kind = kind /\ op'[r].pc = pc /\ \A q \in Requests \ {r} : op'[q] = op[q]
  BY <1>1, <1>2
<1>4. \A q \in Requests \ {r} : op'[q].pc \in {"idle", "end"}
  BY <1>3 DEF Arrive
<1>5. \A q \in Requests : CalmOf(q)'
  BY <1>3, <1>4 DEF CalmOf
<1>6. \A p, q \in Requests : Active(p)' /\ Active(q)' => p = q
  BY <1>4 DEF Active
<1> HIDE DEF CalmOf
<1> QED
  BY <1>5, <1>6 DEF Calm

\* calm is never regained.
LEMMA CalmLasts == [Next]_vars /\ calm' => calm
BY DEF Next, Step, End, Latest, Fetch, Stage, Prepare, Clear, Mkdir, Move, Link, Flip,
       Geo, Save, Rotate, Unlink, Wipe, Forget, Restart, TouchLoad, TouchSave, Begin,
       Rollback, ResetToImage, CheckLatest, Arrive, Fail, Crash, Respawn, vars, ghost

LEMMA CalmKeeps == TypeOK /\ CalmInv /\ [Next]_vars => CalmInv'
<1> SUFFICES ASSUME TypeOK, CalmInv, [Next]_vars, calm' PROVE Calm'
  BY DEF CalmInv
<1>a. Calm
  BY CalmLasts DEF CalmInv
<1>b. ASSUME NEW r \in Requests PROVE op[r] \in Operation /\ CalmOf(r)
  BY <1>a DEF TypeOK, Calm
<1>c. ASSUME NEW r \in Requests, Active(r),
             UNCHANGED tree \/ (link' = link /\ tmpLink' = tmpLink),
             NEW pc \in {"fetch", "stage", "clear", "mkdir", "move", "save", "rotate",
                         "forget", "restart", "end"},
             op'[r].pc = pc, op'[r].kind = op[r].kind, op'[r].ver = op[r].ver,
             op[r].kind = "install" /\ pc \in {"save", "rotate"} => link = op[r].ver,
             \A q \in Requests \ {r} : op'[q] = op[q]
      PROVE  Calm'
  <2>1. link' = link
    BY <1>c DEF tree
  <2>2. CalmOf(r)'
    BY <1>c, <2>1 DEF CalmOf
  <2> QED
    BY <1>a, <1>c, <2>2, CalmStep
<1>1. ASSUME NEW r \in Requests, End(r) PROVE Calm'
  <2>1. op' = [op EXCEPT ![r] = Idle] /\ op \in [Requests -> Operation] /\ Idle.pc = "idle"
    BY <1>1 DEF End, TypeOK, Idle
  <2> QED
    BY <1>a, <1>1, <2>1, CalmKept DEF End
<1>2. ASSUME NEW r \in Requests, Latest(r) \/ Fetch(r) \/ Stage(r) PROVE Calm'
  <2>1. Active(r) /\ UNCHANGED tree
    BY <1>2 DEF Latest, Fetch, Stage, Prepare, At, Active
  <2>2. CASE Ends(r, "failed")
    BY <1>a, <2>1, <2>2, StepEnds, CalmKept
  <2>3. CASE \E pc \in {"fetch", "stage", "clear"} : Goto(r, pc)
    BY <1>c, <2>1, <2>3, StepGoesOn
  <2> QED
    BY <1>2, <2>2, <2>3 DEF Latest, Fetch, Stage, Prepare
<1>3. ASSUME NEW r \in Requests, Clear(r) \/ Mkdir(r) PROVE Calm'
  <2>1. Active(r) /\ link' = link /\ tmpLink' = tmpLink
    BY <1>3 DEF Clear, Mkdir, At, Active
  <2>2. PICK pc \in {"mkdir", "move"} : Goto(r, pc)
    BY <1>3 DEF Clear, Mkdir
  <2> QED
    BY <1>c, <2>1, <2>2, StepGoesOn
<1>4. ASSUME NEW r \in Requests, Move(r) PROVE Calm'
  <2>1. Active(r) /\ op[r].kind = "install" /\ link' = link /\ tmpLink' = tmpLink
    BY <1>4 DEF Move, At, Active
  <2>2. CASE op[r].ver \in OnDisk
    <3>1. Goto(r, "link") /\ op[r].ver \in full'
      BY <1>4, <2>2 DEF Move
    <3>2. /\ op'[r].kind = "install" /\ op'[r].pc = "link" /\ op'[r].ver = op[r].ver
          /\ \A q \in Requests \ {r} : op'[q] = op[q]
      BY <2>1, <3>1, StepGoesOn
    <3>3. CalmOf(r)'
      BY <3>1, <3>2 DEF CalmOf
    <3> QED
      BY <1>a, <2>1, <3>2, <3>3, CalmStep
  <2>3. CASE op[r].ver \notin OnDisk
    <3>1. Ends(r, "failed")
      BY <1>4, <2>3 DEF Move
    <3> QED
      BY <1>c, <2>1, <3>1, StepEnds
  <2> QED
    BY <2>2, <2>3
<1>5. ASSUME NEW r \in Requests, Link(r) PROVE Calm'
  <2>1. Active(r) /\ op[r].pc = "link" /\ tmpLink' = op[r].ver /\ full' = full
    BY <1>5 DEF Link, Active
  <2>2. /\ op'[r].kind = op[r].kind /\ op'[r].pc = "flip" /\ op'[r].ver = op[r].ver
        /\ \A q \in Requests \ {r} : op'[q] = op[q]
    BY <1>5, StepGoesOn DEF Link
  <2>3. CalmOf(r)'
    BY <1>b, <2>1, <2>2 DEF CalmOf
  <2> QED
    BY <1>a, <2>1, <2>2, <2>3, CalmStep
<1>6. ASSUME NEW r \in Requests, Flip(r) PROVE Calm'
  <2>1. Active(r) /\ op[r].pc = "flip" /\ tmpLink = op[r].ver
    BY <1>6, <1>b DEF Flip, Active, CalmOf
  <2>2. CASE tmpLink # None
    <3> DEFINE pc == IF op[r].kind = "install" THEN "geo" ELSE "save"
    <3>1. Goto(r, pc) /\ link' = op[r].ver /\ pc \in {"geo", "save"}
      BY <1>6, <2>1, <2>2 DEF Flip
    <3> HIDE DEF pc
    <3>2. /\ op'[r].pc = pc /\ op'[r].ver = op[r].ver
          /\ \A q \in Requests \ {r} : op'[q] = op[q]
      BY <3>1, StepGoesOn
    <3>3. CalmOf(r)'
      BY <3>1, <3>2 DEF CalmOf
    <3> QED
      BY <1>a, <2>1, <3>2, <3>3, CalmStep
  <2>3. CASE tmpLink = None
    <3>1. Ends(r, "failed") /\ link' = link /\ tmpLink' = tmpLink
      BY <1>6, <2>3 DEF Flip
    <3> QED
      BY <1>c, <2>1, <3>1, StepEnds
  <2> QED
    BY <2>2, <2>3
<1>7. ASSUME NEW r \in Requests, Geo(r) \/ Save(r) PROVE Calm'
  <2>1. Active(r) /\ UNCHANGED tree /\ op[r].pc \in {"geo", "save"}
    BY <1>7 DEF Geo, Save, At, Active
  <2>2. op[r].kind = "install" => link = op[r].ver
    BY <1>b, <2>1 DEF CalmOf
  <2>3. PICK pc \in {"save", "rotate", "restart"} : Goto(r, pc)
    BY <1>7 DEF Geo, Save
  <2> QED
    BY <1>c, <2>1, <2>2, <2>3, StepGoesOn
<1>8. ASSUME NEW r \in Requests, Rotate(r) PROVE Calm'
  <2>1. Active(r) /\ link' = link /\ tmpLink' = tmpLink /\ Goto(r, "restart")
    BY <1>8 DEF Rotate, At, Active
  <2> QED
    BY <1>c, <2>1, StepGoesOn
<1>9. ASSUME NEW r \in Requests, Unlink(r) PROVE Calm'
  <2>1. Active(r) /\ link' = None /\ Goto(r, "wipe") /\ op[r].kind = "reset"
    BY <1>9 DEF Unlink, At, Active
  <2>2. /\ op'[r].kind = "reset" /\ op'[r].pc = "wipe"
        /\ \A q \in Requests \ {r} : op'[q] = op[q]
    BY <2>1, StepGoesOn
  <2>3. CalmOf(r)'
    BY <2>1, <2>2 DEF CalmOf
  <2> QED
    BY <1>a, <2>1, <2>2, <2>3, CalmStep
<1>10. ASSUME NEW r \in Requests, Wipe(r) PROVE Calm'
  <2>1. Active(r) /\ link' = link /\ tmpLink' = tmpLink /\ op[r].pc = "wipe" /\ link = None
    BY <1>10, <1>b DEF Wipe, At, Active, CalmOf
  <2>2. CASE Goto(r, "forget")
    BY <1>c, <2>1, <2>2, StepGoesOn
  <2>3. CASE UNCHANGED op
    <3>1. CalmOf(r)'
      BY <2>1, <2>3 DEF CalmOf
    <3> QED
      BY <1>a, <2>1, <2>3, <3>1, CalmStep
  <2> QED
    BY <1>10, <2>2, <2>3 DEF Wipe
<1>11. ASSUME NEW r \in Requests, Forget(r) PROVE Calm'
  <2>1. Active(r) /\ UNCHANGED tree /\ Goto(r, "restart")
    BY <1>11 DEF Forget, At, Active
  <2> QED
    BY <1>c, <2>1, StepGoesOn
<1>12. ASSUME NEW r \in Requests, Restart(r) \/ Fail(r) PROVE Calm'
  <2>1. PICK result \in {"done", "failed", "not restarted"} : Ends(r, result)
    BY <1>12 DEF Restart, Fail
  <2>2. op'[r].pc = "end" /\ \A q \in Requests \ {r} : op'[q] = op[q]
    BY <2>1, StepEnds
  <2>3. Active(r)
    BY <1>12 DEF Restart, Fail, Active
  <2>4. CalmOf(r)'
    BY <2>2 DEF CalmOf
  <2> QED
    BY <1>a, <2>2, <2>3, <2>4, CalmStep
<1>13. ASSUME NEW r \in Requests, Begin(r) \/ Rollback(r) \/ ResetToImage(r) PROVE Calm'
  <2>1. CASE Begin(r)
    BY <2>1, CalmArrival DEF Begin
  <2>2. CASE Rollback(r)
    BY <2>2, CalmArrival DEF Rollback
  <2>3. CASE ResetToImage(r)
    BY <2>3, CalmArrival DEF ResetToImage
  <2> QED
    BY <1>13, <2>1, <2>2, <2>3
<1>14. ASSUME UNCHANGED <<tree, op>> PROVE Calm'
  BY <1>a, <1>14, CalmKept
<1>15. ASSUME NEW t \in Touchers, CheckLatest(t) \/ TouchLoad(t) \/ TouchSave(t) PROVE Calm'
  BY <1>14, <1>15 DEF CheckLatest, TouchLoad, TouchSave
<1>16. CASE Crash
  <2>1. UNCHANGED tree /\ \A q \in Requests : op'[q].pc = "idle"
    BY <1>16 DEF Crash, Idle
  <2> QED
    BY <1>a, <2>1, CalmKept
<1>17. CASE Respawn \/ UNCHANGED vars
  BY <1>14, <1>17 DEF Respawn, vars
<1> QED
  BY <1>1, <1>2, <1>3, <1>4, <1>5, <1>6, <1>7, <1>8, <1>9, <1>10, <1>11, <1>12,
     <1>13, <1>15, <1>16, <1>17 DEF Next, Step

\* The steps after which the live link may dangle though it did not.
Dangles ==
  \E r \in Requests :
    \/ At(r, "install", "clear") /\ op[r].ver = link
    \/ At(r, "rollback", "flip") /\ op[r].ver \notin full

LEMMA WholeKeeps ==
  TypeOK /\ Calm /\ [Next]_vars /\ Whole => Whole' \/ Dangles
<1> SUFFICES ASSUME TypeOK, Calm, [Next]_vars, Whole PROVE Whole' \/ Dangles
  OBVIOUS
<1>a. ASSUME NEW r \in Requests PROVE op[r] \in Operation /\ CalmOf(r)
  BY DEF TypeOK, Calm
<1>b. ASSUME UNCHANGED <<full, link>> PROVE Whole'
  BY <1>b DEF Whole
<1>1. ASSUME NEW r \in Requests, Clear(r) PROVE Whole' \/ Dangles
  BY <1>1 DEF Clear, Whole, Dangles
<1>2. ASSUME NEW r \in Requests, Move(r) PROVE Whole'
  BY <1>2 DEF Move, Whole
<1>3. ASSUME NEW r \in Requests, Flip(r) PROVE Whole' \/ Dangles
  <2>1. op[r].pc = "flip" /\ tmpLink = op[r].ver /\ full' = full
    BY <1>3, <1>a DEF Flip, CalmOf
  <2>2. op[r].kind \in {"install", "rollback"}
    BY <1>a, <2>1, Places DEF Kinds
  <2>3. CASE tmpLink = None
    BY <1>b, <1>3, <2>3 DEF Flip
  <2>4. CASE tmpLink # None
    <3>1. link' = op[r].ver
      BY <1>3, <2>1, <2>4 DEF Flip
    <3>2. op[r].kind = "install" => op[r].ver \in full
      BY <1>a, <2>1 DEF CalmOf
    <3> QED
      BY <2>1, <2>2, <3>1, <3>2 DEF Whole, Dangles, At
  <2> QED
    BY <2>3, <2>4
<1>4. ASSUME NEW r \in Requests, Rotate(r) PROVE Whole'
  <2>1. link = op[r].ver /\ link' = link
    BY <1>4, <1>a DEF Rotate, At, CalmOf
  <2>2. OnDisk' = Listed(Kept(op[r].ver)) /\ full' = full \cap OnDisk'
    BY <1>4 DEF Rotate, OnDisk, Listed
  <2>3. full \subseteq OnDisk /\ (op[r].ver \in OnDisk => op[r].ver \in OnDisk')
    BY <2>2, KeptLists DEF TypeOK
  <2> QED
    BY <2>1, <2>2, <2>3 DEF Whole
<1>5. ASSUME NEW r \in Requests, Unlink(r) \/ Wipe(r) PROVE Whole'
  <2>1. link' = None
    BY <1>5, <1>a DEF Unlink, Wipe, At, CalmOf
  <2> QED
    BY <2>1 DEF Whole
<1>6. ASSUME NEW r \in Requests,
             \/ End(r) \/ Latest(r) \/ Fetch(r) \/ Stage(r) \/ Mkdir(r) \/ Link(r) \/ Geo(r)
             \/ Save(r) \/ Forget(r) \/ Restart(r) \/ Fail(r)
             \/ Begin(r) \/ Rollback(r) \/ ResetToImage(r)
      PROVE  Whole'
  <2>1. UNCHANGED <<full, link>>
    BY <1>6 DEF End, Latest, Fetch, Stage, Prepare, Mkdir, Link, Geo, Save, Forget,
                Restart, Fail, Begin, Rollback, ResetToImage, Arrive, tree
  <2> QED
    BY <1>b, <2>1
<1>7. ASSUME NEW t \in Touchers, CheckLatest(t) \/ TouchLoad(t) \/ TouchSave(t) PROVE Whole'
  BY <1>b, <1>7 DEF CheckLatest, TouchLoad, TouchSave, tree
<1>8. CASE Crash \/ Respawn \/ UNCHANGED vars
  BY <1>b, <1>8 DEF Crash, Respawn, vars, tree
<1> QED
  BY <1>1, <1>2, <1>3, <1>4, <1>5, <1>6, <1>7, <1>8 DEF Next, Step

\* While requests do not overlap, whatever fails and crashes, only the new
\* install of the live version and a rollback onto a directory without its
\* binary make the live link dangle.
THEOREM LinkStaysWhole == Spec => LiveWhole
<1>1. Init => CalmInv
  BY DEF Init, Idle, CalmInv, Calm, CalmOf, Active
<1>2. TypeOK /\ CalmInv /\ [Next]_vars =>
        [calm' /\ Whole /\ ~Whole' =>
           \E r \in Requests :
             \/ At(r, "install", "clear") /\ op[r].ver = link
             \/ At(r, "rollback", "flip") /\ op[r].ver \notin full]_vars
  <2> SUFFICES ASSUME TypeOK, CalmInv, [Next]_vars, calm', Whole, ~Whole' PROVE Dangles
    BY DEF Dangles
  <2> QED
    BY CalmLasts, WholeKeeps DEF CalmInv
<1> QED
  BY <1>1, <1>2, CalmKeeps, TypeCorrect, PTL DEF Spec, LiveWhole

-----------------------------------------------------------------------------
\* What a request that no other overlaps has done so far.
Linked(r) ==
  CASE op[r].kind = "install" -> op[r].pc \in {"geo", "save", "rotate", "restart"}
    [] op[r].kind = "rollback" -> op[r].pc \in {"save", "restart"}
    [] OTHER -> op[r].pc \in {"wipe", "forget", "restart"}
Recorded(r) == op[r].pc \in {"rotate", "restart"}
Successful(r) == op[r].pc = "end" /\ op[r].result = "done"

\* state.json records v, and so does every copy of it that may be saved.
OnRecord(v) == state = v /\ \A t \in Touchers : touch[t].pc = "save" => touch[t].loaded = v

AloneOf(r) ==
  /\ op[r].pc = "flip" => tmpLink = op[r].ver
  /\ Linked(r) \/ Successful(r) => link = op[r].ver
  /\ serial /\ (Recorded(r) \/ Successful(r)) => OnRecord(op[r].ver)
  /\ op[r].kind = "install" /\ (op[r].pc \in {"link", "flip"} \/ Linked(r) \/ Successful(r)) =>
       op[r].ver \in full
  /\ op[r].kind = "reset" => op[r].ver = None
  /\ Successful(r) => running = Resolve

\* Nothing else is under way beside a request that no other overlapped so far.
AloneInv ==
  \A r \in alone :
    AloneOf(r) /\ \A q \in Requests \ {r} : op[q].pc \in {"idle", "end"}

\* A step of a request under way: no other can be one that none overlapped.
LEMMA AloneStep ==
  ASSUME TypeOK, AloneInv, UNCHANGED alone, NEW r \in Requests,
         op[r].pc \notin {"idle", "end"}, \A q \in Requests \ {r} : op'[q] = op[q],
         AloneOf(r) => AloneOf(r)'
  PROVE  AloneInv'
<1>1. \A q \in alone : q = r
  BY DEF AloneInv, TypeOK
<1> HIDE DEF AloneOf
<1> QED
  BY <1>1 DEF AloneInv

\* A step that leaves the tree and state.json alone, of a request that is
\* gone afterwards or of the supervisor.
LEMMA AloneGone ==
  ASSUME TypeOK, AloneInv, UNCHANGED <<tree, state, touch, serial, alone>>,
         UNCHANGED running \/ running' = Resolve,
         \A q \in Requests : op'[q] = op[q] \/ op'[q] = Idle
  PROVE  AloneInv'
<1>1. /\ Idle.pc = "idle" /\ Idle.kind = "none"
  BY DEF Idle
<1>2. UNCHANGED Resolve
  BY DEF tree, Resolve
<1>3. ASSUME NEW q \in alone PROVE AloneOf(q)'
  <2>1. q \in Requests
    BY DEF TypeOK
  <2>2. CASE op'[q] = op[q]
    BY <1>2, <2>2 DEF AloneInv, AloneOf, OnRecord, Linked, Recorded, Successful, tree
  <2>3. CASE op'[q] = Idle
    BY <1>1, <2>3 DEF AloneOf, Linked, Recorded, Successful
  <2> QED
    BY <2>1, <2>2, <2>3
<1>4. \A q \in alone : \A p \in Requests \ {q} : op'[p].pc \in {"idle", "end"}
  BY <1>1 DEF AloneInv
<1> HIDE DEF AloneOf
<1> QED
  BY <1>3, <1>4 DEF AloneInv

\* A check or a step of touchLastCheck beside requests.
LEMMA AloneTouch ==
  ASSUME TypeOK, AloneInv, UNCHANGED <<tree, running, op, alone>>,
         serial' => serial /\ \A v : OnRecord(v) => OnRecord(v)'
  PROVE  AloneInv'
<1>1. UNCHANGED Resolve
  BY DEF tree, Resolve
<1>2. ASSUME NEW q \in alone PROVE AloneOf(q)'
  <2>1. AloneOf(q)
    BY DEF AloneInv
  <2>2. serial' /\ OnRecord(op[q].ver) => OnRecord(op[q].ver)'
    <3> DEFINE v == op[q].ver
    <3>1. v' = v
      OBVIOUS
    <3>2. PICK w : w = v
      OBVIOUS
    <3>3. serial' /\ OnRecord(w) => OnRecord(w)'
      OBVIOUS
    <3> QED
      BY <3>1, <3>2, <3>3 DEF OnRecord
  <2> HIDE DEF OnRecord
  <2> QED
    BY <1>1, <2>1, <2>2 DEF AloneOf, Linked, Recorded, Successful, tree
<1> HIDE DEF AloneOf
<1> QED
  BY <1>2 DEF AloneInv

\* A request arrives; only this one can be one that no other overlapped.
LEMMA AloneArrival ==
  ASSUME TypeOK, AloneInv, NEW r \in Requests, NEW kind, NEW pc, NEW v,
         Arrive(r, kind, pc, v), pc \in {"latest", "fetch", "link", "unlink"},
         kind = "install" => pc \in {"latest", "fetch"}, kind = "rollback" => pc = "link",
         kind = "reset" => v = None
  PROVE  AloneInv'
<1> DEFINE o == [kind |-> kind, pc |-> pc, ver |-> v, result |-> "none"]
<1>1. op' = [op EXCEPT ![r] = o] /\ op \in [Requests -> Operation]
  BY DEF Arrive, TypeOK
<1>2. o.kind = kind /\ o.pc = pc /\ o.ver = v
  OBVIOUS
<1> HIDE DEF o
<1>3. /\ op'[r].kind = kind /\ op'[r].pc = pc /\ op'[r].ver = v
      /\ \A q \in Requests \ {r} : op'[q] = op[q]
  BY <1>1, <1>2
<1>4. AloneOf(r)'
  BY <1>3 DEF AloneOf, Linked, Recorded, Successful
<1>5. \A q \in alone' : q = r /\ \A p \in Requests \ {q} : op[p].pc \in {"idle", "end"}
  BY DEF Arrive
<1> HIDE DEF AloneOf
<1> QED
  BY <1>3, <1>4, <1>5 DEF AloneInv

LEMMA AloneKeeps == TypeOK /\ AloneInv /\ [Next]_vars => AloneInv'
<1> SUFFICES ASSUME TypeOK, AloneInv, [Next]_vars PROVE AloneInv'
  OBVIOUS
<1> USE DEF ghost
<1>c. ASSUME NEW r \in Requests PROVE op[r] \in Operation
  BY DEF TypeOK
<1>1. ASSUME NEW r \in Requests, End(r) PROVE AloneInv'
  <2>1. op' = [op EXCEPT ![r] = Idle] /\ op \in [Requests -> Operation]
    BY <1>1 DEF End, TypeOK
  <2> QED
    BY <1>1, <2>1, AloneGone DEF End
<1>2. ASSUME NEW r \in Requests, Latest(r) \/ Fetch(r) \/ Stage(r) PROVE AloneInv'
  <2>1. op[r].kind = "install" /\ op[r].pc \in {"latest", "fetch", "stage"} /\ UNCHANGED alone
    BY <1>2 DEF Latest, Fetch, Stage, Prepare, At
  <2>2. Ends(r, "failed") \/ \E pc \in {"fetch", "stage", "clear"} : Goto(r, pc)
    BY <1>2 DEF Latest, Fetch, Stage, Prepare
  <2>3. /\ op'[r].kind = "install" /\ \A q \in Requests \ {r} : op'[q] = op[q]
        /\ \/ op'[r].pc \in {"fetch", "stage", "clear"}
           \/ op'[r].pc = "end" /\ op'[r].result = "failed"
    BY <2>1, <2>2, StepGoesOn, StepEnds
  <2>4. AloneOf(r)'
    BY <2>3 DEF AloneOf, Linked, Recorded, Successful
  <2> QED
    BY <2>1, <2>3, <2>4, AloneStep
<1>3. ASSUME NEW r \in Requests, Clear(r) \/ Mkdir(r) PROVE AloneInv'
  <2>1. op[r].kind = "install" /\ op[r].pc \in {"clear", "mkdir"} /\ UNCHANGED alone
    BY <1>3 DEF Clear, Mkdir, At
  <2>2. PICK pc \in {"mkdir", "move"} : Goto(r, pc)
    BY <1>3 DEF Clear, Mkdir
  <2>3. /\ op'[r].kind = "install" /\ op'[r].pc = pc
        /\ \A q \in Requests \ {r} : op'[q] = op[q]
    BY <2>1, <2>2, StepGoesOn
  <2>4. AloneOf(r)'
    BY <2>3 DEF AloneOf, Linked, Recorded, Successful
  <2> QED
    BY <2>1, <2>3, <2>4, AloneStep
<1>5. ASSUME NEW r \in Requests, Move(r) PROVE AloneInv'
  <2>1. /\ op[r].kind = "install" /\ op[r].pc = "move" /\ UNCHANGED alone
        /\ "link" \in Steps(op[r].kind) /\ "end" \in Steps(op[r].kind)
    BY <1>5 DEF Move, At, Steps
  <2>2. /\ op'[r].kind = "install" /\ op'[r].ver = op[r].ver
        /\ \A q \in Requests \ {r} : op'[q] = op[q]
        /\ \/ op'[r].pc = "end" /\ op'[r].result = "failed"
           \/ op'[r].pc = "link" /\ op[r].ver \in full'
    BY <1>5, <2>1, GoesOn, GoesToEnd DEF Move
  <2>3. AloneOf(r)'
    BY <2>2 DEF AloneOf, OnRecord, Linked, Recorded, Successful
  <2> QED
    BY <2>1, <2>2, <2>3, AloneStep
<1>6. ASSUME NEW r \in Requests, Link(r) PROVE AloneInv'
  <2>1. /\ op[r].kind \in {"install", "rollback"} /\ op[r].pc = "link"
        /\ "flip" \in Steps(op[r].kind) /\ UNCHANGED <<alone, full, state, touch, serial>>
    BY <1>6, <1>c, Places DEF Link, Kinds, Steps
  <2>2. /\ op'[r].kind = op[r].kind /\ op'[r].pc = "flip" /\ op'[r].ver = op[r].ver
        /\ tmpLink' = op[r].ver
        /\ \A q \in Requests \ {r} : op'[q] = op[q]
    BY <1>6, <2>1, GoesOn DEF Link
  <2>3. AloneOf(r) => AloneOf(r)'
    BY <2>1, <2>2 DEF AloneOf, OnRecord, Linked, Recorded, Successful
  <2> QED
    BY <2>1, <2>2, <2>3, AloneStep
<1>7. ASSUME NEW r \in Requests, Flip(r) PROVE AloneInv'
  <2>1. /\ op[r].kind \in {"install", "rollback"} /\ op[r].pc = "flip"
        /\ "end" \in Steps(op[r].kind)
        /\ (IF op[r].kind = "install" THEN "geo" ELSE "save") \in Steps(op[r].kind)
        /\ UNCHANGED <<alone, full, state, touch, serial>>
    BY <1>7, <1>c, Places DEF Flip, Kinds, Steps
  <2>2. /\ op'[r].kind = op[r].kind /\ op'[r].ver = op[r].ver
        /\ \A q \in Requests \ {r} : op'[q] = op[q]
        /\ \/ op'[r].pc = "end" /\ op'[r].result = "failed"
           \/ op'[r].pc \in {"geo", "save"} /\ link' = tmpLink
    BY <1>7, <2>1, GoesOn, GoesToEnd DEF Flip
  <2>3. AloneOf(r) => AloneOf(r)'
    BY <2>1, <2>2 DEF AloneOf, OnRecord, Linked, Recorded, Successful
  <2> QED
    BY <2>1, <2>2, <2>3, AloneStep
<1>8. ASSUME NEW r \in Requests, Geo(r) PROVE AloneInv'
  <2>1. /\ op[r].kind = "install" /\ op[r].pc = "geo" /\ "save" \in Steps(op[r].kind)
        /\ UNCHANGED <<alone, full, link, state, touch, serial>>
    BY <1>8 DEF Geo, At, Steps, tree
  <2>2. /\ op'[r].kind = op[r].kind /\ op'[r].pc = "save" /\ op'[r].ver = op[r].ver
        /\ \A q \in Requests \ {r} : op'[q] = op[q]
    BY <1>8, <2>1, GoesOn DEF Geo
  <2>3. AloneOf(r) => AloneOf(r)'
    BY <2>1, <2>2 DEF AloneOf, OnRecord, Linked, Recorded, Successful
  <2> QED
    BY <2>1, <2>2, <2>3, AloneStep
<1>9. ASSUME NEW r \in Requests, Save(r) PROVE AloneInv'
  <2> DEFINE pc == IF op[r].kind = "install" THEN "rotate" ELSE "restart"
             others == Saving(Requests \ {r}, Touchers)
  <2>1. /\ op[r].kind \in {"install", "rollback"} /\ op[r].pc = "save"
        /\ pc \in {"rotate", "restart"}
        /\ UNCHANGED <<alone, full, link, touch>> /\ SaveState(op[r].ver, others)
        /\ Goto(r, pc)
    BY <1>9, <1>c, Places DEF Save, Kinds, tree
  <2>2. serial' => state' = op[r].ver /\ others = {}
    BY <2>1 DEF SaveState
  <2>3. others = {} => \A t \in Touchers : touch[t].pc # "save"
    BY DEF Saving
  <2> HIDE DEF pc, others
  <2>4. /\ op'[r].kind = op[r].kind /\ op'[r].pc = pc /\ op'[r].ver = op[r].ver
        /\ \A q \in Requests \ {r} : op'[q] = op[q]
    BY <2>1, StepGoesOn
  <2>5. AloneOf(r) => AloneOf(r)'
    BY <2>1, <2>2, <2>3, <2>4 DEF AloneOf, OnRecord, Linked, Recorded, Successful
  <2> QED
    BY <2>1, <2>4, <2>5, AloneStep
<1>10. ASSUME NEW r \in Requests, Rotate(r) PROVE AloneInv'
  <2>1. /\ op[r].kind = "install" /\ op[r].pc = "rotate" /\ "restart" \in Steps(op[r].kind)
        /\ UNCHANGED <<alone, link, state, touch, serial>>
    BY <1>10 DEF Rotate, At, Steps
  <2>2. /\ op'[r].kind = op[r].kind /\ op'[r].pc = "restart" /\ op'[r].ver = op[r].ver
        /\ \A q \in Requests \ {r} : op'[q] = op[q]
    BY <1>10, <2>1, GoesOn DEF Rotate
  <2>3. op[r].ver \in full => op[r].ver \in full'
    <3>1. OnDisk' = Listed(Kept(op[r].ver))
      BY <1>10 DEF Rotate, OnDisk, Listed
    <3> QED
      BY <1>10, <3>1, KeptLists DEF Rotate, TypeOK
  <2>4. AloneOf(r) => AloneOf(r)'
    BY <2>1, <2>2, <2>3 DEF AloneOf, OnRecord, Linked, Recorded, Successful
  <2> QED
    BY <2>1, <2>2, <2>4, AloneStep
<1>11. ASSUME NEW r \in Requests, Unlink(r) PROVE AloneInv'
  <2>1. /\ op[r].kind = "reset" /\ op[r].pc = "unlink" /\ "wipe" \in Steps(op[r].kind)
        /\ link' = None /\ UNCHANGED alone
    BY <1>11 DEF Unlink, At, Steps
  <2>2. /\ op'[r].kind = op[r].kind /\ op'[r].pc = "wipe" /\ op'[r].ver = op[r].ver
        /\ \A q \in Requests \ {r} : op'[q] = op[q]
    BY <1>11, <2>1, GoesOn DEF Unlink
  <2>3. AloneOf(r) => AloneOf(r)'
    BY <2>1, <2>2 DEF AloneOf, OnRecord, Linked, Recorded, Successful
  <2> QED
    BY <2>1, <2>2, <2>3, AloneStep
<1>12. ASSUME NEW r \in Requests, Wipe(r) PROVE AloneInv'
  <2>1. /\ op[r].kind = "reset" /\ op[r].pc = "wipe"
        /\ UNCHANGED <<alone, link, state, touch, serial>>
    BY <1>12 DEF Wipe, At
  <2>2. Goto(r, "forget") \/ UNCHANGED op
    BY <1>12 DEF Wipe
  <2>3. /\ op'[r].kind = op[r].kind /\ op'[r].pc \in {"wipe", "forget"} /\ op'[r].ver = op[r].ver
        /\ \A q \in Requests \ {r} : op'[q] = op[q]
    BY <2>1, <2>2, StepGoesOn
  <2>4. AloneOf(r) => AloneOf(r)'
    BY <2>1, <2>3 DEF AloneOf, Linked, Recorded, Successful
  <2> QED
    BY <2>1, <2>3, <2>4, AloneStep
<1>18. ASSUME NEW r \in Requests, Forget(r) PROVE AloneInv'
  <2>1. /\ op[r].kind = "reset" /\ op[r].pc = "forget" /\ Goto(r, "restart")
        /\ UNCHANGED <<alone, link, touch>> /\ state' = None
        /\ serial' => Saving({}, Touchers) = {}
    BY <1>18 DEF Forget, At, tree
  <2>2. serial' => \A t \in Touchers : touch[t].pc # "save"
    BY <2>1 DEF Saving
  <2>3. /\ op'[r].kind = op[r].kind /\ op'[r].pc = "restart" /\ op'[r].ver = op[r].ver
        /\ \A q \in Requests \ {r} : op'[q] = op[q]
    BY <2>1, StepGoesOn
  <2>4. AloneOf(r) => AloneOf(r)'
    BY <2>1, <2>2, <2>3 DEF AloneOf, OnRecord, Linked, Recorded, Successful
  <2> QED
    BY <2>1, <2>3, <2>4, AloneStep
<1>13. ASSUME NEW r \in Requests, Restart(r) PROVE AloneInv'
  <2>1. /\ op[r].kind \in {"install", "rollback", "reset"} /\ op[r].pc = "restart"
        /\ "end" \in Steps(op[r].kind) /\ UNCHANGED <<alone, full, link, state, touch, serial>>
        /\ running' = Resolve'
    BY <1>13, <1>c, Places DEF Restart, Kinds, Steps, tree, Resolve
  <2>2. /\ op'[r].kind = op[r].kind /\ op'[r].pc = "end" /\ op'[r].ver = op[r].ver
        /\ \A q \in Requests \ {r} : op'[q] = op[q]
    BY <1>13, <2>1, GoesToEnd DEF Restart
  <2>3. AloneOf(r) => AloneOf(r)'
    BY <2>1, <2>2 DEF AloneOf, OnRecord, Linked, Recorded, Successful
  <2> QED
    BY <2>1, <2>2, <2>3, AloneStep
<1>14. ASSUME NEW r \in Requests, Fail(r) PROVE AloneInv'
  <2>1. op[r].pc \notin {"idle", "end"} /\ "end" \in Steps(op[r].kind) /\ UNCHANGED alone
    BY <1>14, <1>c, Places DEF Fail, Kinds, Steps
  <2>2. PICK result \in {"failed", "not restarted"} : Ends(r, result)
    BY <1>14 DEF Fail
  <2>3. /\ op'[r].kind = op[r].kind /\ op'[r].pc = "end" /\ op'[r].ver = op[r].ver
        /\ op'[r].result # "done" /\ \A q \in Requests \ {r} : op'[q] = op[q]
    BY <2>1, <2>2, GoesToEnd
  <2>4. AloneOf(r) => AloneOf(r)'
    BY <2>3 DEF AloneOf, OnRecord, Linked, Recorded, Successful
  <2> QED
    BY <2>1, <2>3, <2>4, AloneStep
<1>15. ASSUME NEW r \in Requests, Begin(r) \/ Rollback(r) \/ ResetToImage(r)
       PROVE  AloneInv'
  <2>1. CASE Begin(r)
    BY <2>1, AloneArrival DEF Begin
  <2>2. CASE Rollback(r)
    BY <2>2, AloneArrival DEF Rollback
  <2>3. CASE ResetToImage(r)
    BY <2>3, AloneArrival DEF ResetToImage
  <2> QED
    BY <1>15, <2>1, <2>2, <2>3
<1>19. ASSUME NEW t \in Touchers, CheckLatest(t) PROVE AloneInv'
  <2>1. touch' = [touch EXCEPT ![t].pc = "load"] /\ touch \in [Touchers -> Touch]
    BY <1>19 DEF CheckLatest, GoTouch, TypeOK
  <2>2. \A u \in Touchers : touch'[u].pc = "save" => touch'[u] = touch[u]
    BY <2>1 DEF Touch
  <2>3. \A v : OnRecord(v) => OnRecord(v)'
    BY <1>19, <2>2 DEF CheckLatest, OnRecord
  <2> QED
    BY <1>19, <2>3, AloneTouch DEF CheckLatest
<1>20. ASSUME NEW t \in Touchers, TouchLoad(t) PROVE AloneInv'
  <2>1. /\ touch' = [touch EXCEPT ![t] = [pc |-> "save", loaded |-> state]]
        /\ touch \in [Touchers -> Touch] /\ state' = state
    BY <1>20 DEF TouchLoad, TypeOK
  <2>2. \A u \in Touchers : touch'[u] = touch[u] \/ touch'[u].loaded = state
    BY <2>1
  <2>3. \A v : OnRecord(v) => OnRecord(v)'
    BY <2>1, <2>2 DEF OnRecord
  <2> QED
    BY <1>20, <2>3, AloneTouch DEF TouchLoad
<1>21. ASSUME NEW t \in Touchers, TouchSave(t) PROVE AloneInv'
  <2> DEFINE others == Saving(Requests, Touchers \ {t})
  <2>1. /\ touch' = [touch EXCEPT ![t] = NoTouch] /\ touch \in [Touchers -> Touch]
        /\ touch[t].pc = "save" /\ NoTouch.pc = "idle"
        /\ SaveState(touch[t].loaded, others) \/ SaveState(state, others)
    BY <1>21 DEF TouchSave, TypeOK, NoTouch
  <2> HIDE DEF others
  <2>2. serial' => serial /\ state' \in {touch[t].loaded, state}
    BY <2>1 DEF SaveState
  <2>3. \A u \in Touchers : touch'[u].pc = "save" => touch'[u] = touch[u]
    BY <2>1
  <2>4. serial' => serial /\ \A v : OnRecord(v) => OnRecord(v)'
    BY <2>1, <2>2, <2>3 DEF OnRecord
  <2> QED
    BY <1>21, <2>4, AloneTouch DEF TouchSave
<1>16. CASE Crash
  BY <1>16 DEF Crash, AloneInv
<1>17. CASE Respawn \/ UNCHANGED vars
  BY <1>17, AloneGone DEF Respawn, vars, tree
<1> QED
  BY <1>1, <1>2, <1>3, <1>5, <1>6, <1>7, <1>8, <1>9, <1>10, <1>11, <1>12,
     <1>13, <1>14, <1>15, <1>16, <1>17, <1>18, <1>19, <1>20, <1>21 DEF Next, Step

\* Whatever crashed, failed or overlapped before, a request that no other
\* overlapped and that reports success is what is linked and run, and what
\* state.json records if no saves of it met.
THEOREM SuccessIsEffective == Spec => []Effective
<1>1. Init => AloneInv
  BY DEF Init, AloneInv
<1>2. AloneInv => Effective
  BY DEF AloneInv, AloneOf, OnRecord, Successful, Effective
<1> QED
  BY <1>1, <1>2, AloneKeeps, TypeCorrect, PTL DEF Spec
=============================================================================
