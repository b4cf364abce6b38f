---------------------------- MODULE XrayInstall ----------------------------
(***************************************************************************)
(* The xray installer, internal/xrayinstall and the handlers of            *)
(* internal/api/xray_install.go.                                           *)
(*                                                                         *)
(* The override tree holds one directory per version and a link bin/xray   *)
(* to the binary of one of them; the supervisor runs what the link leads   *)
(* to and otherwise the binary of the image.  Install jobs, which exclude  *)
(* each other through i.job, rollbacks and resets change the tree and      *)
(* state.json step by step, and only the jobs hold a lock.  Every check    *)
(* for the latest release, the panel's and that of an update without a     *)
(* version, leaves a goroutine behind, touchLastCheck, which loads and     *)
(* saves all of state.json beside them.                                    *)
(*                                                                         *)
(* Simplifications: an archive either is usable or not (downloading,       *)
(* checking its digest, unpacking and the smoke test are steps that may    *)
(* fail); state.json is the installed version it records; the removal of   *)
(* one version directory is one step, and that of state.json, whose error  *)
(* the code ignores, succeeds; the contents of the assets directory, the   *)
(* job's progress and history and the staging directories, which belong to *)
(* one request, are left out.                                              *)
(***************************************************************************)
EXTENDS Naturals, Sequences

CONSTANTS
  Requests,   \* installs, rollbacks and resets that may be under way at once
  Touchers,   \* touchLastCheck goroutines that may be under way at once
  Versions,   \* releases of xray
  None,       \* no version, or no job
  Image,      \* the binary of the container image
  Found,      \* the version directories, newest first, there may be at start
  MaxCalls,   \* bound: requests and the panel's checks
  MaxFaults   \* bound: steps that fail and restarts of the daemon

MaxKeptVersions == 2

Distinct(s) == \A i, j \in DOMAIN s : s[i] = s[j] => i = j

ASSUME InstallAssumption ==
  /\ None \notin Versions /\ Image \notin Versions /\ None # Image
  /\ \A d \in Found : d \in Seq(Versions) /\ Distinct(d)
  /\ MaxCalls \in Nat /\ MaxFaults \in Nat

VARIABLES
  dirs,     \* the version directories, the most recently changed first
  full,     \* the versions whose directory holds the binary
  link,     \* the version bin/xray leads to
  tmpLink,  \* the version bin/xray.new leads to
  state,    \* installed_version in state.json, None when it has none
  running,  \* the binary of the running xray
  job,      \* i.job: the request whose job it is, or None
  op,       \* each request: what it does, where it is, its version, its result
  touch,    \* each touchLastCheck: where it is, the state.json it loaded
  alone,    \* the requests that no other overlapped so far
  calm,     \* no two requests ever overlapped
  serial,   \* since the last request arrived, state.json was not saved while
            \* another save of it was under way
  calls,    \* requests and checks so far
  faults    \* failures so far

tree == <<dirs, full, link, tmpLink>>
ghost == <<alone, calm>>
vars == <<tree, state, running, job, op, touch, ghost, serial, calls, faults>>

Idle == [kind |-> "none", pc |-> "idle", ver |-> None, result |-> "none"]
NoTouch == [pc |-> "idle", loaded |-> None]

Steps(kind) ==
  CASE kind = "install" -> {"latest", "fetch", "stage", "clear", "mkdir", "move",
                            "link", "flip", "geo", "save", "rotate", "restart",
                            "end"}
    [] kind = "rollback" -> {"link", "flip", "save", "restart", "end"}
    [] kind = "reset" -> {"unlink", "wipe", "forget", "restart", "end"}
    [] OTHER -> {"idle"}

Kinds == {"none", "install", "rollback", "reset"}

(* An operation is at one of its own steps; those that link know a version. *)
Operation ==
  {o \in [kind : Kinds, pc : UNION {Steps(k) : k \in Kinds},
          ver : Versions \cup {None}, result : {"none", "done", "failed", "not restarted"}] :
     /\ o.pc \in Steps(o.kind)
     /\ o.kind \in {"install", "rollback"} => o.ver \in Versions}

Touch == [pc : {"idle", "load", "save"}, loaded : Versions \cup {None}]

OnDisk == {dirs[i] : i \in DOMAIN dirs}

TypeOK ==
  /\ dirs \in Seq(Versions) /\ Distinct(dirs)
  /\ full \subseteq OnDisk
  /\ {link, tmpLink} \subseteq Versions \cup {None}
  /\ state \in Versions \cup {None}
  /\ running \in Versions \cup {Image}
  /\ job \in Requests \cup {None}
  /\ op \in [Requests -> Operation]
  /\ touch \in [Touchers -> Touch]
  /\ alone \subseteq Requests /\ calm \in BOOLEAN /\ serial \in BOOLEAN
  /\ calls \in 0 .. MaxCalls /\ faults \in 0 .. MaxFaults

(***************************************************************************)
(* What the supervisor runs when it starts xray.                           *)
(***************************************************************************)
Resolve == IF link \in full THEN link ELSE Image

(* The other directories, in their order.                                  *)
Without(v) ==
  IF v \notin OnDisk THEN dirs
  ELSE LET at == CHOOSE i \in DOMAIN dirs : dirs[i] = v
       IN  SubSeq(dirs, 1, at - 1) \o SubSeq(dirs, at + 1, Len(dirs))

(* The kept directories after a rotation: the newest and the job's own,    *)
(* which comes after them if it is not one of them.                        *)
Newest == IF Len(dirs) <= MaxKeptVersions THEN dirs
          ELSE SubSeq(dirs, 1, MaxKeptVersions)
Kept(v) ==
  IF v \in OnDisk \ {Newest[i] : i \in DOMAIN Newest}
  THEN Append(Newest, v) ELSE Newest

(* An earlier job may have broken off and left a directory without its     *)
(* binary.                                                                 *)
Init ==
  /\ dirs \in Found
  /\ full \in SUBSET OnDisk
  /\ link \in IF full = {} THEN {None} ELSE full
  /\ state = link
  /\ tmpLink = None
  /\ running = Resolve
  /\ job = None
  /\ op = [r \in Requests |-> Idle]
  /\ touch = [t \in Touchers |-> NoTouch]
  /\ alone = {} /\ calm = TRUE /\ serial = TRUE
  /\ calls = 0 /\ faults = 0

Goto(r, pc) == op' = [op EXCEPT ![r].pc = pc]
Ends(r, result) == op' = [op EXCEPT ![r].pc = "end", ![r].result = result]
At(r, kind, pc) == op[r].kind = kind /\ op[r].pc = pc

(* A request arrives and goes as far as its first step on shared state.    *)
Arrive(r, kind, pc, v) ==
  LET solitary == \A q \in Requests \ {r} : op[q].pc \in {"idle", "end"} IN
  /\ op[r].pc = "idle" /\ calls < MaxCalls
  /\ calls' = calls + 1
  /\ op' = [op EXCEPT ![r] = [kind |-> kind, pc |-> pc, ver |-> v,
                              result |-> "none"]]
  /\ alone' = IF solitary THEN {r} ELSE {}
  /\ calm' = (calm /\ solitary)
  /\ serial' = TRUE
  /\ UNCHANGED <<tree, state, running, touch, faults>>

(***************************************************************************)
(* beginJob and endJob.  A job that has finished, but whose deferred       *)
(* endJob has not run, no longer keeps another from beginning.             *)
(***************************************************************************)
Begin(r) ==
  \E v \in Versions, pc \in {"latest", "fetch"} :
    /\ \A q \in Requests : job = q => op[q].pc = "end"
    /\ job' = r
    /\ Arrive(r, "install", pc, v)

MutantEnd(r) ==
  /\ op[r].pc = "end"
  /\ job' = IF op[r].result = "done" THEN None ELSE job
  /\ op' = [op EXCEPT ![r] = Idle]
  /\ UNCHANGED <<tree, state, running, touch, ghost, serial, calls, faults>>

End(r) ==
  /\ op[r].pc = "end"
  /\ job' = IF op[r].kind = "install" THEN None ELSE job
  /\ op' = [op EXCEPT ![r] = Idle]
  /\ UNCHANGED <<tree, state, running, touch, ghost, serial, calls, faults>>

(***************************************************************************)
(* CheckLatest, which answers from its cache or asks the feed and then     *)
(* starts touchLastCheck, called by the panel or by an update that names   *)
(* no version; the latter fails with it.                                   *)
(***************************************************************************)
GoTouch(t) ==
  /\ touch[t].pc = "idle"
  /\ touch' = [touch EXCEPT ![t].pc = "load"]

CheckLatest(t) ==
  /\ calls < MaxCalls /\ calls' = calls + 1
  /\ GoTouch(t)
  /\ UNCHANGED <<tree, state, running, job, op, ghost, serial, faults>>

Latest(r) ==
  /\ At(r, "install", "latest")
  /\ \/ Goto(r, "fetch") /\ \E t \in Touchers : GoTouch(t)
     \/ Ends(r, "failed") /\ UNCHANGED touch
  /\ UNCHANGED <<tree, state, running, job, ghost, serial, calls, faults>>

(***************************************************************************)
(* The steps of an install job up to commitInstall.  A release that cannot *)
(* be fetched, whose digest differs or whose binary does not start ends    *)
(* the job.                                                                *)
(***************************************************************************)
Prepare(r, from, to) ==
  /\ At(r, "install", from)
  /\ Goto(r, to) \/ Ends(r, "failed")
  /\ UNCHANGED <<tree, state, running, job, touch, ghost, serial, calls, faults>>

Fetch(r) == Prepare(r, "fetch", "stage")
Stage(r) == Prepare(r, "stage", "clear")

(***************************************************************************)
(* SaveState.  All savers write one state.json.tmp: a save made while      *)
(* others are under way leaves what it or one of them saves, or a file     *)
(* that does not parse, which counts as none; one that finds the temporary *)
(* file gone fails (Fail, TouchSave).                                      *)
(***************************************************************************)
Saving(rs, ts) ==
  {op[r].ver : r \in {q \in rs : op[q].pc = "save"}} \cup
  {touch[t].loaded : t \in {u \in ts : touch[u].pc = "save"}}

SaveState(new, others) ==
  /\ state' \in {new} \cup others \cup (IF others = {} THEN {} ELSE {None})
  /\ serial' = (serial /\ others = {})

(***************************************************************************)
(* commitInstall.                                                          *)
(***************************************************************************)
Clear(r) ==
  /\ At(r, "install", "clear")
  /\ dirs' = Without(op[r].ver) /\ full' = full \ {op[r].ver}
  /\ Goto(r, "mkdir")
  /\ UNCHANGED <<link, tmpLink, state, running, job, touch, ghost, serial, calls, faults>>

Mkdir(r) ==
  /\ At(r, "install", "mkdir")
  /\ dirs' = IF op[r].ver \in OnDisk THEN dirs ELSE <<op[r].ver>> \o dirs
  /\ Goto(r, "move")
  /\ UNCHANGED <<full, link, tmpLink, state, running, job, touch, ghost, serial, calls, faults>>

MutantMove(r) ==
  /\ At(r, "install", "move")
  /\ full' = full \cup {op[r].ver}
  /\ Goto(r, "link")
  /\ UNCHANGED <<dirs, link, tmpLink, state, running, job, touch, ghost, serial, calls, faults>>

(* The rename fails if a reset or a rotation removed the directory.        *)
Move(r) ==
  LET v == op[r].ver IN
  /\ At(r, "install", "move")
  /\ IF v \in OnDisk
     THEN /\ dirs' = <<v>> \o Without(v) /\ full' = full \cup {v}
          /\ Goto(r, "link")
     ELSE Ends(r, "failed") /\ UNCHANGED <<dirs, full>>
  /\ UNCHANGED <<link, tmpLink, state, running, job, touch, ghost, serial, calls, faults>>

(* Removing bin/xray.new, linking it to the version and renaming it to     *)
(* bin/xray.  All jobs and rollbacks use the same bin/xray.new.            *)
Link(r) ==
  /\ op[r].pc = "link"
  /\ tmpLink' = op[r].ver
  /\ Goto(r, "flip")
  /\ UNCHANGED <<dirs, full, link, state, running, job, touch, ghost,
                 serial, calls, faults>>

Flip(r) ==
  /\ op[r].pc = "flip"
  /\ IF tmpLink # None
     THEN /\ link' = tmpLink /\ tmpLink' = None
          /\ Goto(r, IF op[r].kind = "install" THEN "geo" ELSE "save")
     ELSE Ends(r, "failed") /\ UNCHANGED <<link, tmpLink>>
  /\ UNCHANGED <<dirs, full, state, running, job, touch, ghost, serial, calls, faults>>

(* The geo files of the archive replace those in the assets directory.     *)
Geo(r) ==
  /\ At(r, "install", "geo")
  /\ Goto(r, "save")
  /\ UNCHANGED <<tree, state, running, job, touch, ghost, serial, calls, faults>>

MutantSave(r) ==
  /\ op[r].pc = "save"
  /\ SaveState(state, Saving(Requests \ {r}, Touchers))
  /\ Goto(r, IF op[r].kind = "install" THEN "rotate" ELSE "restart")
  /\ UNCHANGED <<tree, running, job, touch, ghost, calls, faults>>

Save(r) ==
  /\ op[r].pc = "save"
  /\ SaveState(op[r].ver, Saving(Requests \ {r}, Touchers))
  /\ Goto(r, IF op[r].kind = "install" THEN "rotate" ELSE "restart")
  /\ UNCHANGED <<tree, running, job, touch, ghost, calls, faults>>

MutantRotate(r) ==
  /\ At(r, "install", "rotate")
  /\ dirs' = IF Len(dirs) > MaxKeptVersions THEN Tail(dirs) ELSE dirs
  /\ full' = full \cap OnDisk'
  /\ Goto(r, "restart")
  /\ UNCHANGED <<link, tmpLink, state, running, job, touch, ghost, serial, calls, faults>>

Rotate(r) ==
  /\ At(r, "install", "rotate")
  /\ dirs' = Kept(op[r].ver)
  /\ full' = full \cap OnDisk'
  /\ Goto(r, "restart")
  /\ UNCHANGED <<link, tmpLink, state, running, job, touch, ghost, serial, calls, faults>>

(***************************************************************************)
(* Rollback and ResetToImage, neither of which looks at i.job.             *)
(***************************************************************************)
Rollback(r) ==
  /\ Len(dirs) >= 2
  /\ Arrive(r, "rollback", "link", dirs[2])
  /\ UNCHANGED job

ResetToImage(r) == Arrive(r, "reset", "unlink", None) /\ UNCHANGED job

Unlink(r) ==
  /\ At(r, "reset", "unlink")
  /\ link' = None /\ tmpLink' = None
  /\ Goto(r, "wipe")
  /\ UNCHANGED <<dirs, full, state, running, job, touch, ghost, serial, calls, faults>>

(* The version directories go one by one.                                  *)
Wipe(r) ==
  /\ At(r, "reset", "wipe")
  /\ \/ \E v \in OnDisk : dirs' = Without(v) /\ full' = full \ {v} /\ UNCHANGED op
     \/ dirs = <<>> /\ Goto(r, "forget") /\ UNCHANGED <<dirs, full>>
  /\ UNCHANGED <<link, tmpLink, state, running, job, touch, ghost, serial, calls, faults>>

(* The removal of state.json.  What is left of the reset, making the       *)
(* directories again and the restart, ends alike when it fails.            *)
Forget(r) ==
  /\ At(r, "reset", "forget")
  /\ state' = None
  /\ serial' = (serial /\ Saving({}, Touchers) = {})
  /\ Goto(r, "restart")
  /\ UNCHANGED <<tree, running, job, touch, ghost, calls, faults>>

(* The restart ends every kind of request; when it fails an install job is *)
(* done all the same.                                                      *)
Restart(r) ==
  /\ op[r].pc = "restart"
  /\ running' = Resolve
  /\ Ends(r, "done")
  /\ UNCHANGED <<tree, state, job, touch, ghost, serial, calls, faults>>

(***************************************************************************)
(* touchLastCheck: it saves all of the state.json it loaded, and ignores a *)
(* save that fails.                                                        *)
(***************************************************************************)
TouchLoad(t) ==
  /\ touch[t].pc = "load"
  /\ touch' = [touch EXCEPT ![t] = [pc |-> "save", loaded |-> state]]
  /\ UNCHANGED <<tree, state, running, job, op, ghost, serial, calls, faults>>

TouchSave(t) ==
  LET others == Saving(Requests, Touchers \ {t}) IN
  /\ touch[t].pc = "save"
  /\ SaveState(touch[t].loaded, others) \/ SaveState(state, others)
  /\ touch' = [touch EXCEPT ![t] = NoTouch]
  /\ UNCHANGED <<tree, running, job, op, ghost, calls, faults>>

(***************************************************************************)
(* A step on the tree, a save or the restart fails, or the daemon dies and *)
(* comes back, and with it xray.                                           *)
(***************************************************************************)
Fail(r) ==
  /\ faults < MaxFaults /\ faults' = faults + 1
  /\ op[r].pc \in {"clear", "mkdir", "move", "link", "flip", "geo", "save",
                   "unlink", "wipe", "forget", "restart"}
  /\ Ends(r, IF op[r].pc = "restart" THEN "not restarted" ELSE "failed")
  /\ tmpLink' = IF At(r, "install", "flip") THEN None ELSE tmpLink
  /\ UNCHANGED <<dirs, full, link, state, running, job, touch, ghost, serial, calls>>

Crash ==
  /\ faults < MaxFaults /\ faults' = faults + 1
  /\ op' = [r \in Requests |-> Idle] /\ job' = None
  /\ touch' = [t \in Touchers |-> NoTouch]
  /\ running' = Resolve
  /\ alone' = {}
  /\ UNCHANGED <<tree, state, calm, serial, calls>>

(* xray exits and the supervisor starts it again.                          *)
Respawn ==
  /\ running' = Resolve
  /\ UNCHANGED <<tree, state, job, op, touch, ghost, serial, calls, faults>>

Step(r) ==
  \/ End(r) \/ Latest(r) \/ Fetch(r) \/ Stage(r)
  \/ Clear(r) \/ Mkdir(r) \/ Move(r) \/ Link(r) \/ Flip(r) \/ Geo(r) \/ Save(r)
  \/ Rotate(r) \/ Unlink(r) \/ Wipe(r) \/ Forget(r) \/ Restart(r)

Next ==
  \/ \E r \in Requests :
       Step(r) \/ Begin(r) \/ Rollback(r) \/ ResetToImage(r) \/ Fail(r)
  \/ \E t \in Touchers : CheckLatest(t) \/ TouchLoad(t) \/ TouchSave(t)
  \/ Crash \/ Respawn

Spec == Init /\ [][Next]_vars

(* Every request goes on: each step is bounded by a timeout.               *)
FairSpec == Spec /\ \A r \in Requests : WF_vars(Step(r))

-----------------------------------------------------------------------------
(* The live link leads to a binary.                                        *)
Whole == link # None => link \in full

(* While requests do not overlap, whatever else fails and crashes, only    *)
(* two steps make the live link dangle: an install of the very version     *)
(* that is live, which removes it first (swap.go:142), and a rollback onto *)
(* a directory that an earlier install left without its binary             *)
(* (swap.go:295).  No rotation (swap.go:225-226), reset, other install or  *)
(* other rollback does.                                                    *)
LiveWhole ==
  [][calm' /\ Whole /\ ~Whole' =>
       \E r \in Requests :
         \/ At(r, "install", "clear") /\ op[r].ver = link
         \/ At(r, "rollback", "flip") /\ op[r].ver \notin full]_vars

(* Whatever happened before, an install, a rollback or a reset that no     *)
(* other overlapped and that reports success is what is linked and run     *)
(* (swap.go:119, 295, 329), and what an install linked has its binary.  It *)
(* is what state.json records unless saves of state.json met: a            *)
(* touchLastCheck that loaded the earlier one and saves it last undoes it. *)
Effective ==
  \A r \in alone : op[r].pc = "end" /\ op[r].result = "done" =>
    /\ link = op[r].ver /\ running = Resolve
    /\ op[r].kind = "install" => link \in full
    /\ serial => state = op[r].ver

(* However jobs fail, overlap and die, i.job is given back: an update is   *)
(* not refused for ever with "another update is already running"           *)
(* (run.go:21, 125).                                                       *)
InstallerFree == []<>(job = None)
=============================================================================
