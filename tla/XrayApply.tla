----------------------------- MODULE XrayApply ------------------------------
(***************************************************************************)
(* Installing an xray config: internal/xray/apply.go (Apply, ApplyRaw,     *)
(* EnsureConfigFile) and the snapshot rollback handler, composed with the  *)
(* supervisor of XrayProc.                                                 *)
(*                                                                         *)
(* Several goroutines apply at the same time: HTTP handlers and the        *)
(* failover loop.  Nothing serialises them, and all calls of Apply write   *)
(* one temporary file, .tmp-go-apply, all of ApplyRaw another one: a call  *)
(* may still have open for writing what a second call has renamed over     *)
(* the live file.  A child reads the config file when it is spawned.       *)
(*                                                                         *)
(* Simplifications: a rendered config is a member of Configs; the backup   *)
(* is left out but for its failure; only one call at a time seeds a        *)
(* missing config file; the copy that a snapshot rollback makes is one     *)
(* step; what is left of a temporary file when no call has it open or is   *)
(* about to rename it is forgotten, since the next call empties it.        *)
(***************************************************************************)
EXTENDS XrayProc

CONSTANTS
  Configs,   \* rendered xray configs
  Valid,     \* those that `xray run -test` accepts
  Names,     \* the temporary files, of Apply and of ApplyRaw
  Missing,   \* no file, or no value
  Torn       \* a part of a config, or a mixture of two

ASSUME ApplyAssumption ==
  /\ Valid \subseteq Configs
  /\ {Missing, Torn} \cap Configs = {} /\ Missing # Torn

VARIABLES
  live,      \* the content of XrayConfigPath
  ran,       \* what it was when the child that is up was spawned
  tmp,       \* the content of the temporary files
  apc,       \* where each apply call is
  want,      \* the rendered config it is going to write
  name,      \* the temporary file it writes
  seeding,   \* EnsureConfigFile has found no file
  applied    \* history: live is what the last rename of an apply made it

call == <<apc, want, name>>
applyVars == <<live, ran, tmp, call, seeding, applied>>
allVars == <<vars, applyVars>>

Content == Configs \cup {Missing, Torn}

(* A call that writes has its temporary file open ("write"), or what was   *)
(* that file until another call renamed it over the live file ("late"), or *)
(* what was the live file until it was replaced in its turn ("lost").      *)
ApplyPC == {"idle", "install", "write", "late", "rename", "restart", "wait"}

ApplyTypeOK ==
  /\ TypeOK
  /\ live \in Content
  /\ ran \in Content
  /\ tmp \in [Names -> Content]
  /\ apc \in [Callers -> ApplyPC]
  /\ want \in [Callers -> Content]
  /\ name \in [Callers -> Names \cup {Missing}]
  /\ seeding \in BOOLEAN
  /\ applied \in BOOLEAN

ApplyInit ==
  /\ Init
  /\ live \in Valid \cup {Missing}
  /\ ran = Missing
  /\ tmp = [n \in Names |-> Missing]
  /\ apc = [c \in Callers |-> "idle"]
  /\ want = [c \in Callers |-> Missing]
  /\ name = [c \in Callers |-> Missing]
  /\ seeding = FALSE
  /\ applied = FALSE
-----------------------------------------------------------------------------
(* Apply and ApplyRaw.                                                     *)

\* The call returns and forgets its config.
Return(c) ==
  /\ apc' = [apc EXCEPT ![c] = "idle"]
  /\ want' = [want EXCEPT ![c] = Missing]
  /\ name' = [name EXCEPT ![c] = Missing]

\* Plan: render v, test it with xray, compare with the live file.  A config
\* that xray rejects and one that the file already holds end the call here.
ApplyPlan(c, v) ==
  /\ apc[c] = "idle" /\ rpc[c] = "idle"
  /\ v \in Valid
  /\ live # v
  /\ apc' = [apc EXCEPT ![c] = "install"]
  /\ want' = [want EXCEPT ![c] = v]
  /\ \E n \in Names : name' = [name EXCEPT ![c] = n]
  /\ UNCHANGED <<live, ran, tmp, seeding, applied>>
  /\ UNCHANGED vars

\* The backup succeeds and the temporary file is opened, which empties it.
ApplyOpen(c) ==
  /\ apc[c] = "install"
  /\ tmp' = [tmp EXCEPT ![name[c]] = Torn]
  /\ apc' = [apc EXCEPT ![c] = "write"]
  /\ UNCHANGED <<live, ran, want, name, seeding, applied>>
  /\ UNCHANGED vars

\* What a file holds when v has been written over it.
Written(old, v) == IF old = Torn THEN {v} ELSE {v, Torn}

\* The call writes to the file it has opened, wherever that is by now.
ApplyWrite(c) ==
  /\ apc[c] \in {"write", "late"}
  /\ IF apc[c] = "write"
       THEN \E w \in Written(tmp[name[c]], want[c]) : tmp' = [tmp EXCEPT ![name[c]] = w]
       ELSE UNCHANGED tmp
  /\ IF apc[c] = "late"
       THEN live' \in Written(live, want[c]) /\ applied' = FALSE
       ELSE UNCHANGED <<live, applied>>
  /\ apc' = [apc EXCEPT ![c] = "rename"]
  /\ UNCHANGED <<ran, want, name, seeding>>
  /\ UNCHANGED vars

\* The live file has been replaced by what was temporary file n, or by
\* another.  Who had n open has the live file open now; who had the live file
\* open has one without a name, and it does not matter what it writes.
Replaced(n) ==
  [c \in Callers |->
     IF apc[c] = "late" THEN "rename"
     ELSE IF apc[c] = "write" /\ name[c] = n THEN "late" ELSE apc[c]]

\* It renames what bears the name of its temporary file.
ApplyRename(c) ==
  /\ apc[c] = "rename"
  /\ tmp[name[c]] # Missing
  /\ live' = tmp[name[c]]
  /\ tmp' = [tmp EXCEPT ![name[c]] = Missing]
  /\ applied' = TRUE
  /\ apc' = [Replaced(name[c]) EXCEPT ![c] = "restart"]
  /\ want' = [want EXCEPT ![c] = Missing]
  /\ name' = [name EXCEPT ![c] = Missing]
  /\ UNCHANGED <<ran, seeding>>
  /\ UNCHANGED vars

\* One of these steps fails, the rename also where another call has renamed
\* the temporary file, and xray is not restarted.  A file that was open for
\* writing is left half written.
ApplyInstallFails(c) ==
  /\ apc[c] \in {"install", "write", "late", "rename"}
  /\ Return(c)
  /\ IF apc[c] = "late" THEN live' = Torn /\ applied' = FALSE ELSE UNCHANGED <<live, applied>>
  /\ LET used == \E d \in Callers \ {c} :
                   name[d] = name[c] /\ apc[d] \in {"write", "late", "rename"} IN
       tmp' = [tmp EXCEPT ![name[c]] =
                 IF ~used THEN Missing ELSE IF apc[c] = "write" THEN Torn ELSE @]
  /\ UNCHANGED <<ran, seeding>>
  /\ UNCHANGED vars

MutantApplyRestart(c) ==
  /\ apc[c] = "restart"
  /\ IF cmd = NoChild \/ stopping
       THEN Return(c) /\ UNCHANGED vars
       ELSE RestartBegin(c) /\ apc' = [apc EXCEPT ![c] = "wait"] /\ UNCHANGED <<want, name>>
  /\ UNCHANGED <<live, ran, tmp, seeding, applied>>

\* The apply calls Restart; without a running child it returns an error.
ApplyRestart(c) ==
  /\ apc[c] = "restart"
  /\ RestartBegin(c)
  /\ IF cmd = NoChild
       THEN Return(c)
       ELSE apc' = [apc EXCEPT ![c] = "wait"] /\ UNCHANGED <<want, name>>
  /\ UNCHANGED <<live, ran, tmp, seeding, applied>>

\* Restart proceeds on behalf of the apply, and the apply returns with it.
ApplyWait(c) ==
  /\ apc[c] = "wait"
  /\ \/ RestartSignal(c) /\ UNCHANGED call
     \/ RestartSeen(c) /\ Return(c)
     \/ RestartDeadline(c) /\ Return(c)
     \/ RestartCancelled(c) /\ Return(c)
  /\ UNCHANGED <<live, ran, tmp, seeding, applied>>

Apply(c) ==
  \/ \E v \in Configs : ApplyPlan(c, v)
  \/ ApplyOpen(c) \/ ApplyWrite(c) \/ ApplyRename(c) \/ ApplyInstallFails(c)
  \/ ApplyRestart(c) \/ ApplyWait(c)

\* The installer restarts xray after a binary swap, without an apply.
InstallerRestart(c) ==
  /\ apc[c] = "idle"
  /\ Restart(c)
  /\ UNCHANGED applyVars
-----------------------------------------------------------------------------
(* The other writers of the live file.                                     *)

\* The file is seeded from stack.json, untested, when it is absent: a stat,
EnsureConfigFile ==
  /\ live = Missing /\ ~seeding
  /\ seeding' = TRUE
  /\ UNCHANGED <<live, ran, tmp, call, applied>>
  /\ UNCHANGED vars

\* and later a rename over whatever is there by then, or a failure.
EnsureRename ==
  /\ seeding
  /\ seeding' = FALSE
  /\ \/ live' \in Configs /\ applied' = FALSE /\ apc' = Replaced(Missing)
     \/ UNCHANGED <<live, applied, apc>>
  /\ UNCHANGED <<ran, tmp, want, name>>
  /\ UNCHANGED vars

\* snapshotsRollback copies a snapshot into the live file and answers ok.
SnapshotsRollback(v) ==
  /\ live' = v
  /\ applied' = FALSE
  /\ UNCHANGED <<ran, tmp, call, seeding>>
  /\ UNCHANGED vars
-----------------------------------------------------------------------------
(* The supervisor, which passes the live file to the children it spawns.   *)

Spawn ==
  /\ StartOK
  /\ ran' = live
  /\ UNCHANGED <<live, tmp, call, seeding, applied>>

Dies(n) ==
  /\ ChildDies(n)
  /\ ran' = Missing
  /\ UNCHANGED <<live, tmp, call, seeding, applied>>

Supervise ==
  /\ \/ RunTop \/ StartFail \/ RunExit \/ RunReap
     \/ BackoffElapsed \/ BackoffCancelled
     \/ Terminate \/ TermGrace \/ TermReturn
     \/ CancelCtx
  /\ UNCHANGED applyVars

ApplyNext ==
  \/ Spawn
  \/ Supervise
  \/ \E n \in Child : Dies(n)
  \/ \E c \in Callers : Apply(c) \/ InstallerRestart(c)
  \/ EnsureConfigFile \/ EnsureRename
  \/ \E v \in Configs : SnapshotsRollback(v)

ApplySpec == ApplyInit /\ [][ApplyNext]_allVars

(* Fairness: goroutines are scheduled and their timers fire, an apply that *)
(* holds a new config goes on, and SIGKILL is always obeyed.  Nothing      *)
(* makes a child crash, obey SIGTERM or makes anybody call Restart; a      *)
(* start that can succeed is not refused forever.                          *)
ApplyFairness ==
  /\ WF_allVars(/\ RunTop \/ RunExit \/ RunReap \/ BackoffElapsed
                   \/ BackoffCancelled \/ Terminate \/ TermGrace
                /\ UNCHANGED applyVars)
  /\ SF_allVars(Spawn)
  /\ \A c \in Callers :
       /\ WF_allVars(ApplyRestart(c) \/ ApplyWait(c))
       /\ WF_allVars(InstallerRestart(c) /\ rpc[c] # "idle")
  /\ \A n \in Child : WF_allVars(sig[n] = "kill" /\ Dies(n))

ApplyFairSpec == ApplySpec /\ ApplyFairness
-----------------------------------------------------------------------------
(* Properties.                                                             *)

\* Some apply has replaced the file and not yet told the current child.
Telling ==
  \E c \in Callers :
    \/ apc[c] = "restart"
    \/ apc[c] = "wait" /\ rpc[c] = "signal" /\ rcmd[c] = cmd

\* A child runs a config that the live file no longer holds, and nothing is
\* under way to end it.
StaleChild ==
  /\ cmd # NoChild
  /\ child[cmd] = "up"
  /\ sig[cmd] = "none"
  /\ ran # live
  /\ ~Telling

\* After an apply, whatever the outcome of its Restart (not running, cancelled
\* request, deadline) and however applies, crashes and spawns interleave, no
\* child keeps running an older config unsignalled (Apply, lines 144-179).  It
\* holds until somebody else changes the live file: a seed or a rollback, or a
\* call that still has that file open under its old name, .tmp-go-apply, and
\* whose own rename may then fail.
AppliedOrSignalled == applied => ~StaleChild

\* No child outlives a signal for good.
XrayObeys == \A n \in Child : []<>(sig[n] = "none" \/ child[n] # "up")

\* An applied config is eventually the one a child runs, whatever the apply
\* answered, if xray obeys SIGTERM and unless the file is replaced, the daemon
\* stops or the bounds on spawns and calls are reached: a call that failed with
\* "not running" or was cancelled needs no second apply.
AppliedRuns ==
  XrayObeys =>
    \A v \in Configs :
      (applied /\ live = v)
        ~> \/ cmd # NoChild /\ ran = v
           \/ live # v \/ ctxDone
           \/ spawned = MaxSpawns \/ calls = MaxCalls
=============================================================================
