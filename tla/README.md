# Verification of zeroone

zeroone is a daemon (Go, `src/cmd/zeroone`) that runs an xray proxy as its
child, keeps its configuration in `stack.json`, switches between tunnels when
one fails, counts and limits the traffic of users, and offers an HTTP API to a
web panel.  This directory holds TLA+ modules of its state machines, the TLC
runs that check them, and TLAPS proofs of what matters most.

Its difficulty is that everything is a goroutine: background loops (supervisors,
failover, usage sync, resets) and HTTP handlers share files and a few fields,
each loads, works on a copy and saves it, and hardly anything is serialised.
So most modules here are about interleavings of whole read-modify-write jobs.

## 1. Inventory

Paths are relative to `src/internal` unless they start with `cmd`.

| component | state | operations | talks to | hard parts | what makes it correct |
|---|---|---|---|---|---|
| xray supervisor, `xrayproc/` | `cmd`, `stopping`, `restartCount` under a mutex; Run's backoff | Run, start, Restart, terminate | the OS; called by apply, failover, installer | Restart on a child that is being reaped; a crash that consumes a Restart's flag; shutdown in any state; two timeouts | one child; after a Restart a new one comes; shutdown signals it, in the end with SIGKILL |
| xray apply, `xray/apply.go` | the live xray config file | Apply, ApplyRaw, EnsureConfigFile | supervisor, files; called by handlers, failover | applies are not serialised and share a temporary file; failure between replace and restart | the child runs, or is on its way to run, what was applied last |
| file saves, `stack`, `usage`, `failover`, `xrayinstall`, `xray` | target and temporary file | write temporary, rename | everything that persists | shared temporary names, crash between the steps | readers find whole values |
| failover manager, `failover/` | `failover-state.json`, `m.State` | Run, runOnce, Decide | probes, stack.json, apply | stale copy over seconds of probing; restart between steps; handler writes the same files | cooldown, confirmations, healthy targets, convergence |
| usage, `usage/` | user state file: totals, last raw counters, period counters, deadlines | sync, reset, period reset | xray's stats; handlers | load-modify-save without a lock; counter resets | nobody is overcharged; everything is counted in the end; periods roll |
| quota enforcement, `enforce/quota.go` | none | PlanQuota, ApplyQuotaPlan | usage file, config | plan from a stale file | only users over a quota are disabled |
| HTTP API, `api/` | `s.cfg`, unlocked | some 60 handlers | all of the above | requests at the same time; three disciplines of changing s.cfg and stack.json; other writers of the file; one temporary name for all saves; refused changes that stay in memory | stack.json loads; an answered change is stored; a saved change stays saved |
| snapshots, `snapshots/` | directory of copies | Capture, Rollback, List, Prune | stack.json, live config | ids by the second; partial rollback; stack.json is emptied before it is copied | what a rollback replaces can be had back |
| relay supervisor, `relay/` | `cmd`, `exited`, `wantStop`, two reload channels | manageChild, startChild, stopChild, Restart, Reload | OS, stack.json | stop of Run, reload and Restart overlap with a start | one child, of the newest config; none when disabled or after shutdown |
| SNI-spoof supervisor, `snispoof/` | two children, `routeReady` | manageChild, stopAll, Restart | OS, routing tables | the same, and a route set up and torn down under different configs | nothing is left unkilled; children, device and route settle on the newest config |
| xray installer, `xrayinstall/` | version directories, the link `bin/xray`, assets, the job slot, state file | Run jobs, Rollback, ResetToImage | supervisor, network, handlers | rollback beside a job; failure or crash in a swap; rotation of version directories; a goroutine that saves the state file beside a job | the live link leads to a binary; a success is linked, recorded and run; the installer is free again |
| tunnel supervisor, `tunnel/supervisor.go` | last restart per tunnel | restart what is down, with a cooldown | system units | cooldown across passes | no restart storm |
| session limits, `enforce/sessions.go` | over-limit history | plan, kill | online monitor, `ss` | stale snapshots | only excess sessions are killed |
| events, notifications, `events/`, `notify/` | subscriber channels, last values | Publish, Subscribe, edge detection | all loops | full channels, unsubscribe during publish | no block, no missed edge |
| presence, `presence/` | first/last seen, dirty flag | Touch, flush | monitor | change during a flush | flushed in the end |
| auth, admins, tokens, `auth/`, `api/admins.go` | admins and tokens in the config | log in, manage admins and tokens | stack.json, command line | last admin removed from a stale copy | somebody can log in |
| audit, metrics, stats, monitoring, analytics | ring buffers, files | append, sample | display only | ring arithmetic | - |
| config generation, subscriptions, links, bandwidth, firewall | none | render | - | - | - |
| command line, edge relay, panel, scripts | none | - | - | - | - |

`PROJECT.json` lists every component with its status and, under `hazards`, each
place where this code can go wrong in a way that a test hardly reaches, with
the property that watches over it or the reason why none does yet.

## 2. Modules

| module | models | proofs |
|---|---|---|
| `Supervised` | abstract: one child process of a supervisor | |
| `XrayProc` | the supervisor and the callers of Restart; implements `Supervised` | `XrayProofs` |
| `XrayApply` (extends `XrayProc`) | applies, rollback and installer restarts composed with the supervisor | `XrayProofs` |
| `SaveRegister` | abstract: an atomic register with saves that may fail | |
| `AtomicFile` | temporary file and rename on inodes; implements `SaveRegister` | `AtomicFileProofs` |
| `RelayProc` | the relay supervisor, its config handlers and restarts; implements `Supervised` | `RelayProcProofs` |
| `Failover` | manager, admin handler, other saves of s.cfg, restarts | `FailoverProofs` |
| `Usage` | sync, reset, period reset, reset-time edits, quota enforcement | `UsageProofs` |
| `ConfigStore` | stack.json, s.cfg, the handlers that change them, the writers beside them, snapshots and rollback | `ConfigStoreProofs` |
| `SniSpoof` | the SNI-spoof supervisor, its children and its route; implements `Supervised` for each child | `SniSpoofProofs` |
| `XrayInstall` | install jobs, rollback, reset, check for releases | `XrayInstallProofs` |

An `MC...` module only gives names to the constants of a `.cfg`.  A `Mutant...`
operator before a definition is that definition with a plausible bug in it:
the mutants show that a property can fail, and are used by no specification.
Variables marked `history` or `ghost` record what happened for the properties and guard
nothing, but for the counters that the bounds compare.

### Supervised

What three supervisors promise alike, though each has code of its own for it: a
process is spawned only where none runs, signals only get stronger, a process
exits at any time, and a supervisor that has returned leaves none without a
SIGKILL and spawns none any more.  Each maps its own variables to the set of
running processes with their strongest signals (`running`) and to its return
(`done`); that is property `Supervises` of its module.  The relay, whose manager
may spawn once more after Run has returned, never maps to a return.

### XrayProc

One action per critical section of `s.mu` and per blocking operation.  `runpc`
is the place in Run: `top` the loop head, `start` before start(), `wait` the
select, `reap` the section after an exit, `backoff` sleepCtx, `term`/`kill`
the two waits of terminate.  `rpc[c]` is the place in a call of Restart:
`signal` after it unlocked, `poll` in its loop.  A child is its spawn number, so
`cmd` is `s.cmd` and `spawned` is `restartCount`.  Timers may fire whenever they
are armed, which covers every relation of their lengths: in particular
Restart's deadline may pass before an obedient child had time to exit.  The
death of a child and the delivery to the exit channel are one step.

### XrayApply

`apc[c]` is the place in Apply or ApplyRaw, which differ in the temporary name
`name[c]` only: `install` before os.WriteFile, `write` with the temporary file open
and empty, `rename`, `restart`, and `wait` in Restart.  Several calls may have one
temporary file: `late` is a call that had it open when another renamed it over
the live file, and so writes to the live file.  `ApplyRestart` and `ApplyWait`
conjoin the apply with XrayProc's Restart actions of the same caller; `Spawn`
conjoins StartOK with reading the file.  EnsureConfigFile is its stat
(`seeding`) and, later, its rename.  The ghost `applied` says that the live file is
what the last rename of an apply made it: a seed, a rollback and a late write end
that.

### RelayProc

`mpc` is the place in manageChild: `top` the loop head, `start` from the stat of
the binary to startChild, `watch` waitChildOrReload, `stop` a call of stopChild,
`pause` waitReloadOrCancel.  `spc[s]` and `scmd[s]` belong to the call of
stopChild that s makes, and s is manageChild, Run or a handler in Restart.
Unlike `xrayproc`, any of these signals a child on its own and waits for the
channel `exited` of the child it captured.  `reload` is the channel of capacity
one.  A config is whether it is enabled and a revision, so a child can be told
to be outdated.

### AtomicFile

os.WriteFile is two steps, open-and-truncate and write, because another writer
of the same temporary name can come between; a descriptor keeps its inode when
the name is moved away by a rename.  The constant `TmpOf` says who shares a
name.  In the code the temporary name is a function of the target file and the
saving function, so `Apply`, `ApplyRaw` and `EnsureConfigFile` have one each,
and two simultaneous requests of one function share it.  Crashes are of the
daemon, not of the machine: there is no fsync in the code and nothing is said
of power failures.

### Failover

`mpc` is the manager's place in runOnce (`probe` covers probing and Decide);
`hpc` that of failoverMode.  Of the config, the failover mode, the preferred
tunnel, the active outbound and its interface are kept.  A tunnel is its
interface.  Times are ages counted in manager intervals and capped at
`Cooldown`, so the state stays finite.  `Decide` is split by its outcome: steady,
cooling, confirming, switching.  A restart loses the manager's memory and reads
s.cfg anew.

### Usage

A job goes `idle`, `load` (it holds xray's counters or a plan), `save` (it holds
the state it is going to write).  Sync and reset query xray first, then load;
the reset loop, the edit of a reset time and the enforcer only load.  Uplink and
downlink are treated alike by the code and are one counter here.  Time counts
fractions of a day from 1, since 0 is the code's "no deadline".  xray reports the
users that had traffic and may leave out others.

### ConfigStore

A config keeps what Validate relates or what a writer may lose: users with
their port and whether their limits are in range, SOCKS inbounds,
administrators, tokens, direct domains, endpoints, the relay's sites and listen
address, and the outbound.  `disk` is stack.json, `tmp` what the name
`stack.json.tmp` leads to, `mem` is `s.cfg`, `live` what the xray config file was
rendered from.

Everything that changes these is a job, and any number of jobs run at the same
time: each request, each goroutine that stamps an API token, a pass of the failover
manager, a command `zeroone admin add`.  `pc[j]` is the place of job j: `quota`
between quotaApply's plan and its effect, `snap` before an automatic snapshot,
`save` before Validate and Marshal, `open`, `write` and `rename` inside stack.Save,
`apply`, and for a rollback `pre` (the snapshot before it), `restore`, `stack`
(stack.json is open and empty) and `xray`.  `text[j]` is what it is going to write,
and `held[j]` what the file it has open is called by now: `tmp`, `disk` when
somebody renamed it over stack.json, `gone` when that was replaced in its turn.
`op[j]` is the discipline of the handler:

- *mem first* (`plain`, `admins`, `bandwidth`, `routing`, `login`, `secret`): `s.cfg`
  is changed in place, then validated by the method, then saved.  A change that is
  refused or a save that fails leaves `s.cfg` changed.  The users handlers,
  bandwidth, tokens, SOCKS, domains and login, which saves once more after a new
  session secret and answers ok whatever becomes of its last save.  quotaApply
  (`quota`) saves a copy that shares the list of users with `s.cfg`, disables one user
  after the other and stops at the first refusal.
- *reverting*: the relay handlers, which put the old relay section back when the
  save fails.
- *disk first* (`fresh`, `switch`): stack.json is loaded, changed, saved, and only
  then becomes `s.cfg`.  Endpoints, failover mode (which takes its snapshot before
  it may refuse), installer settings.

A snapshot is named by its second; `Broken` is what a capture leaves that fails.
The ghosts: `met` says that two jobs have had stack.json.tmp or stack.json open at
once, `alone` are the jobs in whose time no other has changed anything, and
`undo[j]` is the pair of files that rollback j has captured and is replacing.

### SniSpoof

`mpc` is the place in manageChild: `top`, the starts of `byedpi` and `tun2socks`,
`device` the wait for the tun device, `route` and `ready` the rule and the flag,
`watch` the select, `stop` and `fail` calls of stopAll, `pause` and `halt`.  `spc[s]`
is the place of s's call of stopAll: `unroute` and `clear` the removal of the rule
and of the flag, then for each child `term`, `wait` and `kill`.  The caller is
manageChild, Run or a handler in Restart, and each brings its own config, hence
`smark[s]`.  A config is whether the plugin is on and its firewall mark.

### XrayInstall

`op[r]` is a request: its kind, the step of commitInstall, Rollback or ResetToImage
it is at, its version and its result.  The tree is the version directories by age
(`dirs`), those that hold the binary (`full`), the version the link `bin/xray` leads to
and that of `bin/xray.new`.  `job` is `i.job`, the slot that install jobs exclude
each other by; rollback and reset do not take it.  `touch[t]` is a goroutine
touchLastCheck, started by a check of the panel or by an update without a version,
between its load and its save of state.json.  A save of state.json that meets
another under way leaves either's value or a file that does not parse.  Removing
the version directory, making it again and moving the binary there are steps of their
own, as are the removals of a reset, and each may fail.  The ghosts: `alone`
are the requests that no other overlapped, `calm` says that no two requests ever
did, and `serial` that no two saves of state.json met since the last request
arrived.

## 3. Runs

| run | instance | states | question |
|---|---|---|---|
| `xrayapply_safety` | 2 callers of applies or restarts with one temporary file, 2 configs, 3 calls, 2 spawns; rollbacks and seeds at any time | 1.4M, callers and configs symmetric | implements Supervised, no respawn loop without backoff, no child keeps an older config unsignalled after an apply |
| `xrayapply_live` | 1 caller, 2 configs, 3 calls, 3 spawns | 124k | an applied config is run in the end; a child follows a Restart |
| `atomicfile_distinct` | 3 writers with own names, 2 values, 4 inodes | | whole values; implements SaveRegister |
| `atomicfile_shared` | 2 writers of one name | violation | an untested content replaces a tested one |
| `failover` | 2 tunnels, 2 confirmations, cooldown 2; 1 flap, 1 request or failed pass, 1 restart | 290k | cooldown, confirmations, healthy and effective switches, convergence |
| `relay` | 2 handlers; 5 spawns, 1 edit, 1 restart, 1 crash, shutdown at any time | 1.0M | implements Supervised, no outdated child without an announcement, shutdown, settling |
| `usage` | 1 user; sync loop, reset, roller, editor, enforcer; daily and weekly period, quota and cap 2; 1 restart, 1 request, 1 failure | 349k | periods within totals, nobody overcharged or disabled without cause, nothing lost before a restart or reset, all is counted, deadlines roll |
| `usage_two_syncs` | a requested sync beside the loop | violation | a smaller counter without a restart |
| `snispoof` | 1 handler, 2 marks; 1 edit, 1 restart, 2 faults, shutdown at any time | 772k | implements Supervised twice, settling on the newest config |
| `xrayinstall` | 2 requests and 1 goroutine of a check, 3 versions; 2 calls, 1 failure or restart of the daemon; version directories with and without binaries at the start | 553k | which steps can make the live link dangle, a success is effective, the slot is given back |
| `configstore` | 2 users, 1 SOCKS inbound, 2 administrators, 2 tunnels, one of everything else; 3 ports; cap of 1 automatic snapshot, 2 seconds; 2 jobs of any kind at the same time, 1 fault | 830k, jobs symmetric | stack.json loads, answered changes are stored, a rollback can be undone |
| `configstore_admins` | the same without a fault | violation | a save of a stale s.cfg removes an administrator |

Bounds.  Two spawns and two callers let a Restart hold the child before the
current one while another acts on the current, and the theorems cover more;
the properties of `XrayProc` are checked in the composition, where a Restart
comes from an apply or from the installer; two configs are enough to tell
"old" from "new".  Four inodes are one per descriptor of three writers and the
target.  Two tunnels give every relation of current, preferred and healthy; two
confirmations are the least that can be interrupted; a cooldown of 2 intervals
can be half over.  In `relay`, the first start, a crash and an edit need one spawn
each and a restart two, since its reload may stop the child that followed it.  One
user suffices for Usage because no operation relates two users' counters; two
units of traffic let one be charged before and one after a race; three fractions
of time pass one day boundary of length two.  In `snispoof` two marks tell the
rule of the old config from that of the new, and the second fault lets a start
fail after a child died.  In `xrayinstall` three versions are one more than
MaxKeptVersions, so rotation deletes one, and two requests overlap a job with a
rollback; a directory without its binary, which an earlier job would have left, is
there from the start.  In `configstore` two jobs overlap at every step, or one
prepares what the next meets (an invalid s.cfg, a snapshot to roll back to), a cap
of one makes the snapshot before a rollback prune its own target, and of three
ports one is taken, one given out and one free.  The instance of
`xrayapply_safety` has one temporary name, so that the two calls share it: with two
they would be those that AtomicFile's first run is about.  What the bounds cut off is covered for safety by
the theorems below, which hold for every value of the constants.

Deadlock is not checked (`CHECK_DEADLOCK FALSE`) in the XrayApply, RelayProc and
SniSpoof runs, where Run ends at shutdown and the bounds on calls stop the rest,
and in the ConfigStore runs, where a stack.json that does not load stops everything
and the bounds stop the rest; the other specifications can always take a step.

Fairness.  Goroutines are scheduled and timers fire (weak fairness of the loops
and of requests under way).  `SF(StartOK)`: a start that can succeed is not
refused for ever; the code retries with a backoff.  `SF(MgrStart)` says the same
of the relay.  SIGKILL is always obeyed;
nothing says that SIGTERM is, or that a child crashes: `AppliedRuns` has the
explicit hypothesis `XrayObeys`, for an apply whose request is cancelled
between SIGTERM and the deadline never sends SIGKILL (`supervisor.go:156`).
tun2socks creates its device unless it exits.  The steps of an installer job end,
since each download and each command has a timeout.
`EventuallyDesired` needs time to pass and the manager to run.  In
`EventuallyRolled`, the hypothesis `Undisturbed` excludes the collision of the
reset loop and a sync at every single turn, which no scheduler is bound to
avoid.  Traffic, requests, failures, flaps and restarts are never assumed to
happen, and the finite bounds make them come to rest.

## 4. What was found

Each of these is a run that ends in a violation.

1. *Two ApplyRaw requests share a temporary file.*  One truncates what the
   other has tested and is about to rename, so the live config may become a
   fragment or an empty file (`xray/apply.go:183` promises otherwise).
2. *A save of s.cfg removes an administrator added by the command line.*  The
   stamp of a token reloads stack.json so that this cannot happen
   (`api/server.go:318`); every handler that saves `s.cfg` makes it happen
   (`api/server.go:375`).
3. *Two syncs charge twice.*  Counters read first and saved last are smaller than the
   recorded ones and are taken for a restart of xray (`usage/usage.go:158`).

Seen while modelling, without a run of their own.  Processes:

- A Restart that finds no child returns an error and leaves `stopping` set
  (`xrayproc/supervisor.go:140`); the next crash consumes it and is respawned
  without backoff.  `SkipsAccounted` bounds it to one per call.
- manageChild of the relay may have looked at the context before it was cancelled
  (`relay/supervisor.go:98`), and then starts a relay after Run has stopped the
  one there was; that relay survives the daemon.  `ShutdownEnds` is therefore
  about the children from before the cancellation.  The SNI-spoof manager has
  the same window (`snispoof/supervisor.go:98`), but stops what it started
  itself, and `ShutdownClean` holds; neither Run is waited for by main.
- At the shutdown the SNI-spoof Run calls stopAll only if stack.json loads
  (`snispoof/supervisor.go:78`).
- Restart of SNI-spoof removes the rule of the mark it finds in stack.json and
  clears `routeReady`.  After an edit of the mark that is not the one the rule
  was made with, and the rule of the old mark stays (`snispoof/supervisor.go:182`);
  `EventuallySettled` is about the rule of the new one.
- The relay's config is part of stack.json, which the failover manager and a
  snapshot rollback replace without announcing a reload: a relay would go on
  with its old config.  `NoStaleRelay` is about its own handlers only.

Applies:

- All calls of Apply write one temporary file, all of ApplyRaw another
  (`xray/apply.go:167`, `xray/apply.go:211`), and nothing serialises them.  A call that
  has its temporary file open when another call renames it goes on writing into the
  live file, after the other has restarted xray, and its own rename fails if nobody
  made the temporary file anew: the child runs what the file no longer holds, and
  nobody restarts it.  `AppliedOrSignalled` ends at such a write; up to it, shared names included, it
  holds.
- EnsureConfigFile looks whether there is a config and later renames its seed over
  whatever is there by then, though `xray/apply.go:80-82` says that it never
  overwrites an existing file.

Failover:

- An admin's switch starts no cooldown: the handler stamps the state file, the
  running manager has its own copy in memory and overwrites the file
  (`api/server.go:606`).  `CooldownKept` is about automatic switches.
- The manager saves the config it loaded before probing
  (`failover/manager.go:71`) and so can undo an admin's request of the
  meantime, mode included.
- With `fallback_outbound_tag` empty and no tunnel healthy, Decide records a
  switch to a mode that ApplyMode maps to the present one
  (`failover/state.go:84`).  The run has the tag set, and the theorem
  `SwitchesChangeMode` has that as its hypothesis.
- After a failed Apply the next pass finds current equal to desired and does
  not try again (`failover/manager.go:76`); `EventuallyApplied` therefore has
  the hypothesis `Alone`.

Usage and quotas:

- A rollover re-enables nobody, though `enforce/quota.go:47` says a user is
  disabled until the counter rolls over.
- Changing the time of the daily reset forgets the old deadline with a
  load-modify-save that a sync can overwrite, and clearing it does not forget
  the deadline at all (`api/users_periods.go:45`).
- A reset of all counters can be undone by a sync that loaded before.
- When xray restarts and exceeds the recorded counter before the next sync, the
  traffic below that counter is never charged: users are undercharged.
- All savers of the user state share one temporary name (`usage/usage.go:269`), as those
  of the failover state do.  `Usage` and `Failover` take a save as one step; what an
  overlap does to the file is shown by `atomicfile_shared`, and for stack.json and
  the installer's state.json by their own modules.

Config and snapshots:

- All savers of stack.json write `stack.json.tmp` (`stack/config.go:622`) and overlap: two
  requests, or a request and the stamp of its own token (`api/server.go:293`).  One
  may rename the file the other has just emptied or is half through, so stack.json may
  be torn without any failure, and then nothing is let in and the daemon does not
  start again.  `StoredLoads` says that this, a rollback's copy, a failure and a crash are all that can
  tear it, and that what is not torn is valid.
- The panel can be left without an administrator, though `stack/mutate.go:203` refuses
  to delete the last one: two requests that delete one each, at the same time, both
  find two.  In the bootstrap, before the first one (`api/server.go:276`), a save of
  the stale `s.cfg`, or a rollback, after `zeroone admin add` takes the only one
  out again.  A config without administrators is therefore one the model may start with,
  and no property says that there always is one.
- `s.cfg` is changed without a lock, a data race.  In the model a change of it, and the
  copy of it that a save takes, are one step each: whole changes interleave in any order,
  but what the race makes of a slice inside it is left out.
- login answers ok although its last save failed (`api/admins.go:79`), hence its exception in
  `AnsweredStored`; the switch of the failover mode and the handlers of domains
  answer ok, with a note, when the apply fails.
- A change that Validate refuses (a SOCKS port that a user's bandwidth port has,
  for one) stays in `s.cfg`, and every later save of `s.cfg` fails until somebody
  undoes it, or a login or a disk-first handler replaces `s.cfg` by stack.json
  (`stack/mutate.go:396`).
- quotaApply changes the users that `s.cfg` shares: after a failed save they are
  disabled in memory, and the next save of anything stores that.
- A rollback replaces the live file and does not apply it, though the comment at
  `api/observability.go:252` speaks of a re-apply; the answer asks for a restart.
  Until then `s.cfg` is the old one, and the next save of it undoes the rollback.
- copyFile empties stack.json before it writes (`snapshots/snapshots.go:205`).  A
  crash there leaves a file that does not load: the panel refuses every request
  and the daemon does not start again.
- The snapshot before a rollback may prune the snapshot to roll back to, and
  one taken in the same second as another overwrites it
  (`snapshots/snapshots.go:47`).

Installer:

- Two jobs can be under way although `xrayinstall/progress.go:22` says one: a job
  that is marked done no longer keeps others out, but empties the slot later,
  whichever job is in it by then (`xrayinstall/run.go:127`).  Rollback and
  ResetToImage never ask for the slot.
- Rollback takes the newest version directory for the current one
  (`xrayinstall/swap.go:300`).  A second rollback links the same version again,
  and after a rollback and an install the next rollback goes to the version
  that had been rolled back from; rotation has removed the one that was in use.
- *Failures do move the live link.*  `xrayinstall/swap.go:116-118` says that on an error
  the partial state is never pointed at by the live link.  Installing the version that is
  live already removes its binary first (`xrayinstall/swap.go:142`); if anything fails or
  the daemon dies before the new one is in place, the link dangles and xray starts
  from the image.  And a failure after the link was flipped, of the geo files or of
  state.json, leaves it on the new version, with the job reported as failed and the
  old version recorded.  `LiveWhole` names the first step as one of two that make
  the link dangle; `Effective` is about successes only.
- The other one is a rollback onto a version directory that a failed install left
  empty: it counts as the version to roll back to, though `xrayinstall/swap.go:300`
  takes the list for current and previous.
- A rotation beside a rollback removes the version that the rollback has linked:
  it spares the version of its own job, not what the link leads to, as
  `xrayinstall/swap.go:225-226` has it.  Where requests overlap, `LiveWhole` says nothing more.
- A check for releases leaves a goroutine that loads and saves all of state.json
  (`xrayinstall/download.go:82`), and an update without a version starts one itself
  (`xrayinstall/run.go:148`): what it has loaded before the job's save and saves after it puts
  the old version back on record, although `xrayinstall/state.go:13` calls the file
  the record of the most recent install.  The part of `Effective` about the record
  therefore has the condition `serial`.
- Saves of state.json share one temporary name, like those of stack.json; the model of
  XrayInstall lets a save that meets another leave either's value or none.

## 5. Proofs

Checked by TLAPS, for every value of the constants that the named ASSUMEs
allow (TLC evaluates these in the runs).  Every safety property of a passing
run, invariant or action property, is the statement of a theorem.  The
hypotheses that a theorem has of its own, `OwnTmp`, `OneSync`, `NoOverlap` and a
fallback that is set, are named below; a run shows what happens without the first
three.

- **XrayProc.**  `TypeCorrect`.  `SingleChild` alone is not inductive: a spawn
  must know that the old child is dead.  The invariant is `OnlyCurrentUp`: only
  the child `cmd` names can be up, and where Run is about to start or to reap
  none is.  It gives `AtMostOneChild`.  `FlagAccounted` proves `SkipsAccounted`,
  inductive with the types.  `ShutdownKills` proves `ShutdownEscalates` with
  `OnlyCurrentUp`: a SIGKILL reaches the only child that can be up and no later
  signal takes it back (`Escalated`).  `ProcImplementsSupervised` puts these
  together: since only `cmd` can be up, the abstract set is empty or has one
  member, and a child not yet spawned was never sent a signal (`Unspawned`).
- **XrayApply.**  `ApplyImplementsProc`: each step of the composition is a step
  or a stutter of XrayProc, so all of the above holds of it; `ApplySupervises`
  states it of `Supervises` and `SkipsAccounted`.
  Its types include that a call at work on its temporary file has one, and a config
  to write (`Named`).  `NoStaleAfterApply` proves `AppliedOrSignalled` with the types of the extra
  state, `OnlyCurrentUp` (the config `ran` is that of the current child) and the
  fact that a signal sent is never taken back: whoever renamed last still has to
  call Restart, or has called it since the current child was there.
- **RelayProc.**  `AtMostOneRelay` rests on `OnlyCurrent`: only the child that
  `cmd` names has not been waited for, since only its goroutine clears `cmd`.
  `NoLostReload` needs to know at each place of manageChild what its copy of the
  config is worth (`MgrSafe`): either a reload is announced or about to be, or
  the copy is the config of stack.json (`Knows`); and the current child, if there
  is one, was started with the copy or has been sent SIGKILL (`Doomed`).
  `ShutdownCatches` rests on `RunSafe`: while Run waits for the child it captured
  no other from before the cancellation is up, and afterwards each of those that
  is up has been sent SIGKILL.  `RelayImplementsSupervised` needs besides that no
  stop has captured a child not yet spawned: a late signal to the wrong process
  would be a step that Supervised does not have.
- **AtomicFile.**  `Busy` says a save in progress holds an inode and a value;
  `Exclusive`, which needs the hypothesis `OwnTmp` (nobody shares a temporary
  name), that no two saves have one inode, that none has the target's, and that
  a written temporary file holds its writer's value.  From these `WholeFile`
  and the refinement `ImplementsRegister`: Rename is Commit, a failure is Abort,
  a crash is Die, the rest Begin or stutters.  `WorkingConfigStays`
  (`InvalidNeverReplaces`) follows from the same invariant: what a rename
  brings is the value its own writer has tested.  Run `atomicfile_shared` shows
  that the hypothesis is needed.
- **Failover.**  Cooldown and confirmations rest on one invariant,
  `StateVouched`: the state file, and the manager's copy once it has been loaded,
  never date the last switch earlier or count fewer passes than happened.
  The manager needs the file to be saved before the config
  (`manager.go:49`), and a handler's stamp only errs on the safe side.
  `SwitchesToHealthy` rests on the lemmas about FirstHealthyMode for any list
  of tunnels.  `SwitchesChangeMode` (`SwitchEffective`) is by the lemma that
  CurrentMode reads back from a config what ApplyMode has put there; it has the
  hypothesis that a fallback outbound is configured (section 4).
- **Usage.**  `PeriodsWithinTotals`: the inequality holds of the file and of
  every job's copy, and lemma `Copies` says that a save writes one of those.
  `ChargedOnce` needs more: for every state around, file or copy, what is
  charged and what the next sync would charge on top was carried (`Sound`), and
  for a sync under way the same with the counters it holds (`Chargeable`).  It has
  the hypothesis `OneSync`; run `usage_two_syncs` shows what happens
  otherwise.  `NobodyDisabledEarly` follows from it.  `FreshWithoutOverlap` is
  about the baselines: as long as no two jobs that read xray's counters overlap
  (`NoOverlap`) and xray has not restarted, no recorded counter is above the one
  xray has.  `FreshInv` says it of the file, of the copy of every other job,
  since any of them may be saved, and of what the reading job has read: its
  counters are at least the file's baselines, for no other reader has saved since.
  `usage_two_syncs` shows what an overlap does.  `ChargedExactly` (`NothingLost`)
  builds on it: before a reset and a restart the only sync has no other reader to
  overlap with, its counters are therefore above the baseline of any file, however
  stale, and every file and copy has charged exactly its own baseline (`Even`).
  So a copy that overwrites a newer one gives back a charge together with its
  baseline, and the next sync charges it again.
- **ConfigStore.**  First what the requests make of a config: it is a config
  again.  Types (`TypeCorrect`, of which `WellTyped` is the part that TLC checks)
  include that each job has at its place the copy, the text and the snapshot it is
  going to use.  `AlwaysLoads` (`StoredLoads`) is about any number of jobs that save at the same
  time, each from the opening of stack.json.tmp to its rename.  Its invariant
  `SafeInv` says that whatever is in stack.json, in stack.json.tmp, in a
  snapshot or about to be copied from one is valid or torn, and that a torn one comes
  from a failure or from two jobs that had one file open (`met`).  Until two jobs have met,
  `OneWriter` says that only one is between opening and renaming, that its file still has
  its name, and that it holds a whole config when it is renamed; `OneRestorer` says the same
  of rollbacks and stack.json.  So that saves do not collide is not assumed: what is proved is that
  only a collision tears the file.  `AlwaysUndoable` (`UndoKept`) rests on the fact that no
  snapshot is later than the present second (`UndoInv`), so pruning keeps the one
  just taken, and that what it holds is still what stack.json and the xray config are
  when the rollback opens them, if nothing else changed.  `AlwaysStored`
  (`AnsweredStored`) is a step property over `AnswerInv`: as long as a job is alone, the
  text it writes is the config it is to save, stack.json.tmp is its own, and once that is
  renamed stack.json holds `s.cfg`.
- **SniSpoof.**  Types need that a stop waits only for a child that is there: the
  exit of a child moves on every stop that captured it (`Captured`).
  `NothingLeft` proves `ShutdownClean` by `CleanInv`: only manageChild starts
  children, and it leaves its loop at the head, behind its own stopAll, which has
  ended tun2socks once it is at byedpi and both once it is done (`Ended`: gone, or
  sent SIGKILL); the stops of Run and of handlers beside it only end more.
  `ChildrenSupervised` proves the refinement once for any child, then for both.

- **XrayInstall.**  `TypeCorrect` includes that the list of version directories
  and the records of a request keep their shapes through installing, rotating
  and resetting, by lemmas about lists without repetition and what `Without`,
  `Newest` and `Kept` do to them.
  `LinkStaysWhole` (`LiveWhole`) says which steps can make the live link dangle
  as long as no two requests overlapped: two that section 4 describes, and no
  other, whatever fails, crashes or stamps state.json.  Its invariant `Calm` says
  that one request at most is under way, and what it has found or made
  (`CalmOf`): an install has its binary in place before it links it, `bin/xray.new`
  leads to the version of the request that is about to rename it, a rotation comes when
  the link already leads to the version it spares, and a reset wipes directories
  nothing leads to any more.
  `SuccessIsEffective` (`Effective`) rests on `AloneInv`: a request that nothing
  overlapped has found every other one idle or ended, so after each of its steps
  the link and the child are what its own steps made them; and if no
  two saves met, state.json and every copy of it that a goroutine may still save
  have its version on record (`OnRecord`).

Only model-checked: the liveness properties, which are beyond the prover, as
ENABLED and induction over data are.

## 6. What is left out

`lastExit` and the log file of the supervisor; the content of backups; the
rendering of configs; the probes themselves; calendar arithmetic (months,
time zones, daylight saving); several quotas per user; the formats Validate checks of
single fields; checksums and version strings of an xray release; what a data race
makes of a slice in `s.cfg`; the subscription tokens a start may add
(`cmd/zeroone/main.go:78`); a partial removal of one version directory; history, audit and event streams, which nothing reads back;
everything marked `not_modelled` in `PROJECT.json`, with its reason.

## 7. Plan

In this order, the most consequential first.

1. `Events` with notifications (bounded channels, unsubscribing during a
   publish, edge detection), presence (its dirty flag and flush), the tunnel
   supervisor's cooldown, and session limits.
2. Pure algorithms against reference definitions: ring buffer, period
   boundaries on a calendar, session plans, period parsing.
3. Slices shared between copies of `s.cfg`, as nondeterministic outcomes of the race.

The runs are kept few: a new module gets one passing run, and runs that answer
questions of one module are merged when the instance allows it.
