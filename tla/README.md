# Surf SSH: a verification project

Surf SSH is a local daemon (Python, FastAPI, AsyncSSH) that shows the file
trees and terminals of SSH hosts in a browser. This directory holds TLA+ models
of its concurrent core, the TLC configurations that check them on small
instances, and proofs, checked by TLAPS, of what holds for instances of any
size.

All paths below are relative to the repository (`src/src/...` is the daemon).

## How the system runs

One asyncio event loop runs everything: HTTP handlers, WebSocket handlers and
the reaper are coroutines, and a switch happens only at an `await` that really
suspends. One action of the models is the code between two such awaits.

| Component | State | Operations | Hard because |
|---|---|---|---|
| Client registry (`ssh/connection_pool.py` 34-99, 437-470) | `_clients` with `last_seen`, `_last_client_left`, `_terminal_slots` | register, unregister, touch, acquire and release a slot | written by four kinds of handler and the reaper |
| Reaper (472-552) | `_all_gone_since`, `_ever_had_clients`, its timer | evict stale clients, close dead hosts, request shutdown | samples a state that changes between its passes |
| Liveness WebSocket (`api/liveness.py`) | the loop's position, two timers | ping, pong, close | a timeout against a late pong and against the reaper |
| Terminal WebSocket (`api/terminal.py`) | slot, registration, connection | open, fail, end | a failure between acquiring and releasing |
| Connection pool (148-293, 375-400) | `_connections`, `_last_access`, `_locks`, `_auth_failed_hosts`, `_passwords` | `get_connection`, eviction, passwords, trust | a lock per host held through nested calls (ProxyJump) and handshakes |
| Host authentication (`api/hosts.py`) | `_auth_attempts` | rate limit, store, connect, record, clear | checks before the await, changes after it |
| Host keys, ad-hoc registry (`ssh/host_keys.py`, `ssh/adhoc.py`) | trusted keys, aliases | trust, register, resolve | |
| SSH config parser (`ssh/config_parser.py`) | none; reads the user's file | resolve a host | defaults used as "not set", negated patterns, blocks that both match |
| Second factor (`security/totp.py`, `api/auth.py`, `setup-2fa`, `disable-2fa`) | `totp.json`; attempts and lockout in memory | set up, confirm, disable, verify a code, consume a backup code | several processes read, empty and write one file; a lockout that forgets; kills |
| Sessions (`security/session_auth.py`) | a file per session | create, validate, purge | the purge of a process that starts, files read before they are written |
| Local terminals (`daemon/local_pty.py`) | PTYs, their read loops, the registry | start, read, close, close all | a blocking read, a process reaped in two places |
| Daemon and open processes (`main.py`, `daemon/control.py`, `ssh/config_editor.py`) | port, control socket, marked blocks in `~/.ssh/config` | start, serve, stop, force exit, edit | several processes on the same files, crashes between any two steps |
| File and tree endpoints, SFTP (`api/files.py`, `api/tree.py`, `ssh/sftp_client.py`, `security/path_validator.py`) | channel semaphores, platform cache | list, stat, read, transfer, home | two or three operations per request, each of which may find another connection; permits that outlive connections; one taxonomy caught in many places |
| Browser UI (`ui/src`) | the tab's hooks | pings, retries, prompts | seen here as the environment |

## Modules

### ClientLiveness

Who counts as alive, who holds a terminal slot, when a host is disconnected and
when the daemon exits. `reg` is the registry as a function from host and client
to `last_seen`; a host is a key of `_clients` exactly when it has an entry.
`tab` and `term` are the positions of the WebSocket handlers, `due` the running
timer of a liveness loop. `Reap` is one whole pass of `_reap` in the order of
its three parts (`EvictStale`, `CloseDeadHosts`, `SampleAutoExit`).

Time is a discrete clock. A timer that is due fires at most `MaxDelay` late:
`Tick` is disabled before a timer would be later than that, which is how the
model says that the event loop keeps running. So "in time" properties are
invariants here, and no fairness is needed. `lastLive` is a history variable.

A client whose socket disappears without a close is a tab that does not answer.
`TermConnectFails` covers the exceptions of `get_connection` that
`api/terminal.py` does not catch: the pool turns every AsyncSSH error into
another class, so the `except asyncssh.Error` there is not reached.
`TermAborted` is a finally clause that ends at the await of a forwarding task
that had failed: slot, registration and shell are left for the reaper.

### ConnectionPool

`get_connection` as it is called by concurrent tasks. `pc` is a task's control
point: `calling`, `locked` and `returned` lie between two awaits, and
`Undisturbed` lets no other task step while a task is there; `waiting` and
`connecting` are the two awaits. `_global_lock` is never contended, since its
body does not await, and has no state here. A ProxyJump is a nested call of the
same task: `Start` turns to the jump host and keeps the lock, `Return` resumes
the caller (`Callers`), `Raise` unwinds all frames at once, as no frame catches
what a nested call raises. The locks are asyncio's: not reentrant, first come
first served, and never overtaken.

Of `_last_access` the model keeps the keys (`stamped`) and the order of the
stamps (`older`), which is all eviction reads; the idle timeout may have passed
for any set of oldest stamps (`IdleSets`), since any time may pass between two
steps. The server's answer depends on what the handshake offers (`Accepts`); its
host key is checked against the known hosts as they were when the handshake
began (`keyKnown`), so trusting a key does not help a handshake under way. An
open connection may be lost at any moment; its entry stays, as in the code. That
a tunnelled connection dies with its tunnel is one of these losses. The reaper's
part 2 would remove entries too, but never does (see the proofs).

### AbstractPool

What the pool promises to its callers, without locks, stamps and frames: a host is
up or not, is dialled by one caller at a time and only when it is not up, a caller
is answered with a connection to the host it asked for, or an error, and hosts may
be dropped at any time. `ConnectionPool` ends with the refinement: `up` is the set
of open connections, `dials` the host of the frame that is in a handshake
(`Dialed`), `answer` what a returned call holds (`Answer`). A handshake with a jump
host that ends, and the one with the host behind it that begins in the same step of
the code, are one abstract step, the second alternative of `Established`. A jump that
is already up has no step of its own: the caller dials the host behind it.

### FileRequests

The requests of the page over the pool. A request (`page`, `on`) is a sequence of
SFTP operations (`stage`): `resolve` is the `realpath` of `resolve_and_validate`,
`look` the stat or the directory's listing, `read` and `stream` the transfers; the
home request has only `look`. Each operation calls `get_connection` afresh, takes a
permit of the host's semaphore, uses a channel and gives the permit back; what the
handler does between two operations has no await and belongs to the step that ends
the first. `permits` and `line` are the semaphore, whose permit passes from the one
that releases it straight to the first in line. `Status` is what each endpoint's
except clauses make of an exception in its second and later operations; `Swallowed`
is the clause of `resolve_and_validate` that hides the first one's. A streamed
answer has its status, 200, before its operation begins.

`FileNext` interleaves these steps with the pool's own (`Step`) and the environment's,
so the pool's properties and its refinement are checked under real callers: the run
`pool` is a run of `FileRequests`.

### SshConfig

`get_host_config` as operators over a sequence of lines: `Read` is the loop's body,
`Close` the end of a block, `Obtain` the five conditions under which a keyword is
taken. The two loops are recursive functions (`Readings` over the lines, `Resolved` over
the blocks), which the proofs can unfold. `FirstObtained` is the reading of OpenSSH
(ssh_config(5)): the first value whose line applies, with `Match` blocks, negated
patterns and lines before the first header. The parser's comment
(`ssh/config_parser.py:84-85`, "SSH config semantics: first obtained value for each
keyword is used") and `dev-docs/FREE-CMD-ARCH.md:252` ("SSH's 'first match wins'
applies") promise that reading, and the code differs from it in five ways:

- a value equal to the default counts as not set, so that an explicit `Port 22` is
  overridden by a later block (theorem `ExplicitDefaultIsOverridden`);
- the last one of a keyword repeated in one block counts (`LastRepetitionWins`);
- a directive before the first `Host` is lost;
- a `Match` line does not end the block before it;
- `!` has no meaning.

The first two contradict the comment outright, the last three are forms the repository
does not speak of. These are facts about a text and not about runs, so they
are theorems and not violated runs. `Plain` says of a text that it has none of the five, and
`PlainTextsAreReadAsOpenSSH` that nothing else makes the two readings differ: the list
is complete. The pool reads its jumps (`Jump`) with `GetHostConfig` in the run `pool`.

### SecondFactor

The daemon's half of the second factor and the processes beside it. `stored` is
totp.json: missing, torn (opened for writing, which empties it), or an enrolment with
its unused backup codes. `doing` is the position of each setup-2fa or disable-2fa
process between its prompts and the two halves of its write (`Confirm`, `SaveSetup`);
`phase` is the daemon's, which runs one verification at a time after its body was
awaited (`parked`): `TakeBackupCode` reads, `SaveBegins` empties and `SaveEnds` writes
the file, then records the success. `RecordAttempt` is the limiter with the pruning
that precedes it. `session` holds each session's file through its creation (`Open`,
`WriteSession`, `Handover`); a process that starts looks at the files it found one by
one (`LookAt`) and removes what it could not parse or found expired (`Unlink`), as
the daemon's own start does at once. `Die` takes the memory of the daemon, the limiter
with it, at any point.

The limiter. `RecordAttempt` keeps the attempts of the window and clears them when they
reach the limit, when the lockout begins; its length doubles with the level
up to a cap. `RateLimited` looks at the lockout and at the attempts on record, which
matters at a level above `MaxLevel` (1024 in the code): there `60.0 * 2**(level-1)` is
no float any more, the request fails, no lockout is set and the attempts stay on record
until they leave the window. A success and a restart (`Reset`, in `RecordAttempt` and
`Die`) forget attempts, lockout and level. That this renews the budget is intended:
`tests/unit/test_totp.py:110-118` counts four failures after a success following four,
and a comment (`totp.py:36-37`) and `dev-docs/2FA-ARCH.md:201` accept the restart.

What the limiter promises is therefore stated over histories that neither clears.
`failures` are those of the window, `renewals` its successes and restarts, and
`FailuresPerWindow` says that in no stretch of the window there are more failures than
one budget, and one more for each renewal: eight failures within a minute take a success or
a restart between them. `bursts` counts, from the failures alone, how often the limit
was reached since the last renewal, and `since` is when that was last: `LockoutsHonoured` says
that no code is looked at until the `n`-th burst is as long ago as its documented lockout
(1, 2, 4 ... minutes up to the cap), for levels up to `MaxLevel`.

Two more history variables say when a promise cannot be expected: `clean` (no process
has written totp.json on the basis of a reading another one had outdated) and
`halfRead` (sessions a purge has read between their opening and their writing).

### HostAuth

The handlers of `api/hosts.py` over the pool. `AuthRequest` is the code before
the await (rate limit, store the password, call), `AuthReply` the code after it
(record, clear on two of the three failures). Page requests only call and
answer. `attempts` counts the failures younger than the window. What a
password prompt should do when the *jump host* needs one is not settled by the
documents, so the properties about answers speak of hosts without a jump.

### LocalPty

Local consoles on Linux. `handler`, `reader`, `output` and `closing` are the
positions of a session's four coroutines (the WebSocket handler, `_read_loop`,
`forward_output` and `close`), `leader` and `group` its processes, `master` its
descriptor. `close` is split at its sleeps: `TermAgain` is a round of the loop
that looks for the process group, `WaitAgain` one of the loop that looks for the
child, and what follows a loop without an await (SIGKILL, the blocking waitpid,
closing the descriptor) belongs to the round that ends it. The handler calls
`close` from its finally clause and the shutdown from `close_all`; `_closed`
makes the second call return at once, which is `closing # "no"`.

What the kernel does is part of the model: a group exists while any member, a
zombie included, is left; reading the master fails when nobody holds the other
side; SIGTERM may be ignored; a child between fork and exec has the daemon's
signal handlers and shares its wakeup pipe, so that a SIGTERM meant for it may
stop the daemon (`SendTerm`). `SetsidWithin` says how many rounds a new child
may take to call setsid.

Time is counted in the sleeps of `close`, which are all as long: `Tick` is one, for every
session that sleeps (`slept` are those whose sleep is over). A shutdown
(`AutoExit`, or `Interrupt` for Ctrl+C and SIGTERM) starts the watchdog of
`main.py:31-43`: `patience` is what is left of it, ten seconds after an auto-exit and three
after a signal, whichever is over first, and `ForceExit` is its `os._exit`, which may come
at any point once the patience is over. What the shutdown does between sleeps, the
closing of the WebSockets by uvicorn included, is taken to need no time
(`NothingReady`). `open` and `daemon` have the same signal handlers; only `open` has an
auto-exit.

A signal can leave shells behind. `close_all` takes the sessions one after the other,
and each that ignores SIGTERM sleeps for a second, or two if its group comes late; three
sessions that their handlers forgot (the `local_slots` finding) need more than
the three seconds of `main.py:257`, and the shells not reached yet outlive the daemon.
So `ShutdownLeavesNothing` speaks of shutdowns that come to their end, and
`AutoExitIsGraceful` says that those nobody interrupts do.

### AbstractConsoles

What the consoles promise: a console that asks (`fresh`) takes one of the slots
and runs, or is refused because all are taken; it ends once, and its slot is free at
that moment or later; a server that stops takes no more, and is down when nothing runs,
unless it is cut short (`Cut`, the watchdog), which ends nothing of its own accord.
`LocalPty` ends with the refinement: a console runs (`Runs`) while a process, a
member of its group or its descriptor is left, a zombie included. That `End` may keep
the slot is what the `local_slots` finding makes of it.

### Launch

The processes of one user. Here the actors are operating system processes, so
each access to the file system or to a port is an action: a check (`Probe`,
`TestPort`, `Read`) and the use of its result are separate, and `Die` (the
watchdog's `os._exit`, a signal, a crash) may come between any two. `pc` is the
position in `daemon` or `open`; `config` the set of processes whose marked block
is in the file, which every edit reads (`copy`) and replaces as a whole; `tail` is the
user's last line, which may not end with a newline (`Ragged`): an `Append` then glues the
block's start marker to it, and no cleanup recognises that block (`Marked`); `sock`
the process whose inode the name control.sock leads to, `accepting` the processes
whose control server is up. A process runs once; a restart is another process.
Ports are tried in ascending order. That a taken port makes uvicorn exit, which
`open`'s and `daemon`'s last line turn into status 0, is the "ok" of `Bind`.

Connections of browsers may outlive the listener of a process that stops or is killed
(`lingering`), until the kernel forgets them. `_is_port_occupied` binds without
SO_REUSEADDR and takes such a port for occupied (`Occupied`); uvicorn itself would not. An
`open` goes on to the next port, a `daemon` exits with the status 1 ("lingered").

Four history variables serve the properties: `lost` (an edit replaced a file that
had changed since it was read), `raced` (two processes were about to change the
socket file at once), `mixed` (daemons that did not run alone) and `before`
(the ephemeral processes that had ended when a process started).

### MC modules and proof modules

`MCClientLiveness`, `MCFileRequests`, `MCHostAuth`, `MCLocalPty`, `MCLaunch` and
`MCSecondFactor` give the constants their values. `MCFileRequests` joins the requests and
the config parser: the pool's jumps (`Jump`) are what `GetHostConfig` reads in a user's
file.

Theorems are in `ClientLivenessProofs`, `ConnectionPoolProofs` (with the refinement of
`AbstractPool`), `FileRequestsProofs`, `HostAuthProofs`, `LocalPtyProofs` (with that of
`AbstractConsoles`), `LaunchProofs`, `SecondFactorProofs` and `SshConfigProofs`. The two
modules about requests extend the pool's proofs, as their models extend the pool.

## What the runs check

| Run | Result | What it shows |
|---|---|---|
| `liveness` | holds | `StaleClientsEvictedInTime`, `SlotsReclaimedInTime`, `OpenTabIsLive`, `NoExitUnderOpenTab`, `ExitsInTime` |
| `pool` | holds | `ImplementsAbstractPool`, `OneHandshakePerHost`, `StampsMatchConnections`, `ReturnsOpenConnection`, `RefusedKeysNotRetried`; `PermitsConserved`, `SomebodyGoesOn`, `TreeAnswersInTaxonomy` |
| `auth` | holds | `FailuresBounded`, `SoleRightPasswordAccepted`, `EveryRequestAnswered` |
| `local` | holds | `ClosedLeavesNothing`, `LiveShellsCapped`, `NeverBlocked`, `ShutdownLeavesNothing`, `AutoExitIsGraceful`, `ShutdownEnds`, `ImplementsAbstractConsoles` |
| `launch` | holds | `ServingDaemonReachable`, `OneDaemon`, `SoleStartSucceeds`, `LeftoversRemoved`, `SavedEntriesKept` |
| `access` | holds | `FailuresPerWindow`, `LockoutsHonoured`, `BackupCodeOnce`, `EnrolmentStands`, `SessionsHold` |
| `dead_hosts` | violated | the reaper never closes the connection of a host without clients |
| `terminals_cap` | violated | a running terminal loses its slot, and more run than the cap |
| `file_errors` | violated | a stat or download that needs a password is an internal error |
| `auth_race` | violated | a failing auth request clears the password of the next one |
| `local_slots` | violated | a console whose client vanished keeps its slot and its shell |
| `launch_ephemeral` | violated | any start removes the config entry a running `open --cmd` uses |

The violated properties are what the documents say; PROJECT.json quotes them.

- **dead_hosts.** `unregister` deletes a host's key with its last client
  (lines 60-61), so `get_hosts_with_zero_clients` (91) finds no host after part
  1 of the same pass, and part 2 has nothing to close. Connections end by
  eviction at the next `get_connection`, or with the daemon.
- **terminals_cap.** The terminal handler registers its client and never
  touches it. After `ping_timeout` the reaper evicts it and frees its slot
  while the shell goes on.
- **file_errors.** `resolve_and_validate` swallows every `ConnectionError`, and
  `PasswordRequiredError` is one, so the handlers' except clauses around it are not
  reached for it. `get_tree`, `get_file` and `host_home` catch it again at the next
  operation; `get_stat` and `download_file` catch only AsyncSSH's errors there, and
  `get_file` no other `ConnectionError`. The answer is 500 in place of 401 or 503.
- **auth_race.** A wrong password is in its handshake, a right one is stored
  and its request waits for the lock; the first fails and clears the password on
  file, and the second connects with none and is told `password_required`.
- **local_slots.** The finally clause awaits the output task and catches only its
  cancellation. If the task had failed in sending to a client that was gone, the
  exception skips `close` and `unregister`: slot, shell and descriptor stay until
  the shutdown, whose `close_all` does find them (`ShutdownLeavesNothing`), unless the
  watchdog of a signal comes before it has closed all of them. Such a
  session also never counts as ended in the registry, so three of them stop all
  local consoles.
- **launch_ephemeral.** The startup cleanup takes every block tagged ephemeral for
  the leftover of a crash. A second `open`, or a `daemon` that finds another one
  running and exits, removes the block of a process that is serving it.

Two more things were observed while modelling and have no run of their own. The
auto-exit compares samples: a tab that opens and closes between two passes leaves
`_all_gone_since` as it was, and the daemon may exit less than the grace period after
it. And room is made for a target before its jump host connects and takes it, so a
request through a bastion exceeds the connection limit by one, as concurrent requests
for different hosts do.

What `access` leaves out by its history variables is as real. A setup-2fa that is
confirmed after another process's edit overwrites it; a daemon that has read a
backup code's file writes it back over a disable-2fa; a kill between emptying and
writing leaves a file that cannot be parsed, which is the same as no second factor;
and a start of any surf-ssh process may remove a session that is being created, whose
browser is then asked to authenticate again.

`ServingDaemonReachable` and `OneDaemon` hold unless two processes change the
socket file at once (`raced`). Both cases of that are real: two starts that
find no live socket both create it, and a daemon that stops removes the file by
name when its successor may already have created its own. The running daemon is
then out of reach of `surf-ssh url` until it is restarted. Likewise
`LeftoversRemoved` and `SavedEntriesKept` speak of edits that do not overlap.

`SoleStartSucceeds` says what a daemon that is started alone gets over: sockets, blocks and
listeners that others left, but not the connections of its own port. There the
code disagrees with its documents. `README.md:140` and the docstring at `main.py:333` say
that a port "occupied by another process" is an error, and that this "works correctly with
service managers' restart policies"; but a daemon that was killed under an open browser
leaves connections that make the restart fail although no other process has the port,
for as long as the kernel keeps them. The property names that outcome ("lingered") and
says that it is the only one. `LeftoversRemoved` speaks of recognised blocks: a marker glued to a
line without a newline also makes `config_editor.py:5` ("Never modifies existing user
content") untrue, since that line then ends with a comment of the program's.

## Bounds

- `liveness`: one unit of time is five seconds, and the durations keep the
  ratios of the code (1, 3, 3, 1, 2, 4). One host, one tab, two terminals for
  one slot, one HTTP client; the clock runs to 12, enough for a client to go
  stale (4), the grace period (4) and two samples, twice over for the eviction
  bound. A second host adds nothing to the registry, whose hosts do not
  interact except in the auto-exit's sum. The violation runs drop the actors they
  do not need.
- `pool`: two tasks, three hosts, capacity two: a lost, an idle and a least
  recent connection can each be the victim, and two tasks already contend for a
  lock, overtake each other and meet on a bastion. One endpoint per host
  (`Requested`), so that a file, a home and a tree request meet in every pair; one
  permit per host, so that the second task queues. `file_errors` needs one task.
- `access`: one unit of time is an attempt; two attempts in a window of three, a first
  lockout of three and a cap of four, so that the second level is the cap, as in the
  code's sixth, and the third (`MaxLevel` is two) overflows. The window is longer than the
  attempts it allows, or it could never be exceeded. The clock runs to eleven, enough for three
  bursts with their lockouts and what follows the overflow. Two enrolments, one backup
  code, one session token, two commands; a purge runs while no
  command does (`Purging`), since they use different files. One verification is
  parked (`MaxRequests`), which is enough for the check of the enrolment to be
  outdated. The clock stands while a command runs or a request is served: a prompt's
  duration is no matter. Commands start and users are let in up to the time two
  (`MaxBusy`), so that the long runs of the limiter are those of failures, and of
  restarts at any time; two failures, a success and a second failure fit into the
  window, a budget exceeded after a success does not, and is left to the restarts here
  and to the theorem in general.
- `auth`: two hosts (one behind the other), two tasks, a right and a wrong
  password, one allowed failure, capacity one, so that eviction is constant.
- `local`: two sessions for one slot, two rounds (of the code's twenty) in each
  loop of `close`, so that a round may be the first, a later one or the last;
  sessions influence each other only through the slots and the shutdown. The watchdog
  of the auto-exit waits for five sleeps, one more than the rounds of the one session that
  may have to be closed, and a signal's for three, too few for it. Several forgotten sessions
  one after the other need several slots, whose runs with liveness take too long: what
  they need of the patience is in the theorem `AutoExitIsNotCutShort`.
- `launch`: two daemons, an ephemeral and a saved `open`, two ports: a daemon meets
  the corpse, the start and the stop of another one, and an `open` finds the
  first port taken, lingering or none free. The two daemons are symmetric.
  `launch_ephemeral` needs one daemon and one `open`.
- `launch`, `pool` and `access`, which check no liveness, use symmetry (of processes,
  tasks, and secrets and commands); no state constraint is used. The
  clocks' bounds `MaxTime` and `MaxBusy` are the only counter bounds.

`CHECK_DEADLOCK FALSE` is set for the liveness runs, which stop when the daemon
exits or the clock ends, for the local runs, which stop when the server is down,
and for the launch runs, where every process may have run.

## Fairness

`ClientLiveness` needs none (see above). `EveryRequestAnswered` assumes that a
running task goes on (weak fairness: nobody else can step), that a woken task
runs and that a handshake ends (strong fairness, as other tasks' steps
interrupt the enabledness). The event loop runs ready callbacks in the order in
which they became ready, which justifies the former; AsyncSSH's login timeout
and the operating system's connect timeout justify the latter. The jumps of the
instance are acyclic.

`ShutdownEnds` assumes weak fairness of the event loop's ready code and timers, of
a forked child's first call (`Setsid`), and of uvicorn closing the WebSockets once
it stops, of time and of the watchdog's thread. It says that a shutdown ends by itself
unless a signal's watchdog was faster. Nothing is assumed of shells: they may ignore
SIGTERM, never exit and never write. `NeverBlocked` assumes `SetsidWithin <= TermTries`: a child that takes
longer than the second for which the code looks for its group would be waited for
without having been killed. `Launch`, `FileRequests` and `SecondFactor` need no fairness; that
permits and locks leave nobody waiting for ever is the invariant `SomebodyGoesOn`.

## What is proved

TLAPS checks, for all constants that satisfy the modules' assumptions, every invariant
and action property of the passing runs but `LockoutsHonoured`, and both refinements; that
one and the two liveness properties are left to TLC. Some theorems have a hypothesis, which they name: `LoopWithinTimeout` (the code's timeouts and a
punctual loop), `AcyclicJumps` (no jump leads back), `PromptFork` (a child soon calls
setsid), `EnoughPatience` (the watchdog's ten seconds are more than the closings of
`max_sessions` shells need), or that the tasks be finitely many. Below, under each module, is the argument.

`ClientLivenessProofs`. The inductive invariant `IInv` adds to `TypeOK` where the
reaper's timer stands (`ReaperOnTime`), that every entry was young at the last
pass (`FreshAtLastPass`) and that slot holders are registered
(`SlotHoldersRegistered`). The bounds on age are not inductive by themselves:
they follow from the last pass and the timer.
- `TypeCorrect`, `StaleClientsAreEvicted`, `SlotsAreReclaimed`.
- `ReaperClosesNothing`: after part 1 of a pass no host is left for part 2
  (`NoHostWithZeroClients`), so no pass closes a connection. It is the `dead_hosts`
  finding for every instance.
- `OpenTabsAreLive` and `NoExitUnderOpenTabs`, under `LoopWithinTimeout`: the
  loop's pauses are within the ping timeout, the browser answers only "pong",
  and no timer is late. The invariant `TabsInTime` ties the age of a tab's entry
  to its running timer. With a late event loop both fail: an evicted tab is
  never registered again, as touching an unregistered client does nothing.
- `ExitComesInTime`. `ArmedInTime` says what the last pass left: it saw a live client,
  or the grace period, begun at a pass that saw none right after one that did, was not
  over. `ReaperOnTime` bounds the time since that pass.

`ConnectionPoolProofs`. What the theorems rest on is shown for `PoolStep`, any use a
handler can make of the pool: a step of `get_connection`, a call or an answer
(`HandlerMove`, with any passwords stored or cleared), a step of nobody's. `Next` is
such a use, and so are the steps of `FileRequests` and `HostAuth`. `LInv` says that a task in the critical section owns its
host's lock, that one task runs at a time, that hosts on the failed list have no
password, and that a frame past the fast-fail check is for a host not on the
list (`PastCheck`): this last part is what carries the check over the nested
call to the jump host.
- `PoolTypeCorrect`, `OneHandshakeAtATime`, `RefusedKeysAreNotRetried`,
  `StampsAlwaysMatch`.
- `ReturnsAreOpen`, under `AcyclicJumps` (every host has a depth, its jump a
  smaller one): what a call returns is an open connection to the host it asked
  for. The invariant `WellNested` says that the frames of a task form a chain:
  any two have different depths, and a frame that is not the outermost is the
  jump of one above it, so `Return` resumes the right caller.

The refinement rests on these. `HeldNotOpen` says that a frame that waits for
its jump host, or for its handshake, is for a host without an open connection, until it
gives its lock back: a connection opens only under its host's lock. So the host a task
turns to when its jump is up is dialled by nobody, which is what the abstract `Dial` and
`Established` ask, and `WellNested` makes the last frame the one of the host asked for.
- `PoolImplementsAbstract`, under `AcyclicJumps`: every step of the pool is a step of
  `AbstractPool` or changes nothing of it. It is shown one action at a time
  (`CachedImplements`, `ConnectedImplements`, `ErrorImplements`, `StartImplements`,
  `CallerImplements`, `EnvImplements`, `AcquireStutters`).

`LaunchProofs`, for any number of processes and ports. `SocketInv` says that, as long
as no race has happened, at most one daemon is between its decision about the
socket file and the change, that a daemon from `Listen` to `HangUp` is the file's
creator, and that these two never coincide: a probe that finds nobody accepting
finds nobody in possession. `AloneInv` and `ConfigInv` are the properties with what
the history variables record; a daemon that starts alone finds its port free or lingering, and
the theorem leaves it no other failure than that.
- `LaunchTypeCorrect`, `ServingDaemonsAreReachable`, `AtMostOneDaemon`,
  `SoleStartsSucceed`, `LeftoversAreRemoved`, `SavedEntriesAreKept`.

`SecondFactorProofs`, for any limits whose first lockout is as long as the window
(`Limits`; the code's are both a minute). `FailuresPerWindow` is not inductive, since a
lockout clears the attempts it was set for, and a renewal those of the window. The
failures are accounted to the renewals: those since the last one (`Later`) are at most one
budget, and those before, counted from any time on (`Earlier`), at most one for each
renewal since then (`Accounted`). `Remembered` says why nothing is gained by a
lockout: a failure since the last renewal that is no longer on record has left the window
by the end of the lockout, or already now. So at a failure, which happens outside lockouts,
all of `Later` in the window is on record, and this is fewer than the limit, also when the
lockout's length has overflowed, as the attempts are then not taken off. A renewal moves
`Later` to `Earlier` and adds itself to the count.
- `FailuresAreBounded`.

- `ConfirmedEnrolmentStands`. `EInv` adds what holds in the middle of an edit: who has
  emptied the file and was not overtaken finds it empty (`SaversEmptied`), and an
  enrolment the daemon has read and will write back is the one the user was told of
  (`ReadIsTold`). Without the first, nothing says that the write does not undo another
  one's. The proof needed no exception for a process that is saving, so the
  property no longer makes one.
- `BackupCodesWorkOnce`. `BInv` says that every accepted code is off the list on file
  and off the list in the daemon's hands (`AcceptedAreCrossed`). This is kept because
  setups never share a secret (`OwnSecrets`) and a secret that was in use is never set
  up again (`FilesInUse`): a command cannot bring a crossed list back.
- `SessionsLast`. `SessionInv` follows a token from its generation over the two steps of
  its writing to its expiry: a fresh token has no file, one being written belongs to no
  browser, and a file a purge has marked for removal was expired, gone or half written
  when it was read (`DoomedAreOver`), and is so still, as sessions are never renewed.
- `SecondFactorTypeCorrect`.

`LocalPtyProofs`, for any number of consoles and any limits. `PtyInv` says for each
session what its position in `close` leaves possible (`Closed`), that there is no
process before `Open` and has been one after it (`Started`), and that a session
that is not registered has nothing left; then the cap on registrations is one on
shells, and an empty registry at the end of the shutdown means that nothing runs.
- `PtyTypeCorrect`, `ClosedSessionsAreGone`, `ShellsAreCapped`, `ShutdownIsClean` (of the
  orderly end; a process that the watchdog ends is "killed", not "down").
- `LoopIsNeverBlocked`, under `PromptFork` (a child's setsid comes within the rounds of
  the first loop): whoever is in the second loop has a group, so SIGKILL reaches it
  (`WaitsForGroup`). Without it, the child of a slow fork is waited for unkilled.
- `AutoExitIsNotCutShort`, under `PromptFork` and `EnoughPatience`: the watchdog of an
  auto-exit never fires. `PatienceInv` compares the patience with the rounds that are left.
  While the handlers end (`HandlersEnd`), all those that sleep do so at once: what the
  slowest needs, and after it every forgotten session, is still there. That at least one
  sleeper has a slot itself makes the forgotten ones fewer than `max_sessions`, so that
  the rounds of `max_sessions` closings are enough. In `close_all` (`OneByOne`) one
  session sleeps at a time, and the patience is enough for it and for those after it. A sleep
  takes one from the patience and from what the sleepers need. The code's 200 sleeps of
  0.05 s are more than the 3 times 40.
- `ConsolesImplementAbstract`: every step is one of `AbstractConsoles` or changes nothing
  of it. The step in which `close` kills and reaps is an `End`; the later end of its
  handler, when the reader is done, is an `End` of which only the slot is left; an empty
  registry lets `Clear` be `Down`.
- `LeakedSlotsStay`: a slot whose handler has ended without returning it is not free
  before the server is down. It is the `local_slots` finding for every instance.

`FileRequestsProofs`. `FInv` puts on top of the pool's invariants where a task is in its
request (`Busy`) and who has the permits: no task is in a line
twice, and there is a line only when no permit is free (`LineOK`), and free and held
permits add up (`PermitsOK`).
- `FilesTypeCorrect`, `PermitsAreConserved`, `TreeStaysInTaxonomy`.
- `PoolHoldsUnderRequests`, `RequestsGetOpenConnections`, `RequestsImplementAbstract`:
  the pool's theorems under `FileSpec`, the specification the `pool` run checks; the
  last two under `AcyclicJumps`.
- `SomebodyAlwaysGoesOn`, under `AcyclicJumps`. Whoever holds a lock somebody waits for
  is in a call (`WellNested`), and waits, if at all, for a host with fewer jumps behind
  it; among the tasks that wait for a lock take one whose host has the fewest: the
  holder does not wait. Who holds a permit has given back its locks. The least depth is
  a theorem of the library about well-founded relations, not an induction.

`HostAuthProofs`. `AInv` puts the requests on top of the pool's invariants.
- `HandlersTypeCorrect`, `PoolHoldsUnderAuth`; under `AcyclicJumps`,
  `AuthImplementsAbstract`: the pool's theorems under `AuthSpec`.
- `FailuresAreBounded`, for a finite set of tasks: a request that passes the check
  adds itself to at most all other tasks, and its answer turns it into a failure.
- `SoleRightPasswordIsAccepted`, under `AcyclicJumps`. Two more invariants carry the
  password from the prompt to the handshake: while no other auth request overlaps, the
  pool holds the password of the request (`FindsItsPassword`), and a handshake of its
  is made with that password (`CarriesItsPassword`); the page's own
  requests store and drop nothing.

`SshConfigProofs`, for any set of lines, names and values.
- `PlainTextsAreReadAsOpenSSH`: of a plain text of any length, over any lines, the loops
  of `get_host_config` give every keyword the value OpenSSH obtains first.
- `ExplicitDefaultIsOverridden`, `LastRepetitionWins`: and for every keyword, host and value,
  an explicit default and a repeated keyword are read otherwise, contrary to the
  comment at `config_parser.py:84-85`.

The induction over lines and blocks does not use the library's induction theorems, whose
operator parameters the provers cannot instantiate: `Counted` says that a set of numbers
that has 0 and is closed under successor has all of them, by the least number it
lacks, and each use gives it a set. That the recursive functions exist and obey their
equations is shown the same way (`ReadingsExist`, `ResultsExist`). The invariant of the
loop over the lines, `ReadSoFar`, says that the result of the blocks closed so far,
with the open block as if it were closed now (`AppliedWhenClosed`), is what OpenSSH
obtains from the lines so far. A header opens a block without entries and changes
neither side (`HeaderRead`); a keyword counts, on both sides, if the header applies and
nothing was obtained before (`KeywordRead`), and this is where each part of `Plain` is
needed.

Only model-checked: the liveness properties `EveryRequestAnswered` and `ShutdownEnds`, as
fairness and ENABLED are out of the prover's reach, and `LockoutsHonoured`, whose
powers of two the SMT solver does not know.

## Not modelled, and the plan

Left out for good: byte streams, resizes and the data of file transfers, wording of
errors and logs, TLS, static files, the update check, string parsing of commands and
paths, and the arithmetic of TOTP codes (pure functions with unit tests).

Left out for now, each with its reason: Windows (another PTY, another control
channel); the exit code of a local shell, which on Linux is -1 whenever the read
loop ends with EIO; a child whose chdir or exec fails, which goes on in a copy of
the daemon's code; the framing on the control socket; user edits of
`~/.ssh/config` (one more editor, as far as overlapping is concerned); `close_all` of
the pool (uvicorn has ended the requests before it runs); the platform cache (a label on the
host list, which a failed probe leaves at "unix" until the daemon restarts); a second server on the same `totp.json`, which
could consume the same backup code (an `open` process without the daemon); a cyclic
jump, where a request waits for itself.

Next, in this order:

1. Proofs: an abstract specification of the two-factor file, implemented by
   `SecondFactor`.
2. A cyclic jump (a `Host *` block that matches its own bastion) as a run of the
   pool, and tunnels that die with their jump host.
3. Alias uniqueness in the config editor, and the exit code of a local shell.
