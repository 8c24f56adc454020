# OneDrive Hydration: specifications, model checking and proofs

This directory holds TLA+ specifications of OneDrive Hydration, TLC configurations that
check them on small instances, and proofs that TLAPS checks for every instance. Every
definition is a translation of code; `PROJECT.json` ("map") names the lines.

`D/` is `crates/onedrive-daemon/src/`, `I/` is `crates/installer/src/`, `main.qml` is the
one under `packaging/plasmoid/`.

## 1. The system

OneDrive Hydration is the product around a synchronisation library (HydrationAPI, an
external dependency: run loop, control socket, token cache, fanotify helper). The
processes are: the **daemon**, restarted by systemd when it fails; the **D-Bus state
service**; the **tray** and the **plasmoid**, clients of that service; one-shot **commands**
(`auth`, `ctl`, the file-manager wrappers, the installer); and a **Dolphin plugin**.

| Component | State | Operations | Talks to | Hard behaviour |
|---|---|---|---|---|
| Credential-state publisher `D/auth_state.rs` | published health, watcher registry, restart flag, last file snapshot | sample, broadcast, cull, adopt; `status`, `watch`, `enrollment-complete` | token cache (read), service and commands (socket `.auth`), systemd (exit 1) | two threads, one registry lock, the health *outside* that lock; peers that hang up or do not read |
| Startup and migration `D/lib.rs`, `D/main.rs` | Secret Service entry, legacy file | wait for the store, migrate, resume, discover | Secret Service, file system, OneDrive | store not up, crash or power loss between save, remove and sync; the `auth` command migrating too |
| Browser sign-in `D/pkce.rs`, `D/dbus.rs` | `enrollment_busy`, `enrollment_status`, one thread per sign-in | begin, wait for the redirect, exchange, store, respond, notify | browser, token endpoint, Secret Service, publisher socket | concurrent callers, timeouts, failure after the store |
| Token cache (external) | credential, refusals in a row, store error | refresh, rotate, save | OneDrive, Secret Service | rotations race new sign-ins for one entry |
| Availability jobs `D/jobs.rs` | job record under a mutex, cancel flag outside it, a worker thread | start, cancel, pin/unpin, list, evict/hydrate | daemon control socket, `ctl` child | cancel at any moment, partial failure, others changing files |
| Account profile `D/account.rs` | a file | remove at startup, replace by rename | OneDrive; read by the service | outlives the daemon that wrote it |
| D-Bus service `D/dbus.rs` | daemon state, credential, desktop state, last announced job | two watch loops with back-off, a two-second poll, publish, methods | daemon sockets, bus | reconnects, dedup, values held or forgotten |
| Tray `D/tray.rs` | daemon state, credential, desktop status, menu, what the panel was told | events from signal threads, cold reads, owner and watcher changes | service, status-notifier watcher | signals racing reads, service and watcher restarts |
| Plasmoid (QML) | properties, generations of each kind, sign-in and its polling | asynchronous reads and signals | service | replies overtaken by signals, a service that dies |
| Installer `I/` | plan (checks, actions), files, units, mount | install, uninstall, rehearsal in another tree | systemd, mount table, Secret Service bus | facts sampled early and used late, a command failing half-way |
| Dolphin overlay (C++) | directory watches, cached badges | probe, watch, evict from an LRU | file metadata | bounds, changes between probe and watch |
| Wrappers (shell) | pins and residency, at the daemon | pin, pending, hydrate; unpin, evict | `ctl` | partial failure and retry |

What makes each correct: the publisher never leaves a watcher with an old conclusion and
never loses a restart request; startup removes a legacy credential only when it is stored
and gets to run as soon as it can; sign-ins are one at a time and end in the status they
report; a job's record says what the job did and a cancel stops that job; the service
asserts only what a living connection told it, and comes to agree with the daemon; no
daemon's answer is shown with another's account; the tray and the plasmoid show nothing
the service has not said since it came up, never step back, and come to show what is
served; an installer that finishes is complete, one that is broken off is repaired by the
next, and none takes the helper from under the mount; a badge is never older than the last
change it was told.

## 2. Modules

| Module | What it is | Uses |
|---|---|---|
| `AuthState` | the publisher: sampler thread, acceptor thread, peers, process exits and restarts | |
| `CredentialFeed` | what a watcher is promised, without threads, locks or sockets | |
| `AuthStateProofs` | theorems about `AuthState` | `AuthState`, `CredentialFeed` |
| `SignIn` | the life of the credential: startup, migration, token cache, browser sign-ins, the flyout that polls one, commands, kills and power losses | |
| `JobRecord` | what the record of a job promises a client that polls it, without workers, locks or the flag | |
| `Jobs` | availability jobs: starts, cancels, the worker, interference by others | `JobRecord` |
| `ControlSurface` | the served state and the signals a change of it sends, as operators | |
| `StateService` | the two watch loops of the service against a daemon that comes and goes | `ControlSurface` |
| `DesktopPoll` | the daemon's profile file and the service's two-second poll (a component: no run of its own) | |
| `Flyout` | the plasmoid's reads, signals and generations, composed with `DesktopPoll` and a service that dies | `DesktopPoll` |
| `Presentation` | what the panel shows for what the tray knows, as operators | `ControlSurface` |
| `Tray` | the tray's loop, its panel and watcher, and the service on the bus | `Presentation` |
| `Probes` | the installer's measurements and judgements, as operators | |
| `Installer` | runs of the installer, action by action, and the person and systemd around them | `Probes` |
| `SignInProofs`, `JobsProofs`, `StateServiceProofs`, `FlyoutProofs`, `TrayProofs`, `InstallerProofs` | theorems about the module each is named after | that module |
| `SharedLemmas` | lemmas about numbers (induction, recursive functions), sequences, served states, lines and signals | `ControlSurface`; used by `StateServiceProofs`, `TrayProofs`, `InstallerProofs` |
| `MC...` | small instances for TLC | |

Overlaps are on purpose: `SignIn!Restart` is the publisher's two reasons to leave in one
step, `AuthState!Start` all of startup in one step; the daemon's socket of `StateService` is the
publisher's; `Flyout!Watch` is `StateService` in one step. Each module has the detail the other
abstracts.

### AuthState

Variables keep the source's names where it has them (`current`, `watchers`,
`restart_requested`, `pending`). The sampler's program counter (`sampler`) walks the loop
of `serve`: Sample, BroadcastLock / Tell / BroadcastUnlock (one write per step, because a
write blocks on a full buffer), Cull, RestartRequested or NoRestart, AdoptEnrollment or
Look. The acceptor's (`acceptor`) walks `accept_loop`: Accept, Command, Reply, EndOfInput, and
for `watch` the three steps under the lock: Watch (lock taken, cap checked), Adopt
(`current` read), Greet (line written, connection pushed). The mutex is not a variable:
`LockFree` says that no thread is at a step inside it. A connection is in one phase (idle,
queued, served, watching); the registry is the set of those watching. `told` is the last
line written to a watcher, `unread` how many it has not read (a socket buffer of
`SocketBuffer` lines). `lastLook` is a history variable for SettledAdoption.

Two simplifications carry an argument. `signed_in` and `store_error` are two reads in the
code and one step here: after a refusal the cache never spends a credential again, so the
pair read is one the cache passed through. `announced_waiting_enrollment` only guards
a log line, and `adopted` only matters to an `adopt` callback that returns, which the
daemon's (`exit(1)`) does not; both are left out.

### SignIn

A credential is a sign-in with a rotation number. `pc` is where the daemon and each
command are in `main` / `token_cache` / `migrate_legacy_credential`, with a step per call
that can fail or be overtaken: load the file, save it, remove it, sync the directory.
`disk` is what a power loss would leave of the file: until the directory is synced
(or written back) a removal can be undone. `stage` is where each browser sign-in is. The
token cache is external: a refresh rotates, is refused, or meets an outage (which resets the
count of refusals); the rotation is saved in a later step, over the entry everybody
shares. Kills, failed starts and power losses are the action Mishap, bounded by `MaxMishaps`.
`flyout` is the plasmoid's sign-in: it may be who asked (Begin), listens to the reply (Listen),
and then polls (ReadStatus); a dead service is activated again by the poll and knows of no flow.

### Jobs

`StartJob` and `ClearCancel` are the two halves of the critical section in `start` (new record;
cancel flag cleared), `ReadCancel` and `EndJob` the two halves of the one that ends a job; a
cancel, which takes no lock, can fall between them. All other critical sections are one
step. A worker is a slot of its own per start, so that "one worker at a time" is something
the model can get wrong. A request that gets no reply may have had its effect. `stop` is
a history variable: the last job cancelled while it was visibly running and how many files
it had done. `Visible` is the record as a reader sees it, who needs the mutex: the two halves of an
end are one to it. With `Visible` for its record, Jobs implements JobRecord.

### ControlSurface and StateService

A line of a socket is a partial state: a record of the keys it carries, of those this build can
parse. `Overlay` is `apply_state_line`, `StateSignals` what `publish_state` sends for a change (one
signal per kind that moved; `StateChanged` has four fields for good). A loop of StateService is
`watch_daemon` or `watch_credential`, by feed: Wake (connect; a refused connection, a full daemon's
bare end of file), ReadLine, HangUp (the conclusion is withdrawn and published), Retry (delay reset
after a line, doubled otherwise). What is published is deduplicated by the loop and again by the
surface. The daemon starts, binds its two sockets one after the other, says lines, is crowded by
other watchers, and dies at any time; the service itself may be restarted. `heard` is a subscriber
that applies every signal.

### DesktopPoll and Flyout

The poll is two steps, Ask and Publish, because the profile is read after the answer has come;
the profile belongs to a life of the daemon and stays behind when that ends. Serve removes it
before the control socket is bound. In Flyout everything sent to the plasmoid is on one `wire` in
order (one connection of the bus); a GetAll is sampled at once and sent later. `main.qml` counts
generations per kind; a read here keeps the set of kinds still `fresh`, all a comparison can tell.
Three of the seven kinds are modelled; the other four are treated as the daemon's state is. Forget
is the service leaving: of the modelled kinds only the first is counted up, as in the code.

### Presentation and Tray

Presentation is the conditions of `present` in their order, the first that holds wins, with texts reduced to the name
of the sentence and its number, and the desktop's changes of it. Tray has a queue per signal stream
(the code: a thread per stream that forwards to one channel), so signals of different streams arrive
in any order; HearSignal takes the head of any. A cold read happens at the start and on every return
of the service. Apply is `apply_presentation`: it diffs with what was told and sends the `New...`
signals; `host` is a panel that reads again what a signal names. A click
is on the menu as it stands, and its sign-in may be handled later.

### Probes and Installer

Probes translates the judgements (covering mount, exposures, kernel release, bus look, fstab) over
directories as sequences of names *and* as texts, because the code compares texts (`Texts` is the
text of the first n names, for each n). Installer's
`Judged` is a run's observation and plan in one step; from then on each action of the plan is a step
(Perform, at the end Finish), which may fail or be cut short by a kill (Break, with Halfway what
it leaves). Files are written aside and renamed. Around it:
a person edits files, mounts (only between runs, see below) and unmounts, systemd starts the helper when the
path unit is armed and the daemon's socket exists, and the helper mounts.

## 3. What the runs check

Passing runs. All properties of a run have a mutated definition in the module (marked
"mutant") that breaks them in that run; `PROJECT.json` pairs them. Every component module also
states a `TypeOK`; the runs leave it out because the other invariants are about behaviour, and the
`TypeOK`s are proved.

| Run | Instance | Shows |
|---|---|---|
| `auth_state` | 2 connection slots, cap 1, one file, buffer 1, fairness | ToldIsCurrent, WatchersBounded, refinement of CredentialFeed, SettledAdoption, DeadWatcherCulled, RestartHonoured, EnrollmentNoticed |
| `sign_in_start` | daemon alone, 2 legacy files, 2 mishaps, 1 rotation, 2 refusals, wait of 1 | HealthyIsSaved, RemovedIsSaved, StartsWhenStoreAnswers, FileHeals |
| `sign_in_flows` | 2 browser sign-ins over D-Bus and an auth command, 1 mishap | OneFlow, PollTruthful, FlowEnds |
| `jobs` | 2 jobs, 2 worker slots, a folder and a file, 1 item touched by others per job, fairness | EndsAsAsked, StopsAfterCurrentFile, CancelledWasAsked, RecordFinal, refinement of JobRecord (RecordSpec) |
| `state_service` | 2 lives of the daemon, 1 further line per socket, lines with missing keys or nothing known, back-off 1 to 2 | AssertedOnlyWhileTold, HeardIsServed, RetryPaced, NeverFlaps, BusFollowsDaemon |
| `desktop_flyout` | 2 daemons, 1 change, 1 job, 3 starts and control requests in all, 2 reads at a time | NoPreviousAccount, DesktopFollows, NeverStepsBack, FlyoutSettles |
| `tray` | 3 daemon states, one credential word, one desktop state, 2 publications, 2 lives of the service, 1 watcher restart, 1 click | IdleMeansDone, HostInformed, GoneAssertsNothing, Settles, RegisteredAgain |
| `installer` | 2 runs, 1 edit, 2 mounts at the point, a sound machine and those that differ in one measurement | ExposureJudged, ApprovedIsUnexposed, FinishedIsComplete, SecondRunQuiet, RetryNeverCollides, UninstalledIsGone, HelperOutlivesMount |

Runs that TLC must find violated, each a sentence of the documentation the code does not keep:

| Run | Sentence | What happens |
|---|---|---|
| `sign_in_overwritten` | `D/auth_state.rs:139-141` | a rotation is written back over the sign-in just stored; the restart reloads the old one |
| `sign_in_missed` | README.md:60-61 | the notification is refused while the daemon has resumed the old sign-in and not yet bound its socket; refusal counts as "no daemon" |
| `sign_in_polls` | `D/dbus.rs:876-877` | the service dies during a flow; the one the poll activates says `idle`, which `main.qml` takes for nothing: it polls for ever and sign-in stays disabled |
| `uninstall_race` | `I/plan.rs:872-875` | the mount table is read before the plan runs; the armed path unit mounts in between, and the helper is stopped under a mounted sync root |

Divergences met without a run of their own:

- A browser that has hung up makes `respond(200)?` (`D/pkce.rs:228`) fail after the credential is
  stored: reported as failed, nobody notified, against README.md:60-61.
- An `auth` command's migration may save an older rotation over the daemon's, which reads healthy
  (`D/auth_state.rs:66-67`): HealthyIsSaved is checked without commands.
- `D/tray.rs:142-145` says the keyring caveat is appended to every running-state detail;
  `present_with_desktop` (366-415) replaces details without it. `D/tray.rs:535-537` speaks of two
  states that need attention, issues are a third.
- A signal of the old service still queued when the tray hears that it has gone is applied after
  the forgetting (`D/tray.rs:1467-1477`); GoneAssertsNothing excludes it (`late`).
- In `main.qml` the desktop state and the job survive the service leaving the bus, and a job that a
  read reports as finished before its signal arrives is not logged.
- An uninstall whose `--mount` is spelled with a trailing slash takes the sync root for unmounted;
  one after a broken-off run names absent units in `disable` and stops there (`I/plan.rs:952-960`);
  the fstab line is suggested without escaping; of mounts on top of each other the lowest is read;
  an unreadable existing file counts as absent in `collide`; an install leaves the legacy
  enablement link of the D-Bus unit.

### Bounds, and why they are enough

*Connections.* A lost update needs one watcher joining during one broadcast, and
the cap one connection more than it admits: 2 slots with cap 1. A buffer
of one line already lets a slow reader block a broadcast. One file suffices because the code
only compares snapshots for (in)equality. The proofs cover every size. *SignIn.* One rotation is
enough to be stale; two files to replace each other; two mishaps to interrupt both the migration
and the start after it. *Jobs.* Two jobs show what one inherits from the other; two files are the
fewest for "at most the current one"; a folder is needed for a walk that a cancel cuts short.
`MaxErrors` is 1 so that the cap is met. *StateService.* Two lives give one stale conclusion; a
ceiling of twice the floor has one doubling and the cap. *Flyout.* An overtaken answer needs one
read and one publication; two slots let answers overlap; three starts and requests give two daemons
behind one service, or one daemon behind two. *Tray.* Two publications are one change and its
reversal, the shortest sequence in which a panel can be left behind. *Installer.* A run that is
broken off and one that repairs it; two mounts at the point for the one that hides another;
directories of at most two names over three names, one the beginning of another's text. All
bounds limit the environment (starts, mishaps, changes, clicks, edits), never a loop of the code,
with two exceptions that are capacities of the model: `MaxWire` with `Slots` in Flyout, and
`SocketBuffer`.

What the bounds hide is said in the properties themselves: RemovedIsSaved names the
exception of a file that replaced the loaded one (`D/lib.rs:360-367` removes by name);
FileHeals names the ways a file can be lost, and is checked without an `auth` command, because
one that finds a resumable store has already consumed the file and notifies nobody.
The installer's person does not mount, arm or edit while a run is going on, `disable` fails for
wholly absent units, the helper does not die by itself, and a rehearsal in another tree runs no
commands; runs begin on a blank disk or a deployed one.

### Fairness

Both publisher threads are loops that never give up (WF). A thread that wants the watchers
lock gets it in the end: the other releases it and then sleeps a second or blocks in
`accept`, so the lock is free again and again (SF on BroadcastLock, Cull and Watch). Peers read
what they are sent: the readers in this repository are blocking read loops
(`D/dbus.rs:290`). **Without that the publisher can block**: watcher sockets have no write
timeout and a broadcast holds the lock. systemd restarts a failed daemon
(`Restart=on-failure`), hence WF of the daemon's steps in SignIn; the redirect has a
deadline, the exchange and the sockets have timeouts, hence WF of each sign-in; the plasmoid's
timer fires every second (WF of ReadStatus). In Jobs the
worker's requests have timeouts, except the `ctl` child that reads a file: that its read ends
is assumed. Each watch loop of the service goes on (WF), and its liveness is claimed for a service
that is eventually not restarted any more. In Flyout the poll, the watch, the bus and the event
loop go on (WF); a daemon that serves answers the poll again and again (SF), since a request has a
timeout and one that fails is repeated two seconds later. The tray's loop goes on (WF). The
installer has no liveness. Nothing is assumed of the store, OneDrive, users, or other writers;
StartsWhenStoreAnswers and FileHeals say "once the store answers for good" themselves.

## 4. What is proved

Every theorem is about `Spec` (`FlyoutSpec` for the Flyout) with every value of the constants that
the module's assumption admits: any number of connections, processes, files, sign-ins, jobs,
restarts, mounts. Every inductive invariant was first checked by TLC as an invariant of the
component's run. Each proof has one lemma per action or group of actions, and one step per conjunct
that the action can disturb.

| Module | Theorem | Property of the runs |
|---|---|---|
| `AuthStateProofs` | NoLostUpdate | ToldIsCurrent |
| | RegistryBounded | WatchersBounded |
| | AdoptsOnlySettled | SettledAdoption |
| | ImplementsFeed | `Feed!Safety`, the safety part of the refinement of CredentialFeed |
| `SignInProofs` | BusyIsOne | OneFlow |
| | PollsTellTheTruth | PollTruthful |
| | HealthyTellsTheTruth | HealthyIsSaved, when there are no `auth` commands |
| | MigrationKeeps | RemovedIsKept, when there are no `auth` commands (stated in the module) |
| | MigrationSaves | RemovedIsSaved, for the daemon alone, as in the run |
| `JobsProofs` | CancelIsNotInherited | CancelledWasAsked |
| | CancelStops | StopsAfterCurrentFile |
| | EndedRecordStays | RecordFinal |
| | CleanEndIsWhole | EndsAsAsked |
| | ImplementsRecord | `Record!Safety`, the safety part of the refinement of JobRecord |
| `StateServiceProofs` | AssertsOnlyWhileTold | AssertedOnlyWhileTold |
| | HeardServed | HeardIsServed |
| | NoFlap | NeverFlaps |
| | Paced | RetryPaced |
| | NoLineIsLost | NoLineLost, stated in the module: the timeless part of BusFollowsDaemon |
| `FlyoutProofs` | NeverThePreviousAccount | NoPreviousAccount |
| | StepsForwardOnly | NeverStepsBack |
| | NothingIsMissed | NothingMissed, stated in the module: the timeless part of FlyoutSettles |
| `TrayProofs` | IdleIsDone | IdleMeansDone |
| | HostKnows | HostInformed |
| | GoneIsForgotten | GoneAssertsNothing |
| | PanelFollows | FollowsService, stated in the module: the timeless part of Settles |
| `InstallerProofs` | ExposureExact | the comparison of texts is exact for directories of every depth |
| | ExposureIsJudged | ExposureJudged |
| | InstallIsUnexposed | ApprovedIsUnexposed |
| | InstallIsComplete | FinishedIsComplete |
| | SecondInstallIsQuiet | SecondRunQuiet |
| | RetryIsFree | RetryNeverCollides |
| | UninstallIsComplete | UninstalledIsGone |
| | HelperStays | HelperOutlivesMount |

Each of these modules also proves TypeCorrect (`[]TypeOK`); where one inductive invariant
carries all of a module it is named `IInv`, and Invariance is its theorem.

### The arguments

*AuthState.* ToldIsCurrent is not inductive. Between the acceptor's reading of `current` and its
push the sampler may change `current`; what saves the new watcher is that the sampler must then be
waiting for the lock (GreetingOK), which the two threads never hold together (Exclusive). That a
connection is in one place (Placed) keeps a broadcast from telling one that is being greeted;
ToTellOK ties the writes still owed to the registry. The cap needs RoomOK: room found under the lock
is still there at the push. SettledAdoption needs LookOK (the pending snapshot is that of the last
look, made while refused) and RefusalOK (a published refusal is a real one, which nothing but a
restart undoes).

*SignIn.* OneFlow and PollTruthful rest on FlowInv: `enrollment_busy` goes with exactly one open
sign-in of the service (BusyInv); with that PollTruthful is inductive. HealthyIsSaved and the
migration rest on SavedInv: a file holds only the helper's sign-ins (FilesInv), nobody has the
credential of a browser sign-in before it is stored (EarlyInv), a cache that owes no write-back runs
on what is stored or on an older sign-in (HealthyInv), and a daemon about to remove the file has
stored what it loaded, which since then only a browser sign-in can have replaced (MovedInv). The
hypotheses mirror the code: an `auth` command beside the daemon may save the file's older credential
over a rotation, so that HealthyIsSaved is then false (a divergence of section 3), and a browser
sign-in legitimately replaces the migrated credential.

*Jobs.* ControlInv says who may act: one worker is alive, and only while its job runs (Exclusive);
once a start is over the cancel flag is set exactly if this job was cancelled (CancelOK), a flag
left by an earlier one having been cleared; the count is at most one ahead of the cancel (DoneOK).
ProgressInv is the bookkeeping of a job without cancel or error: at each stage every path asked
about is as asked, and every file of it is in place, noted for later, in the worker's hands, or
touched by others (SelectOK, FilesOK); done, files left and total agree (CountOK). EndsAsAsked is
what it says at the end. The assumption that the selected paths share no file is what `start`
establishes by dropping nested and repeated selections (`D/jobs.rs:85-92`). That a reader of the
record sees JobRecord needs one thing more: nothing marks a record cancelled before its end
(UnmarkedInv), so that hiding the first half of the end hides nothing else. Then a step of a worker
is a count, a total, an error, an end or nothing: a count leaves done at most the total because of
CountOK, and comes after a cancel only if none came since, because of DoneOK.

*StateService.* What a loop holds, what it last published, what the surface serves and what a
subscriber has put together are the same value between two steps (SameInv), and a loop without a
connection that has said something holds what it holds after forgetting (QuietInv). That publishing
keeps the subscriber in step is SharedLemmas!SignalsCarryAll: the signals sent for a change,
applied to the old state, give the new one. RetryPaced compares the delay with the floor doubled
once per fruitless attempt but the first. PaceInv says that this, capped, is what a loop
sleeps, and that the delay it has ready is the same with one doubling more. The model's counter of attempts is capped too; that this
hides nothing is DoublingGrows: n doublings of a positive number exceed n, so that at the cap the
ceiling has been reached. For NoLineIsLost, CaughtUp says that of an open connection the last unread
line is what the daemon says, and that once all are read the loop holds just that; laying a line over
what already shows it changes nothing.

*Flyout.* NoPreviousAccount rests on PollInv (AccountOK): the profile an earlier daemon left is gone
before the next answers. For NeverStepsBack, FlyoutInv orders everything under way: what a read has
sampled of a kind it is still fresh for is not behind what is shown (ReadsOK); a signal is not
behind what is shown, nor behind what any message before it would show (SignalsOK); each read has
one reply on the wire (RepliesOK). NothingIsMissed looks at the other direction, that nothing newer
is lost (NeedInv): the last signal of a kind says what is served (LastWord); of an answer still of
use that is true too, or a newer signal or the announcement of a newer service comes behind it
(LastAnswer); and what is served is shown, signalled, or part of a read that is under way or will
be made once the service's arrival is heard (OnItsWay), since all an earlier service sent arrives
before that (EarlierFirst). A job that moves always differs from the one announced last (BookOK),
so that comparing them misses none. `MaxWire` and `MaxEvents`, bounds of the run, may be anything.

*Tray.* ServiceOK and StreamsOK type what is served and queued; OwnerOK says that the changes of
owner come in turns (of each life at most one end is queued, behind its beginning, and none of a
life already seen to end); ShownOK that the panel was told what is shown, that this is `present` of
what the loop knows, and that after the end of the last life it knows nothing unless something came
late. The idle icon then follows from the order of conditions in `present`, for all served numbers.
PanelFollows needs to know where each change of the service is on its way (FollowInv): the last
signal of a stream carries what is served now; and if no signal of the present life is under way,
the tray knows what is served, is about to read it, has the change of owner still in the queue, or
was overtaken by a signal of a life it had already seen to end (`late`, the divergence that
Settles, too, excepts).

*Installer.* A run is broken off anywhere, so the invariant is about the rest of the plan and the
disk together: each unit and link of an install (the legacy one aside) is already what it should be
or some remaining action will make it so (InstallInv); an uninstall removes what is left or will
(UninstallInv); while the path unit is armed, stopping it is the next action; with the root found
mounted the verification precedes every removal, and once it is past nothing is mounted or armed
(TakeDownInv); the helper runs only over a mount, and a rehearsal runs nothing (ServiceInv); what
collides a person wrote (TouchedInv); a run under way has settled nothing yet (SettledInv). This
holds for all readings of the machine, fstabs and spellings of the mount point, since the plan uses
the judgements only as they come out. ExposureExact is about the judgement itself. A directory is a
sequence of names, its text the names with a slash after each but the last; a prefix of names is a
prefix of texts by induction on the names, and back: where the texts agree so far, a name that goes on
where the other ends would contain the slash that follows it, which no name does (NextName). So
`covers` on texts is the prefix order on directories, and a mount shares a file with the sync root
exactly if one covers the other.

*Numbers.* The library's induction theorems take a predicate as a parameter, which the installed
provers cannot instantiate. SharedLemmas has what is needed without: Induction is about a *set* of
numbers instead of a predicate, from the well-foundedness of `<`, and Recursion says that a function
with `f[0] = base` and `f[n + 1] = step[n, f[n]]` exists, because the partial ones agree
(StepsAgree) and go on (StepsExist). DoublingDefined and TextsStep are its uses.

### Only model-checked

- All liveness: DeadWatcherCulled, RestartHonoured, EnrollmentNoticed, StartsWhenStoreAnswers,
  FileHeals, FlowEnds, BusFollowsDaemon, DesktopFollows, FlyoutSettles, Settles, RegisteredAgain;
  and the liveness parts of CredentialFeed and JobRecord. The prover does not handle fairness and
  ENABLED. For BusFollowsDaemon, FlyoutSettles and Settles the theorems NoLineIsLost,
  NothingIsMissed and PanelFollows leave only that what was sent is read, what was asked is
  answered and what has changed is announced. Every other property of the passing runs is a
  theorem.
- The four violations: counterexamples, found by TLC.

## 5. Plan

1. Proofs: what a subscriber of the service is promised as an abstract specification, with the
   theorem that it is implemented, as for CredentialFeed and JobRecord.
2. The rest of the plasmoid: eviction, conflicts, the activity log.
3. `Overlay` and `Wrappers`: LRU-bounded watches, partial failure and retry.

## 6. Not modelled, and why

The synchronisation library (not in this repository; modelled from its use). Of the plasmoid, the
dialogs, eviction, the activity log and the four kinds that follow the first. The Dolphin overlay
and the file-manager wrappers (planned). Icons, packaging scripts and CI (no state). The text of
HTTP, D-Bus and log messages, icon pixmaps, wording and menu layout requests. `ctl` (one request
per process; its `hydrate` is a step of Jobs). The D-Bus methods that only forward a control
request. The Graph request of the account profile. Of the installer: ownership and creation of
directories, the rendering of units and the scan of their text. In Jobs: byte counts, path
canonicalisation and the check against the last polled desktop state, which can only refuse a start; a
killed state service, which loses every record and leaves pins and files as they are (Flyout has
that for the record).
