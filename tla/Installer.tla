----------------------------- MODULE Installer -----------------------------
(***************************************************************************)
(* The installer: plan.rs, units.rs and main.rs of the installer crate.    *)
(*                                                                         *)
(* A run measures the machine, judges it, and only then has a list of      *)
(* actions, which it performs one after another; any of them may fail, or  *)
(* the process may be killed, and the run ends there.  Runs follow each    *)
(* other on what the earlier ones left.  Between and during runs a person  *)
(* edits files, mounts and unmounts, and systemd starts the helper when    *)
(* the path unit is armed and the sync daemon's socket exists.             *)
(*                                                                         *)
(* A unit file or enablement link is absent, ours (what this run would     *)
(* write: runs are for one user, mount and client id) or other.            *)
(***************************************************************************)
EXTENDS Probes

CONSTANTS
  Readings,   \* what observe may find of the machine, mounts and fstab aside
  Fstabs,     \* the fstabs a person may write
  Spellings,  \* how --mount may be spelled; only Point is the mount table's way
  Trees,      \* "machine" (prefix /) and "scratch" (--prefix: a rehearsal)
  MaxRuns,    \* bound: runs of the installer that have actions
  MaxEdits,   \* bound: files and fstabs a person writes
  MaxMounts   \* bound: mounts on top of each other at Point

ASSUME ConstantsAssumption ==
  /\ Point \in Spellings /\ Trees \subseteq {"machine", "scratch"}
  /\ Fstabs \subseteq Seq([point : STRING, noauto : BOOLEAN])
  /\ \A seen \in Readings :    \* the rows of other mount points
       seen.others \in Seq([dev : STRING, dir : Seq(Names), point : STRING \ {Point}])
  /\ {MaxRuns, MaxEdits} \subseteq Nat /\ MaxMounts \in Nat \ {0}

TRAY_UNIT == "onedrive-hydration-tray.service"
BUS_FILE  == "io.github.franzjeger.OneDriveHydration.service"
System == {"hydrationd.service", "hydrationd.path"}
User   == {"onedrive-hydration.service", "onedrive-hydration-dbus.service"}
Units  == System \union User \union {TRAY_UNIT, BUS_FILE}
Wanted == {"hydrationd.path", "onedrive-hydration.service", TRAY_UNIT}  \* have a WantedBy=
Legacy == "onedrive-hydration-dbus.service"    \* was enabled by earlier versions
Trays  == {"sni", "plasmoid", "none"}

File(unit)  == <<"unit", unit>>
Wants(unit) == <<"wants", unit>>
Paths == {File(unit) : unit \in Units} \union {Wants(unit) : unit \in Wanted \union {Legacy}}

VARIABLES
  tree, disk,              \* where this operator works; unit files and links there
  fstab, etc,              \* lines there, and of the machine when that is elsewhere
  mounts, helper, armed, socket,   \* the sync root, hydrationd, its path unit, its trigger
  job, actions,            \* the run in progress and what it has left to do
  settled,                 \* what the last run that ended well left, and nobody changed
  touched,                 \* what a person has written
  runs, edits

vars == <<tree, disk, fstab, etc, mounts, helper, armed, socket, job, actions, settled,
          touched, runs, edits>>
services == <<mounts, helper, armed, socket>>
files == <<disk, fstab>>

NoJob == [kind |-> "none"]
Idle == job.kind = "none"

Rendered(tray) == IF tray = "sni" THEN Units ELSE Units \ {TRAY_UNIT}

Blank == [p \in Paths |-> "absent"]
Deployed == [tray \in Trays |-> [p \in Paths |->
  IF \E u \in Rendered(tray) : p = File(u) \/ (p = Wants(u) /\ u \in Wanted)
  THEN "ours" ELSE "absent"]]

Init ==
  /\ tree \in Trees
  /\ disk \in {Blank} \union (IF tree = "scratch" THEN {}
                              ELSE {Deployed["sni"], [Deployed["none"] EXCEPT ![Wants(Legacy)] = "ours"]})
  /\ etc \in Fstabs
  /\ fstab = IF tree = "scratch" THEN <<>> ELSE etc
  /\ mounts \in 0..1 /\ helper = FALSE /\ armed = FALSE /\ socket = FALSE
  /\ job = NoJob /\ actions = <<>>
  /\ settled = "no" /\ touched = {} /\ runs = 0 /\ edits = 0

(***************************************************************************)
(* The judgment of an install                                              *)
(***************************************************************************)
Ours(seen) == [dev |-> "disk", dir |-> Root, point |-> Point, fstype |-> seen.fstype]
Mounted(mount) == mounts > 0 /\ mount = Point    \* find_mount compares the spelling

Real(opts) == tree = "machine" /\ ~opts.dry_run

CheckVantage(seen) == Vantage(seen.links, seen.tables) # "Sandboxed"
CheckKernel(seen) == KernelSupport(seen.answer, seen.release) \in {"Measured", "Inferred"}
CheckFstype(row) == row.fstype \in {"ext4", "btrfs", "xfs"}
\* mutant: the first other mount decides
CheckExposureFirst(seen) == Exposures(<<Ours(seen)>> \o SubSeq(seen.others, 1, 1), Ours(seen)) = {}
CheckExposure(seen) == Exposures(<<Ours(seen)>> \o seen.others, Ours(seen)) = {}
Secrets(seen) == SecretService(seen.bus, seen.asker, seen.owner, seen.activatable)
\* Only the units that run fanotify_mark must have no namespace of their own.
CheckUnitText(seen) == seen.sandboxing \intersect System = {}

\* What the judgment goes on with, of the readings that no check so far refuses.
Exposed(seen) == \E row \in Rows(seen.others) : row.dev = "disk" /\ Share(row.dir, Root)
Judged ==
  {[asker |-> seen.asker, secrets |-> Secrets(seen), plasmoid |-> seen.plasmoid,
    missing |-> seen.missing, exposed |-> Exposed(seen)] :
     seen \in {r \in Readings : /\ CheckVantage(r) /\ CheckKernel(r) /\ CheckUnitText(r)
                              /\ CheckFstype(Ours(r)) /\ CheckExposure(r)
                              /\ Secrets(r) # "Unreachable"}}

CheckRoot(asker, opts) == Real(opts) => asker = "root"
Entry(mount) == FstabEntry(IF tree = "machine" THEN fstab ELSE Observed(fstab, <<>>, etc), mount)
CheckFstab(opts) ==
  Entry(opts.mount) = "NoAuto" \/ (Entry(opts.mount) = "Absent" /\ opts.consent_fstab)
CheckSecrets(judged, opts) == Real(opts) => judged.secrets # "Unverifiable"
CheckTray(judged, opts) == ~(judged.plasmoid /\ opts.tray = "unsaid")
Tray(judged, opts) ==
  IF opts.tray # "unsaid" THEN opts.tray ELSE IF judged.plasmoid THEN "none" ELSE "sni"
BINARIES == {"hydrationd", "onedrive-hydration-daemon", "onedrive-hydrationctl", "onedrive-hydration-dbus"}
CheckBinaries(judged, tray) ==
  judged.missing \intersect
    (BINARIES \union (IF tray = "sni" THEN {"onedrive-hydration-tray"} ELSE {})) = {}

(***************************************************************************)
(* Plans                                                                   *)
(***************************************************************************)
WriteFile(unit)  == [op |-> "WriteFile", path |-> File(unit)]
Symlink(unit) == [op |-> "Symlink", path |-> Wants(unit)]
RemoveFile(path) == [op |-> "RemoveFile", path |-> path]
Run(command) == [op |-> "Run", command |-> command, units |-> {}]
Disable(units) == [op |-> "Run", command |-> "disable", units |-> units]

\* Each unit and its link, in the order the units are rendered in.
Placement(tray) ==
  <<WriteFile("hydrationd.service"), WriteFile("hydrationd.path"), Symlink("hydrationd.path"),
    WriteFile("onedrive-hydration.service"), Symlink("onedrive-hydration.service"),
    WriteFile("onedrive-hydration-dbus.service")>>
  \o (IF tray = "sni" THEN <<WriteFile(TRAY_UNIT), Symlink(TRAY_UNIT)>> ELSE <<>>)
  \o <<WriteFile(BUS_FILE)>>

Retirement == <<Disable({TRAY_UNIT}), RemoveFile(File(TRAY_UNIT)), RemoveFile(Wants(TRAY_UNIT))>>
\* mutant: a link without its unit is not looked for
RetireUnitOnly(tray) == IF tray = "sni" \/ disk[File(TRAY_UNIT)] = "absent" THEN <<>> ELSE Retirement
Retire(tray) ==
  IF tray = "sni" \/ (disk[File(TRAY_UNIT)] = "absent" /\ disk[Wants(TRAY_UNIT)] = "absent")
  THEN <<>> ELSE Retirement

Placing(action) == action.op \in {"WriteFile", "Symlink"}
Collisions(plan) == {action \in ToSet(plan) : Placing(action) /\ disk[action.path] = "other"}
\* mutant: a link that is already right is made again
UnchangedFiles(plan) ==
  [i \in DOMAIN plan |-> IF plan[i].op = "WriteFile" /\ disk[plan[i].path] = "ours"
                         THEN [op |-> "Unchanged", path |-> plan[i].path] ELSE plan[i]]
Collide(plan) ==
  [i \in DOMAIN plan |-> IF Placing(plan[i]) /\ disk[plan[i].path] = "ours"
                         THEN [op |-> "Unchanged", path |-> plan[i].path] ELSE plan[i]]

Installation(tray) == Placement(tray) \o Retire(tray)
AppendFstab(mount) == IF Entry(mount) = "Absent"
                      THEN <<[op |-> "AppendFstab", line |-> FstabSuggestion(Point)]>> ELSE <<>>

Options == [dry_run : BOOLEAN, force : BOOLEAN, consent_fstab : BOOLEAN,
            tray : Trays \union {"unsaid"}, mount : Spellings]

Begin(newJob, plan, dry_run) ==
  /\ Idle /\ runs < MaxRuns
  /\ runs' = runs + 1
  /\ job' = newJob /\ actions' = plan
  /\ settled' = IF dry_run THEN settled ELSE "no"
  /\ UNCHANGED <<tree, files, etc, services, touched, edits>>

Install(judged, opts) ==
  LET tray == Tray(judged, opts)
  IN /\ Mounted(opts.mount) /\ CheckFstab(opts)
     /\ CheckRoot(judged.asker, opts) /\ CheckSecrets(judged, opts)
     /\ CheckTray(judged, opts) /\ CheckBinaries(judged, tray)
     /\ opts.force \/ Collisions(Installation(tray)) = {}
     /\ Begin([kind |-> "install", tray |-> tray, dry_run |-> opts.dry_run, exposed |-> judged.exposed],
              Collide(Installation(tray)) \o AppendFstab(opts.mount), opts.dry_run)

\* The mount table as it was read once, before the checks, decides the order.
TakeDownUnverified(mounted) == <<Run(IF mounted THEN "umount" ELSE "stop hydrationd.service")>>  \* mutant
TakeDown(mounted) == IF mounted THEN <<Run("umount"), [op |-> "VerifyUnmounted"]>>
                                ELSE <<Run("stop hydrationd.service")>>

UserUnits == User \union (IF disk[File(TRAY_UNIT)] = "absent" THEN {} ELSE {TRAY_UNIT})
\* mutant: the activation file is forgotten
RemovedButBus == <<File("hydrationd.service"), File("hydrationd.path"), Wants("hydrationd.path"),
  File("onedrive-hydration.service"), File("onedrive-hydration-dbus.service"), File(TRAY_UNIT),
  Wants("onedrive-hydration.service"), Wants(Legacy), Wants(TRAY_UNIT)>>
Removed == <<File("hydrationd.service"), File("hydrationd.path"), Wants("hydrationd.path"),
  File("onedrive-hydration.service"), File("onedrive-hydration-dbus.service"), File(TRAY_UNIT),
  File(BUS_FILE), Wants("onedrive-hydration.service"), Wants(Legacy), Wants(TRAY_UNIT)>>
Removal(mounted) ==
  <<Run("stop hydrationd.path")>> \o TakeDown(mounted) \o <<Disable(UserUnits)>>
    \o [i \in DOMAIN Removed |-> RemoveFile(Removed[i])] \o <<Run("daemon-reload")>>

Uninstall(asker, and_unmount, opts) ==
  LET mounted == Mounted(opts.mount)
  IN /\ CheckRoot(asker, opts)
     /\ mounted => and_unmount
     /\ Begin([kind |-> "uninstall", mounted |-> mounted, dry_run |-> opts.dry_run],
              Removal(mounted), opts.dry_run)

(***************************************************************************)
(* Performing a plan: execute_inner                                        *)
(***************************************************************************)
Head1 == Head(actions)
Writes == ~job.dry_run
Commands == ~job.dry_run /\ tree = "machine"
Untouched == UNCHANGED <<files, services>>

\* RequiresMountsFor= stops the helper with its mount.
Umount == mounts > 0 /\ mounts' = mounts - 1 /\ helper' = (helper /\ mounts > 1)

\* `disable` fails when it names a unit of which nothing is there.
Known(unit) == disk[File(unit)] # "absent" \/ (Wants(unit) \in Paths /\ disk[Wants(unit)] # "absent")
Unlinked(units) == [p \in Paths |-> IF \E u \in units : p = Wants(u) THEN "absent" ELSE disk[p]]

Execute(command, units) ==
  CASE command = "stop hydrationd.path" ->
         armed' = FALSE /\ UNCHANGED <<files, mounts, helper, socket>>
    [] command = "stop hydrationd.service" ->
         helper' = FALSE /\ UNCHANGED <<files, mounts, armed, socket>>
    [] command = "umount" -> Umount /\ UNCHANGED <<files, armed, socket>>
    [] command = "disable" ->
         /\ \A u \in units : Known(u)
         /\ disk' = Unlinked(units)
         /\ socket' = (socket /\ "onedrive-hydration.service" \notin units)
         /\ UNCHANGED <<fstab, mounts, helper, armed>>
    [] command = "daemon-reload" -> Untouched

Effect(action) ==
  IF ~Writes \/ action.op = "Unchanged" THEN Untouched
  ELSE CASE Placing(action) ->
              disk' = [disk EXCEPT ![action.path] = "ours"] /\ UNCHANGED <<fstab, services>>
         [] action.op = "RemoveFile" ->
              disk' = [disk EXCEPT ![action.path] = "absent"] /\ UNCHANGED <<fstab, services>>
         [] action.op = "AppendFstab" ->
              fstab' = fstab \o <<action.line>> /\ UNCHANGED <<disk, services>>
         [] action.op = "Run" ->
              IF Commands THEN Execute(action.command, action.units) ELSE Untouched
         [] action.op = "VerifyUnmounted" -> (Commands => mounts = 0) /\ Untouched

Perform ==
  /\ actions # <<>>
  /\ Effect(Head1)
  /\ actions' = Tail(actions)
  /\ UNCHANGED <<tree, etc, job, settled, touched, runs, edits>>

\* mutant: the file itself is written, not a temporary that is renamed
HalfwayInPlace(action) ==
  /\ action.op \in {"WriteFile", "Symlink"}
  /\ disk' = [disk EXCEPT ![action.path] = IF action.op = "WriteFile" THEN "other" ELSE "absent"]
\* A link to elsewhere is removed before the new one is made.
Halfway(action) ==
  action.op = "Symlink" /\ disk' = [disk EXCEPT ![action.path] = "absent"]

\* An action fails, or the process is killed: the run ends here.
Break ==
  /\ actions # <<>> /\ Writes
  /\ Untouched \/ (Halfway(Head1) /\ UNCHANGED <<fstab, services>>)
  /\ job' = NoJob /\ actions' = <<>>
  /\ UNCHANGED <<tree, etc, settled, touched, runs, edits>>

Finish ==
  /\ ~Idle /\ actions = <<>>
  /\ job' = NoJob
  /\ settled' = IF job.dry_run THEN settled ELSE IF job.kind = "install" THEN job.tray ELSE "gone"
  /\ UNCHANGED <<tree, files, etc, services, actions, touched, runs, edits>>

(***************************************************************************)
(* The person and systemd                                                  *)
(***************************************************************************)
EditFile ==
  /\ Idle /\ edits < MaxEdits
  /\ \E p \in Paths, content \in {"absent", "other"} :
       disk[p] # content /\ disk' = [disk EXCEPT ![p] = content] /\ touched' = touched \union {p}
  /\ edits' = edits + 1 /\ settled' = "no"
  /\ UNCHANGED <<tree, fstab, etc, services, job, actions, runs>>

EditFstab ==
  /\ Idle /\ edits < MaxEdits
  /\ \E lines \in Fstabs : lines # fstab /\ fstab' = lines
  /\ edits' = edits + 1 /\ settled' = "no"
  /\ etc' = IF tree = "machine" THEN fstab' ELSE etc
  /\ UNCHANGED <<tree, disk, services, job, actions, touched, runs>>

Serviced == tree = "machine" /\ UNCHANGED <<tree, files, etc, job, actions, settled, touched, runs, edits>>

MountByHand   == Serviced /\ Idle /\ mounts < MaxMounts /\ mounts' = mounts + 1 /\ UNCHANGED <<helper, armed, socket>>
UnmountByHand == Serviced /\ Umount /\ UNCHANGED <<armed, socket>>

\* The sync daemon makes the socket, and takes it away when it ends.
SyncStarts ==
  /\ Serviced /\ ~socket /\ disk[File("onedrive-hydration.service")] # "absent"
  /\ socket' = TRUE /\ UNCHANGED <<mounts, helper, armed>>
SyncStops == Serviced /\ socket /\ socket' = FALSE /\ UNCHANGED <<mounts, helper, armed>>

\* At boot, or by hand as the installer says.
Arm ==
  /\ Serviced /\ Idle /\ ~armed
  /\ \A unit \in System : disk[File(unit)] # "absent"
  /\ armed' = TRUE /\ UNCHANGED <<mounts, helper, socket>>

\* PathExists= starts the helper, and RequiresMountsFor= the mount that fstab describes.
Trigger ==
  /\ Serviced /\ armed /\ socket /\ ~helper
  /\ mounts > 0 \/ FstabEntry(fstab, Point) # "Absent"
  /\ helper' = TRUE /\ mounts' = IF mounts = 0 THEN 1 ELSE mounts
  /\ UNCHANGED <<armed, socket>>

InstallSome == Idle /\ runs < MaxRuns /\ \E judged \in Judged, opts \in Options : Install(judged, opts)
UninstallSome ==
  /\ Idle /\ runs < MaxRuns
  /\ \E asker \in {"root", "user"}, and_unmount, dry_run \in BOOLEAN, mount \in Spellings :
       Uninstall(asker, and_unmount, [dry_run |-> dry_run, mount |-> mount])

Next ==
  \/ InstallSome \/ UninstallSome \/ Perform \/ Break \/ Finish
  \/ EditFile \/ EditFstab \/ MountByHand \/ UnmountByHand
  \/ SyncStarts \/ SyncStops \/ Arm \/ Trigger

Spec == Init /\ [][Next]_vars

(***************************************************************************)
(* Properties                                                              *)
(***************************************************************************)
TypeOK ==
  /\ tree \in Trees /\ disk \in [Paths -> {"absent", "ours", "other"}]
  /\ mounts \in 0..MaxMounts /\ {helper, armed, socket} \subseteq BOOLEAN
  /\ job.kind \in {"none", "install", "uninstall"} /\ (Idle => actions = <<>>)
  /\ settled \in Trays \union {"no", "gone"} /\ touched \subseteq Paths
  /\ runs \in 0..MaxRuns /\ edits \in 0..MaxEdits

\* A mounted sync root is refused for exposure exactly where some file of it can be
\* reached through another mount (exposures, covers): neither an ancestor, a subdirectory
\* nor the whole device is missed, and no neighbour whose name merely begins alike counts.
ExposureJudged == Mounted(Point) => ExposuresExact

\* An install that is being performed was approved on a mount table in which no other
\* mount reaches a file of the sync root (check_exposure).
ApprovedIsUnexposed == job.kind = "install" => ~job.exposed

\* When an install ends well, every unit and link of it is there, nothing of a tray
\* surface that was not chosen is, and fstab mounts the sync root only on demand:
\* whatever an earlier run, broken off anywhere, or an earlier version had left.
FinishedIsComplete ==
  settled \in Trays =>
    /\ \A p \in Paths \ {Wants(Legacy)} : disk[p] = Deployed[settled][p]
    /\ Entry(Point) = "NoAuto"

\* An install repeated with the same tray writes nothing and runs no command.
SecondRunQuiet ==
  settled \in Trays =>
    \A action \in ToSet(Collide(Installation(settled))) : action.op = "Unchanged"

\* A run broken off at any action leaves nothing that the next one would refuse to
\* overwrite: only what a person wrote is a collision.
RetryNeverCollides ==
  \A tray \in Trays : \A action \in Collisions(Installation(tray)) : action.path \in touched

FailsOpen ==
  /\ tree = "machine"
  /\ \/ helper /\ ~helper'
     \/ disk[File("hydrationd.service")] # "absent" /\ disk'[File("hydrationd.service")] = "absent"
  /\ mounts' > 0

\* An uninstall that found the sync root mounted neither stops the helper nor removes
\* its unit before the mount is gone, the last one of several on top of each other.
HelperOutlivesMount ==
  [][job.kind = "uninstall" /\ job.mounted => ~FailsOpen]_vars

\* After an uninstall that ended well nothing of the deployment is on disk, a link of an
\* earlier version included, and nothing of it will answer or start.
UninstalledIsGone ==
  settled = "gone" => disk = Blank /\ ~helper /\ ~armed

\* The doc of uninstall: hydrationd is never left stopped (or removed) while the sync
\* root is still mounted.
NeverFailsOpen == [][job.kind = "uninstall" => ~FailsOpen]_vars
=============================================================================
