-------------------------- MODULE InstallerProofs --------------------------
(* Theorems about Installer, for every machine it may measure, every fstab   *)
(* and any number of runs, edits and mounts.                                 *)
EXTENDS Installer, SharedLemmas

Contents == {"absent", "ours", "other"}
Lines == [point : STRING, noauto : BOOLEAN]
-----------------------------------------------------------------------------
(* The invariant.                                                            *)

FileActions == [op : {"WriteFile", "Symlink", "RemoveFile", "Unchanged"}, path : Paths]
RunActions ==
  {Run(c) : c \in {"stop hydrationd.path", "stop hydrationd.service", "umount", "daemon-reload"}}
    \cup {Disable(units) : units \in SUBSET Units}
OtherActions == [op : {"AppendFstab"}, line : {FstabSuggestion(Point)}] \cup [op : {"VerifyUnmounted"}]
Actions == FileActions \cup RunActions \cup OtherActions

JobOK ==
  /\ job.kind \in {"none", "install", "uninstall"}
  /\ ~Idle => job.dry_run \in BOOLEAN
  /\ job.kind = "install" => job.tray \in Trays
  /\ job.kind = "uninstall" => job.mounted \in BOOLEAN

TypeInv ==
  /\ tree \in Trees /\ disk \in [Paths -> Contents] /\ fstab \in Seq(Lines) /\ etc \in Seq(Lines)
  /\ mounts \in 0..MaxMounts /\ helper \in BOOLEAN /\ armed \in BOOLEAN /\ socket \in BOOLEAN
  /\ settled \in Trays \cup {"no", "gone"} /\ touched \in SUBSET Paths
  /\ runs \in 0..MaxRuns /\ edits \in 0..MaxEdits
  /\ JobOK /\ actions \in Seq(Actions) /\ (Idle => actions = <<>>)

\* The helper runs only over a mount, and nothing of a rehearsal runs at all.
ServiceInv ==
  /\ helper => mounts > 0
  /\ tree # "machine" => ~helper /\ ~armed

\* What is neither absent nor ours, a person wrote.
TouchedInv == \A p \in Paths : disk[p] = "other" => p \in touched

Performing(kind) == job.kind = kind /\ ~job.dry_run

\* An install and its plan bring every path but the legacy link to one state,
\* and fstab to a line that mounts on demand.
Consistent(a, tray) ==
  /\ Placing(a) => Deployed[tray][a.path] = "ours"
  /\ a.op = "RemoveFile" => Deployed[tray][a.path] = "absent"
  /\ a.op = "Run" => a.command = "disable" /\ a.units = {TRAY_UNIT} /\ tray # "sni"
  /\ a.op # "VerifyUnmounted"

Settles(p) == \E i \in DOMAIN actions : (Placing(actions[i]) \/ actions[i].op = "RemoveFile")
                                        /\ actions[i].path = p

InstallInv ==
  Performing("install") =>
    /\ \A i \in DOMAIN actions : Consistent(actions[i], job.tray)
    /\ \A p \in Paths \ {Wants(Legacy)} : disk[p] = Deployed[job.tray][p] \/ Settles(p)
    /\ \/ Entry(Point) = "NoAuto"
       \/ Entry(Point) = "Absent" /\ actions # <<>> /\ actions[Len(actions)].op = "AppendFstab"
    /\ \A i \in DOMAIN actions :
         actions[i].op = "AppendFstab" => i = Len(actions) /\ Entry(Point) = "Absent"

Verifies(i) == actions[i].op = "VerifyUnmounted"

UninstallInv ==
  Performing("uninstall") =>
    /\ \A i \in DOMAIN actions : actions[i].op \in {"Run", "RemoveFile", "VerifyUnmounted"}
    /\ \A p \in Paths : disk[p] = "absent" \/ \E i \in DOMAIN actions : actions[i] = RemoveFile(p)

\* The helper's trigger goes first, then the mount and with it the helper; no unit
\* is removed before.
TakeDownInv ==
  (Performing("uninstall") /\ tree = "machine") =>
    /\ armed => actions # <<>> /\ actions[1] = Run("stop hydrationd.path")
    /\ job.mounted =>
         /\ (\E i \in DOMAIN actions : Verifies(i)) \/ (mounts = 0 /\ ~armed)
         /\ \A i, j \in DOMAIN actions : Verifies(i) /\ actions[j].op = "RemoveFile" => i < j
         /\ \A i \in DOMAIN actions : actions[i] # Run("stop hydrationd.service")
    /\ ~job.mounted =>
         \/ \E i \in DOMAIN actions : actions[i] = Run("stop hydrationd.service")
         \/ ~helper /\ ~armed

\* Between its first action and its end nothing counts as settled.
SettledInv ==
  /\ (~Idle /\ ~job.dry_run) => settled = "no"
  /\ FinishedIsComplete /\ UninstalledIsGone

IInv == TypeInv /\ ServiceInv /\ TouchedInv /\ InstallInv /\ UninstallInv /\ TakeDownInv /\ SettledInv
-----------------------------------------------------------------------------
(* Sequences of actions.                                                     *)

\* The rest of a plan that is being performed.
LEMMA Rest ==
  ASSUME NEW S, NEW s \in Seq(S), s # <<>>
  PROVE  /\ Len(s) \in Nat /\ Len(s) > 0 /\ DOMAIN s = 1..Len(s)
         /\ Head(s) = s[1] /\ s[1] \in S /\ 1 \in DOMAIN s
         /\ Tail(s) \in Seq(S) /\ Len(Tail(s)) = Len(s) - 1 /\ DOMAIN Tail(s) = 1..(Len(s) - 1)
         /\ \A i \in DOMAIN Tail(s) : i + 1 \in DOMAIN s /\ Tail(s)[i] = s[i + 1]
         /\ \A i \in DOMAIN s : i = 1 \/ (i - 1 \in DOMAIN Tail(s) /\ Tail(s)[i - 1] = s[i])
<1>1. /\ Len(s) \in Nat /\ Len(s) > 0 /\ DOMAIN s = 1..Len(s) /\ Head(s) = s[1] /\ s[1] \in S
      /\ Tail(s) \in Seq(S) /\ Len(Tail(s)) = Len(s) - 1 /\ DOMAIN Tail(s) = 1..(Len(s) - 1)
      /\ \A i \in 1..(Len(s) - 1) : Tail(s)[i] = s[i + 1]
  OBVIOUS
<1>2. \A i \in 1..(Len(s) - 1) : i + 1 \in 1..Len(s) BY <1>1
<1>3. \A i \in 1..Len(s) : i = 1 \/ (i - 1 \in 1..(Len(s) - 1) /\ (i - 1) + 1 = i) BY <1>1
<1>4. \A i \in DOMAIN s : i = 1 \/ (i - 1 \in DOMAIN Tail(s) /\ Tail(s)[i - 1] = s[i])
  BY <1>1, <1>3
<1> QED BY <1>1, <1>2, <1>4
-----------------------------------------------------------------------------
(* Paths and actions.                                                        *)

LEMMA PathsAre ==
  /\ \A u \in Units : File(u) \in Paths
  /\ \A u \in Wanted \cup {Legacy} : Wants(u) \in Paths
  /\ \A p \in Paths : (\E u \in Units : p = File(u)) \/ (\E u \in Wanted \cup {Legacy} : p = Wants(u))
  /\ \A u, v : (File(u) = File(v) <=> u = v) /\ (Wants(u) = Wants(v) <=> u = v) /\ File(u) # Wants(v)
BY DEF Paths, File, Wants

LEMMA UnitsAre ==
  /\ Units = {"hydrationd.service", "hydrationd.path", "onedrive-hydration.service", Legacy,
              TRAY_UNIT, BUS_FILE}
  /\ Wanted = {"hydrationd.path", "onedrive-hydration.service", TRAY_UNIT}
  /\ Legacy \notin Wanted /\ Wanted \subseteq Units /\ TRAY_UNIT # BUS_FILE /\ TRAY_UNIT # Legacy
BY DEF Units, System, User, Legacy, TRAY_UNIT, BUS_FILE, Wanted

\* What an install of a tray brings each path to.
LEMMA DeployedIs ==
  ASSUME NEW tray \in Trays, NEW p \in Paths
  PROVE  Deployed[tray][p] =
           IF p = Wants(Legacy) \/ (tray # "sni" /\ p \in {File(TRAY_UNIT), Wants(TRAY_UNIT)})
           THEN "absent" ELSE "ours"
<1> DEFINE named == \E u \in Rendered(tray) : p = File(u) \/ (p = Wants(u) /\ u \in Wanted)
<1>1. Deployed[tray][p] = IF named THEN "ours" ELSE "absent" BY DEF Deployed
<1>2. Rendered(tray) = IF tray = "sni" THEN Units ELSE Units \ {TRAY_UNIT} BY DEF Rendered
<1>3. CASE \E u \in Units : p = File(u)
  <2>1. PICK u \in Units : p = File(u) BY <1>3
  <2>2. named <=> u \in Rendered(tray) BY <2>1, PathsAre
  <2>3. p # Wants(Legacy) /\ p # Wants(TRAY_UNIT) /\ (p = File(TRAY_UNIT) <=> u = TRAY_UNIT)
    BY <2>1, PathsAre
  <2> HIDE DEF named
  <2> QED BY <1>1, <1>2, <2>1, <2>2, <2>3
<1>4. CASE \E u \in Wanted \cup {Legacy} : p = Wants(u)
  <2>1. PICK u \in Wanted \cup {Legacy} : p = Wants(u) BY <1>4
  <2>2. named <=> u \in Rendered(tray) /\ u \in Wanted BY <2>1, PathsAre
  <2>3. /\ p # File(TRAY_UNIT) /\ (p = Wants(TRAY_UNIT) <=> u = TRAY_UNIT)
        /\ p = Wants(Legacy) <=> u = Legacy
    BY <2>1, PathsAre
  <2>4. u \in Units BY UnitsAre
  <2> HIDE DEF named
  <2> QED BY <1>1, <1>2, <2>1, <2>2, <2>3, <2>4, UnitsAre
<1> QED BY <1>3, <1>4, PathsAre

Verification == [op |-> "VerifyUnmounted"]

LEMMA RecordOps ==
  /\ \A c : Run(c).op = "Run" /\ Run(c).command = c
  /\ \A units : Disable(units).op = "Run" /\ Disable(units).command = "disable"
                /\ Disable(units).units = units
  /\ Verification.op = "VerifyUnmounted"
  /\ \A p : RemoveFile(p).op = "RemoveFile" /\ RemoveFile(p).path = p
BY DEF Run, Disable, Verification, RemoveFile

LEMMA ActionParts ==
  ASSUME NEW a \in Actions
  PROVE  /\ a.op \in {"WriteFile", "Symlink", "RemoveFile", "Unchanged", "Run", "AppendFstab",
                      "VerifyUnmounted"}
         /\ a.op \in {"WriteFile", "Symlink", "RemoveFile", "Unchanged"} => a.path \in Paths
         /\ a.op = "Run" => /\ a.units \subseteq Units
                            /\ a.command \in {"stop hydrationd.path", "stop hydrationd.service",
                                              "umount", "disable", "daemon-reload"}
                            /\ a.command = "stop hydrationd.service" => a = Run(a.command)
         /\ a.op = "AppendFstab" => a.line = FstabSuggestion(Point)
<1>1. CASE a \in FileActions BY <1>1 DEF FileActions
<1>2. CASE a \in RunActions
  <2>1. CASE \E c \in {"stop hydrationd.path", "stop hydrationd.service", "umount", "daemon-reload"} :
               a = Run(c)
    <3>1. PICK c \in {"stop hydrationd.path", "stop hydrationd.service", "umount", "daemon-reload"} :
                 a = Run(c)
      BY <2>1
    <3>2. a.op = "Run" /\ a.command = c /\ a.units = {} BY <3>1 DEF Run
    <3> QED BY <3>1, <3>2
  <2>2. CASE \E units \in SUBSET Units : a = Disable(units)
    <3>1. PICK units \in SUBSET Units : a = Disable(units) BY <2>2
    <3>2. a.op = "Run" /\ a.command = "disable" /\ a.units = units BY <3>1, RecordOps
    <3> QED BY <3>2
  <2> QED BY <1>2, <2>1, <2>2 DEF RunActions
<1>3. CASE a \in OtherActions BY <1>3 DEF OtherActions
<1> QED BY <1>1, <1>2, <1>3 DEF Actions

LEMMA ActionsAre ==
  /\ \A u \in Units : WriteFile(u) \in Actions
  /\ \A u \in Wanted : Symlink(u) \in Actions
  /\ \A p \in Paths : RemoveFile(p) \in Actions /\ [op |-> "Unchanged", path |-> p] \in Actions
  /\ \A c \in {"stop hydrationd.path", "stop hydrationd.service", "umount", "daemon-reload"} :
       Run(c) \in Actions
  /\ \A units \in SUBSET Units : Disable(units) \in Actions
  /\ [op |-> "AppendFstab", line |-> FstabSuggestion(Point)] \in Actions
  /\ [op |-> "VerifyUnmounted"] \in Actions
<1>1. \A u \in Units : WriteFile(u) \in FileActions BY PathsAre DEF WriteFile, FileActions
<1>2. \A u \in Wanted : Symlink(u) \in FileActions BY PathsAre DEF Symlink, FileActions
<1>3. \A p \in Paths : RemoveFile(p) \in FileActions /\ [op |-> "Unchanged", path |-> p] \in FileActions
  BY DEF RemoveFile, FileActions
<1>4. /\ \A c \in {"stop hydrationd.path", "stop hydrationd.service", "umount", "daemon-reload"} :
           Run(c) \in RunActions
      /\ \A units \in SUBSET Units : Disable(units) \in RunActions
  BY DEF RunActions
<1>5. /\ [op |-> "AppendFstab", line |-> FstabSuggestion(Point)] \in OtherActions
      /\ [op |-> "VerifyUnmounted"] \in OtherActions
  BY DEF OtherActions
<1> QED BY <1>1, <1>2, <1>3, <1>4, <1>5 DEF Actions
-----------------------------------------------------------------------------
(* The plan of an install.                                                   *)

LEMMA Literals ==
  ASSUME NEW S
  PROVE  /\ <<>> \in Seq(S) /\ \A x : ~Holds(<<>>, x)
         /\ \A a \in S : <<a>> \in Seq(S) /\ \A x : Holds(<<a>>, x) <=> x = a
         /\ \A a, b \in S : <<a, b>> \in Seq(S) /\ \A x : Holds(<<a, b>>, x) <=> x \in {a, b}
<1>1. <<>> \in Seq(S) /\ \A x : ~Holds(<<>>, x) BY DEF Holds
<1>2. ASSUME NEW a \in S PROVE <<a>> \in Seq(S) /\ \A x : Holds(<<a>>, x) <=> x = a
  BY DEF Holds
<1>3. ASSUME NEW a \in S, NEW b \in S
      PROVE  <<a, b>> \in Seq(S) /\ \A x : Holds(<<a, b>>, x) <=> x \in {a, b}
  BY DEF Holds
<1> QED BY <1>1, <1>2, <1>3

\* Each unit of the tray is written, and each that is wanted is linked.
LEMMA PlacementHolds ==
  ASSUME NEW tray \in Trays
  PROVE  /\ Placement(tray) \in Seq(Actions)
         /\ \A x : Holds(Placement(tray), x) <=>
              \/ \E u \in Rendered(tray) : x = WriteFile(u)
              \/ \E u \in Rendered(tray) \cap Wanted : x = Symlink(u)
<1> DEFINE first == <<WriteFile("hydrationd.service"), WriteFile("hydrationd.path"),
                      Symlink("hydrationd.path"), WriteFile("onedrive-hydration.service"),
                      Symlink("onedrive-hydration.service"),
                      WriteFile("onedrive-hydration-dbus.service")>>
           shown == IF tray = "sni" THEN <<WriteFile(TRAY_UNIT), Symlink(TRAY_UNIT)>> ELSE <<>>
           last == <<WriteFile(BUS_FILE)>>
           both == first \o shown
<1>1. Placement(tray) = both \o last BY DEF Placement
<1>2. /\ WriteFile("hydrationd.service") \in Actions /\ WriteFile("hydrationd.path") \in Actions
      /\ Symlink("hydrationd.path") \in Actions /\ WriteFile("onedrive-hydration.service") \in Actions
      /\ Symlink("onedrive-hydration.service") \in Actions
      /\ WriteFile("onedrive-hydration-dbus.service") \in Actions
      /\ WriteFile(TRAY_UNIT) \in Actions /\ Symlink(TRAY_UNIT) \in Actions
      /\ WriteFile(BUS_FILE) \in Actions
  BY ActionsAre, UnitsAre DEF Legacy
<1>3. /\ first \in Seq(Actions)
      /\ \A x : Holds(first, x) <=>
           x \in {WriteFile("hydrationd.service"), WriteFile("hydrationd.path"),
                  Symlink("hydrationd.path"), WriteFile("onedrive-hydration.service"),
                  Symlink("onedrive-hydration.service"), WriteFile("onedrive-hydration-dbus.service")}
  BY <1>2 DEF Holds
<1>4. /\ shown \in Seq(Actions)
      /\ \A x : Holds(shown, x) <=> tray = "sni" /\ x \in {WriteFile(TRAY_UNIT), Symlink(TRAY_UNIT)}
  BY <1>2, Literals
<1>5. last \in Seq(Actions) /\ \A x : Holds(last, x) <=> x = WriteFile(BUS_FILE)
  BY <1>2, Literals
<1> HIDE DEF first, shown, last
<1>6. both \in Seq(Actions) /\ \A x : Holds(both, x) <=> Holds(first, x) \/ Holds(shown, x)
  BY <1>3, <1>4, Concat
<1> HIDE DEF both
<1>7. /\ Placement(tray) \in Seq(Actions)
      /\ \A x : Holds(Placement(tray), x) <=> Holds(first, x) \/ Holds(shown, x) \/ Holds(last, x)
  BY <1>1, <1>5, <1>6, Concat
<1>8. /\ \A u : u \in Rendered(tray) <=>
           \/ u \in {"hydrationd.service", "hydrationd.path", "onedrive-hydration.service",
                     "onedrive-hydration-dbus.service", BUS_FILE}
           \/ tray = "sni" /\ u = TRAY_UNIT
      /\ \A u : u \in Rendered(tray) \cap Wanted <=>
           \/ u \in {"hydrationd.path", "onedrive-hydration.service"}
           \/ tray = "sni" /\ u = TRAY_UNIT
  BY DEF Rendered, Units, System, User, Wanted, TRAY_UNIT, BUS_FILE
<1>9. \A x : (\E u \in Rendered(tray) : x = WriteFile(u)) <=>
        \/ x \in {WriteFile("hydrationd.service"), WriteFile("hydrationd.path"),
                  WriteFile("onedrive-hydration.service"),
                  WriteFile("onedrive-hydration-dbus.service"), WriteFile(BUS_FILE)}
        \/ tray = "sni" /\ x = WriteFile(TRAY_UNIT)
  BY <1>8
<1>10. \A x : (\E u \in Rendered(tray) \cap Wanted : x = Symlink(u)) <=>
        \/ x \in {Symlink("hydrationd.path"), Symlink("onedrive-hydration.service")}
        \/ tray = "sni" /\ x = Symlink(TRAY_UNIT)
  BY <1>8
<1> QED BY <1>3, <1>4, <1>5, <1>7, <1>9, <1>10

\* A surface that was not chosen is taken down if something of it is there.
LEMMA RetireHolds ==
  ASSUME NEW tray \in Trays
  PROVE  /\ Retire(tray) \in Seq(Actions)
         /\ \A x : Holds(Retire(tray), x) <=>
              /\ tray # "sni"
              /\ disk[File(TRAY_UNIT)] # "absent" \/ disk[Wants(TRAY_UNIT)] # "absent"
              /\ x \in {Disable({TRAY_UNIT}), RemoveFile(File(TRAY_UNIT)), RemoveFile(Wants(TRAY_UNIT))}
<1>1. TRAY_UNIT \in Units /\ TRAY_UNIT \in Wanted BY UnitsAre
<1>2. File(TRAY_UNIT) \in Paths /\ Wants(TRAY_UNIT) \in Paths BY <1>1, PathsAre
<1>3. {TRAY_UNIT} \in SUBSET Units BY <1>1
<1>4. /\ Disable({TRAY_UNIT}) \in Actions /\ RemoveFile(File(TRAY_UNIT)) \in Actions
      /\ RemoveFile(Wants(TRAY_UNIT)) \in Actions
  BY <1>2, <1>3, ActionsAre
<1>5. /\ Retirement \in Seq(Actions)
      /\ \A x : Holds(Retirement, x) <=>
           x \in {Disable({TRAY_UNIT}), RemoveFile(File(TRAY_UNIT)), RemoveFile(Wants(TRAY_UNIT))}
  BY <1>4 DEF Retirement, Holds
<1> QED BY <1>5, Literals DEF Retire

\* The plan brings each path to what the tray calls for, or it is there already.
LEMMA InstallationHolds ==
  ASSUME NEW tray \in Trays, TypeInv
  PROVE  /\ Installation(tray) \in Seq(Actions)
         /\ \A x : Holds(Installation(tray), x) =>
              Consistent(x, tray) /\ x.op \in {"WriteFile", "Symlink", "RemoveFile", "Run"}
         /\ \A p \in Paths \ {Wants(Legacy)} :
              \/ disk[p] = Deployed[tray][p]
              \/ \E x : Holds(Installation(tray), x) /\ x.path = p /\ (Placing(x) \/ x.op = "RemoveFile")
         /\ (\A p \in Paths \ {Wants(Legacy)} : disk[p] = Deployed[tray][p]) =>
              \A x : Holds(Installation(tray), x) => Placing(x)
<1> DEFINE D == Deployed[tray]
<1>1. /\ Installation(tray) \in Seq(Actions)
      /\ \A x : Holds(Installation(tray), x) <=> Holds(Placement(tray), x) \/ Holds(Retire(tray), x)
  BY PlacementHolds, RetireHolds, Concat DEF Installation
<1>2. ASSUME NEW u \in Rendered(tray)
      PROVE  /\ Consistent(WriteFile(u), tray) /\ Placing(WriteFile(u))
             /\ WriteFile(u).op = "WriteFile" /\ WriteFile(u).path = File(u)
  <2>1. WriteFile(u).op = "WriteFile" /\ WriteFile(u).path = File(u) BY DEF WriteFile
  <2>2. u \in Units /\ (tray # "sni" => u # TRAY_UNIT) BY DEF Rendered
  <2>3. D[File(u)] = "ours" BY <2>2, DeployedIs, PathsAre
  <2> QED BY <2>1, <2>3 DEF Consistent, Placing
<1>3. ASSUME NEW u \in Rendered(tray) \cap Wanted
      PROVE  /\ Consistent(Symlink(u), tray) /\ Placing(Symlink(u))
             /\ Symlink(u).op = "Symlink" /\ Symlink(u).path = Wants(u)
  <2>1. Symlink(u).op = "Symlink" /\ Symlink(u).path = Wants(u) BY DEF Symlink
  <2>2. u \in Wanted /\ (tray # "sni" => u # TRAY_UNIT) BY DEF Rendered
  <2>3. D[Wants(u)] = "ours" BY <2>2, DeployedIs, PathsAre, UnitsAre
  <2> QED BY <2>1, <2>3 DEF Consistent, Placing
<1>4. ASSUME tray # "sni"
      PROVE  /\ D[File(TRAY_UNIT)] = "absent" /\ D[Wants(TRAY_UNIT)] = "absent"
             /\ \A x \in {Disable({TRAY_UNIT}), RemoveFile(File(TRAY_UNIT)), RemoveFile(Wants(TRAY_UNIT))} :
                  Consistent(x, tray) /\ x.op \in {"RemoveFile", "Run"}
  <2>1. File(TRAY_UNIT) \in Paths /\ Wants(TRAY_UNIT) \in Paths BY UnitsAre, PathsAre
  <2>2. D[File(TRAY_UNIT)] = "absent" /\ D[Wants(TRAY_UNIT)] = "absent" BY <1>4, <2>1, DeployedIs
  <2>3. ASSUME NEW p \in {File(TRAY_UNIT), Wants(TRAY_UNIT)}
        PROVE  Consistent(RemoveFile(p), tray) /\ RemoveFile(p).op = "RemoveFile"
    <3>1. RemoveFile(p).op = "RemoveFile" /\ RemoveFile(p).path = p BY DEF RemoveFile
    <3> QED BY <2>2, <3>1 DEF Consistent, Placing
  <2>4. Consistent(Disable({TRAY_UNIT}), tray) /\ Disable({TRAY_UNIT}).op = "Run"
    <3>1. /\ Disable({TRAY_UNIT}).op = "Run" /\ Disable({TRAY_UNIT}).command = "disable"
          /\ Disable({TRAY_UNIT}).units = {TRAY_UNIT}
      BY DEF Disable
    <3> QED BY <1>4, <3>1 DEF Consistent, Placing
  <2> QED BY <2>2, <2>3, <2>4
<1>5. \A x : Holds(Installation(tray), x) =>
        Consistent(x, tray) /\ x.op \in {"WriteFile", "Symlink", "RemoveFile", "Run"}
  <2>1. ASSUME NEW x, Holds(Placement(tray), x)
        PROVE  Consistent(x, tray) /\ x.op \in {"WriteFile", "Symlink"}
    BY <1>2, <1>3, <2>1, PlacementHolds DEF Placing
  <2>2. ASSUME NEW x, Holds(Retire(tray), x)
        PROVE  Consistent(x, tray) /\ x.op \in {"RemoveFile", "Run"}
    BY <1>4, <2>2, RetireHolds
  <2> QED BY <1>1, <2>1, <2>2
<1>6. ASSUME NEW p \in Paths \ {Wants(Legacy)}, disk[p] # D[p]
      PROVE  \E x : Holds(Installation(tray), x) /\ x.path = p /\ (Placing(x) \/ x.op = "RemoveFile")
  <2>1. CASE tray # "sni" /\ p \in {File(TRAY_UNIT), Wants(TRAY_UNIT)}
    <3>1. disk[p] # "absent" BY <1>4, <1>6, <2>1
    <3>2. Holds(Installation(tray), RemoveFile(p)) BY <1>1, <2>1, <3>1, RetireHolds
    <3>3. RemoveFile(p).op = "RemoveFile" /\ RemoveFile(p).path = p BY DEF RemoveFile
    <3> QED BY <3>2, <3>3
  <2>2. CASE ~(tray # "sni" /\ p \in {File(TRAY_UNIT), Wants(TRAY_UNIT)})
    <3>1. CASE \E u \in Units : p = File(u)
      <4>1. PICK u \in Units : p = File(u) BY <3>1
      <4>2. u \in Rendered(tray) BY <2>2, <4>1 DEF Rendered
      <4>3. Holds(Installation(tray), WriteFile(u)) BY <1>1, <4>2, PlacementHolds
      <4> QED BY <1>2, <4>1, <4>2, <4>3
    <3>2. CASE \E u \in Wanted \cup {Legacy} : p = Wants(u)
      <4>1. PICK u \in Wanted \cup {Legacy} : p = Wants(u) BY <3>2
      <4>2. u \in Wanted /\ u \in Units BY <4>1, UnitsAre
      <4>3. u \in Rendered(tray) \cap Wanted BY <2>2, <4>1, <4>2 DEF Rendered
      <4>4. Holds(Installation(tray), Symlink(u)) BY <1>1, <4>3, PlacementHolds
      <4> QED BY <1>3, <4>1, <4>3, <4>4
    <3> QED BY <3>1, <3>2, PathsAre
  <2> QED BY <2>1, <2>2
<1>7. ASSUME \A p \in Paths \ {Wants(Legacy)} : disk[p] = D[p], NEW x, Holds(Installation(tray), x)
      PROVE  Placing(x)
  <2>1. ~Holds(Retire(tray), x)
    <3>1. CASE tray = "sni" BY <3>1, RetireHolds
    <3>2. CASE tray # "sni"
      <4>1. File(TRAY_UNIT) \in Paths \ {Wants(Legacy)} /\ Wants(TRAY_UNIT) \in Paths \ {Wants(Legacy)}
        BY UnitsAre, PathsAre
      <4>2. disk[File(TRAY_UNIT)] = "absent" /\ disk[Wants(TRAY_UNIT)] = "absent"
        BY <1>4, <1>7, <3>2, <4>1
      <4> QED BY <4>2, RetireHolds
    <3> QED BY <3>1, <3>2
  <2>2. Holds(Placement(tray), x) BY <1>1, <1>7, <2>1
  <2> QED BY <1>2, <1>3, <2>2, PlacementHolds
<1> QED BY <1>1, <1>5, <1>6, <1>7

\* What is right already is left alone.
LEMMA CollideHolds ==
  ASSUME NEW tray \in Trays, TypeInv
  PROVE  LET plan == Collide(Installation(tray))
         IN /\ plan \in Seq(Actions)
            /\ \A i \in DOMAIN plan :
                 /\ Consistent(plan[i], tray)
                 /\ plan[i].op \in {"WriteFile", "Symlink", "RemoveFile", "Run", "Unchanged"}
            /\ \A p \in Paths \ {Wants(Legacy)} :
                 \/ disk[p] = Deployed[tray][p]
                 \/ \E i \in DOMAIN plan : (Placing(plan[i]) \/ plan[i].op = "RemoveFile") /\ plan[i].path = p
<1> DEFINE inst == Installation(tray)
           plan == Collide(inst)
           D == Deployed[tray]
           same(a) == [op |-> "Unchanged", path |-> a.path]
<1>1. /\ inst \in Seq(Actions)
      /\ \A i \in DOMAIN inst : /\ Consistent(inst[i], tray) /\ inst[i] \in Actions
                                /\ inst[i].op \in {"WriteFile", "Symlink", "RemoveFile", "Run"}
      /\ \A p \in Paths \ {Wants(Legacy)} :
           \/ disk[p] = D[p]
           \/ \E i \in DOMAIN inst : inst[i].path = p /\ (Placing(inst[i]) \/ inst[i].op = "RemoveFile")
  BY InstallationHolds DEF Holds
<1> HIDE DEF inst
<1>2. /\ plan = [i \in DOMAIN inst |-> IF Placing(inst[i]) /\ disk[inst[i].path] = "ours"
                                       THEN same(inst[i]) ELSE inst[i]]
      /\ DOMAIN plan = DOMAIN inst
  BY DEF Collide
<1>3. \A a \in Actions : Placing(a) =>
        /\ a.path \in Paths /\ same(a) \in Actions /\ Consistent(same(a), tray)
        /\ same(a).op = "Unchanged"
  <2> SUFFICES ASSUME NEW a \in Actions, Placing(a)
               PROVE  /\ a.path \in Paths /\ same(a) \in Actions /\ Consistent(same(a), tray)
                      /\ same(a).op = "Unchanged"
    OBVIOUS
  <2>1. a.path \in Paths BY ActionParts DEF Placing
  <2>2. same(a) \in Actions BY <2>1, ActionsAre
  <2>3. same(a).op = "Unchanged" OBVIOUS
  <2> HIDE DEF same
  <2>4. Consistent(same(a), tray) BY <2>3 DEF Consistent, Placing
  <2> QED BY <2>1, <2>2, <2>3, <2>4
<1>4. \A i \in DOMAIN plan : \/ plan[i] = inst[i] /\ ~(Placing(inst[i]) /\ disk[inst[i].path] = "ours")
                            \/ /\ plan[i] = same(inst[i]) /\ Placing(inst[i])
                               /\ disk[inst[i].path] = "ours"
  BY <1>2
<1> HIDE DEF plan, same
<1>5. \A i \in DOMAIN plan :
        /\ Consistent(plan[i], tray) /\ plan[i] \in Actions
        /\ plan[i].op \in {"WriteFile", "Symlink", "RemoveFile", "Run", "Unchanged"}
  BY <1>1, <1>2, <1>3, <1>4
<1>6. plan \in Seq(Actions)
  <2>1. DOMAIN inst = 1..Len(inst) /\ Len(inst) \in Nat BY <1>1
  <2>2. plan = [i \in 1..Len(inst) |-> plan[i]] BY <1>2, <2>1
  <2> QED BY <1>2, <1>5, <2>1, <2>2
<1>7. ASSUME NEW p \in Paths \ {Wants(Legacy)}, disk[p] # D[p]
      PROVE  \E i \in DOMAIN plan : (Placing(plan[i]) \/ plan[i].op = "RemoveFile") /\ plan[i].path = p
  <2>1. PICK i \in DOMAIN inst : inst[i].path = p /\ (Placing(inst[i]) \/ inst[i].op = "RemoveFile")
    BY <1>1, <1>7
  <2>2. Placing(inst[i]) => D[p] = "ours" BY <1>1, <2>1 DEF Consistent
  <2>3. plan[i] = inst[i] BY <1>2, <1>4, <1>7, <2>1, <2>2
  <2> QED BY <1>2, <2>1, <2>3
<1> QED BY <1>5, <1>6, <1>7 DEF plan, inst

\* The suggested line, appended where there is none, is the one that counts.
LEMMA FstabAppended ==
  ASSUME NEW lines \in Seq(Lines), FstabEntry(lines, Point) = "Absent"
  PROVE  /\ lines \o <<FstabSuggestion(Point)>> \in Seq(Lines)
         /\ FstabEntry(lines \o <<FstabSuggestion(Point)>>, Point) = "NoAuto"
         /\ lines \o <<FstabSuggestion(Point)>> # <<>>
<1> DEFINE line == FstabSuggestion(Point)
           one == <<line>>
           more == lines \o one
           n == Len(lines) + 1
           hits(l) == {i \in DOMAIN l : l[i].point = Point}
<1>1. line \in Lines /\ line.point = Point /\ line.noauto = TRUE
  BY RootAssumption DEF FstabSuggestion, Lines
<1>2. one \in Seq(Lines) /\ Len(one) = 1 /\ one[1] = line BY <1>1
<1> HIDE DEF one, line
<1>3. /\ more \in Seq(Lines) /\ DOMAIN more = 1..n /\ Len(lines) \in Nat /\ DOMAIN lines = 1..Len(lines)
      /\ \A i \in DOMAIN lines : more[i] = lines[i]
      /\ more[n] = line
  <2>1. DOMAIN one = {1} /\ 1 + Len(lines) = n BY <1>2
  <2> HIDE DEF n
  <2>2. /\ more \in Seq(Lines) /\ DOMAIN more = 1..(Len(lines) + 1) /\ Len(lines) \in Nat
        /\ DOMAIN lines = 1..Len(lines)
        /\ \A i \in DOMAIN lines : more[i] = lines[i]
        /\ more[1 + Len(lines)] = one[1]
    BY <1>2, <2>1, Concat
  <2> QED BY <1>2, <2>1, <2>2 DEF n
<1>4. hits(lines) = {} BY DEF FstabEntry
<1>5. hits(more) = {n}
  <2>1. \A i \in 1..n : i \in 1..Len(lines) \/ i = n BY <1>3
  <2>2. n \in 1..n BY <1>3
  <2>3. \A i \in DOMAIN more : more[i].point = Point <=> i = n
    BY <1>1, <1>3, <1>4, <2>1
  <2> QED BY <1>3, <2>2, <2>3
<1>6. Min({n}) = n BY <1>3 DEF Min
<1>7. FstabEntry(more, Point) = "NoAuto"
  <2>1. FstabEntry(more, Point) = IF hits(more) = {} THEN "Absent"
                                  ELSE IF more[Min(hits(more))].noauto THEN "NoAuto" ELSE "Automatic"
    BY DEF FstabEntry
  <2> HIDE DEF hits, more, n
  <2> QED BY <1>1, <1>3, <1>5, <1>6, <2>1
<1>8. more # <<>> BY <1>3
<1> QED BY <1>3, <1>7, <1>8 DEF line, one

LEMMA EntryAppended ==
  ASSUME TypeInv, Entry(Point) = "Absent", fstab' = fstab \o <<FstabSuggestion(Point)>>,
         UNCHANGED <<tree, etc>>
  PROVE  fstab' \in Seq(Lines) /\ (Entry(Point) = "NoAuto")'
<1> DEFINE l == <<FstabSuggestion(Point)>>
<1>1. fstab \in Seq(Lines) /\ <<>> \in Seq(Lines) BY DEF TypeInv
<1>2. FstabEntry(<<>>, Point) = "Absent" BY DEF FstabEntry
<1>3. /\ <<>> \o l \in Seq(Lines) /\ FstabEntry(<<>> \o l, Point) = "NoAuto" /\ <<>> \o l # <<>>
  BY <1>1, <1>2, FstabAppended DEF l
<1> HIDE DEF l
<1>0. ASSUME NEW lines, fstab' = lines, lines # <<>>, FstabEntry(lines, Point) = "NoAuto"
      PROVE  (Entry(Point) = "NoAuto")'
  <2>1. (Entry(Point))' = FstabEntry(lines, Point) BY <1>0 DEF Entry, Observed
  <2> QED BY <1>0, <2>1
<1>4. CASE fstab = <<>>
  <2> DEFINE lines == <<>> \o l
  <2>1. fstab' = lines BY <1>4 DEF l
  <2>2. FstabEntry(lines, Point) = "NoAuto" /\ lines # <<>> /\ lines \in Seq(Lines) BY <1>3
  <2> HIDE DEF lines
  <2> QED BY <1>0, <2>1, <2>2
<1>5. CASE fstab # <<>>
  <2>1. FstabEntry(fstab, Point) = "Absent" BY <1>5 DEF Entry, Observed
  <2>2. /\ fstab \o l \in Seq(Lines) /\ FstabEntry(fstab \o l, Point) = "NoAuto" /\ fstab \o l # <<>>
    BY <1>1, <2>1, FstabAppended DEF l
  <2>3. fstab' = fstab \o l BY DEF l
  <2> QED BY <1>0, <2>2, <2>3
<1> QED BY <1>4, <1>5
-----------------------------------------------------------------------------
(* A run begins.                                                             *)

\* While nobody writes, what was settled stays so.
LEMMA SettledKept ==
  ASSUME SettledInv, UNCHANGED <<tree, disk, fstab, etc>>, settled' \in {settled, "no"},
         helper' => helper, armed' => armed
  PROVE  (FinishedIsComplete /\ UninstalledIsGone)'
<1>1. "no" \notin Trays /\ "no" # "gone" BY DEF Trays
<1>2. CASE settled' = "no" BY <1>1, <1>2 DEF FinishedIsComplete, UninstalledIsGone
<1>3. CASE settled' = settled
  <2>1. FinishedIsComplete' BY <1>3 DEF SettledInv, FinishedIsComplete, Entry
  <2>2. UninstalledIsGone' BY <1>3 DEF SettledInv, UninstalledIsGone
  <2> QED BY <2>1, <2>2
<1> QED BY <1>2, <1>3

LEMMA BeginFrame ==
  ASSUME TypeInv, ServiceInv, TouchedInv, SettledInv, NEW newJob, NEW plan \in Seq(Actions),
         NEW dry_run \in BOOLEAN, Begin(newJob, plan, dry_run), newJob.dry_run = dry_run,
         newJob.kind # "none", JobOK'
  PROVE  TypeInv' /\ ServiceInv' /\ TouchedInv' /\ SettledInv' /\ job' = newJob /\ actions' = plan
         /\ UNCHANGED <<tree, disk, fstab, etc, mounts, helper, armed, socket>>
<1>1. /\ UNCHANGED <<tree, disk, fstab, etc, mounts, helper, armed, socket, touched, edits>>
      /\ runs < MaxRuns /\ runs' = runs + 1 /\ job' = newJob /\ actions' = plan
      /\ settled' = IF dry_run THEN settled ELSE "no"
  BY DEF Begin, files, services
<1>2. runs' \in 0..MaxRuns BY <1>1, ConstantsAssumption DEF TypeInv
<1>3. TypeInv' BY <1>1, <1>2 DEF TypeInv, Idle
<1>4. ServiceInv' /\ TouchedInv' BY <1>1 DEF ServiceInv, TouchedInv
<1>5. (FinishedIsComplete /\ UninstalledIsGone)' BY <1>1, SettledKept
<1>6. SettledInv' BY <1>1, <1>5 DEF SettledInv
<1> QED BY <1>1, <1>3, <1>4, <1>6

LEMMA InstallBegins == ASSUME IInv, InstallSome PROVE IInv'
<1> USE DEF IInv
<1>1. PICK judged \in Judged, opts \in Options : Install(judged, opts) BY DEF InstallSome
<1> DEFINE tray == Tray(judged, opts)
           plan == Collide(Installation(tray))
           more == AppendFstab(Point)
           whole == plan \o more
           newJob == [kind |-> "install", tray |-> tray, dry_run |-> opts.dry_run,
                      exposed |-> judged.exposed]
<1>2. tray \in Trays
  <2>1. opts.tray \in Trays \cup {"unsaid"} BY DEF Options
  <2> QED BY <2>1 DEF Tray, Trays
<1>3. opts.mount = Point /\ CheckFstab(opts) BY <1>1 DEF Install, Mounted
<1>4. Begin(newJob, whole, opts.dry_run) BY <1>1, <1>3 DEF Install
<1>5. Entry(Point) = "NoAuto" \/ Entry(Point) = "Absent" BY <1>3 DEF CheckFstab
<1>6. /\ plan \in Seq(Actions)
      /\ \A i \in DOMAIN plan :
           /\ Consistent(plan[i], tray)
           /\ plan[i].op \in {"WriteFile", "Symlink", "RemoveFile", "Run", "Unchanged"}
      /\ \A p \in Paths \ {Wants(Legacy)} :
           \/ disk[p] = Deployed[tray][p]
           \/ \E i \in DOMAIN plan : (Placing(plan[i]) \/ plan[i].op = "RemoveFile") /\ plan[i].path = p
  BY <1>2, CollideHolds
<1> DEFINE last == [op |-> "AppendFstab", line |-> FstabSuggestion(Point)]
<1>7. more = IF Entry(Point) = "Absent" THEN <<last>> ELSE <<>> BY DEF AppendFstab
<1>8. /\ last \in Actions /\ last.op = "AppendFstab" /\ Consistent(last, tray)
  <2>1. last \in Actions /\ last.op = "AppendFstab" BY ActionsAre
  <2> HIDE DEF last
  <2> QED BY <2>1 DEF Consistent, Placing
<1> HIDE DEF last
<1>9. /\ more \in Seq(Actions) /\ Len(more) = (IF Entry(Point) = "Absent" THEN 1 ELSE 0)
      /\ \A i \in DOMAIN more : i = 1 /\ more[i] = last /\ Entry(Point) = "Absent"
      /\ Entry(Point) = "Absent" => more[1] = last
  BY <1>7, <1>8
<1> HIDE DEF plan, more
<1>10. /\ whole \in Seq(Actions) /\ Len(whole) = Len(plan) + Len(more) /\ Len(plan) \in Nat
       /\ DOMAIN whole = 1..(Len(plan) + Len(more)) /\ DOMAIN plan = 1..Len(plan)
       /\ \A n \in DOMAIN plan : n \in DOMAIN whole /\ whole[n] = plan[n]
       /\ \A n \in DOMAIN more : n + Len(plan) \in DOMAIN whole /\ whole[n + Len(plan)] = more[n]
       /\ \A n \in DOMAIN whole : n \in DOMAIN plan \/ (n - Len(plan) \in DOMAIN more /\ n > Len(plan))
       /\ \A n \in DOMAIN whole : n > Len(plan) => whole[n] = more[n - Len(plan)]
  BY <1>6, <1>9, Concat
<1> HIDE DEF whole
<1>11. opts.dry_run \in BOOLEAN BY DEF Options
<1>12. job' = newJob BY <1>4 DEF Begin
<1>13. newJob.kind = "install" /\ newJob.tray = tray /\ newJob.dry_run = opts.dry_run OBVIOUS
<1> HIDE DEF newJob
<1>14. JobOK' BY <1>2, <1>11, <1>12, <1>13 DEF JobOK, Idle
<1>15. /\ TypeInv' /\ ServiceInv' /\ TouchedInv' /\ SettledInv' /\ actions' = whole
       /\ UNCHANGED <<tree, disk, fstab, etc, mounts, helper, armed, socket>>
  BY <1>4, <1>10, <1>11, <1>12, <1>13, <1>14, BeginFrame
<1>16. (Entry(Point))' = Entry(Point) BY <1>15 DEF Entry
<1>17. \A n \in DOMAIN whole : \/ n \in DOMAIN plan /\ whole[n] = plan[n]
                              \/ /\ n = Len(plan) + 1 /\ whole[n] = last /\ Entry(Point) = "Absent"
                                 /\ n = Len(whole)
  <2> SUFFICES ASSUME NEW n \in DOMAIN whole, n \notin DOMAIN plan
               PROVE  /\ n = Len(plan) + 1 /\ whole[n] = last /\ Entry(Point) = "Absent"
                      /\ n = Len(whole)
    BY <1>10
  <2>1. n - Len(plan) \in DOMAIN more /\ n > Len(plan) /\ whole[n] = more[n - Len(plan)] BY <1>10
  <2>2. n - Len(plan) = 1 /\ more[n - Len(plan)] = last /\ Entry(Point) = "Absent" /\ Len(more) = 1
    BY <1>9, <2>1
  <2> QED BY <1>10, <2>1, <2>2
<1>18. InstallInv'
  <2>1. \A i \in DOMAIN whole : Consistent(whole[i], tray) BY <1>6, <1>8, <1>17
  <2>2. \A p \in Paths \ {Wants(Legacy)} :
          \/ disk[p] = Deployed[tray][p]
          \/ \E i \in DOMAIN whole : (Placing(whole[i]) \/ whole[i].op = "RemoveFile") /\ whole[i].path = p
    BY <1>6, <1>10
  <2>3. Entry(Point) = "Absent" => whole # <<>> /\ whole[Len(whole)].op = "AppendFstab"
    <3> SUFFICES ASSUME Entry(Point) = "Absent" PROVE whole # <<>> /\ whole[Len(whole)].op = "AppendFstab"
      OBVIOUS
    <3>1. Len(more) = 1 /\ 1 \in DOMAIN more /\ more[1] = last BY <1>9
    <3>2. 1 + Len(plan) \in DOMAIN whole /\ whole[1 + Len(plan)] = last BY <1>10, <3>1
    <3>3. Len(whole) = 1 + Len(plan) BY <1>10, <3>1
    <3> QED BY <1>8, <3>2, <3>3
  <2>4. \A i \in DOMAIN whole :
          whole[i].op = "AppendFstab" => i = Len(whole) /\ Entry(Point) = "Absent"
    BY <1>6, <1>17
  <2>5. job'.tray = tray BY <1>12, <1>13
  <2>6. \A p : (Settles(p))' <=> \E i \in DOMAIN whole : (Placing(whole[i]) \/ whole[i].op = "RemoveFile")
                                                         /\ whole[i].path = p
    BY <1>15 DEF Settles
  <2> QED BY <1>5, <1>15, <1>16, <2>1, <2>2, <2>3, <2>4, <2>5, <2>6 DEF InstallInv
<1>19. UninstallInv' /\ TakeDownInv' BY <1>12, <1>13 DEF UninstallInv, TakeDownInv, Performing
<1> QED BY <1>15, <1>18, <1>19

\* No verification of the unmount comes after a removal.
Ordered(s) == \A i, j \in DOMAIN s : s[i].op = "VerifyUnmounted" /\ s[j].op = "RemoveFile" => i < j

LEMMA OrderKept ==
  ASSUME NEW s \in Seq(Actions), NEW t \in Seq(Actions), Ordered(s),
         \A n \in DOMAIN t : t[n].op # "VerifyUnmounted"
  PROVE  Ordered(s \o t)
<1> DEFINE st == s \o t
<1>1. /\ Len(s) \in Nat /\ DOMAIN s = 1..Len(s) /\ DOMAIN st \subseteq Nat
      /\ \A n \in DOMAIN s : st[n] = s[n]
      /\ \A n \in DOMAIN st : n \in DOMAIN s \/ (n - Len(s) \in DOMAIN t /\ n > Len(s))
      /\ \A n \in DOMAIN st : n > Len(s) => st[n] = t[n - Len(s)]
  BY Concat
<1> HIDE DEF st
<1> SUFFICES ASSUME NEW i \in DOMAIN st, NEW j \in DOMAIN st,
                    st[i].op = "VerifyUnmounted", st[j].op = "RemoveFile"
             PROVE  i < j
  BY DEF st, Ordered
<1>2. i \in DOMAIN s /\ st[i] = s[i] BY <1>1
<1>3. CASE j \in DOMAIN s BY <1>1, <1>2, <1>3 DEF Ordered
<1>4. CASE j > Len(s) BY <1>1, <1>2, <1>4
<1> QED BY <1>1, <1>3, <1>4

\* The plan of an uninstall: its first steps, in order, and all that it removes.
LEMMA RemovalHolds ==
  ASSUME NEW mounted \in BOOLEAN, TypeInv
  PROVE  /\ Removal(mounted) \in Seq(Actions) /\ Ordered(Removal(mounted))
         /\ 1 \in DOMAIN Removal(mounted) /\ Removal(mounted)[1] = Run("stop hydrationd.path")
         /\ \A x : Holds(Removal(mounted), x) <=>
              \/ x = Run("stop hydrationd.path") \/ x = Disable(UserUnits) \/ x = Run("daemon-reload")
              \/ \E p \in Paths : x = RemoveFile(p)
              \/ mounted /\ x \in {Run("umount"), Verification}
              \/ ~mounted /\ x = Run("stop hydrationd.service")
<1> DEFINE first == <<Run("stop hydrationd.path")>>
           down == TakeDown(mounted)
           off == <<Disable(UserUnits)>>
           gone == [i \in DOMAIN Removed |-> RemoveFile(Removed[i])]
           last == <<Run("daemon-reload")>>
           s1 == first \o down
           s2 == s1 \o off
           s3 == s2 \o gone
           s4 == s3 \o last
<1>1. Removal(mounted) = s4 BY DEF Removal
<1>2. UserUnits \in SUBSET Units BY DEF UserUnits, Units
<1>3. /\ Run("stop hydrationd.path") \in Actions /\ Run("stop hydrationd.service") \in Actions
      /\ Run("umount") \in Actions /\ Run("daemon-reload") \in Actions
      /\ Disable(UserUnits) \in Actions
      /\ Verification \in Actions
  BY <1>2, ActionsAre DEF Verification
<1>4. first \in Seq(Actions) /\ \A x : Holds(first, x) <=> x = Run("stop hydrationd.path")
  BY <1>3, Literals
<1>5. 1 \in DOMAIN first /\ first[1] = Run("stop hydrationd.path") OBVIOUS
<1>6. down = IF mounted THEN <<Run("umount"), Verification>> ELSE <<Run("stop hydrationd.service")>>
  BY DEF TakeDown, Verification
<1>7. /\ down \in Seq(Actions)
      /\ \A x : Holds(down, x) <=> \/ mounted /\ x \in {Run("umount"), Verification}
                                   \/ ~mounted /\ x = Run("stop hydrationd.service")
  <2> HIDE DEF down
  <2>1. CASE mounted
    <3>1. down = <<Run("umount"), Verification>> BY <1>6, <2>1
    <3>2. \A a, b \in Actions : <<a, b>> \in Seq(Actions) /\ \A x : Holds(<<a, b>>, x) <=> x \in {a, b}
      BY Literals
    <3>3. down \in Seq(Actions) /\ \A x : Holds(down, x) <=> x \in {Run("umount"), Verification}
      BY <1>3, <3>1, <3>2, Zenon
    <3> QED BY <2>1, <3>3
  <2>2. CASE ~mounted BY <1>3, <1>6, <2>2, Literals
  <2> QED BY <2>1, <2>2
<1>8. off \in Seq(Actions) /\ \A x : Holds(off, x) <=> x = Disable(UserUnits) BY <1>3, Literals
<1>9. last \in Seq(Actions) /\ \A x : Holds(last, x) <=> x = Run("daemon-reload") BY <1>3, Literals
<1>10. gone \in Seq(Actions) /\ \A x : Holds(gone, x) <=> \E p \in Paths : x = RemoveFile(p)
  <2>1. DOMAIN Removed = 1..10 BY DEF Removed
  <2>2. /\ \A i \in 1..10 : Removed[i] \in Paths
        /\ \A p \in Paths : \E i \in 1..10 : Removed[i] = p
    <3>1. \A i \in 1..10 : Removed[i] \in {File(u) : u \in Units} \cup {Wants(u) : u \in Wanted \cup {Legacy}}
      BY UnitsAre DEF Removed, Legacy
    <3>2. /\ Removed[1] = File("hydrationd.service") /\ Removed[2] = File("hydrationd.path")
          /\ Removed[3] = Wants("hydrationd.path") /\ Removed[4] = File("onedrive-hydration.service")
          /\ Removed[5] = File(Legacy) /\ Removed[6] = File(TRAY_UNIT) /\ Removed[7] = File(BUS_FILE)
          /\ Removed[8] = Wants("onedrive-hydration.service") /\ Removed[9] = Wants(Legacy)
          /\ Removed[10] = Wants(TRAY_UNIT)
      BY DEF Removed, Legacy
    <3>3. 1 \in 1..10 /\ 2 \in 1..10 /\ 3 \in 1..10 /\ 4 \in 1..10 /\ 5 \in 1..10 /\ 6 \in 1..10
          /\ 7 \in 1..10 /\ 8 \in 1..10 /\ 9 \in 1..10 /\ 10 \in 1..10
      OBVIOUS
    <3>4. \A u \in Units : \E i \in 1..10 : Removed[i] = File(u) BY <3>2, <3>3, UnitsAre
    <3>5. \A u \in Wanted \cup {Legacy} : \E i \in 1..10 : Removed[i] = Wants(u) BY <3>2, <3>3, UnitsAre
    <3> QED BY <3>1, <3>4, <3>5, PathsAre
  <2>3. /\ gone = [i \in 1..10 |-> gone[i]] /\ DOMAIN gone = 1..10
        /\ \A i \in 1..10 : gone[i] = RemoveFile(Removed[i])
    BY <2>1
  <2>4. \A i \in 1..10 : gone[i] \in Actions BY <2>2, <2>3, ActionsAre
  <2> HIDE DEF gone
  <2>5. gone \in Seq(Actions) BY <2>3, <2>4
  <2>6. \A x : Holds(gone, x) <=> \E p \in Paths : x = RemoveFile(p) BY <2>2, <2>3 DEF Holds
  <2> QED BY <2>5, <2>6
<1> HIDE DEF first, down, off, gone, last
<1>11. /\ s1 \in Seq(Actions) /\ \A x : Holds(s1, x) <=> Holds(first, x) \/ Holds(down, x)
       /\ 1 \in DOMAIN s1 /\ s1[1] = first[1]
  <2>1. /\ s1 \in Seq(Actions) /\ \A x : Holds(s1, x) <=> Holds(first, x) \/ Holds(down, x)
        /\ \A n \in DOMAIN first : n \in DOMAIN s1 /\ s1[n] = first[n]
    <3>1. first \in Seq(Actions) /\ down \in Seq(Actions) BY <1>4, <1>7
    <3> QED BY <3>1, Concat
  <2> HIDE DEF s1
  <2> QED BY <1>5, <2>1
<1> HIDE DEF s1
<1>12. /\ s2 \in Seq(Actions) /\ \A x : Holds(s2, x) <=> Holds(s1, x) \/ Holds(off, x)
       /\ 1 \in DOMAIN s2 /\ s2[1] = s1[1]
  BY <1>8, <1>11, Concat
<1> HIDE DEF s2
<1>13. /\ s3 \in Seq(Actions) /\ \A x : Holds(s3, x) <=> Holds(s2, x) \/ Holds(gone, x)
       /\ 1 \in DOMAIN s3 /\ s3[1] = s2[1]
  BY <1>10, <1>12, Concat
<1>14. /\ s4 \in Seq(Actions) /\ \A x : Holds(s4, x) <=> Holds(s3, x) \/ Holds(last, x)
       /\ 1 \in DOMAIN s4 /\ s4[1] = s3[1]
  <2> HIDE DEF s3
  <2> QED BY <1>9, <1>13, Concat
<1>15. Ordered(s2)
  <2> SUFFICES ASSUME NEW i \in DOMAIN s2 PROVE s2[i].op # "RemoveFile" BY DEF Ordered
  <2>1. Holds(s2, s2[i]) BY DEF Holds
  <2>2. \/ s2[i] = Run("stop hydrationd.path") \/ s2[i] = Disable(UserUnits) \/ s2[i] = Run("umount")
        \/ s2[i] = Verification \/ s2[i] = Run("stop hydrationd.service")
    BY <1>4, <1>7, <1>8, <1>11, <1>12, <2>1
  <2> QED BY RecordOps, <2>2
<1>16. \A i \in DOMAIN gone : gone[i].op # "VerifyUnmounted"
  <2>1. \A i \in DOMAIN gone : \E p \in Paths : gone[i] = RemoveFile(p) BY <1>10 DEF Holds
  <2> QED BY RecordOps, <2>1
<1>17. \A i \in DOMAIN last : last[i].op # "VerifyUnmounted" BY RecordOps, <1>9 DEF Holds
<1>18. Ordered(s3) BY <1>10, <1>12, <1>15, <1>16, OrderKept
<1>19. Ordered(s4)
  <2> HIDE DEF s3
  <2> QED BY <1>9, <1>13, <1>17, <1>18, OrderKept
<1> HIDE DEF s3, s4
<1>20. \A x : Holds(s4, x) <=>
         \/ x = Run("stop hydrationd.path") \/ x = Disable(UserUnits) \/ x = Run("daemon-reload")
         \/ \E p \in Paths : x = RemoveFile(p)
         \/ mounted /\ x \in {Run("umount"), Verification}
         \/ ~mounted /\ x = Run("stop hydrationd.service")
  BY <1>4, <1>7, <1>8, <1>9, <1>10, <1>11, <1>12, <1>13, <1>14
<1> QED BY <1>1, <1>5, <1>11, <1>12, <1>13, <1>14, <1>19, <1>20

LEMMA UninstallBegins == ASSUME IInv, UninstallSome PROVE IInv'
<1> USE DEF IInv
<1>1. PICK asker \in {"root", "user"}, and_unmount \in BOOLEAN, dry_run \in BOOLEAN, mount \in Spellings :
        Uninstall(asker, and_unmount, [dry_run |-> dry_run, mount |-> mount])
  BY DEF UninstallSome
<1> DEFINE mounted == Mounted(mount)
           plan == Removal(mounted)
           newJob == [kind |-> "uninstall", mounted |-> mounted, dry_run |-> dry_run]
<1>2. mounted \in BOOLEAN BY DEF Mounted
<1>3. Begin(newJob, plan, dry_run) BY <1>1 DEF Uninstall
<1>4. newJob.kind = "uninstall" /\ newJob.dry_run = dry_run /\ newJob.mounted = mounted OBVIOUS
<1>5. /\ plan \in Seq(Actions) /\ Ordered(plan) /\ 1 \in DOMAIN plan
      /\ plan[1] = Run("stop hydrationd.path")
      /\ \A x : Holds(plan, x) <=>
              \/ x = Run("stop hydrationd.path") \/ x = Disable(UserUnits) \/ x = Run("daemon-reload")
              \/ \E p \in Paths : x = RemoveFile(p)
              \/ mounted /\ x \in {Run("umount"), Verification}
              \/ ~mounted /\ x = Run("stop hydrationd.service")
  BY <1>2, RemovalHolds
<1> HIDE DEF mounted, plan, newJob
<1>6. job' = newJob BY <1>3 DEF Begin
<1>7. JobOK' BY <1>2, <1>4, <1>6 DEF JobOK, Idle
<1>8. /\ TypeInv' /\ ServiceInv' /\ TouchedInv' /\ SettledInv' /\ actions' = plan
      /\ UNCHANGED <<tree, disk, fstab, etc, mounts, helper, armed, socket>>
  BY <1>3, <1>4, <1>5, <1>6, <1>7, BeginFrame
<1>9. \A i \in DOMAIN plan : Holds(plan, plan[i]) BY DEF Holds
<1>10. \A i \in DOMAIN plan : plan[i].op \in {"Run", "RemoveFile", "VerifyUnmounted"}
  <2> SUFFICES ASSUME NEW i \in DOMAIN plan PROVE plan[i].op \in {"Run", "RemoveFile", "VerifyUnmounted"}
    OBVIOUS
  <2>1. \/ plan[i] = Run("stop hydrationd.path") \/ plan[i] = Disable(UserUnits)
        \/ plan[i] = Run("daemon-reload") \/ plan[i] = Run("umount")
        \/ plan[i] = Run("stop hydrationd.service")
        \/ plan[i] = Verification \/ \E p \in Paths : plan[i] = RemoveFile(p)
    BY <1>5, <1>9
  <2>2. CASE \E p \in Paths : plan[i] = RemoveFile(p)
    <3>1. PICK p \in Paths : plan[i] = RemoveFile(p) BY <2>2
    <3>2. RemoveFile(p).op = "RemoveFile" BY RecordOps
    <3> QED BY <3>1, <3>2
  <2>3. /\ Run("stop hydrationd.path").op = "Run" /\ Disable(UserUnits).op = "Run"
        /\ Run("daemon-reload").op = "Run" /\ Run("umount").op = "Run"
        /\ Run("stop hydrationd.service").op = "Run" /\ Verification.op = "VerifyUnmounted"
    BY RecordOps
  <2> QED BY <2>1, <2>2, <2>3
<1>11. \A p \in Paths : \E i \in DOMAIN plan : plan[i] = RemoveFile(p) BY <1>5 DEF Holds
<1>12. UninstallInv' BY <1>8, <1>10, <1>11 DEF UninstallInv
<1>13. mounted => \E i \in DOMAIN plan : plan[i].op = "VerifyUnmounted"
  <2>1. Verification.op = "VerifyUnmounted" BY DEF Verification
  <2>2. mounted => \E i \in DOMAIN plan : plan[i] = Verification BY <1>5 DEF Holds
  <2> QED BY <2>1, <2>2
<1>14. mounted => \A i \in DOMAIN plan : plan[i] # Run("stop hydrationd.service")
  <2>1. /\ Run("stop hydrationd.service") # Run("stop hydrationd.path")
        /\ Run("stop hydrationd.service") # Disable(UserUnits)
        /\ Run("stop hydrationd.service") # Run("daemon-reload")
        /\ Run("stop hydrationd.service") # Run("umount")
    BY DEF Run, Disable
  <2>2. /\ Run("stop hydrationd.service") # Verification
        /\ \A p : Run("stop hydrationd.service") # RemoveFile(p)
    <3> QED BY RecordOps
  <2> QED BY <1>5, <1>9, <2>1, <2>2
<1>15. ~mounted => \E i \in DOMAIN plan : plan[i] = Run("stop hydrationd.service") BY <1>5 DEF Holds
<1>16. TakeDownInv'
  <2>1. plan # <<>>
    <3>1. plan = <<>> => DOMAIN plan = {} OBVIOUS
    <3> QED BY <1>5, <3>1
  <2>2. job'.mounted = mounted BY <1>4, <1>6
  <2> QED BY <1>5, <1>8, <1>13, <1>14, <1>15, <2>1, <2>2 DEF TakeDownInv, Verifies, Ordered
<1>17. InstallInv' BY <1>4, <1>6 DEF InstallInv, Performing
<1> QED BY <1>8, <1>12, <1>16, <1>17
-----------------------------------------------------------------------------
(* An action is performed.                                                   *)

\* What an effect may be, one disjunct for each way Effect writes something.
LEMMA EffectCases ==
  ASSUME NEW a \in Actions, Effect(a), job.dry_run \in BOOLEAN
  PROVE  \/ /\ UNCHANGED <<disk, fstab, mounts, helper, armed, socket>>
            /\ ~job.dry_run => ~Placing(a) /\ a.op \notin {"RemoveFile", "AppendFstab"}
            /\ (~job.dry_run /\ tree = "machine") =>
                 /\ a.op = "Run" => a.command = "daemon-reload"
                 /\ a.op = "VerifyUnmounted" => mounts = 0
         \/ /\ ~job.dry_run /\ Placing(a) /\ disk' = [disk EXCEPT ![a.path] = "ours"]
            /\ UNCHANGED <<fstab, mounts, helper, armed, socket>>
         \/ /\ ~job.dry_run /\ a.op = "RemoveFile" /\ disk' = [disk EXCEPT ![a.path] = "absent"]
            /\ UNCHANGED <<fstab, mounts, helper, armed, socket>>
         \/ /\ ~job.dry_run /\ a.op = "AppendFstab" /\ fstab' = fstab \o <<a.line>>
            /\ UNCHANGED <<disk, mounts, helper, armed, socket>>
         \/ /\ ~job.dry_run /\ tree = "machine" /\ a.op = "Run"
            /\ a.command # "daemon-reload" /\ Execute(a.command, a.units)
<1>1. CASE job.dry_run \/ a.op = "Unchanged"
  <2>1. UNCHANGED <<disk, fstab, mounts, helper, armed, socket>>
    BY <1>1 DEF Effect, Untouched, Writes, files, services
  <2> QED BY <1>1, <2>1 DEF Placing
<1>2. CASE ~job.dry_run /\ Placing(a) BY <1>2 DEF Effect, Writes, Placing, services
<1>3. CASE ~job.dry_run /\ a.op = "RemoveFile" BY <1>3 DEF Effect, Writes, Placing, services
<1>4. CASE ~job.dry_run /\ a.op = "AppendFstab" BY <1>4 DEF Effect, Writes, Placing, services
<1>5. CASE ~job.dry_run /\ a.op = "Run"
  <2>1. IF tree = "machine" THEN Execute(a.command, a.units) ELSE Untouched
    BY <1>5 DEF Effect, Writes, Placing, Commands
  <2>2. CASE tree # "machine" BY <1>5, <2>1, <2>2 DEF Placing, Untouched, files, services
  <2>3. CASE tree = "machine" /\ a.command = "daemon-reload"
    <3>1. Untouched BY <2>1, <2>3 DEF Execute
    <3> QED BY <1>5, <2>3, <3>1 DEF Placing, Untouched, files, services
  <2> QED BY <1>5, <2>1, <2>2, <2>3
<1>6. CASE ~job.dry_run /\ a.op = "VerifyUnmounted"
  <2>1. (tree = "machine" => mounts = 0) /\ Untouched
    BY <1>6 DEF Effect, Writes, Commands, Placing
  <2> QED BY <1>6, <2>1 DEF Placing, Untouched, files, services
<1> QED BY <1>1, <1>2, <1>3, <1>4, <1>5, <1>6, ActionParts DEF Placing

\* The commands that change something.
LEMMA ExecuteCases ==
  ASSUME NEW command \in {"stop hydrationd.path", "stop hydrationd.service", "umount", "disable"},
         NEW units, Execute(command, units)
  PROVE  /\ fstab' = fstab
         /\ \/ /\ command = "stop hydrationd.path" /\ ~armed'
               /\ UNCHANGED <<disk, mounts, helper, socket>>
            \/ /\ command = "stop hydrationd.service" /\ ~helper'
               /\ UNCHANGED <<disk, mounts, armed, socket>>
            \/ command = "umount" /\ Umount /\ UNCHANGED <<disk, armed, socket>>
            \/ /\ command = "disable" /\ disk' = Unlinked(units) /\ (socket' \in BOOLEAN)
               /\ UNCHANGED <<mounts, helper, armed>>
<1>1. CASE command = "stop hydrationd.path" BY <1>1 DEF Execute, files
<1>2. CASE command = "stop hydrationd.service" BY <1>2 DEF Execute, files
<1>3. CASE command = "umount" BY <1>3 DEF Execute, files
<1>4. CASE command = "disable" BY <1>4 DEF Execute, files
<1> QED BY <1>1, <1>2, <1>3, <1>4

\* The services only ever go down, and with the mount the helper.
LEMMA EffectOnServices ==
  ASSUME TypeInv, ServiceInv, NEW a \in Actions, Effect(a), job.dry_run \in BOOLEAN
  PROVE  /\ mounts' \in 0..MaxMounts /\ mounts' <= mounts
         /\ helper' \in BOOLEAN /\ armed' \in BOOLEAN /\ socket' \in BOOLEAN
         /\ helper' => helper /\ mounts' > 0
         /\ armed' => armed
         /\ (~job.dry_run /\ tree = "machine") =>
              /\ a = Run("stop hydrationd.path") => ~armed'
              /\ a = Run("stop hydrationd.service") => ~helper'
              /\ a.op = "VerifyUnmounted" => mounts' = 0
<1> DEFINE commanded == /\ ~job.dry_run /\ tree = "machine" /\ a.op = "Run"
                        /\ a.command # "daemon-reload" /\ Execute(a.command, a.units)
<1>1. /\ mounts \in Nat /\ mounts \in 0..MaxMounts /\ MaxMounts \in Nat
      /\ helper \in BOOLEAN /\ armed \in BOOLEAN /\ socket \in BOOLEAN /\ (helper => mounts > 0)
  BY ConstantsAssumption DEF TypeInv, ServiceInv
<1>2. CASE ~commanded
  <2>1. UNCHANGED <<mounts, helper, armed, socket>> BY <1>2, EffectCases
  <2>2. (~job.dry_run /\ tree = "machine") =>
          /\ a.op = "Run" => a.command = "daemon-reload"
          /\ a.op = "VerifyUnmounted" => mounts = 0
    BY <1>2, EffectCases DEF Placing
  <2>3. ASSUME ~job.dry_run, tree = "machine", a = Run("stop hydrationd.path") PROVE FALSE
    <3>1. a.op = "Run" /\ a.command = "stop hydrationd.path" BY <2>3, RecordOps
    <3> QED BY <2>2, <2>3, <3>1
  <2>4. ASSUME ~job.dry_run, tree = "machine", a = Run("stop hydrationd.service") PROVE FALSE
    <3>1. a.op = "Run" /\ a.command = "stop hydrationd.service" BY <2>4, RecordOps
    <3> QED BY <2>2, <2>4, <3>1
  <2>5. mounts' \in 0..MaxMounts /\ mounts' <= mounts BY <1>1, <2>1
  <2>6. /\ helper' \in BOOLEAN /\ armed' \in BOOLEAN /\ socket' \in BOOLEAN
        /\ helper' => helper /\ mounts' > 0
        /\ armed' => armed
    BY <1>1, <2>1
  <2>7. (~job.dry_run /\ tree = "machine") =>
          /\ a # Run("stop hydrationd.path") /\ a # Run("stop hydrationd.service")
          /\ a.op = "VerifyUnmounted" => mounts' = 0
    <3>1. (~job.dry_run /\ tree = "machine" /\ a.op = "VerifyUnmounted") => mounts' = 0
      BY <2>1, <2>2
    <3> QED BY <2>3, <2>4, <3>1
  <2> QED BY <2>5, <2>6, <2>7
<1>3. CASE commanded
  <2>1. /\ a.command \in {"stop hydrationd.path", "stop hydrationd.service", "umount", "disable"}
        /\ a.op = "Run"
    BY <1>3, ActionParts
  <2>2. /\ a = Run("stop hydrationd.path") => a.command = "stop hydrationd.path"
        /\ a = Run("stop hydrationd.service") => a.command = "stop hydrationd.service"
    BY RecordOps
  <2>3. CASE a.command = "stop hydrationd.path"
    <3>1. ~armed' /\ UNCHANGED <<mounts, helper, socket>> BY <1>3, <2>1, <2>3, ExecuteCases
    <3>2. mounts' <= mounts /\ mounts' \in 0..MaxMounts BY <1>1, <3>1
    <3>3. armed' \in BOOLEAN BY <1>3, <2>3 DEF Execute
    <3> QED BY <1>1, <2>1, <2>2, <2>3, <3>1, <3>2, <3>3
  <2>4. CASE a.command = "stop hydrationd.service"
    <3>1. ~helper' /\ UNCHANGED <<mounts, armed, socket>> BY <1>3, <2>1, <2>4, ExecuteCases
    <3>2. mounts' <= mounts /\ mounts' \in 0..MaxMounts BY <1>1, <3>1
    <3>3. helper' \in BOOLEAN BY <1>3, <2>4 DEF Execute
    <3> QED BY <1>1, <2>1, <2>2, <2>4, <3>1, <3>2, <3>3
  <2>5. CASE a.command = "umount"
    <3>1. Umount /\ UNCHANGED <<armed, socket>> BY <1>3, <2>1, <2>5, ExecuteCases
    <3>2. mounts' = mounts - 1 /\ mounts > 0 BY <3>1 DEF Umount
    <3>3. mounts' <= mounts /\ mounts' \in 0..MaxMounts /\ (mounts > 1 => mounts' > 0) BY <1>1, <3>2
    <3>4. helper' = (helper /\ mounts > 1) BY <3>1 DEF Umount
    <3>5. helper' \in BOOLEAN /\ (helper' => helper /\ mounts > 1) BY <3>4
    <3> QED BY <1>1, <2>1, <2>2, <2>5, <3>1, <3>3, <3>5
  <2>6. CASE a.command = "disable"
    <3>1. socket' \in BOOLEAN /\ UNCHANGED <<mounts, helper, armed>> BY <1>3, <2>1, <2>6, ExecuteCases
    <3>2. mounts' <= mounts /\ mounts' \in 0..MaxMounts BY <1>1, <3>1
    <3> QED BY <1>1, <2>1, <2>2, <2>6, <3>1, <3>2
  <2> QED BY <2>1, <2>3, <2>4, <2>5, <2>6
<1> QED BY <1>2, <1>3

LEMMA UmountStops == ASSUME TypeInv, Umount PROVE helper' \/ ~helper \/ mounts' = 0
<1>1. mounts \in Nat BY ConstantsAssumption DEF TypeInv
<1>2. mounts' = mounts - 1 /\ mounts > 0 BY DEF Umount
<1>3. mounts' = 0 \/ mounts > 1 BY <1>1, <1>2
<1>4. helper' = (helper /\ mounts > 1) BY DEF Umount
<1> QED BY <1>3, <1>4

\* Only two commands stop the helper, and one of them takes the mount with it.
LEMMA HelperFalls ==
  ASSUME TypeInv, NEW a \in Actions, Effect(a), job.dry_run \in BOOLEAN,
         a # Run("stop hydrationd.service"), a.op = "Run" => a.command # "stop hydrationd.service"
  PROVE  helper' \/ ~helper \/ mounts' = 0
<1>1. CASE helper' = helper BY <1>1
<1>2. CASE a.command = "umount" /\ Execute(a.command, a.units)
  <2>1. Umount BY <1>2, ExecuteCases
  <2> QED BY <2>1, UmountStops
<1>3. CASE a.command \in {"stop hydrationd.path", "disable"} /\ Execute(a.command, a.units)
  <2>1. helper' = helper BY <1>3, ExecuteCases
  <2> QED BY <2>1
<1> QED BY <1>1, <1>2, <1>3, EffectCases, ActionParts

\* Nothing but the action's own path changes, or the links of the units disabled.
LEMMA EffectOnDisk ==
  ASSUME TypeInv, NEW a \in Actions, Effect(a), job.dry_run \in BOOLEAN
  PROVE  /\ disk' \in [Paths -> Contents]
         /\ \A p \in Paths : \/ disk'[p] = disk[p]
                             \/ ~job.dry_run /\ Placing(a) /\ p = a.path /\ disk'[p] = "ours"
                             \/ ~job.dry_run /\ a.op = "RemoveFile" /\ p = a.path /\ disk'[p] = "absent"
                             \/ /\ ~job.dry_run /\ a.op = "Run" /\ a.command = "disable"
                                /\ (\E u \in a.units : p = Wants(u)) /\ disk'[p] = "absent"
         /\ (~job.dry_run /\ Placing(a)) => disk'[a.path] = "ours"
         /\ (~job.dry_run /\ a.op = "RemoveFile") => disk'[a.path] = "absent"
<1>1. disk \in [Paths -> Contents] BY DEF TypeInv
<1>2. Placing(a) \/ a.op = "RemoveFile" => a.path \in Paths BY ActionParts DEF Placing
<1>3. Placing(a) => a.op \notin {"RemoveFile", "Run"} BY DEF Placing
<1>4. CASE disk' = disk /\ ~(~job.dry_run /\ (Placing(a) \/ a.op = "RemoveFile"))
  BY <1>1, <1>4
<1>5. CASE ~job.dry_run /\ Placing(a) /\ disk' = [disk EXCEPT ![a.path] = "ours"]
  BY <1>1, <1>2, <1>3, <1>5 DEF Contents
<1>6. CASE ~job.dry_run /\ a.op = "RemoveFile" /\ disk' = [disk EXCEPT ![a.path] = "absent"]
  BY <1>1, <1>2, <1>3, <1>6 DEF Contents
<1>7. CASE /\ ~job.dry_run /\ a.op = "Run" /\ a.command # "daemon-reload"
           /\ Execute(a.command, a.units)
  <2>1. CASE a.command = "disable"
    <3>1. disk' = Unlinked(a.units) BY <1>7, <2>1, ExecuteCases
    <3>2. \A p \in Paths : disk'[p] = IF \E u \in a.units : p = Wants(u) THEN "absent" ELSE disk[p]
      BY <3>1 DEF Unlinked
    <3>3. disk' = [p \in Paths |-> disk'[p]] BY <3>1 DEF Unlinked
    <3>4. \A p \in Paths : disk'[p] \in Contents BY <1>1, <3>2 DEF Contents
    <3>5. disk' \in [Paths -> Contents] BY <3>3, <3>4
    <3> QED BY <1>3, <1>7, <2>1, <3>2, <3>5
  <2>2. CASE a.command # "disable"
    <3>1. a.command \in {"stop hydrationd.path", "stop hydrationd.service", "umount"}
      BY <1>7, <2>2, ActionParts
    <3>2. disk' = disk BY <1>7, <3>1, ExecuteCases
    <3> QED BY <1>1, <1>3, <1>7, <3>2
  <2> QED BY <2>1, <2>2
<1> QED BY <1>4, <1>5, <1>6, <1>7, EffectCases DEF Placing

LEMMA EffectOnFstab ==
  ASSUME TypeInv, NEW a \in Actions, Effect(a), job.dry_run \in BOOLEAN
  PROVE  IF ~job.dry_run /\ a.op = "AppendFstab" THEN fstab' = fstab \o <<FstabSuggestion(Point)>>
                                                ELSE fstab' = fstab
<1>1. CASE /\ ~job.dry_run /\ a.op = "Run" /\ a.command # "daemon-reload"
           /\ Execute(a.command, a.units)
  <2>1. a.command \in {"stop hydrationd.path", "stop hydrationd.service", "umount", "disable"}
    BY <1>1, ActionParts
  <2> QED BY <1>1, <2>1, ExecuteCases
<1> QED BY <1>1, EffectCases, ActionParts DEF Placing

LEMMA EffectRehearsed ==
  ASSUME NEW a \in Actions, Effect(a), job.dry_run = TRUE \/ tree # "machine", job.dry_run \in BOOLEAN
  PROVE  /\ UNCHANGED <<mounts, helper, armed, socket>>
         /\ job.dry_run => UNCHANGED <<disk, fstab>>
BY EffectCases

LEMMA PerformFrame ==
  ASSUME IInv, Perform
  PROVE  /\ ~Idle /\ job.dry_run \in BOOLEAN /\ Head(actions) \in Actions /\ Effect(Head(actions))
         /\ actions' = Tail(actions) /\ actions # <<>>
         /\ UNCHANGED <<tree, etc, job, settled, touched, runs, edits>>
<1>1. actions # <<>> /\ Effect(Head(actions)) /\ actions' = Tail(actions)
      /\ UNCHANGED <<tree, etc, job, settled, touched, runs, edits>>
  BY DEF Perform, Head1
<1>2. ~Idle /\ actions \in Seq(Actions) BY <1>1 DEF IInv, TypeInv
<1>3. job.dry_run \in BOOLEAN BY <1>2 DEF IInv, TypeInv, JobOK
<1>4. Head(actions) \in Actions BY <1>1, <1>2, Rest
<1> QED BY <1>1, <1>2, <1>3, <1>4

\* An action of an install brings its path to where the plan says, and fstab to a line.
LEMMA InstallPerforms ==
  ASSUME IInv, Perform, Performing("install")
  PROVE  InstallInv'
<1> DEFINE a == Head(actions)
           rest == Tail(actions)
           D == Deployed[job.tray]
<1>1. /\ job.dry_run \in BOOLEAN /\ a \in Actions /\ Effect(a)
      /\ actions' = rest /\ actions # <<>>
      /\ UNCHANGED <<tree, etc, job>> /\ ~job.dry_run
  BY PerformFrame DEF Performing
<1>2. TypeInv /\ actions \in Seq(Actions) /\ job.tray \in Trays BY DEF IInv, TypeInv, JobOK, Performing
<1>3. /\ Len(actions) \in Nat /\ Len(actions) > 0 /\ DOMAIN actions = 1..Len(actions)
      /\ a = actions[1] /\ 1 \in DOMAIN actions
      /\ rest \in Seq(Actions) /\ Len(rest) = Len(actions) - 1 /\ DOMAIN rest = 1..(Len(actions) - 1)
      /\ \A i \in DOMAIN rest : i + 1 \in DOMAIN actions /\ rest[i] = actions[i + 1]
      /\ \A i \in DOMAIN actions : i = 1 \/ (i - 1 \in DOMAIN rest /\ rest[i - 1] = actions[i])
  BY <1>1, <1>2, Rest
<1>4. /\ \A i \in DOMAIN actions : Consistent(actions[i], job.tray)
      /\ \A p \in Paths \ {Wants(Legacy)} : disk[p] = D[p] \/ Settles(p)
      /\ \/ Entry(Point) = "NoAuto"
         \/ Entry(Point) = "Absent" /\ actions[Len(actions)].op = "AppendFstab"
      /\ \A i \in DOMAIN actions :
           actions[i].op = "AppendFstab" => i = Len(actions) /\ Entry(Point) = "Absent"
  BY DEF IInv, InstallInv
<1>5. Consistent(a, job.tray) BY <1>3, <1>4
<1> HIDE DEF a, rest
<1>6. \A i \in DOMAIN rest : Consistent(rest[i], job.tray) BY <1>3, <1>4
<1>7. ASSUME NEW p \in Paths \ {Wants(Legacy)}
      PROVE  \/ disk'[p] = D[p]
             \/ \E i \in DOMAIN rest : (Placing(rest[i]) \/ rest[i].op = "RemoveFile") /\ rest[i].path = p
  <2>1. disk'[p] = disk[p] \/ disk'[p] = D[p]
    <3>1. \/ disk'[p] = disk[p] \/ (Placing(a) /\ p = a.path /\ disk'[p] = "ours")
          \/ a.op = "RemoveFile" /\ p = a.path /\ disk'[p] = "absent"
          \/ /\ a.op = "Run" /\ a.command = "disable" /\ (\E u \in a.units : p = Wants(u))
             /\ disk'[p] = "absent"
      BY <1>1, <1>2, EffectOnDisk
    <3>2. CASE a.op = "Run" /\ (\E u \in a.units : p = Wants(u)) /\ disk'[p] = "absent"
      <4>1. p = Wants(TRAY_UNIT) /\ job.tray # "sni" BY <1>5, <3>2 DEF Consistent
      <4>2. D[p] = "absent" BY <1>2, <4>1, DeployedIs
      <4> QED BY <3>2, <4>2
    <3> QED BY <1>5, <3>1, <3>2 DEF Consistent
  <2>2. (Placing(a) \/ a.op = "RemoveFile") /\ a.path = p => disk'[p] = D[p]
    <3>1. Placing(a) => disk'[a.path] = "ours" BY <1>1, <1>2, EffectOnDisk
    <3>2. a.op = "RemoveFile" => disk'[a.path] = "absent" BY <1>1, <1>2, EffectOnDisk
    <3> QED BY <1>5, <3>1, <3>2 DEF Consistent
  <2>3. CASE Settles(p)
    <3>1. PICK i \in DOMAIN actions : /\ Placing(actions[i]) \/ actions[i].op = "RemoveFile"
                                      /\ actions[i].path = p
      BY <2>3 DEF Settles
    <3>2. CASE i = 1 BY <1>3, <2>2, <3>1, <3>2
    <3>3. CASE i - 1 \in DOMAIN rest /\ rest[i - 1] = actions[i] BY <3>1, <3>3
    <3> QED BY <1>3, <3>2, <3>3
  <2>4. CASE disk[p] = D[p] BY <2>1, <2>4
  <2> QED BY <1>4, <2>3, <2>4
<1>8. /\ \/ (Entry(Point))' = "NoAuto"
         \/ /\ (Entry(Point))' = "Absent" /\ rest # <<>> /\ rest[Len(rest)].op = "AppendFstab"
      /\ \A i \in DOMAIN rest :
           rest[i].op = "AppendFstab" => i = Len(rest) /\ (Entry(Point))' = "Absent"
  <2>1. CASE a.op = "AppendFstab"
    <3>1. Len(actions) = 1 /\ Entry(Point) = "Absent" BY <1>3, <1>4, <2>1
    <3>2. DOMAIN rest = {} BY <1>3, <3>1
    <3>3. fstab' = fstab \o <<FstabSuggestion(Point)>> BY <1>1, <1>2, <2>1, EffectOnFstab
    <3>4. (Entry(Point))' = "NoAuto" BY <1>1, <1>2, <3>1, <3>3, EntryAppended
    <3> QED BY <3>2, <3>4
  <2>2. CASE a.op # "AppendFstab"
    <3>1. fstab' = fstab BY <1>1, <1>2, <2>2, EffectOnFstab
    <3>2. (Entry(Point))' = Entry(Point) BY <1>1, <3>1 DEF Entry
    <3>3. ASSUME Entry(Point) = "Absent", Entry(Point) # "NoAuto"
          PROVE  rest # <<>> /\ rest[Len(rest)].op = "AppendFstab"
      <4>1. actions[Len(actions)].op = "AppendFstab" BY <1>4, <3>3
      <4>2. Len(actions) # 1 BY <1>3, <2>2, <4>1
      <4>3. Len(rest) > 0 /\ Len(rest) \in DOMAIN rest /\ Len(rest) + 1 = Len(actions) BY <1>3, <4>2
      <4>4. rest[Len(rest)] = actions[Len(actions)] BY <1>3, <4>3
      <4>5. rest = <<>> => Len(rest) = 0 OBVIOUS
      <4> QED BY <4>1, <4>3, <4>4, <4>5
    <3>4. ASSUME NEW i \in DOMAIN rest, rest[i].op = "AppendFstab"
          PROVE  i = Len(rest) /\ Entry(Point) = "Absent"
      <4>1. i + 1 \in DOMAIN actions /\ actions[i + 1].op = "AppendFstab" BY <1>3, <3>4
      <4>2. i + 1 = Len(actions) /\ Entry(Point) = "Absent" BY <1>4, <4>1
      <4> QED BY <1>3, <4>2
    <3> QED BY <1>4, <3>2, <3>3, <3>4
  <2> QED BY <2>1, <2>2
<1>9. \A p : (Settles(p))' <=> \E i \in DOMAIN rest : (Placing(rest[i]) \/ rest[i].op = "RemoveFile")
                                                       /\ rest[i].path = p
  BY <1>1 DEF Settles
<1> QED BY <1>1, <1>6, <1>7, <1>8, <1>9 DEF InstallInv

\* An action of an uninstall removes what its plan says, and the take-down goes on.
LEMMA UninstallPerforms ==
  ASSUME IInv, Perform, Performing("uninstall")
  PROVE  UninstallInv' /\ TakeDownInv'
<1> DEFINE a == Head(actions)
           rest == Tail(actions)
<1>1. /\ job.dry_run \in BOOLEAN /\ a \in Actions /\ Effect(a)
      /\ actions' = rest /\ actions # <<>>
      /\ UNCHANGED <<tree, etc, job>> /\ ~job.dry_run
  BY PerformFrame DEF Performing
<1>2. TypeInv /\ ServiceInv /\ actions \in Seq(Actions) /\ job.mounted \in BOOLEAN
  BY DEF IInv, TypeInv, JobOK, Performing
<1>3. /\ Len(actions) \in Nat /\ DOMAIN actions = 1..Len(actions) /\ a = actions[1]
      /\ DOMAIN rest = 1..(Len(actions) - 1)
      /\ \A i \in DOMAIN rest : i + 1 \in DOMAIN actions /\ rest[i] = actions[i + 1]
      /\ \A i \in DOMAIN actions : i = 1 \/ (i - 1 \in DOMAIN rest /\ rest[i - 1] = actions[i])
      /\ 1 \in DOMAIN actions
  BY <1>1, <1>2, Rest
<1>4. /\ \A i \in DOMAIN actions : actions[i].op \in {"Run", "RemoveFile", "VerifyUnmounted"}
      /\ \A p \in Paths : disk[p] = "absent" \/ \E i \in DOMAIN actions : actions[i] = RemoveFile(p)
  BY DEF IInv, UninstallInv
<1> HIDE DEF a, rest
<1>5. UninstallInv'
  <2>1. \A i \in DOMAIN rest : rest[i].op \in {"Run", "RemoveFile", "VerifyUnmounted"} BY <1>3, <1>4
  <2>2. ASSUME NEW p \in Paths
        PROVE  disk'[p] = "absent" \/ \E i \in DOMAIN rest : rest[i] = RemoveFile(p)
    <3>1. ~Placing(a) BY <1>3, <1>4 DEF Placing
    <3>2. disk'[p] = disk[p] \/ disk'[p] = "absent" BY <1>1, <1>2, <3>1, EffectOnDisk
    <3>3. a = RemoveFile(p) => disk'[p] = "absent"
      <4>1. a.op = "RemoveFile" => disk'[a.path] = "absent" BY <1>1, <1>2, EffectOnDisk
      <4> QED BY <4>1, RecordOps
    <3>4. CASE \E i \in DOMAIN actions : actions[i] = RemoveFile(p)
      <4>1. PICK i \in DOMAIN actions : actions[i] = RemoveFile(p) BY <3>4
      <4>2. i = 1 \/ (i - 1 \in DOMAIN rest /\ rest[i - 1] = RemoveFile(p)) BY <1>3, <4>1
      <4> QED BY <1>3, <3>3, <4>1, <4>2
    <3> QED BY <1>4, <3>2, <3>4
  <2> QED BY <1>1, <2>1, <2>2 DEF UninstallInv
<1>6. ASSUME tree = "machine"
      PROVE  /\ ~armed'
             /\ job.mounted =>
                  /\ (\E i \in DOMAIN rest : rest[i].op = "VerifyUnmounted") \/ mounts' = 0
                  /\ \A i, j \in DOMAIN rest :
                       rest[i].op = "VerifyUnmounted" /\ rest[j].op = "RemoveFile" => i < j
                  /\ \A i \in DOMAIN rest : rest[i] # Run("stop hydrationd.service")
             /\ ~job.mounted =>
                  \/ \E i \in DOMAIN rest : rest[i] = Run("stop hydrationd.service")
                  \/ ~helper'
  <2>1. /\ mounts' \in 0..MaxMounts /\ mounts' <= mounts
        /\ armed' => armed /\ a # Run("stop hydrationd.path")
        /\ helper' => helper /\ a # Run("stop hydrationd.service")
        /\ a.op = "VerifyUnmounted" => mounts' = 0
    BY <1>1, <1>2, <1>6, EffectOnServices
  <2>2. /\ armed => actions[1] = Run("stop hydrationd.path")
        /\ job.mounted =>
             /\ (\E i \in DOMAIN actions : actions[i].op = "VerifyUnmounted") \/ mounts = 0
             /\ \A i, j \in DOMAIN actions :
                  actions[i].op = "VerifyUnmounted" /\ actions[j].op = "RemoveFile" => i < j
             /\ \A i \in DOMAIN actions : actions[i] # Run("stop hydrationd.service")
        /\ ~job.mounted =>
             \/ \E i \in DOMAIN actions : actions[i] = Run("stop hydrationd.service")
             \/ ~helper
    BY <1>6 DEF IInv, TakeDownInv, Verifies
  <2>3. ~armed' BY <1>3, <2>1, <2>2
  <2>4. ASSUME job.mounted
        PROVE  (\E i \in DOMAIN rest : rest[i].op = "VerifyUnmounted") \/ mounts' = 0
    <3>1. mounts = 0 => mounts' = 0
      <4>1. mounts' \in 0..MaxMounts /\ mounts' <= mounts BY <2>1
      <4>2. MaxMounts \in Nat BY ConstantsAssumption
      <4> QED BY <4>1, <4>2
    <3>2. CASE \E i \in DOMAIN actions : actions[i].op = "VerifyUnmounted"
      <4>1. PICK i \in DOMAIN actions : actions[i].op = "VerifyUnmounted" BY <3>2
      <4>2. CASE i = 1 BY <1>3, <2>1, <4>1, <4>2
      <4>3. CASE i # 1 BY <1>3, <4>1, <4>3
      <4> QED BY <4>2, <4>3
    <3> QED BY <2>2, <2>4, <3>1, <3>2
  <2>5. ASSUME job.mounted, NEW i \in DOMAIN rest, NEW j \in DOMAIN rest,
               rest[i].op = "VerifyUnmounted", rest[j].op = "RemoveFile"
        PROVE  i < j
    <3>1. /\ i + 1 \in DOMAIN actions /\ j + 1 \in DOMAIN actions
          /\ actions[i + 1] = rest[i] /\ actions[j + 1] = rest[j] /\ i \in Int /\ j \in Int
      BY <1>3
    <3>2. i + 1 < j + 1 BY <2>2, <2>5, <3>1
    <3> QED BY <3>1, <3>2
  <2>6. job.mounted => \A i \in DOMAIN rest : rest[i] # Run("stop hydrationd.service") BY <1>3, <2>2
  <2>7. ASSUME ~job.mounted
        PROVE  (\E i \in DOMAIN rest : rest[i] = Run("stop hydrationd.service")) \/ ~helper'
    BY <1>3, <2>1, <2>2, <2>7
  <2> QED BY <2>3, <2>4, <2>5, <2>6, <2>7
<1> QED BY <1>1, <1>5, <1>6 DEF TakeDownInv, Verifies, Performing

LEMMA Performed == ASSUME IInv, Perform PROVE IInv'
<1> DEFINE a == Head(actions)
<1>1. /\ ~Idle /\ job.dry_run \in BOOLEAN /\ a \in Actions /\ Effect(a)
      /\ actions' = Tail(actions) /\ actions # <<>>
      /\ UNCHANGED <<tree, etc, job, settled, touched, runs, edits>>
  BY PerformFrame
<1> HIDE DEF a
<1>2. TypeInv /\ ServiceInv /\ TouchedInv /\ SettledInv BY DEF IInv
<1>3. /\ mounts' \in 0..MaxMounts /\ helper' \in BOOLEAN /\ armed' \in BOOLEAN /\ socket' \in BOOLEAN
      /\ helper' => helper /\ mounts' > 0
      /\ armed' => armed
  BY <1>1, <1>2, EffectOnServices
<1>4. /\ disk' \in [Paths -> Contents]
      /\ \A p \in Paths : disk'[p] = "other" => disk[p] = "other"
  BY <1>1, <1>2, EffectOnDisk
<1>5. fstab' \in Seq(Lines)
  <2>1. CASE ~job.dry_run /\ a.op = "AppendFstab"
    <3>1. fstab' = fstab \o <<FstabSuggestion(Point)>> BY <1>1, <1>2, <2>1, EffectOnFstab
    <3>2. <<FstabSuggestion(Point)>> \in Seq(Lines)
      BY RootAssumption DEF Lines, FstabSuggestion
    <3>3. fstab \in Seq(Lines) BY <1>2 DEF TypeInv
    <3> QED BY <3>1, <3>2, <3>3, Concat
  <2>2. CASE ~(~job.dry_run /\ a.op = "AppendFstab")
    <3>1. fstab' = fstab BY <1>1, <1>2, <2>2, EffectOnFstab
    <3> QED BY <1>2, <3>1 DEF TypeInv
  <2> QED BY <2>1, <2>2
<1>6. TypeInv'
  <2>1. actions' \in Seq(Actions) BY <1>1, <1>2, Rest DEF TypeInv
  <2>2. JobOK' /\ ~Idle' BY <1>1, <1>2 DEF TypeInv, JobOK, Idle
  <2> QED BY <1>1, <1>2, <1>3, <1>4, <1>5, <2>1, <2>2 DEF TypeInv
<1>7. ServiceInv' BY <1>1, <1>2, <1>3 DEF ServiceInv
<1>8. TouchedInv' BY <1>1, <1>2, <1>4 DEF TouchedInv
<1>9. SettledInv'
  <2>1. CASE job.dry_run
    <3>1. UNCHANGED <<mounts, helper, armed, socket>> /\ UNCHANGED <<disk, fstab>>
      BY <1>1, <2>1, EffectRehearsed
    <3>2. (FinishedIsComplete /\ UninstalledIsGone)' BY <1>1, <1>2, <3>1, SettledKept
    <3> QED BY <1>1, <2>1, <3>2 DEF SettledInv
  <2>2. CASE ~job.dry_run
    <3>1. settled' = "no" /\ settled = "no" BY <1>1, <1>2, <2>2 DEF SettledInv
    <3>2. "no" \notin Trays BY DEF Trays
    <3> QED BY <1>1, <3>1, <3>2 DEF SettledInv, FinishedIsComplete, UninstalledIsGone
  <2> QED BY <1>1, <2>1, <2>2
<1>10. InstallInv'
  <2>1. CASE Performing("install") BY <2>1, InstallPerforms
  <2>2. CASE ~Performing("install") BY <1>1, <2>2 DEF InstallInv, Performing
  <2> QED BY <2>1, <2>2
<1>11. UninstallInv' /\ TakeDownInv'
  <2>1. CASE Performing("uninstall") BY <2>1, UninstallPerforms
  <2>2. CASE ~Performing("uninstall") BY <1>1, <2>2 DEF UninstallInv, TakeDownInv, Performing
  <2> QED BY <2>1, <2>2
<1> QED BY <1>6, <1>7, <1>8, <1>9, <1>10, <1>11 DEF IInv
-----------------------------------------------------------------------------
(* A run ends, in the middle or well.                                        *)

LEMMA Idles ==
  ASSUME IInv, ~Idle, job' = NoJob, actions' = <<>>, disk' \in [Paths -> Contents],
         \A p \in Paths : disk'[p] = "other" => disk[p] = "other",
         settled' \in Trays \cup {"no", "gone"},
         UNCHANGED <<tree, fstab, etc, mounts, helper, armed, socket, touched, runs, edits>>,
         (FinishedIsComplete /\ UninstalledIsGone)'
  PROVE  IInv'
<1>1. job'.kind = "none" BY DEF NoJob
<1>2. TypeInv'
  <2>1. actions' \in Seq(Actions) BY Literals
  <2>2. JobOK' BY <1>1 DEF JobOK, Idle
  <2> QED BY <2>1, <2>2 DEF IInv, TypeInv
<1>3. ServiceInv' /\ TouchedInv' BY DEF IInv, ServiceInv, TouchedInv
<1>4. InstallInv' /\ UninstallInv' /\ TakeDownInv'
  BY <1>1 DEF InstallInv, UninstallInv, TakeDownInv, Performing
<1>5. SettledInv' BY <1>1 DEF SettledInv, Idle
<1> QED BY <1>2, <1>3, <1>4, <1>5 DEF IInv

LEMMA Broken == ASSUME IInv, Break PROVE IInv'
<1>1. /\ actions # <<>> /\ ~job.dry_run /\ job' = NoJob /\ actions' = <<>>
      /\ UNCHANGED <<tree, etc, settled, touched, runs, edits>>
      /\ Untouched \/ (Halfway(Head(actions)) /\ UNCHANGED <<fstab, services>>)
  BY DEF Break, Writes, Head1
<1>2. ~Idle /\ actions \in Seq(Actions) /\ disk \in [Paths -> Contents] /\ settled = "no"
  BY <1>1 DEF IInv, TypeInv, SettledInv
<1>3. /\ UNCHANGED <<fstab, mounts, helper, armed, socket>>
      /\ disk' \in [Paths -> Contents] /\ \A p \in Paths : disk'[p] = "other" => disk[p] = "other"
  <2>1. CASE Untouched BY <1>2, <2>1 DEF Untouched, files, services
  <2>2. CASE Halfway(Head(actions)) /\ UNCHANGED <<fstab, services>>
    <3>1. disk' = [disk EXCEPT ![Head(actions).path] = "absent"] BY <2>2 DEF Halfway
    <3> QED BY <1>2, <2>2, <3>1 DEF services, Contents
  <2> QED BY <1>1, <2>1, <2>2
<1>4. (FinishedIsComplete /\ UninstalledIsGone)'
  <2>1. "no" \notin Trays BY DEF Trays
  <2> QED BY <1>1, <1>2, <2>1 DEF FinishedIsComplete, UninstalledIsGone
<1> QED BY <1>1, <1>2, <1>3, <1>4, Idles

LEMMA Finished == ASSUME IInv, Finish PROVE IInv'
<1>1. /\ ~Idle /\ actions = <<>> /\ job' = NoJob
      /\ settled' = (IF job.dry_run THEN settled ELSE IF job.kind = "install" THEN job.tray ELSE "gone")
      /\ UNCHANGED <<tree, disk, fstab, etc, mounts, helper, armed, socket, actions, touched, runs, edits>>
  BY DEF Finish, files, services
<1>2. /\ disk \in [Paths -> Contents] /\ settled \in Trays \cup {"no", "gone"} /\ JobOK
      /\ mounts \in 0..MaxMounts /\ helper \in BOOLEAN /\ armed \in BOOLEAN
  BY DEF IInv, TypeInv
<1>3. job.dry_run \in BOOLEAN /\ job.kind \in {"install", "uninstall"} BY <1>1, <1>2 DEF JobOK, Idle
<1>4. DOMAIN actions = {} BY <1>1
<1>5. CASE job.dry_run
  <2>1. settled' = settled BY <1>1, <1>5
  <2>2. (FinishedIsComplete /\ UninstalledIsGone)' BY <1>1, <2>1, SettledKept DEF IInv
  <2> QED BY <1>1, <1>2, <2>1, <2>2, Idles DEF IInv, TypeInv
<1>6. CASE ~job.dry_run /\ job.kind = "install"
  <2>1. settled' = job.tray /\ job.tray \in Trays BY <1>1, <1>2, <1>6 DEF JobOK
  <2>2. /\ \A p \in Paths \ {Wants(Legacy)} : disk[p] = Deployed[job.tray][p]
        /\ Entry(Point) = "NoAuto"
    BY <1>1, <1>4, <1>6 DEF IInv, InstallInv, Performing, Settles
  <2>3. (Entry(Point))' = Entry(Point) BY <1>1 DEF Entry
  <2>4. FinishedIsComplete' BY <1>1, <2>1, <2>2, <2>3 DEF FinishedIsComplete
  <2>5. UninstalledIsGone' BY <2>1 DEF UninstalledIsGone, Trays
  <2> QED BY <1>1, <1>2, <2>1, <2>4, <2>5, Idles
<1>7. CASE ~job.dry_run /\ job.kind = "uninstall"
  <2>1. settled' = "gone" BY <1>1, <1>7
  <2>2. \A p \in Paths : disk[p] = "absent"
    BY <1>4, <1>7 DEF IInv, UninstallInv, Performing
  <2>3. disk = Blank BY <1>2, <2>2 DEF Blank
  <2>4. ~armed /\ ~helper
    <3>1. CASE tree # "machine" BY <3>1 DEF IInv, ServiceInv
    <3>2. CASE tree = "machine"
      <4>1. ~armed /\ (job.mounted => mounts = 0) /\ (~job.mounted => ~helper)
        BY <1>1, <1>4, <1>7, <3>2 DEF IInv, TakeDownInv, Performing
      <4>2. mounts = 0 => ~(mounts > 0) BY <1>2
      <4>3. helper => mounts > 0 BY DEF IInv, ServiceInv
      <4> QED BY <4>1, <4>2, <4>3
    <3> QED BY <3>1, <3>2
  <2>5. UninstalledIsGone' BY <1>1, <2>3, <2>4 DEF UninstalledIsGone, Blank
  <2>6. FinishedIsComplete' BY <2>1 DEF FinishedIsComplete, Trays
  <2> QED BY <1>1, <1>2, <2>1, <2>5, <2>6, Idles
<1> QED BY <1>3, <1>5, <1>6, <1>7
-----------------------------------------------------------------------------
(* The person and systemd.                                                   *)

LEMMA Edited ==
  ASSUME IInv, Idle, edits < MaxEdits, edits' = edits + 1, settled' = "no",
         disk' \in [Paths -> Contents], fstab' \in Seq(Lines), etc' \in Seq(Lines),
         touched' \in SUBSET Paths, TouchedInv',
         UNCHANGED <<tree, mounts, helper, armed, socket, job, actions, runs>>
  PROVE  IInv'
<1>1. edits' \in 0..MaxEdits BY ConstantsAssumption DEF IInv, TypeInv
<1>2. settled' \in Trays \cup {"no", "gone"} OBVIOUS
<1>3. TypeInv' BY <1>1, <1>2 DEF IInv, TypeInv, JobOK, Idle
<1>4. ServiceInv' BY DEF IInv, ServiceInv
<1>5. job'.kind = "none" BY DEF Idle
<1>6. InstallInv' /\ UninstallInv' /\ TakeDownInv'
  BY <1>5 DEF InstallInv, UninstallInv, TakeDownInv, Performing
<1>7. SettledInv'
  <2>1. "no" \notin Trays BY DEF Trays
  <2> QED BY <2>1 DEF SettledInv, FinishedIsComplete, UninstalledIsGone
<1> QED BY <1>3, <1>4, <1>6, <1>7 DEF IInv

LEMMA FileEdited == ASSUME IInv, EditFile PROVE IInv'
<1>1. PICK p \in Paths, content \in {"absent", "other"} :
        disk' = [disk EXCEPT ![p] = content] /\ touched' = touched \cup {p}
  BY DEF EditFile
<1>2. /\ Idle /\ edits < MaxEdits /\ edits' = edits + 1 /\ settled' = "no"
      /\ UNCHANGED <<tree, fstab, etc, mounts, helper, armed, socket, job, actions, runs>>
  BY DEF EditFile, services
<1>3. disk \in [Paths -> Contents] /\ touched \in SUBSET Paths /\ fstab \in Seq(Lines) /\ etc \in Seq(Lines)
  BY DEF IInv, TypeInv
<1>4. disk' \in [Paths -> Contents] /\ touched' \in SUBSET Paths BY <1>1, <1>3 DEF Contents
<1>5. TouchedInv' BY <1>1, <1>3 DEF IInv, TouchedInv
<1> QED BY <1>2, <1>3, <1>4, <1>5, Edited

LEMMA FstabEdited == ASSUME IInv, EditFstab PROVE IInv'
<1>1. /\ Idle /\ edits < MaxEdits /\ edits' = edits + 1 /\ settled' = "no"
      /\ etc' = (IF tree = "machine" THEN fstab' ELSE etc) /\ fstab' \in Fstabs
      /\ UNCHANGED <<tree, disk, mounts, helper, armed, socket, job, actions, touched, runs>>
  BY DEF EditFstab, services
<1>2. disk \in [Paths -> Contents] /\ touched \in SUBSET Paths /\ etc \in Seq(Lines)
  BY DEF IInv, TypeInv
<1>3. fstab' \in Seq(Lines) BY <1>1, ConstantsAssumption DEF Lines
<1>4. etc' \in Seq(Lines) BY <1>1, <1>2, <1>3
<1>5. TouchedInv' BY <1>1 DEF IInv, TouchedInv
<1> QED BY <1>1, <1>2, <1>3, <1>4, <1>5, Edited

LEMMA ServicesMove ==
  ASSUME IInv, UNCHANGED <<tree, disk, fstab, etc, job, actions, settled, touched, runs, edits>>,
         mounts' \in 0..MaxMounts, helper' \in BOOLEAN, armed' \in BOOLEAN, socket' \in BOOLEAN,
         ServiceInv', TakeDownInv', settled = "gone" => ~helper' /\ ~armed'
  PROVE  IInv'
<1>1. TypeInv' BY DEF IInv, TypeInv, JobOK, Idle
<1>2. TouchedInv' BY DEF IInv, TouchedInv
<1>3. InstallInv' BY DEF IInv, InstallInv, Performing, Settles, Entry
<1>4. UninstallInv' BY DEF IInv, UninstallInv, Performing
<1>5. SettledInv'
  <2>1. FinishedIsComplete' BY DEF IInv, SettledInv, FinishedIsComplete, Entry
  <2>2. UninstalledIsGone' BY DEF IInv, SettledInv, UninstalledIsGone
  <2> QED BY <2>1, <2>2 DEF IInv, SettledInv, Idle
<1> QED BY <1>1, <1>2, <1>3, <1>4, <1>5 DEF IInv

LEMMA ServiceTypes ==
  ASSUME IInv
  PROVE  /\ mounts \in 0..MaxMounts /\ mounts \in Nat /\ MaxMounts \in Nat /\ MaxMounts >= 1
         /\ helper \in BOOLEAN /\ armed \in BOOLEAN /\ socket \in BOOLEAN
         /\ helper => mounts > 0
         /\ tree # "machine" => ~helper /\ ~armed
         /\ settled = "gone" => ~helper /\ ~armed
BY ConstantsAssumption DEF IInv, TypeInv, ServiceInv, SettledInv, UninstalledIsGone

LEMMA MountedByHand == ASSUME IInv, MountByHand PROVE IInv'
<1>1. /\ UNCHANGED <<tree, disk, fstab, etc, job, actions, settled, touched, runs, edits>>
      /\ UNCHANGED <<helper, armed, socket>> /\ Idle /\ mounts < MaxMounts /\ mounts' = mounts + 1
  BY DEF MountByHand, Serviced, files
<1>2. mounts' \in 0..MaxMounts /\ mounts' > 0 BY <1>1, ServiceTypes
<1>3. ServiceInv' BY <1>1, <1>2 DEF IInv, ServiceInv
<1>4. TakeDownInv' BY <1>1 DEF TakeDownInv, Performing, Idle
<1> QED BY <1>1, <1>2, <1>3, <1>4, ServiceTypes, ServicesMove

LEMMA UnmountedByHand == ASSUME IInv, UnmountByHand PROVE IInv'
<1>1. /\ UNCHANGED <<tree, disk, fstab, etc, job, actions, settled, touched, runs, edits>>
      /\ UNCHANGED <<armed, socket>> /\ mounts > 0 /\ mounts' = mounts - 1
      /\ helper' = (helper /\ mounts > 1)
  BY DEF UnmountByHand, Serviced, files, Umount
<1>2. mounts' \in 0..MaxMounts /\ (mounts > 1 => mounts' > 0) BY <1>1, ServiceTypes
<1>3. helper' \in BOOLEAN /\ (helper' => helper /\ mounts > 1) BY <1>1
<1>4. ServiceInv' BY <1>1, <1>2, <1>3, ServiceTypes DEF ServiceInv
<1>5. mounts # 0 BY <1>1, ServiceTypes
<1>6. TakeDownInv' BY <1>1, <1>3, <1>5 DEF IInv, TakeDownInv, Performing, Verifies
<1> QED BY <1>1, <1>2, <1>3, <1>4, <1>6, ServiceTypes, ServicesMove

LEMMA SocketMoves == ASSUME IInv, SyncStarts \/ SyncStops PROVE IInv'
<1>1. /\ UNCHANGED <<tree, disk, fstab, etc, job, actions, settled, touched, runs, edits>>
      /\ UNCHANGED <<mounts, helper, armed>> /\ socket' \in BOOLEAN
  BY DEF SyncStarts, SyncStops, Serviced, files
<1>2. ServiceInv' BY <1>1 DEF IInv, ServiceInv
<1>3. TakeDownInv' BY <1>1 DEF IInv, TakeDownInv, Performing, Verifies
<1>4. mounts' \in 0..MaxMounts BY <1>1, ServiceTypes
<1> QED BY <1>1, <1>2, <1>3, <1>4, ServiceTypes, ServicesMove

LEMMA Armed == ASSUME IInv, Arm PROVE IInv'
<1>1. /\ UNCHANGED <<tree, disk, fstab, etc, job, actions, settled, touched, runs, edits>>
      /\ UNCHANGED <<mounts, helper, socket>> /\ Idle /\ armed' \in BOOLEAN /\ tree = "machine"
      /\ disk[File("hydrationd.path")] # "absent"
  BY DEF Arm, Serviced, files, System
<1>2. ServiceInv' BY <1>1 DEF IInv, ServiceInv
<1>3. TakeDownInv' BY <1>1 DEF TakeDownInv, Performing, Idle
<1>4. settled # "gone"
  <2>1. File("hydrationd.path") \in Paths BY PathsAre, UnitsAre
  <2> QED BY <1>1, <2>1 DEF IInv, SettledInv, UninstalledIsGone, Blank
<1>5. mounts' \in 0..MaxMounts BY <1>1, ServiceTypes
<1> QED BY <1>1, <1>2, <1>3, <1>4, <1>5, ServiceTypes, ServicesMove

LEMMA Triggered == ASSUME IInv, Trigger PROVE IInv'
<1>1. /\ UNCHANGED <<tree, disk, fstab, etc, job, actions, settled, touched, runs, edits>>
      /\ UNCHANGED <<armed, socket>> /\ tree = "machine" /\ armed
      /\ helper' \in BOOLEAN /\ mounts' = IF mounts = 0 THEN 1 ELSE mounts
  BY DEF Trigger, Serviced, files
<1>2. mounts' \in 0..MaxMounts /\ mounts' > 0 BY <1>1, ServiceTypes
<1>3. ServiceInv' BY <1>1, <1>2 DEF ServiceInv
<1>4. TakeDownInv' BY <1>1 DEF IInv, TakeDownInv, Performing, Verifies
<1> QED BY <1>1, <1>2, <1>3, <1>4, ServiceTypes, ServicesMove
-----------------------------------------------------------------------------
(* Directories and their texts.                                             *)

Letters == STRING \cup {"/"}
Slash == "/"

LEMMA JoinedTexts ==
  ASSUME NEW s \in Seq(Letters), NEW t \in Seq(Letters) PROVE (s \o <<"/">>) \o t \in Seq(Letters)
<1>1. Slash \in Letters BY DEF Letters, Slash
<1>2. PICK r : r = (s \o <<Slash>>) \o t OBVIOUS
<1>3. r \in Seq(Letters) BY <1>1, <1>2, Joined
<1> QED BY <1>2, <1>3 DEF Slash

\* Where the text of the first n names of a directory ends, the next name begins.
LEMMA TextsStep ==
  ASSUME NEW dir \in Seq(Names)
  PROVE  /\ Texts(dir)[0] = <<>>
         /\ \A n \in 0..Len(dir) : Texts(dir)[n] \in Seq(Letters)
         /\ \A n \in 0..(Len(dir) - 1) :
              dir[n + 1] \in Seq(Letters) /\ Texts(dir)[n + 1] = (Texts(dir)[n] \o <<"/">>) \o dir[n + 1]
<1> DEFINE name(n) == IF n < Len(dir) THEN dir[n + 1] ELSE <<>>
           longer == [n \in Nat |-> [text \in Seq(Letters) |-> (text \o <<"/">>) \o name(n)]]
           upto(g) == g = [n \in 0..Len(dir) |-> IF n = 0 THEN <<>> ELSE (g[n - 1] \o <<"/">>) \o dir[n]]
<1>1. /\ Len(dir) \in Nat
      /\ \A n \in 0..(Len(dir) - 1) : dir[n + 1] \in Seq(Letters) /\ name(n) = dir[n + 1]
      /\ \A n \in Nat : name(n) \in Seq(Letters)
  <2>1. \A n \in 1..Len(dir) : dir[n] \in Seq(Letters)
    <3>1. Names \subseteq Seq(STRING \ {"/"}) /\ STRING \ {"/"} \subseteq Letters BY RootAssumption DEF Letters
    <3>2. \A n \in 1..Len(dir) : dir[n] \in Seq(STRING \ {"/"}) BY <3>1
    <3> DEFINE Plain == STRING \ {"/"}
    <3> HIDE DEF Plain
    <3>3. Plain \subseteq Letters /\ \A n \in 1..Len(dir) : dir[n] \in Seq(Plain) BY <3>1, <3>2 DEF Plain
    <3> QED BY <3>3, Wider
  <2>2. Len(dir) \in Nat /\ \A n \in 0..(Len(dir) - 1) : n < Len(dir) /\ n + 1 \in 1..Len(dir) OBVIOUS
  <2>3. \A n \in Nat : n < Len(dir) => n + 1 \in 1..Len(dir) BY <2>2
  <2>4. <<>> \in Seq(Letters) OBVIOUS
  <2> QED BY <2>1, <2>2, <2>3, <2>4
<1> HIDE DEF name
<1>2. ASSUME NEW n \in Nat, NEW text \in Seq(Letters)
      PROVE  (text \o <<"/">>) \o name(n) \in Seq(Letters)
  BY <1>1, JoinedTexts
<1>3. longer \in [Nat -> [Seq(Letters) -> Seq(Letters)]] BY <1>2
<1> HIDE DEF longer
<1>4. PICK f : f \in Recursive(Seq(Letters), <<>>, longer)
  <2>1. <<>> \in Seq(Letters) OBVIOUS
  <2> QED BY <1>3, <2>1, Recursion
<1>5. /\ f \in [Nat -> Seq(Letters)] /\ f[0] = <<>>
      /\ \A n \in Nat : f[n + 1] = longer[n][f[n]]
  BY <1>4 DEF Recursive
<1>6. \A n \in Nat : f[n + 1] = (f[n] \o <<"/">>) \o name(n) BY <1>5 DEF longer
<1> DEFINE g == [n \in 0..Len(dir) |-> f[n]]
<1>7. upto(g)
  <2>1. ASSUME NEW n \in 0..Len(dir)
        PROVE  g[n] = IF n = 0 THEN <<>> ELSE (g[n - 1] \o <<"/">>) \o dir[n]
    <3>1. CASE n = 0 BY <1>5, <3>1
    <3>2. CASE n # 0
      <4>1. n - 1 \in 0..(Len(dir) - 1) /\ n - 1 \in 0..Len(dir) /\ n - 1 \in Nat /\ (n - 1) + 1 = n
        BY <1>1, <3>2
      <4>2. g[n] = f[n] /\ g[n - 1] = f[n - 1] BY <4>1
      <4>3. f[(n - 1) + 1] = (f[n - 1] \o <<"/">>) \o name(n - 1) BY <1>6, <4>1
      <4>4. name(n - 1) = dir[(n - 1) + 1] BY <1>1, <4>1
      <4> HIDE DEF g
      <4> QED BY <3>2, <4>1, <4>2, <4>3, <4>4
    <3> QED BY <3>1, <3>2
  <2> QED BY <2>1
<1> HIDE DEF g
<1>8. Texts(dir) = CHOOSE h : upto(h) BY DEF Texts
<1>9. upto(Texts(dir)) BY <1>7, <1>8
<1>10. Texts(dir)[0] = <<>> BY <1>1, <1>9
<1>11. ASSUME NEW n \in 0..(Len(dir) - 1)
       PROVE  dir[n + 1] \in Seq(Letters) /\ Texts(dir)[n + 1] = (Texts(dir)[n] \o <<"/">>) \o dir[n + 1]
  <2>1. n + 1 \in 0..Len(dir) /\ n + 1 # 0 /\ (n + 1) - 1 = n BY <1>1
  <2> QED BY <1>1, <1>9, <2>1
<1>12. \A n \in 0..Len(dir) : Texts(dir)[n] \in Seq(Letters)
  <2> DEFINE T == {n \in Nat : n <= Len(dir) => Texts(dir)[n] \in Seq(Letters)}
  <2> HIDE DEF upto
  <2>1. 0 \in T
    <3>1. <<>> \in Seq(Letters) OBVIOUS
    <3> QED BY <1>10, <3>1
  <2>2. ASSUME NEW n \in Nat, n \in T PROVE n + 1 \in T
    <3> SUFFICES ASSUME n + 1 <= Len(dir) PROVE Texts(dir)[n + 1] \in Seq(Letters) OBVIOUS
    <3>1. n \in 0..(Len(dir) - 1) /\ Texts(dir)[n] \in Seq(Letters) BY <1>1, <2>2
    <3>2. dir[n + 1] \in Seq(Letters) /\ Texts(dir)[n + 1] = (Texts(dir)[n] \o <<"/">>) \o dir[n + 1]
      BY <1>11, <3>1
    <3> QED BY <3>1, <3>2, JoinedTexts
  <2> HIDE DEF T
  <2>3. \A n \in Nat : n \in T BY <2>1, <2>2, Induction
  <2> QED BY <1>1, <2>3 DEF T
<1> QED BY <1>10, <1>11, <1>12

LEMMA NamesAre ==
  ASSUME NEW dir \in Seq(Names), NEW n \in 0..(Len(dir) - 1)
  PROVE  /\ dir[n + 1] \in Seq(Letters) /\ Len(dir[n + 1]) \in Nat /\ Len(dir[n + 1]) > 0
         /\ \A i \in 1..Len(dir[n + 1]) : dir[n + 1][i] # "/"
<1> DEFINE Plain == STRING \ {"/"}
<1>1. Plain \subseteq Letters /\ \A c \in Plain : c # "/" BY DEF Letters
<1>2. n + 1 \in 1..Len(dir) OBVIOUS
<1>3. dir[n + 1] \in Names BY <1>2
<1>4. dir[n + 1] \in Seq(Plain) /\ dir[n + 1] # <<>> BY <1>3, RootAssumption
<1> HIDE DEF Plain
<1>5. dir[n + 1] \in Seq(Letters) BY <1>1, <1>4, Wider
<1>6. PICK name \in Seq(Plain) : name = dir[n + 1] BY <1>4
<1>7. Len(name) \in Nat /\ Len(name) > 0 /\ \A i \in 1..Len(name) : name[i] \in Plain BY <1>4, <1>6
<1> QED BY <1>1, <1>5, <1>6, <1>7

Ends(dir, n) == Len(Texts(dir)[n])

\* What one more name adds to a text.
LEMMA NextName ==
  ASSUME NEW dir \in Seq(Names), NEW n \in 0..(Len(dir) - 1)
  PROVE  /\ Ends(dir, n) \in Nat /\ Len(dir[n + 1]) \in Nat /\ Len(dir[n + 1]) > 0
         /\ Ends(dir, n + 1) = Ends(dir, n) + 1 + Len(dir[n + 1])
         /\ \A i \in 1..Ends(dir, n) : Texts(dir)[n + 1][i] = Texts(dir)[n][i]
         /\ Texts(dir)[n + 1][Ends(dir, n) + 1] = "/"
         /\ \A i \in 1..Len(dir[n + 1]) :
              Texts(dir)[n + 1][Ends(dir, n) + 1 + i] = dir[n + 1][i] /\ dir[n + 1][i] # "/"
<1> DEFINE text == Texts(dir)[n]
           name == dir[n + 1]
           next == Texts(dir)[n + 1]
<1>1. n \in 0..Len(dir) OBVIOUS
<1>2. text \in Seq(Letters) /\ next = (text \o <<Slash>>) \o name BY <1>1, TextsStep DEF Slash
<1>3. name \in Seq(Letters) /\ Len(name) > 0 /\ \A i \in 1..Len(name) : name[i] # "/" BY NamesAre
<1>4. Slash \in Letters BY DEF Slash, Letters
<1> HIDE DEF text, name, next
<1>5. /\ Len(next) = Len(text) + 1 + Len(name) /\ Len(text) \in Nat /\ Len(name) \in Nat
      /\ \A i \in 1..Len(text) : next[i] = text[i]
      /\ next[Len(text) + 1] = Slash
      /\ \A i \in 1..Len(name) : next[Len(text) + 1 + i] = name[i]
  BY <1>2, <1>3, <1>4, Joined
<1> QED BY <1>3, <1>5 DEF text, name, next, Slash, Ends

\* A text of fewer names is how the text of more begins.
LEMMA TextsGrow ==
  ASSUME NEW dir \in Seq(Names), NEW n \in 0..Len(dir)
  PROVE  \A m \in n..Len(dir) :
           /\ Ends(dir, m) \in Nat /\ Ends(dir, n) <= Ends(dir, m)
           /\ \A i \in 1..Ends(dir, n) : Texts(dir)[m][i] = Texts(dir)[n][i]
<1> DEFINE Grown(m) == /\ Ends(dir, m) \in Nat /\ Ends(dir, n) <= Ends(dir, m)
                       /\ \A i \in 1..Ends(dir, n) : Texts(dir)[m][i] = Texts(dir)[n][i]
           T == {k \in Nat : n + k <= Len(dir) => Grown(n + k)}
<1>1. Len(dir) \in Nat /\ n \in Nat /\ Ends(dir, n) \in Nat
  <2>1. Texts(dir)[n] \in Seq(Letters) BY TextsStep
  <2> QED BY <2>1 DEF Ends
<1>2. 0 \in T BY <1>1
<1>3. ASSUME NEW k \in Nat, k \in T PROVE k + 1 \in T
  <2> SUFFICES ASSUME n + (k + 1) <= Len(dir) PROVE Grown(n + (k + 1)) OBVIOUS
  <2>1. PICK m \in 0..(Len(dir) - 1) : m = n + k /\ m + 1 = n + (k + 1) BY <1>1
  <2>2. Grown(m) BY <1>1, <1>3, <2>1
  <2>3. /\ Ends(dir, m + 1) = Ends(dir, m) + 1 + Len(dir[m + 1]) /\ Len(dir[m + 1]) \in Nat
        /\ \A i \in 1..Ends(dir, m) : Texts(dir)[m + 1][i] = Texts(dir)[m][i]
    BY NextName
  <2>4. Grown(m + 1)
    <3>1. Ends(dir, m + 1) \in Nat /\ Ends(dir, n) <= Ends(dir, m + 1) BY <1>1, <2>2, <2>3
    <3>2. \A i \in 1..Ends(dir, n) : i \in 1..Ends(dir, m) BY <1>1, <2>2
    <3> QED BY <2>2, <2>3, <3>1, <3>2
  <2> QED BY <2>1, <2>4
<1> HIDE DEF T
<1>4. \A k \in Nat : k \in T BY <1>2, <1>3, Induction
<1>5. ASSUME NEW m \in n..Len(dir) PROVE Grown(m)
  <2>1. m - n \in Nat /\ n + (m - n) = m BY <1>1
  <2>2. m - n \in T BY <1>4, <2>1
  <2> QED BY <2>1, <2>2 DEF T
<1> QED BY <1>5

\* A name of l letters stands in a text after p letters and the mark.
Spans(text, p, l, name) ==
  /\ p \in Nat /\ l \in Nat /\ l > 0 /\ Len(text) \in Nat /\ Len(text) >= p + 1 + l
  /\ text[p + 1] = "/"
  /\ \A i \in 1..l : text[p + 1 + i] = name[i] /\ name[i] # "/"
  /\ Len(text) > p + 1 + l => text[p + 1 + l + 1] = "/"

\* The whole text, where its names begin and end.
LEMMA WholeText ==
  ASSUME NEW dir \in Seq(Names), NEW n \in 0..(Len(dir) - 1)
  PROVE  /\ Ends(dir, n + 1) = Ends(dir, n) + 1 + Len(dir[n + 1])
         /\ Spans(Texts(dir)[Len(dir)], Ends(dir, n), Len(dir[n + 1]), dir[n + 1])
<1> DEFINE text == Texts(dir)[Len(dir)]
           p == Ends(dir, n)
           l == Len(dir[n + 1])
<1>1. Len(dir) \in Nat /\ n + 1 \in 0..Len(dir) /\ Len(dir) \in (n + 1)..Len(dir) OBVIOUS
<1>2. /\ p \in Nat /\ l \in Nat /\ l > 0
      /\ Ends(dir, n + 1) = p + 1 + l
      /\ Texts(dir)[n + 1][p + 1] = "/"
      /\ \A i \in 1..l : Texts(dir)[n + 1][p + 1 + i] = dir[n + 1][i] /\ dir[n + 1][i] # "/"
  BY NextName
<1>3. /\ Len(text) \in Nat /\ Ends(dir, n + 1) <= Len(text)
      /\ \A i \in 1..Ends(dir, n + 1) : text[i] = Texts(dir)[n + 1][i]
  BY <1>1, TextsGrow DEF Ends
<1>4. Len(text) >= p + 1 + l /\ text[p + 1] = "/"
  <2>1. p + 1 \in 1..Ends(dir, n + 1) BY <1>2
  <2> QED BY <1>2, <1>3, <2>1
<1>5. \A i \in 1..l : text[p + 1 + i] = dir[n + 1][i] /\ dir[n + 1][i] # "/"
  <2>1. \A i \in 1..l : p + 1 + i \in 1..(p + 1 + l) BY <1>2
  <2> QED BY <1>2, <1>3, <2>1
<1>6. ASSUME Len(text) > p + 1 + l PROVE text[p + 1 + l + 1] = "/"
  <2>1. n + 1 # Len(dir)
    <3>1. Len(text) = Ends(dir, Len(dir)) BY DEF Ends
    <3> SUFFICES ASSUME n + 1 = Len(dir) PROVE FALSE OBVIOUS
    <3>2. Ends(dir, n + 1) = Len(text) BY <3>1
    <3> QED BY <1>2, <1>6, <3>2
  <2>2. n + 1 \in 0..(Len(dir) - 1) /\ (n + 1) + 1 \in 0..Len(dir) /\ Len(dir) \in ((n + 1) + 1)..Len(dir)
    BY <1>1, <2>1
  <2>3. /\ Ends(dir, (n + 1) + 1) = (p + 1 + l) + 1 + Len(dir[(n + 1) + 1])
        /\ Len(dir[(n + 1) + 1]) \in Nat
        /\ Texts(dir)[(n + 1) + 1][(p + 1 + l) + 1] = "/"
    BY <1>2, <2>2, NextName
  <2>4. \A i \in 1..Ends(dir, (n + 1) + 1) : text[i] = Texts(dir)[(n + 1) + 1][i]
    BY <2>2, TextsGrow
  <2>5. (p + 1 + l) + 1 \in 1..Ends(dir, (n + 1) + 1) BY <1>2, <2>3
  <2> QED BY <2>3, <2>4, <2>5
<1>7. Ends(dir, n + 1) = p + 1 + l /\ Len(text) \in Nat /\ text[p + 1] = "/" BY <1>2, <1>3, <1>4
<1> HIDE DEF text, p, l
<1>8. Spans(text, p, l, dir[n + 1]) BY <1>2, <1>4, <1>5, <1>6, <1>7 DEF Spans
<1> QED BY <1>7, <1>8 DEF text, p, l

\* A text is how another begins, where a name of that ends.
Opens(short, long) ==
  /\ Len(short) <= Len(long) /\ \A i \in 1..Len(short) : short[i] = long[i]
  /\ Len(long) > Len(short) => long[Len(short) + 1] = "/"

\* Then, where the names so far end alike, the next are the same: a name that
\* goes on where the other ends would hold the mark that ends it.
LEMMA SameName ==
  ASSUME NEW a \in Seq(Names), NEW b \in Seq(Names), Opens(Texts(a)[Len(a)], Texts(b)[Len(b)]),
         NEW k \in 0..(Len(a) - 1), k <= Len(b), Ends(a, k) = Ends(b, k)
  PROVE  k < Len(b) /\ Ends(a, k + 1) = Ends(b, k + 1) /\ a[k + 1] = b[k + 1]
<1> DEFINE ta == Texts(a)[Len(a)]
           tb == Texts(b)[Len(b)]
           p == Ends(a, k)
           name == a[k + 1]
           other == b[k + 1]
           n == Len(name)
           m == Len(other)
<1>1. Ends(a, k + 1) = p + 1 + n /\ Spans(ta, p, n, name) BY WholeText
<1>2. Opens(ta, tb) /\ Len(b) \in Nat /\ (k = Len(b) => Len(tb) = p) BY DEF Ends
<1>3. k < Len(b)
  <2> HIDE DEF ta, tb, p, n, name
  <2> QED BY <1>1, <1>2 DEF Spans, Opens
<1>4. k \in 0..(Len(b) - 1) BY <1>2, <1>3
<1>5. Ends(b, k + 1) = p + 1 + m /\ Spans(tb, p, m, other) BY <1>4, WholeText
<1>6. name \in Seq(Letters) /\ other \in Seq(Letters) BY <1>4, NamesAre
<1>7. n = Len(name) /\ m = Len(other) OBVIOUS
<1> HIDE DEF ta, tb, p, n, m, name, other
<1>8. p \in Nat /\ n \in Nat /\ m \in Nat /\ n > 0 /\ m > 0 /\ Len(ta) \in Nat /\ Len(tb) \in Nat
      /\ Len(ta) >= p + 1 + n /\ Len(tb) >= p + 1 + m /\ Len(ta) <= Len(tb)
  BY <1>1, <1>2, <1>5 DEF Spans, Opens
<1>9. /\ \A i \in 1..n : ta[p + 1 + i] = name[i] /\ name[i] # "/"
      /\ \A i \in 1..m : tb[p + 1 + i] = other[i] /\ other[i] # "/"
      /\ Len(ta) > p + 1 + n => ta[p + 1 + n + 1] = "/"
      /\ Len(tb) > p + 1 + m => tb[p + 1 + m + 1] = "/"
      /\ \A i \in 1..Len(ta) : ta[i] = tb[i]
      /\ Len(tb) > Len(ta) => tb[Len(ta) + 1] = "/"
  BY <1>1, <1>2, <1>5 DEF Spans, Opens
<1>10. ~(n < m)
  <2> SUFFICES ASSUME n < m PROVE FALSE OBVIOUS
  <2>1. n + 1 \in 1..m /\ p + 1 + (n + 1) = p + 1 + n + 1 BY <1>8
  <2>2. tb[p + 1 + n + 1] # "/" BY <1>9, <2>1
  <2>3. CASE Len(ta) = p + 1 + n
    <3>1. Len(tb) > Len(ta) BY <1>8, <2>3
    <3> QED BY <1>9, <2>2, <2>3, <3>1
  <2>4. CASE Len(ta) > p + 1 + n
    <3>1. p + 1 + n + 1 \in 1..Len(ta) BY <1>8, <2>4
    <3> QED BY <1>9, <2>2, <2>4, <3>1
  <2> QED BY <1>8, <2>3, <2>4
<1>11. ~(m < n)
  <2> SUFFICES ASSUME m < n PROVE FALSE OBVIOUS
  <2>1. m + 1 \in 1..n /\ p + 1 + (m + 1) = p + 1 + m + 1 /\ p + 1 + m + 1 \in 1..Len(ta)
        /\ Len(tb) > p + 1 + m
    BY <1>8
  <2>2. ta[p + 1 + m + 1] # "/" BY <1>9, <2>1
  <2>3. tb[p + 1 + m + 1] # "/" BY <1>9, <2>1, <2>2
  <2> QED BY <1>9, <2>1, <2>3
<1>12. n = m BY <1>8, <1>10, <1>11
<1>13. \A i \in 1..n : name[i] = other[i]
  <2>1. \A i \in 1..n : p + 1 + i \in 1..Len(ta) BY <1>8
  <2> QED BY <1>9, <1>12, <2>1
<1>14. name = other BY <1>6, <1>7, <1>12, <1>13, SameSequence
<1> QED BY <1>1, <1>3, <1>5, <1>12, <1>14 DEF name, other

LEMMA CoversNames ==
  ASSUME NEW a \in Seq(Names), NEW b \in Seq(Names), Opens(Texts(a)[Len(a)], Texts(b)[Len(b)])
  PROVE  Len(a) <= Len(b) /\ \A i \in 1..Len(a) : a[i] = b[i]
<1> DEFINE Same(k) == k <= Len(b) /\ Ends(a, k) = Ends(b, k) /\ \A i \in 1..k : a[i] = b[i]
           T == {k \in Nat : k <= Len(a) => Same(k)}
<1>1. Len(a) \in Nat /\ Len(b) \in Nat OBVIOUS
<1>2. 0 \in T
  <2>1. Ends(a, 0) = Ends(b, 0) BY TextsStep DEF Ends
  <2> QED BY <1>1, <2>1
<1>3. ASSUME NEW k \in Nat, k \in T PROVE k + 1 \in T
  <2> SUFFICES ASSUME k + 1 <= Len(a) PROVE Same(k + 1) OBVIOUS
  <2>1. k \in 0..(Len(a) - 1) /\ Same(k) BY <1>1, <1>3
  <2>2. k < Len(b) /\ Ends(a, k + 1) = Ends(b, k + 1) /\ a[k + 1] = b[k + 1] BY <2>1, SameName
  <2> QED BY <1>1, <2>1, <2>2
<1> HIDE DEF T
<1>4. \A k \in Nat : k \in T BY <1>2, <1>3, Induction
<1>5. Same(Len(a)) BY <1>1, <1>4 DEF T
<1> QED BY <1>5

LEMMA NamesCover ==
  ASSUME NEW a \in Seq(Names), NEW b \in Seq(Names), Len(a) <= Len(b), \A i \in 1..Len(a) : a[i] = b[i]
  PROVE  Opens(Texts(a)[Len(a)], Texts(b)[Len(b)])
<1> DEFINE T == {k \in Nat : k <= Len(a) => Texts(a)[k] = Texts(b)[k]}
           short == Texts(a)[Len(a)]
           long == Texts(b)[Len(b)]
<1>1. Len(a) \in Nat /\ Len(b) \in Nat OBVIOUS
<1>2. 0 \in T BY TextsStep
<1>3. ASSUME NEW k \in Nat, k \in T PROVE k + 1 \in T
  <2> SUFFICES ASSUME k + 1 <= Len(a) PROVE Texts(a)[k + 1] = Texts(b)[k + 1] OBVIOUS
  <2>1. k \in 0..(Len(a) - 1) /\ k \in 0..(Len(b) - 1) /\ k + 1 \in 1..Len(a) BY <1>1
  <2>2. Texts(a)[k] = Texts(b)[k] /\ a[k + 1] = b[k + 1] BY <1>1, <1>3, <2>1
  <2> QED BY <2>1, <2>2, TextsStep
<1> HIDE DEF T
<1>4. \A k \in Nat : k \in T BY <1>2, <1>3, Induction
<1>5. short = Texts(b)[Len(a)] /\ Len(short) = Ends(b, Len(a)) BY <1>1, <1>4 DEF T, Ends
<1>6. Len(a) \in 0..Len(b) /\ Len(b) \in Len(a)..Len(b) BY <1>1
<1>7. Len(short) <= Len(long) /\ \A i \in 1..Len(short) : short[i] = long[i]
  <2>1. \A m \in Len(a)..Len(b) :
          /\ Ends(b, Len(a)) <= Ends(b, m)
          /\ \A i \in 1..Ends(b, Len(a)) : Texts(b)[m][i] = Texts(b)[Len(a)][i]
    BY <1>6, TextsGrow
  <2>2. Len(long) = Ends(b, Len(b)) BY DEF Ends
  <2> QED BY <1>5, <1>6, <2>1, <2>2
<1>8. ASSUME Len(long) > Len(short) PROVE long[Len(short) + 1] = "/"
  <2>1. Len(a) \in 0..(Len(b) - 1) BY <1>1, <1>5, <1>8
  <2>2. Spans(long, Ends(b, Len(a)), Len(b[Len(a) + 1]), b[Len(a) + 1]) BY <2>1, WholeText
  <2> QED BY <1>5, <2>2 DEF Spans
<1> QED BY <1>7, <1>8 DEF Opens

LEMMA PrefixIs ==
  ASSUME NEW S, NEW s \in Seq(S), NEW t \in Seq(S)
  PROVE  IsPrefix(s, t) <=> Len(s) <= Len(t) /\ \A i \in 1..Len(s) : s[i] = t[i]
<1>1. Len(s) \in Nat /\ Len(t) \in Nat OBVIOUS
<1>2. ASSUME Len(s) <= Len(t)
      PROVE  /\ SubSeq(s, 1, Len(s)) = [i \in 1..Len(s) |-> s[i]]
             /\ SubSeq(t, 1, Len(s)) = [i \in 1..Len(s) |-> t[i]]
  BY <1>1, <1>2
<1>3. ASSUME Len(s) <= Len(t), \A i \in 1..Len(s) : s[i] = t[i]
      PROVE  SubSeq(s, 1, Len(s)) = SubSeq(t, 1, Len(s))
  BY <1>2, <1>3
<1>4. ASSUME Len(s) <= Len(t), SubSeq(s, 1, Len(s)) = SubSeq(t, 1, Len(s)), NEW i \in 1..Len(s)
      PROVE  s[i] = t[i]
  BY <1>2, <1>4
<1> QED BY <1>3, <1>4 DEF IsPrefix

\* The comparison of texts is the comparison of names, of the device's root too.
LEMMA CoversExact ==
  ASSUME NEW a \in Seq(Names), NEW b \in Seq(Names) PROVE Covers(Text(a), Text(b)) <=> IsPrefix(a, b)
<1>1. Len(a) \in Nat /\ Len(b) \in Nat OBVIOUS
<1>2. IsPrefix(a, b) <=> Len(a) <= Len(b) /\ \A i \in 1..Len(a) : a[i] = b[i] BY PrefixIs
<1>3. CASE a = <<>>
  <2>1. Text(a) = <<"/">> /\ Len(a) = 0 BY <1>3 DEF Text
  <2> QED BY <1>1, <1>2, <2>1 DEF Covers
<1>4. CASE a # <<>>
  <2> DEFINE ta == Texts(a)[Len(a)]
             tb == Texts(b)[Len(b)]
  <2>1. Text(a) = ta /\ 0 \in 0..(Len(a) - 1) /\ Len(a) > 0 BY <1>1, <1>4 DEF Text
  <2>2. Len(ta) \in Nat /\ Len(ta) >= 2
    <3>1. Spans(ta, Ends(a, 0), Len(a[0 + 1]), a[0 + 1]) BY <2>1, WholeText
    <3> HIDE DEF ta
    <3> QED BY <3>1 DEF Spans
  <2>3. Text(a) # <<"/">>
    <3> DEFINE root == <<"/">>
    <3>1. Len(root) = 1 OBVIOUS
    <3> HIDE DEF ta, root
    <3>2. ASSUME ta = root PROVE FALSE
      <4>1. Len(ta) = 1 BY <3>1, <3>2
      <4> QED BY <2>2, <4>1
    <3> QED BY <2>1, <3>2 DEF root
  <2>4. CASE b = <<>>
    <3>1. Text(b) = <<"/">> /\ Len(Text(b)) = 1 /\ Len(b) = 0 BY <2>4 DEF Text
    <3> HIDE DEF ta
    <3>2. ~IsPrefix(Text(a), Text(b)) BY <2>1, <2>2, <3>1 DEF IsPrefix
    <3> QED BY <1>2, <2>1, <2>3, <3>1, <3>2 DEF Covers
  <2>5. CASE b # <<>>
    <3>1. Text(b) = tb /\ ta \in Seq(Letters) /\ tb \in Seq(Letters)
      <4>1. Len(a) \in 0..Len(a) /\ Len(b) \in 0..Len(b) BY <1>1
      <4> QED BY <2>5, <4>1, TextsStep DEF Text
    <3>2. Opens(ta, tb) <=> Len(a) <= Len(b) /\ \A i \in 1..Len(a) : a[i] = b[i]
      BY CoversNames, NamesCover
    <3> HIDE DEF ta, tb
    <3>3. IsPrefix(ta, tb) <=> Len(ta) <= Len(tb) /\ \A i \in 1..Len(ta) : ta[i] = tb[i]
      BY <3>1, PrefixIs
    <3>4. Len(ta) \in Nat /\ Len(tb) \in Nat BY <3>1
    <3>5. Covers(ta, tb) => Opens(ta, tb)
      <4>1. CASE ta = tb BY <3>4, <4>1 DEF Opens
      <4>2. CASE IsPrefix(ta, tb) /\ tb[Len(ta) + 1] = "/" BY <3>3, <4>2 DEF Opens
      <4> QED BY <2>1, <2>3, <4>1, <4>2 DEF Covers
    <3>6. Opens(ta, tb) => Covers(ta, tb)
      <4>1. CASE Len(ta) = Len(tb)
        <5>1. Opens(ta, tb) => ta = tb BY <3>1, <4>1, SameSequence DEF Opens
        <5> QED BY <5>1 DEF Covers
      <4>2. CASE Len(ta) # Len(tb)
        <5>1. Opens(ta, tb) => Len(ta) < Len(tb) /\ tb[Len(ta) + 1] = "/" /\ IsPrefix(ta, tb)
          BY <3>3, <3>4, <4>2 DEF Opens
        <5> QED BY <5>1 DEF Covers
      <4> QED BY <4>1, <4>2
    <3> QED BY <1>2, <2>1, <3>1, <3>2, <3>5, <3>6
  <2> QED BY <2>4, <2>5
<1> QED BY <1>3, <1>4

LEMMA DirsAre ==
  ASSUME NEW n \in Nat
  PROVE  /\ \A dir \in Seq(Names) : Len(dir) <= n => dir \in Dirs(n)
         /\ \A dir \in Dirs(n) : dir \in Seq(Names) /\ Len(dir) <= n
<1>1. ASSUME NEW dir \in Seq(Names), Len(dir) <= n PROVE dir \in Dirs(n)
  <2>1. Len(dir) \in 0..n /\ dir \in [1..Len(dir) -> Names] BY <1>1
  <2> QED BY <2>1 DEF Dirs
<1>2. ASSUME NEW dir \in Dirs(n) PROVE dir \in Seq(Names) /\ Len(dir) <= n
  <2>1. PICK m \in 0..n : dir \in [1..m -> Names] BY DEF Dirs
  <2>2. dir \in Seq(Names) /\ Len(dir) = m BY <2>1
  <2> QED BY <2>2
<1> QED BY <1>1, <1>2

LEMMA MaxOfTwo == ASSUME NEW m \in Nat, NEW n \in Nat
                  PROVE  Max({m, n}) \in {m, n} /\ m <= Max({m, n}) /\ n <= Max({m, n})
<1>1. \E x \in {m, n} : \A y \in {m, n} : x >= y
  <2>1. CASE m <= n BY <2>1
  <2>2. CASE n <= m BY <2>2
  <2> QED BY <2>1, <2>2
<1> QED BY <1>1 DEF Max

\* Two directories share files exactly where one is above the other.
LEMMA ShareExact ==
  ASSUME NEW a \in Seq(Names), NEW b \in Seq(Names) PROVE Share(a, b) <=> IsPrefix(a, b) \/ IsPrefix(b, a)
<1> DEFINE n == Max({Len(a), Len(b)})
<1>1. Len(a) \in Nat /\ Len(b) \in Nat OBVIOUS
<1>2. n \in Nat /\ Len(a) <= n /\ Len(b) <= n BY <1>1, MaxOfTwo
<1> HIDE DEF n
<1>3. a \in Dirs(n) /\ b \in Dirs(n) /\ \A dir \in Dirs(n) : dir \in Seq(Names) BY <1>2, DirsAre
<1>4. Share(a, b) <=> \E file \in Dirs(n) : IsPrefix(a, file) /\ IsPrefix(b, file) BY DEF Share, n
<1>5. IsPrefix(a, a) /\ IsPrefix(b, b) BY <1>1 DEF IsPrefix
<1>6. ASSUME NEW file \in Dirs(n), IsPrefix(a, file), IsPrefix(b, file)
      PROVE  IsPrefix(a, b) \/ IsPrefix(b, a)
  <2>1. file \in Seq(Names) BY <1>3
  <2>2. (\A i \in 1..Len(a) : a[i] = file[i]) /\ (\A i \in 1..Len(b) : b[i] = file[i])
    BY <1>6, <2>1, PrefixIs
  <2>3. CASE Len(a) <= Len(b)
    <3>1. \A i \in 1..Len(a) : a[i] = b[i] BY <1>1, <2>2, <2>3
    <3> QED BY <2>3, <3>1, PrefixIs
  <2>4. CASE Len(b) <= Len(a)
    <3>1. \A i \in 1..Len(b) : b[i] = a[i] BY <1>1, <2>2, <2>4
    <3> QED BY <2>4, <3>1, PrefixIs
  <2> QED BY <1>1, <2>3, <2>4
<1> QED BY <1>3, <1>4, <1>5, <1>6

\* Exposure is found exactly where another mount of the device shares files.
LEMMA ExposuresFound ==
  ASSUME NEW table, NEW ours, ours.dir \in Seq(Names),
         \A row \in Rows(table) : row.point # ours.point => row.dir \in Seq(Names)
  PROVE  Exposures(table, ours) # {} <=>
           \E row \in Rows(table) : row.point # ours.point /\ row.dev = ours.dev /\ Share(row.dir, ours.dir)
<1>1. ASSUME NEW row \in Rows(table), row.point # ours.point
      PROVE  Covers(Text(row.dir), Text(ours.dir)) \/ Covers(Text(ours.dir), Text(row.dir))
               <=> Share(row.dir, ours.dir)
  BY <1>1, CoversExact, ShareExact
<1> QED BY <1>1 DEF Exposures
-----------------------------------------------------------------------------
(* The theorems.                                                             *)

LEMMA Begins == Init => IInv
<1> SUFFICES ASSUME Init PROVE IInv OBVIOUS
<1>1. /\ tree \in Trees /\ etc \in Fstabs /\ mounts \in 0..1 /\ job.kind = "none" /\ actions = <<>>
      /\ helper = FALSE /\ armed = FALSE /\ socket = FALSE
      /\ settled = "no" /\ touched = {} /\ runs = 0 /\ edits = 0
      /\ fstab = <<>> \/ fstab = etc
      /\ \/ disk = Blank \/ disk = Deployed["sni"]
         \/ disk = [Deployed["none"] EXCEPT ![Wants(Legacy)] = "ours"]
  BY DEF Init, NoJob
<1>2. disk \in [Paths -> {"absent", "ours"}]
  <2>1. Blank \in [Paths -> {"absent", "ours"}] BY DEF Blank
  <2>2. \A tray \in Trays : Deployed[tray] \in [Paths -> {"absent", "ours"}] BY DEF Deployed
  <2>3. "sni" \in Trays /\ "none" \in Trays BY DEF Trays
  <2>4. Deployed["sni"] \in [Paths -> {"absent", "ours"}] /\ Deployed["none"] \in [Paths -> {"absent", "ours"}]
    BY <2>2, <2>3
  <2>5. [Deployed["none"] EXCEPT ![Wants(Legacy)] = "ours"] \in [Paths -> {"absent", "ours"}] BY <2>4
  <2> QED BY <1>1, <2>1, <2>4, <2>5
<1>3. disk \in [Paths -> Contents] /\ \A p \in Paths : disk[p] # "other" BY <1>2 DEF Contents
<1>4. etc \in Seq(Lines) /\ fstab \in Seq(Lines)
  <2>1. etc \in Seq(Lines) BY <1>1, ConstantsAssumption DEF Lines
  <2>2. <<>> \in Seq(Lines) BY Literals
  <2> QED BY <1>1, <2>1, <2>2
<1>5. mounts \in 0..MaxMounts /\ runs \in 0..MaxRuns /\ edits \in 0..MaxEdits
  BY <1>1, ConstantsAssumption
<1>6. helper \in BOOLEAN /\ armed \in BOOLEAN /\ socket \in BOOLEAN /\ ~helper /\ ~armed BY <1>1
<1>7. actions \in Seq(Actions) BY <1>1, Literals
<1>8. TypeInv BY <1>1, <1>3, <1>4, <1>5, <1>6, <1>7 DEF TypeInv, JobOK, Idle
<1>9. ServiceInv /\ TouchedInv BY <1>3, <1>6 DEF ServiceInv, TouchedInv
<1>10. InstallInv /\ UninstallInv /\ TakeDownInv
  BY <1>1 DEF InstallInv, UninstallInv, TakeDownInv, Performing
<1>11. SettledInv
  <2>1. "no" \notin Trays BY DEF Trays
  <2> QED BY <1>1, <2>1 DEF SettledInv, FinishedIsComplete, UninstalledIsGone, Idle
<1> QED BY <1>8, <1>9, <1>10, <1>11 DEF IInv

LEMMA Stutters == ASSUME IInv, UNCHANGED vars PROVE IInv'
<1>1. UNCHANGED <<tree, disk, fstab, etc, job, actions, settled, touched, runs, edits, mounts, helper,
                  armed, socket>>
  BY DEF vars
<1>2. ServiceInv' BY <1>1 DEF IInv, ServiceInv
<1>3. TakeDownInv' BY <1>1 DEF IInv, TakeDownInv, Performing, Verifies
<1> QED BY <1>1, <1>2, <1>3, ServiceTypes, ServicesMove

\* Every step of the installer, of the person and of systemd keeps the invariant.
THEOREM Invariance == Spec => []IInv
<1>1. IInv /\ [Next]_vars => IInv'
  BY InstallBegins, UninstallBegins, Performed, Broken, Finished, FileEdited, FstabEdited,
     MountedByHand, UnmountedByHand, SocketMoves, Armed, Triggered, Stutters DEF Next
<1> QED BY Begins, <1>1, PTL DEF Spec

\* Every variable keeps to its values, and nothing is left to do without a run.
THEOREM TypeCorrect == Spec => []TypeOK
<1>1. IInv => TypeOK BY DEF IInv, TypeInv, JobOK, TypeOK, Contents
<1> QED BY <1>1, Invariance, PTL

\* An install that ended well left every unit and link of its tray and nothing of
\* another, and fstab mounts the sync root only on demand, whatever broken runs and
\* earlier versions had left before (execute_inner over the plan of install).
THEOREM InstallIsComplete == Spec => []FinishedIsComplete
<1>1. IInv => FinishedIsComplete BY DEF IInv, SettledInv
<1> QED BY <1>1, Invariance, PTL

\* The same install again has nothing to write, to link or to run (collide).
THEOREM SecondInstallIsQuiet == Spec => []SecondRunQuiet
<1>1. IInv => SecondRunQuiet
  <2> SUFFICES ASSUME IInv, settled \in Trays, NEW action \in ToSet(Collide(Installation(settled)))
               PROVE  action.op = "Unchanged"
    BY DEF SecondRunQuiet
  <2> DEFINE inst == Installation(settled)
  <2>1. \A p \in Paths \ {Wants(Legacy)} : disk[p] = Deployed[settled][p]
    BY DEF IInv, SettledInv, FinishedIsComplete
  <2>2. TypeInv BY DEF IInv
  <2>3. /\ inst \in Seq(Actions)
        /\ \A x : Holds(inst, x) => Placing(x) /\ Consistent(x, settled) /\ x \in Actions
    <3>1. /\ inst \in Seq(Actions) /\ \A x : Holds(inst, x) => Consistent(x, settled)
          /\ \A x : Holds(inst, x) => Placing(x)
      BY <2>1, <2>2, InstallationHolds
    <3> HIDE DEF inst
    <3>2. \A x : Holds(inst, x) => x \in Actions BY <3>1, HeldAreMembers
    <3> QED BY <3>1, <3>2
  <2>4. PICK i \in DOMAIN inst :
          action = IF Placing(inst[i]) /\ disk[inst[i].path] = "ours"
                   THEN [op |-> "Unchanged", path |-> inst[i].path] ELSE inst[i]
    BY DEF ToSet, Collide
  <2>5. Holds(inst, inst[i]) BY DEF Holds
  <2> HIDE DEF inst
  <2>6. Placing(inst[i]) /\ Deployed[settled][inst[i].path] = "ours" /\ inst[i].path \in Paths
    BY <2>3, <2>5, ActionParts DEF Consistent, Placing
  <2>7. Wants(Legacy) \in Paths BY PathsAre
  <2>8. inst[i].path # Wants(Legacy) BY <2>6, <2>7, DeployedIs
  <2>9. disk[inst[i].path] = "ours" BY <2>1, <2>6, <2>8
  <2> QED BY <2>4, <2>6, <2>9
<1> QED BY <1>1, Invariance, PTL

\* Only what a person wrote can collide with a run: never what a broken run left.
THEOREM RetryIsFree == Spec => []RetryNeverCollides
<1>1. IInv => RetryNeverCollides
  <2> SUFFICES ASSUME IInv, NEW tray \in Trays, NEW action \in Collisions(Installation(tray))
               PROVE  action.path \in touched
    BY DEF RetryNeverCollides
  <2>1. action \in ToSet(Installation(tray)) /\ Placing(action) /\ disk[action.path] = "other"
    BY DEF Collisions
  <2>2. TypeInv /\ TouchedInv BY DEF IInv
  <2>3. Installation(tray) \in Seq(Actions) BY <2>2, InstallationHolds
  <2>4. action \in Actions BY <2>1, <2>3 DEF ToSet
  <2>5. action.path \in Paths BY <2>1, <2>4, ActionParts DEF Placing
  <2> QED BY <2>1, <2>2, <2>5 DEF TouchedInv
<1> QED BY <1>1, Invariance, PTL

\* An uninstall that ended well left nothing on disk, and nothing that runs or starts.
THEOREM UninstallIsComplete == Spec => []UninstalledIsGone
<1>1. IInv => UninstalledIsGone BY DEF IInv, SettledInv
<1> QED BY <1>1, Invariance, PTL

\* An uninstall that found the root mounted stops no helper and removes no unit of it
\* while a mount is left, whoever mounts, unmounts or starts in between (uninstall).
THEOREM HelperStays == Spec => HelperOutlivesMount
<1>1. ASSUME IInv, [Next]_vars, job.kind = "uninstall", job.mounted PROVE ~FailsOpen
  <2> DEFINE stays == (helper' \/ ~helper \/ mounts' = 0)
             unit == File("hydrationd.service")
             kept == disk'[unit] = disk[unit]
  <2>1. ~Idle BY <1>1 DEF Idle
  <2>2. stays /\ kept => ~FailsOpen
    <3>1. mounts' = 0 => ~(mounts' > 0) OBVIOUS
    <3> QED BY <3>1 DEF FailsOpen
  <2>3. tree # "machine" \/ mounts' = 0 => ~FailsOpen
    <3>1. mounts' = 0 => ~(mounts' > 0) OBVIOUS
    <3> QED BY <3>1 DEF FailsOpen
  <2>4. mounts \in Nat BY <1>1, ServiceTypes
  <2> HIDE DEF stays, kept, unit
  <2>5. ASSUME UNCHANGED <<helper, disk>> PROVE ~FailsOpen BY <2>2, <2>5 DEF stays, kept
  <2>6. CASE InstallSome \/ UninstallSome \/ EditFile \/ EditFstab \/ MountByHand \/ Arm
    BY <2>1, <2>6 DEF InstallSome, UninstallSome, EditFile, EditFstab, MountByHand, Arm
  <2>7. CASE Finish \/ SyncStarts \/ SyncStops \/ UNCHANGED vars
    BY <2>5, <2>7 DEF Finish, SyncStarts, SyncStops, Serviced, files, services, vars
  <2>8. CASE Trigger
    <3>1. helper' /\ disk' = disk BY <2>8 DEF Trigger, Serviced, files
    <3> QED BY <2>2, <3>1 DEF stays, kept
  <2>9. CASE UnmountByHand
    <3>1. disk' = disk /\ mounts > 0 /\ mounts' = mounts - 1 /\ helper' = (helper /\ mounts > 1)
      BY <2>9 DEF UnmountByHand, Serviced, files, Umount
    <3>2. mounts' = 0 \/ mounts > 1 BY <2>4, <3>1
    <3> QED BY <2>2, <3>1, <3>2 DEF stays, kept
  <2>10. CASE Break
    <3>1. /\ actions # <<>> /\ ~job.dry_run
          /\ Untouched \/ Halfway(Head(actions))
      BY <2>10 DEF Break, Writes, Head1
    <3>2. /\ actions \in Seq(Actions)
          /\ \A i \in DOMAIN actions : actions[i].op \in {"Run", "RemoveFile", "VerifyUnmounted"}
      BY <1>1, <3>1 DEF IInv, TypeInv, UninstallInv, Performing
    <3>3. ~Halfway(Head(actions)) BY <3>1, <3>2, Rest DEF Halfway
    <3> QED BY <2>5, <3>1, <3>3 DEF Untouched, files, services
  <2>11. CASE Perform
    <3> DEFINE a == Head(actions)
    <3>1. /\ job.dry_run \in BOOLEAN /\ a \in Actions /\ Effect(a) /\ actions # <<>>
      BY <1>1, <2>11, PerformFrame
    <3>2. TypeInv /\ ServiceInv /\ actions \in Seq(Actions) BY <1>1 DEF IInv, TypeInv
    <3>3. a = actions[1] /\ 1 \in DOMAIN actions /\ DOMAIN actions \subseteq Nat
          /\ \A i \in DOMAIN actions : i >= 1
      BY <3>1, <3>2, Rest
    <3> HIDE DEF a
    <3>4. CASE job.dry_run
      <4>1. UNCHANGED <<helper, disk>> BY <3>1, <3>4, EffectRehearsed
      <4> QED BY <2>5, <4>1
    <3>5. CASE tree # "machine" BY <2>3, <3>5
    <3>6. CASE ~job.dry_run /\ tree = "machine"
      <4>1. /\ \A i \in DOMAIN actions : actions[i].op \in {"Run", "RemoveFile", "VerifyUnmounted"}
            /\ (\E i \in DOMAIN actions : actions[i].op = "VerifyUnmounted") \/ mounts = 0
            /\ \A i, j \in DOMAIN actions :
                 actions[i].op = "VerifyUnmounted" /\ actions[j].op = "RemoveFile" => i < j
            /\ \A i \in DOMAIN actions : actions[i] # Run("stop hydrationd.service")
        BY <1>1, <3>6 DEF IInv, UninstallInv, TakeDownInv, Performing, Verifies
      <4>2. ~Placing(a) /\ a # Run("stop hydrationd.service") BY <3>3, <4>1 DEF Placing
      <4>3. mounts' \in 0..MaxMounts /\ mounts' <= mounts BY <3>1, <3>2, EffectOnServices
      <4>4. stays
        <5>1. a.op = "Run" => a.command # "stop hydrationd.service" BY <3>1, <4>2, ActionParts
        <5> QED BY <3>1, <3>2, <4>2, <5>1, HelperFalls DEF stays
      <4>5. kept \/ a.op = "RemoveFile"
        <5>1. unit \in Paths /\ \A u : unit # Wants(u) BY PathsAre, UnitsAre DEF unit
        <5> QED BY <3>1, <3>2, <4>2, <5>1, EffectOnDisk DEF kept
      <4>6. CASE a.op = "RemoveFile"
        <5>1. \A i \in DOMAIN actions : actions[i].op = "VerifyUnmounted" => i < 1
          BY <3>3, <4>1, <4>6
        <5>2. ~\E i \in DOMAIN actions : actions[i].op = "VerifyUnmounted" BY <3>3, <5>1
        <5>3. MaxMounts \in Nat BY ConstantsAssumption
        <5>4. mounts = 0 BY <4>1, <5>2
        <5>5. mounts' = 0 BY <4>3, <5>3, <5>4
        <5> QED BY <2>3, <5>5
      <4> QED BY <2>2, <4>4, <4>5, <4>6
    <3> QED BY <3>1, <3>4, <3>5, <3>6
  <2> QED BY <1>1, <2>6, <2>7, <2>8, <2>9, <2>10, <2>11 DEF Next
<1>2. IInv /\ [Next]_vars => [job.kind = "uninstall" /\ job.mounted => ~FailsOpen]_vars BY <1>1
<1> QED BY <1>2, Invariance, PTL DEF HelperOutlivesMount, Spec

\* Whatever the names: the comparison of texts in `covers` finds an exposure exactly
\* where a file of the device lies under both directories, for directories of any depth.
THEOREM ExposureExact ==
  \A theirs, ours \in Seq(Names) :
    LET row(dir, point) == [dev |-> "disk", dir |-> dir, point |-> point]
    IN Exposures(<<row(theirs, "other"), row(ours, Point)>>, row(ours, Point)) # {}
         <=> Share(theirs, ours)
<1> SUFFICES ASSUME NEW theirs \in Seq(Names), NEW ours \in Seq(Names)
    PROVE  LET row(dir, point) == [dev |-> "disk", dir |-> dir, point |-> point]
           IN Exposures(<<row(theirs, "other"), row(ours, Point)>>, row(ours, Point)) # {}
                <=> Share(theirs, ours)
  OBVIOUS
<1> DEFINE other == [dev |-> "disk", dir |-> theirs, point |-> "other"]
           own == [dev |-> "disk", dir |-> ours, point |-> Point]
           table == <<other, own>>
<1>1. Rows(table) = {other, own}
  <2>1. DOMAIN table = {1, 2} /\ table[1] = other /\ table[2] = own OBVIOUS
  <2> HIDE DEF table, other, own
  <2> QED BY <2>1 DEF Rows
<1>2. /\ other.point # own.point /\ other.dev = own.dev /\ other.dir = theirs
      /\ own.dir = ours
  BY RootAssumption
<1> HIDE DEF table, other, own
<1>3. Exposures(table, own) # {} <=>
        \E row \in Rows(table) : row.point # own.point /\ row.dev = own.dev /\ Share(row.dir, own.dir)
  BY <1>1, <1>2, ExposuresFound
<1>4. Exposures(table, own) # {} <=> Share(theirs, ours) BY <1>1, <1>2, <1>3
<1> QED BY <1>4 DEF table, other, own

\* ... so that a mounted sync root is refused for exposure exactly where some file of it
\* can be reached through another mount (exposures, covers).
THEOREM ExposureIsJudged == Spec => []ExposureJudged
<1>1. \A dir \in Dirs(2) : dir \in Seq(Names) BY DirsAre
<1>2. ExposuresExact BY <1>1, ExposureExact DEF ExposuresExact
<1>3. ExposureJudged BY <1>2 DEF ExposureJudged
<1> QED BY <1>3, PTL

\* The judgment goes on only with readings in which nothing is exposed.
LEMMA JudgedUnexposed == ASSUME NEW judged \in Judged PROVE ~judged.exposed
<1>1. PICK seen \in Readings : CheckExposure(seen) /\ judged.exposed = Exposed(seen) BY DEF Judged
<1> DEFINE ours == Ours(seen)
           others == seen.others
           Mounts == [dev : STRING, dir : Seq(Names), point : STRING \ {Point}]
           table == <<ours>> \o others
<1>2. ours.dir = Root /\ ours.dev = "disk" /\ ours.point = Point BY DEF Ours
<1>3. others \in Seq(Mounts) BY ConstantsAssumption
<1>4. \A row \in Mounts : row.dir \in Seq(Names) /\ row.point # Point OBVIOUS
<1> HIDE DEF ours, others, Mounts
<1>5. \A row \in Rows(others) : row \in Mounts
  <2>1. \A i \in DOMAIN others : others[i] \in Mounts BY <1>3
  <2> QED BY <2>1 DEF Rows
<1>6. Rows(table) = {ours} \cup Rows(others)
  <2> DEFINE All == Mounts \cup {ours}
  <2>1. <<ours>> \in Seq(All) /\ \A x : Holds(<<ours>>, x) <=> x = ours BY OneContains
  <2>2. others \in Seq(All) BY <1>3, Wider
  <2>3. \A x : Holds(table, x) <=> Holds(<<ours>>, x) \/ Holds(others, x) BY <2>1, <2>2, ConcatContains
  <2> HIDE DEF table
  <2> QED BY <2>1, <2>3 DEF Rows, Holds
<1>7. Exposures(table, ours) = {} BY <1>1 DEF CheckExposure, ours, others
<1> HIDE DEF table
<1>8. ~\E row \in Rows(table) : row.point # ours.point /\ row.dev = ours.dev /\ Share(row.dir, ours.dir)
  BY <1>2, <1>4, <1>5, <1>6, <1>7, RootAssumption, ExposuresFound
<1>9. ~Exposed(seen) BY <1>2, <1>4, <1>5, <1>6, <1>8 DEF Exposed, others
<1> QED BY <1>1, <1>9

\* An install that is performed was approved on a mount table in which no other mount
\* reaches a file of the sync root, whatever the machine, at any step of any run.
THEOREM InstallIsUnexposed == Spec => []ApprovedIsUnexposed
<1>1. Init => ApprovedIsUnexposed BY DEF Init, NoJob, ApprovedIsUnexposed
<1>2. ApprovedIsUnexposed /\ [Next]_vars => ApprovedIsUnexposed'
  <2> SUFFICES ASSUME ApprovedIsUnexposed, [Next]_vars PROVE ApprovedIsUnexposed' OBVIOUS
  <2>1. CASE InstallSome
    <3>1. PICK judged \in Judged, opts \in Options : Install(judged, opts) BY <2>1 DEF InstallSome
    <3>2. job' = [kind |-> "install", tray |-> Tray(judged, opts), dry_run |-> opts.dry_run,
                  exposed |-> judged.exposed]
      BY <3>1 DEF Install, Begin
    <3>3. job'.exposed = judged.exposed BY <3>2
    <3> QED BY <3>3, JudgedUnexposed DEF ApprovedIsUnexposed
  <2>2. CASE UninstallSome
    <3>1. job'.kind = "uninstall" BY <2>2 DEF UninstallSome, Uninstall, Begin
    <3> QED BY <3>1 DEF ApprovedIsUnexposed
  <2>3. CASE Break \/ Finish
    <3>1. job'.kind = "none" BY <2>3 DEF Break, Finish, NoJob
    <3> QED BY <3>1 DEF ApprovedIsUnexposed
  <2>4. CASE \/ Perform \/ EditFile \/ EditFstab \/ MountByHand \/ UnmountByHand
             \/ SyncStarts \/ SyncStops \/ Arm \/ Trigger \/ UNCHANGED vars
    <3>1. job' = job
      BY <2>4 DEF Perform, EditFile, EditFstab, MountByHand, UnmountByHand, SyncStarts, SyncStops, Arm,
                  Trigger, Serviced, vars
    <3> QED BY <3>1 DEF ApprovedIsUnexposed
  <2> QED BY <2>1, <2>2, <2>3, <2>4 DEF Next
<1> QED BY <1>1, <1>2, PTL DEF Spec
=============================================================================
