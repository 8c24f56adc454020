------------------------------- MODULE Probes -------------------------------
(***************************************************************************)
(* The installer's measurements: probes.rs of the installer crate, each    *)
(* function from what the machine answers to what the plan is told.        *)
(*                                                                         *)
(* A text that the code takes apart is the sequence of its letters, "/"    *)
(* among them; a directory is the sequence of its names.  A row of the     *)
(* mount table is [dev, dir, point]: the device, the directory of it that  *)
(* the mount exposes, and the mount point, which is only ever compared.    *)
(* A line of fstab is [point, noauto]: lines of less than four fields and  *)
(* comments are left out, and mount points have no blanks.                 *)
(***************************************************************************)
EXTENDS Integers, FiniteSets, SequencesExt

CONSTANTS
  Point,     \* the sync root's mount point, as the mount table writes it
  Names,     \* the names a directory is made of: sequences of letters
  Root       \* the directory of its device that the sync root's mount exposes

ASSUME RootAssumption ==
  /\ Names \subseteq Seq(STRING \ {"/"}) \ {<<>>} /\ Root \in Seq(Names)
  /\ Point \in STRING /\ Point # "other"    \* an absolute path

\* The texts of the first n names of a directory.
Texts(dir) ==
  LET upto[n \in 0..Len(dir)] == IF n = 0 THEN <<>> ELSE (upto[n - 1] \o <<"/">>) \o dir[n]
  IN upto
Text(dir) == IF dir = <<>> THEN <<"/">> ELSE Texts(dir)[Len(dir)]

Rows(table) == {table[i] : i \in DOMAIN table}

CoversLetters(outer, inner) == outer = <<"/">> \/ IsPrefix(outer, inner)     \* mutant
Covers(outer, inner) ==
  \/ outer = <<"/">> \/ outer = inner
  \/ IsPrefix(outer, inner) /\ Len(outer) < Len(inner) /\ inner[Len(outer) + 1] = "/"

\* The other mount points through which a sync file can be reached.
Exposures(table, ours) ==
  {row.point : row \in {r \in Rows(table) : /\ r.point # ours.point /\ r.dev = ours.dev
                                            /\ \/ Covers(Text(r.dir), Text(ours.dir))
                                               \/ Covers(Text(ours.dir), Text(r.dir))}}

\* A release is the numbers it starts with, <<>> when it has none or is not known.
SupportFromRelease(release) ==
  IF Len(release) < 2 THEN "Unknown"
  ELSE IF release[1] > 6 \/ (release[1] = 6 /\ release[2] >= 14) THEN "Inferred"
  ELSE "TooOldInferred"

\* What the kernel said to a mark on a file of the probe's own.
KernelSupport(answer, release) ==
  CASE answer \in {"accepted", "EOPNOTSUPP"} -> "Measured"
    [] answer = "EINVAL" -> "TooOldMeasured"
    [] answer = "no_group_EPERM" -> SupportFromRelease(release)
    [] OTHER -> "Unknown"

\* Namespace links first, mount tables when a link cannot be read.
Vantage(links, tables) ==
  LET compared == IF links = "unreadable" THEN tables ELSE links
  IN CASE compared = "equal" -> "Host"
       [] compared = "differ" -> "Sandboxed"
       [] OTHER -> "Unknown"

\* The session bus is asked as its user: directly, by runuser as root, or not at all.
SecretService(bus, asker, owner, activatable) ==
  IF ~bus THEN "Unreachable"
  ELSE IF asker = "stranger" THEN "Unverifiable"
  ELSE CASE owner = "true" -> "Owned"
         [] owner = "false" /\ activatable = "true" -> "Activatable"
         [] OTHER -> "Unreachable"

\* The first line of the sync root decides.
FstabEntry(lines, mount) ==
  LET hits == {i \in DOMAIN lines : lines[i].point = mount}
  IN IF hits = {} THEN "Absent"
     ELSE IF lines[Min(hits)].noauto THEN "NoAuto" ELSE "Automatic"

FstabSuggestion(point) == [point |-> point, noauto |-> TRUE]

\* Staged under the prefix, or the machine's own: also for fstab in observe.
Observed(staged, missing, machine) == IF staged # missing THEN staged ELSE machine

(***************************************************************************)
(* What an exposure is: some file of the device lies under both.           *)
(***************************************************************************)
Dirs(depth) == UNION {[1..n -> Names] : n \in 0..depth}
Share(dir1, dir2) ==
  \E file \in Dirs(Max({Len(dir1), Len(dir2)})) : IsPrefix(dir1, file) /\ IsPrefix(dir2, file)

\* The comparison of texts against that, for every two directories.
ExposuresExact ==
  \A theirs, ours \in Dirs(2) :
    LET row(dir, point) == [dev |-> "disk", dir |-> dir, point |-> point]
    IN Exposures(<<row(theirs, "other"), row(ours, Point)>>, row(ours, Point)) # {}
         <=> Share(theirs, ours)
=============================================================================
