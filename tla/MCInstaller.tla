---------------------------- MODULE MCInstaller ----------------------------
EXTENDS Installer

MCPoint == "/home/u/OneDrive"
MCNames == {<<"a">>, <<"b">>, <<"a", "b">>}
MCRoot == <<<<"a">>>>
MCSpellings == {MCPoint, "/home/u/OneDrive/"}
ExactSpelling == {MCPoint}

Line(point, noauto) == [point |-> point, noauto |-> noauto]
MCFstabs == {<<>>, <<Line(MCPoint, TRUE)>>, <<Line("/", FALSE), Line(MCPoint, FALSE)>>}
Described == {<<Line(MCPoint, TRUE)>>}

Other(dev, dir) == [dev |-> dev, dir |-> dir, point |-> "/mnt"]
Sound == [fstype |-> "btrfs", links |-> "unreadable", tables |-> "equal", answer |-> "accepted", release |-> <<6, 14>>,
          others |-> <<Other("disk", <<<<"a", "b">>>>), Other("other", MCRoot)>>, bus |-> TRUE, asker |-> "root", owner |-> "false",
          activatable |-> "true", plasmoid |-> FALSE, missing |-> {},
          sandboxing |-> {"onedrive-hydration.service"}]
\* The sound machine, the ones that differ in one measurement, and an unprivileged look.
MCReadings ==
  {Sound}
  \union {[Sound EXCEPT !.links = l, !.tables = t] : l, t \in {"equal", "differ", "unreadable"}}
  \union {[Sound EXCEPT !.answer = a, !.release = r] :
            a \in {"EOPNOTSUPP", "EINVAL", "no_group_EPERM", "other"}, r \in {<<>>, <<5, 15>>, <<6, 13>>, <<6, 14>>, <<7, 0>>}}
  \union {[Sound EXCEPT !.others = <<Other("disk", dir)>>] : dir \in Dirs(2)}
  \union {[Sound EXCEPT !.others = Sound.others \o <<Other("disk", dir)>>] : dir \in Dirs(1)}
  \union {[Sound EXCEPT !.bus = b, !.asker = u, !.owner = o, !.activatable = a] :
            b \in BOOLEAN, u \in {"root", "user", "stranger"}, o, a \in {"true", "false", "error"}}
  \union {[Sound EXCEPT !.plasmoid = TRUE], [Sound EXCEPT !.missing = {"onedrive-hydration-tray"}],
          [Sound EXCEPT !.missing = {"hydrationd"}], [Sound EXCEPT !.fstype = "tmpfs"], [Sound EXCEPT !.sandboxing = {"hydrationd.service"}]}
SoundOnly == {Sound}
=============================================================================
