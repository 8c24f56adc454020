---------------------------- MODULE SharedLemmas ----------------------------
(* Lemmas that the proofs of several components need: induction and         *)
(* recursion over the numbers, sequences, and the states that the service   *)
(* publishes and the tray receives (ControlSurface).                        *)
EXTENDS ControlSurface, WellFoundedInduction, TLAPS

-----------------------------------------------------------------------------
(* Numbers.  The sets stand for predicates and the functions for operators. *)

\* A set of numbers that is not empty has a least.
LEMMA Least == ASSUME NEW T \in SUBSET Nat, T # {} PROVE \E m \in T : \A n \in T : ~(n < m)
<1>1. \E m \in T : \A n \in T : ~(<<n, m>> \in OpToRel(<, Nat)) BY NatLessThanWellFounded, WFMin
<1>2. \A m, n \in T : <<n, m>> \in OpToRel(<, Nat) <=> n < m BY DEF OpToRel
<1> QED BY <1>1, <1>2

\* Induction, of a set in place of a predicate.
LEMMA Induction ==
  ASSUME NEW T, 0 \in T, \A n \in Nat : n \in T => n + 1 \in T
  PROVE  \A n \in Nat : n \in T
<1> DEFINE U == Nat \ T
<1> SUFFICES ASSUME U # {} PROVE FALSE OBVIOUS
<1>1. PICK m \in U : \A n \in U : ~(n < m) BY Least
<1>2. m # 0 BY <1>1
<1>3. m - 1 \in Nat /\ m - 1 < m /\ m = (m - 1) + 1 BY <1>1, <1>2
<1>4. m - 1 \in T BY <1>1, <1>3
<1> QED BY <1>1, <1>3, <1>4

\* The first n steps of a recursion that starts at base.
Steps(S, base, step, n) ==
  {g \in [0..n -> S] : g[0] = base /\ \A i \in 0..(n - 1) : g[i + 1] = step[i][g[i]]}

LEMMA StepsAgree ==
  ASSUME NEW S, NEW base \in S, NEW step \in [Nat -> [S -> S]], NEW m \in Nat, NEW n \in Nat,
         NEW g \in Steps(S, base, step, m), NEW h \in Steps(S, base, step, n)
  PROVE  \A i \in Nat : i <= m /\ i <= n => g[i] = h[i]
<1> DEFINE T == {i \in Nat : i <= m /\ i <= n => g[i] = h[i]}
<1>1. 0 \in T BY DEF Steps
<1>2. ASSUME NEW i \in Nat, i \in T PROVE i + 1 \in T
  <2> SUFFICES ASSUME i + 1 <= m, i + 1 <= n PROVE g[i + 1] = h[i + 1] OBVIOUS
  <2>1. i \in 0..(m - 1) /\ i \in 0..(n - 1) /\ g[i] = h[i] BY <1>2
  <2> QED BY <2>1 DEF Steps
<1> HIDE DEF T
<1>3. \A i \in Nat : i \in T BY <1>1, <1>2, Induction
<1> QED BY <1>3 DEF T

LEMMA StepsExist ==
  ASSUME NEW S, NEW base \in S, NEW step \in [Nat -> [S -> S]]
  PROVE  \A n \in Nat : Steps(S, base, step, n) # {}
<1> DEFINE T == {n \in Nat : Steps(S, base, step, n) # {}}
<1>1. 0 \in T
  <2>1. [i \in 0..0 |-> base] \in Steps(S, base, step, 0) BY DEF Steps
  <2> QED BY <2>1
<1>2. ASSUME NEW n \in Nat, n \in T PROVE n + 1 \in T
  <2>1. PICK g : g \in Steps(S, base, step, n) BY <1>2
  <2> DEFINE h == [i \in 0..(n + 1) |-> IF i = n + 1 THEN step[n][g[n]] ELSE g[i]]
  <2>2. g \in [0..n -> S] /\ g[0] = base /\ \A i \in 0..(n - 1) : g[i + 1] = step[i][g[i]]
    BY <2>1 DEF Steps
  <2>3. step[n][g[n]] \in S
    <3>1. g[n] \in S BY <2>2
    <3> QED BY <3>1
  <2>4. h \in [0..(n + 1) -> S]
    <3>1. \A i \in 0..(n + 1) : i # n + 1 => i \in 0..n OBVIOUS
    <3> QED BY <2>2, <2>3, <3>1
  <2>5. h[0] = base BY <2>2
  <2>6. ASSUME NEW i \in 0..n PROVE h[i + 1] = step[i][h[i]]
    <3>1. h[i] = g[i] /\ i \in 0..(n + 1) /\ i + 1 \in 0..(n + 1) OBVIOUS
    <3>2. CASE i = n BY <3>1, <3>2
    <3>3. CASE i # n
      <4>1. i \in 0..(n - 1) /\ i + 1 # n + 1 BY <3>3
      <4> QED BY <2>2, <3>1, <4>1
    <3> QED BY <3>2, <3>3
  <2> HIDE DEF h
  <2>7. h \in Steps(S, base, step, n + 1) 
    <3>1. (n + 1) - 1 = n OBVIOUS
    <3> QED BY <2>4, <2>5, <2>6, <3>1 DEF Steps
  <2> QED BY <2>7
<1> HIDE DEF T
<1>3. \A n \in Nat : n \in T BY <1>1, <1>2, Induction
<1> QED BY <1>3 DEF T

\* Recursion over the numbers defines a function.
Recursive(S, base, step) ==
  {f \in [Nat -> S] : f[0] = base /\ \A n \in Nat : f[n + 1] = step[n][f[n]]}

LEMMA Recursion ==
  ASSUME NEW S, NEW base \in S, NEW step \in [Nat -> [S -> S]]
  PROVE  \E f : f \in Recursive(S, base, step)
<1> DEFINE run(n) == CHOOSE g : g \in Steps(S, base, step, n)
           f == [n \in Nat |-> run(n)[n]]
<1>1. ASSUME NEW n \in Nat PROVE run(n) \in Steps(S, base, step, n) BY StepsExist
<1> HIDE DEF run
<1>2. ASSUME NEW n \in Nat
      PROVE  run(n) \in [0..n -> S] /\ run(n)[0] = base
             /\ \A i \in 0..(n - 1) : run(n)[i + 1] = step[i][run(n)[i]]
  BY <1>1 DEF Steps
<1>3. f \in [Nat -> S] BY <1>2
<1>4. f[0] = base BY <1>2
<1>5. ASSUME NEW n \in Nat PROVE f[n + 1] = step[n][f[n]]
  <2>1. run(n + 1)[n + 1] = step[n][run(n + 1)[n]]
    <3>1. n + 1 \in Nat /\ n \in 0..((n + 1) - 1) OBVIOUS
    <3> QED BY <1>2, <3>1
  <2>2. run(n + 1)[n] = run(n)[n]
    <3>1. n + 1 \in Nat /\ n <= n + 1 /\ n <= n OBVIOUS
    <3> QED BY <1>1, <3>1, StepsAgree
  <2> QED BY <2>1, <2>2
<1> HIDE DEF f
<1>6. f \in Recursive(S, base, step) BY <1>3, <1>4, <1>5 DEF Recursive
<1> QED BY <1>6
-----------------------------------------------------------------------------
(* Sequences, and what they hold.                                           *)

Holds(s, x) == \E n \in DOMAIN s : s[n] = x

LEMMA Concat ==
  ASSUME NEW S, NEW s \in Seq(S), NEW t \in Seq(S)
  PROVE  /\ s \o t \in Seq(S) /\ Len(s \o t) = Len(s) + Len(t) /\ Len(s) \in Nat /\ Len(t) \in Nat
         /\ DOMAIN s = 1..Len(s) /\ DOMAIN t = 1..Len(t) /\ DOMAIN (s \o t) = 1..(Len(s) + Len(t))
         /\ \A n \in DOMAIN s : n \in DOMAIN (s \o t) /\ (s \o t)[n] = s[n]
         /\ \A n \in DOMAIN t : n + Len(s) \in DOMAIN (s \o t) /\ (s \o t)[n + Len(s)] = t[n]
         /\ \A n \in DOMAIN (s \o t) : n \in DOMAIN s \/ (n - Len(s) \in DOMAIN t /\ n > Len(s))
         /\ \A n \in DOMAIN (s \o t) : n > Len(s) => (s \o t)[n] = t[n - Len(s)]
         /\ \A x : Holds(s \o t, x) <=> Holds(s, x) \/ Holds(t, x)
<1>1. /\ s \o t \in Seq(S) /\ Len(s \o t) = Len(s) + Len(t) /\ Len(s) \in Nat /\ Len(t) \in Nat
      /\ DOMAIN s = 1..Len(s) /\ DOMAIN t = 1..Len(t) /\ DOMAIN (s \o t) = 1..(Len(s) + Len(t))
  OBVIOUS
<1>2. /\ \A n \in DOMAIN s : n \in DOMAIN (s \o t) /\ (s \o t)[n] = s[n]
      /\ \A n \in DOMAIN t : n + Len(s) \in DOMAIN (s \o t) /\ (s \o t)[n + Len(s)] = t[n]
  OBVIOUS
<1>3. ASSUME NEW n \in DOMAIN (s \o t)
      PROVE  /\ n \in DOMAIN s \/ (n - Len(s) \in DOMAIN t /\ n > Len(s))
             /\ n - Len(s) \in DOMAIN t => n = (n - Len(s)) + Len(s)
  BY <1>1
<1>4. \A n \in DOMAIN (s \o t) : n > Len(s) => (s \o t)[n] = t[n - Len(s)] BY <1>1
<1>5. \A x : Holds(s \o t, x) <=> Holds(s, x) \/ Holds(t, x) BY <1>2, <1>3 DEF Holds
<1> QED BY <1>1, <1>2, <1>3, <1>4, <1>5

LEMMA HeldAreMembers ==
  ASSUME NEW S, NEW s \in Seq(S)
  PROVE  \A x : Holds(s, x) => x \in S
BY DEF Holds

LEMMA ConcatContains ==
  ASSUME NEW S, NEW s \in Seq(S), NEW t \in Seq(S)
  PROVE  /\ s \o t \in Seq(S) /\ Len(s \o t) = Len(s) + Len(t)
         /\ \A x : Holds(s \o t, x) <=> Holds(s, x) \/ Holds(t, x)
BY Concat

LEMMA OneContains ==
  ASSUME NEW S, NEW x \in S
  PROVE  /\ <<x>> \in Seq(S) /\ Len(<<x>>) = 1 /\ \A y : Holds(<<x>>, y) <=> y = x
         /\ << >> \in Seq(S) /\ Len(<< >>) = 0 /\ \A y : ~Holds(<< >>, y)
BY DEF Holds
LEMMA Wider == ASSUME NEW S, NEW T, S \subseteq T, NEW s \in Seq(S) PROVE s \in Seq(T) /\ Len(s) \in Nat
OBVIOUS

LEMMA SameSequence ==
  ASSUME NEW S, NEW s \in Seq(S), NEW t \in Seq(S), Len(s) = Len(t), \A i \in 1..Len(s) : s[i] = t[i]
  PROVE  s = t
<1>1. Len(s) \in Nat /\ s = [i \in 1..Len(s) |-> s[i]] /\ t = [i \in 1..Len(t) |-> t[i]] OBVIOUS
<1> QED BY <1>1

\* A name after a mark after a text.
LEMMA Joined ==
  ASSUME NEW S, NEW mark \in S, NEW s \in Seq(S), NEW t \in Seq(S), NEW r, r = (s \o <<mark>>) \o t
  PROVE  /\ r \in Seq(S) /\ Len(r) = Len(s) + 1 + Len(t) /\ Len(s) \in Nat /\ Len(t) \in Nat
         /\ \A i \in 1..Len(s) : r[i] = s[i]
         /\ r[Len(s) + 1] = mark
         /\ \A i \in 1..Len(t) : r[Len(s) + 1 + i] = t[i]
<1> DEFINE m == <<mark>>
<1>1. m \in Seq(S) /\ Len(m) = 1 /\ m[1] = mark OBVIOUS
<1> HIDE DEF m
<1>2. /\ s \o m \in Seq(S) /\ Len(s \o m) = Len(s) + 1 /\ Len(s) \in Nat
      /\ \A i \in 1..Len(s) : (s \o m)[i] = s[i]
      /\ (s \o m)[Len(s) + 1] = mark
  <2>0. Len(s) \in Nat OBVIOUS
  <2>1. s \o m \in Seq(S) /\ Len(s \o m) = Len(s) + Len(m) BY <1>1, ConcatContains
  <2>2. \A i \in 1..Len(s) : (s \o m)[i] = s[i] BY <1>1
  <2>3. (s \o m)[Len(s) + 1] = m[(Len(s) + 1) - Len(s)] BY <1>1, <2>0, <2>1
  <2>4. (Len(s) + 1) - Len(s) = 1 BY <2>0
  <2> QED BY <1>1, <2>0, <2>1, <2>2, <2>3, <2>4
<1> DEFINE sm == s \o m
<1> HIDE DEF sm
<1>3. /\ sm \in Seq(S) /\ Len(sm) = Len(s) + 1 /\ Len(s) \in Nat
      /\ \A i \in 1..Len(s) : sm[i] = s[i]
      /\ sm[Len(s) + 1] = mark
  BY <1>2 DEF sm
<1>4. r = sm \o t BY DEF sm, m
<1>5. /\ r \in Seq(S) /\ Len(r) = Len(sm) + Len(t) /\ Len(t) \in Nat
      /\ \A i \in 1..Len(sm) : r[i] = sm[i]
      /\ \A i \in 1..Len(t) : r[Len(sm) + i] = t[i]
  BY <1>3, <1>4
<1> QED BY <1>3, <1>5
-----------------------------------------------------------------------------
(* The states of the daemon.                                                *)

DaemonFields == {"daemon_running", "unsent", "excluded", "exposures", "downloading", "indexing",
           "uploading"}

\* A value is a state of the daemon: a function, defined on the seven fields.
IsDaemonState(s) == s = [k \in DaemonFields |-> s[k]]

LEMMA DefaultIsState == IsDaemonState(DefaultState) /\ DOMAIN DefaultState = DaemonFields
BY DEF IsDaemonState, DefaultState, DaemonFields

LEMMA StateFields == ASSUME NEW s, IsDaemonState(s) PROVE DOMAIN s = DaemonFields
BY DEF IsDaemonState

LEMMA SameState ==
  ASSUME NEW s, NEW t, IsDaemonState(s), IsDaemonState(t), \A k \in DaemonFields : s[k] = t[k] PROVE s = t
BY DEF IsDaemonState

LEMMA OverlayIsState == ASSUME NEW partial, NEW s, IsDaemonState(s) PROVE IsDaemonState(Overlay(partial, s))
BY StateFields DEF IsDaemonState, Overlay
-----------------------------------------------------------------------------
(* What the signals of a change carry, and what is heard of them.           *)

LEMMA MaxOfFour == ASSUME NEW S \in SUBSET (1..4), S # {} PROVE Max(S) \in S
<1>1. \E x \in S : \A y \in S : x >= y
  <2>0. S \subseteq {1, 2, 3, 4} OBVIOUS
  <2>1. CASE 4 \in S BY <2>1
  <2>2. CASE 4 \notin S /\ 3 \in S BY <2>2
  <2>3. CASE 4 \notin S /\ 3 \notin S /\ 2 \in S BY <2>3
  <2>4. CASE 4 \notin S /\ 3 \notin S /\ 2 \notin S
    <3>1. S = {1} BY <2>0, <2>4
    <3> QED BY <3>1
  <2> QED BY <2>1, <2>2, <2>3, <2>4
<1> QED BY <1>1 DEF Max

\* Of signals that carry values of a new state, and all that differ from the old.
LEMMA HearCarried ==
  ASSUME NEW old, NEW new, IsDaemonState(old), IsDaemonState(new), NEW signals, DOMAIN signals \subseteq 1..4,
         \A n \in DOMAIN signals : \A k \in DOMAIN signals[n].args : signals[n].args[k] = new[k],
         \A k \in DaemonFields : old[k] = new[k] \/ \E n \in DOMAIN signals : k \in DOMAIN signals[n].args
  PROVE  Hear(old, signals) = new
<1> DEFINE carrying(k) == {n \in DOMAIN signals : k \in DOMAIN signals[n].args}
<1>1. Hear(old, signals) =
        [k \in DaemonFields |-> IF carrying(k) = {} THEN old[k] ELSE signals[Max(carrying(k))].args[k]]
  BY StateFields DEF Hear
<1>2. ASSUME NEW k \in DaemonFields
      PROVE  (IF carrying(k) = {} THEN old[k] ELSE signals[Max(carrying(k))].args[k]) = new[k]
  <2>1. CASE carrying(k) = {} BY <2>1
  <2>2. CASE carrying(k) # {}
    <3>1. carrying(k) \in SUBSET (1..4) OBVIOUS
    <3>2. Max(carrying(k)) \in carrying(k) BY <2>2, <3>1, MaxOfFour
    <3> QED BY <2>2, <3>2
  <2> QED BY <2>1, <2>2
<1> HIDE DEF carrying
<1>3. Hear(old, signals) = [k \in DaemonFields |-> new[k]] BY <1>1, <1>2
<1> QED BY <1>3 DEF IsDaemonState

\* The signals of a change: the counters', and one of each activity that moved.
LEMMA SignalsOfChange ==
  ASSUME NEW old, NEW new
  PROVE  /\ DOMAIN StateSignals(old, new) \subseteq 1..4
         /\ \A x : Holds(StateSignals(old, new), x) <=>
              \/ x = Signal("StateChanged", StateChangedFields, new)
              \/ old["downloading"] # new["downloading"]
                 /\ x = Signal("DownloadChanged", {"downloading"}, new)
              \/ old["indexing"] # new["indexing"] /\ x = Signal("IndexingChanged", {"indexing"}, new)
              \/ old["uploading"] # new["uploading"]
                 /\ x = Signal("ActiveUploadsChanged", {"uploading"}, new)
<1> DEFINE signals == StateSignals(old, new)
           a == Signal("StateChanged", StateChangedFields, new)
           d == Signal("DownloadChanged", {"downloading"}, new)
           i == Signal("IndexingChanged", {"indexing"}, new)
           u == Signal("ActiveUploadsChanged", {"uploading"}, new)
           D == Announce("DownloadChanged", "downloading", old, new)
           I == Announce("IndexingChanged", "indexing", old, new)
           U == Announce("ActiveUploadsChanged", "uploading", old, new)
           A == <<a>>
           DI == D \o I
           DIU == DI \o U
           S == {a, d, i, u}
<1>1. signals = A \o DIU BY DEF StateSignals, Announcements
<1>2. /\ D = IF old["downloading"] = new["downloading"] THEN <<>> ELSE <<d>>
      /\ I = IF old["indexing"] = new["indexing"] THEN <<>> ELSE <<i>>
      /\ U = IF old["uploading"] = new["uploading"] THEN <<>> ELSE <<u>>
  BY DEF Announce
<1>3. {a, d, i, u} \subseteq S OBVIOUS
<1> HIDE DEF DIU
<1> HIDE DEF DI
<1> HIDE DEF signals, A, D, I, U, a, d, i, u, S
<1>4. /\ A \in Seq(S) /\ Len(A) = 1 /\ \A x : Holds(A, x) <=> x = a
  BY <1>3, OneContains DEF A
<1>5. /\ D \in Seq(S) /\ Len(D) \in 0..1
      /\ \A x : Holds(D, x) <=> old["downloading"] # new["downloading"] /\ x = d
  BY <1>2, <1>3, OneContains
<1>6. /\ I \in Seq(S) /\ Len(I) \in 0..1
      /\ \A x : Holds(I, x) <=> old["indexing"] # new["indexing"] /\ x = i
  BY <1>2, <1>3, OneContains
<1>7. /\ U \in Seq(S) /\ Len(U) \in 0..1
      /\ \A x : Holds(U, x) <=> old["uploading"] # new["uploading"] /\ x = u
  BY <1>2, <1>3, OneContains
<1>8. /\ DI \in Seq(S) /\ Len(DI) = Len(D) + Len(I)
      /\ \A x : Holds(DI, x) <=> Holds(D, x) \/ Holds(I, x)
  BY <1>5, <1>6, ConcatContains DEF DI
<1>9. /\ DIU \in Seq(S) /\ Len(DIU) = Len(DI) + Len(U)
      /\ \A x : Holds(DIU, x) <=> Holds(DI, x) \/ Holds(U, x)
  BY <1>7, <1>8, ConcatContains DEF DIU
<1>10. /\ signals \in Seq(S) /\ Len(signals) = Len(A) + Len(DIU)
       /\ \A x : Holds(signals, x) <=> Holds(A, x) \/ Holds(DIU, x)
  BY <1>1, <1>4, <1>9, ConcatContains
<1>11. DOMAIN signals \subseteq 1..4
  <2>1. DOMAIN signals = 1..Len(signals) BY <1>10
  <2>2. \A l, m, n \in 0..1 : 1 + ((l + m) + n) \in 1..4 OBVIOUS
  <2>3. Len(signals) \in 1..4 BY <1>4, <1>5, <1>6, <1>7, <1>8, <1>9, <1>10, <2>2
  <2> QED BY <2>1, <2>3
<1>12. \A x : Holds(signals, x) <=>
         \/ x = a
         \/ old["downloading"] # new["downloading"] /\ x = d
         \/ old["indexing"] # new["indexing"] /\ x = i
         \/ old["uploading"] # new["uploading"] /\ x = u
  BY <1>4, <1>5, <1>6, <1>7, <1>8, <1>9, <1>10
<1> QED BY <1>11, <1>12 DEF signals, a, d, i, u

\* Who knew the old state and hears the signals of a change knows the new one.
LEMMA SignalsCarryAll ==
  ASSUME NEW old, NEW new, IsDaemonState(old), IsDaemonState(new)
  PROVE  Hear(old, StateSignals(old, new)) = new
<1> DEFINE signals == StateSignals(old, new)
           a == Signal("StateChanged", StateChangedFields, new)
           d == Signal("DownloadChanged", {"downloading"}, new)
           i == Signal("IndexingChanged", {"indexing"}, new)
           u == Signal("ActiveUploadsChanged", {"uploading"}, new)
<1>1. /\ a.args = [k \in StateChangedFields |-> new[k]]
      /\ d.args = [k \in {"downloading"} |-> new[k]]
      /\ i.args = [k \in {"indexing"} |-> new[k]]
      /\ u.args = [k \in {"uploading"} |-> new[k]]
  BY DEF Signal
<1>2. /\ DOMAIN signals \subseteq 1..4
      /\ \A x : Holds(signals, x) <=>
           \/ x = a
           \/ old["downloading"] # new["downloading"] /\ x = d
           \/ old["indexing"] # new["indexing"] /\ x = i
           \/ old["uploading"] # new["uploading"] /\ x = u
  BY SignalsOfChange
<1> HIDE DEF signals, a, d, i, u
<1>3. ASSUME NEW n \in DOMAIN signals
      PROVE  \A k \in DOMAIN signals[n].args : signals[n].args[k] = new[k]
  <2>1. signals[n] \in {a, d, i, u} BY <1>2 DEF Holds
  <2> QED BY <1>1, <2>1
<1>4. ASSUME NEW k \in DaemonFields, old[k] # new[k]
      PROVE  \E n \in DOMAIN signals : k \in DOMAIN signals[n].args
  <2>1. \E x \in {a, d, i, u} : k \in DOMAIN x.args /\ Holds(signals, x)
    <3>1. CASE k \in StateChangedFields BY <1>1, <1>2, <3>1
    <3>2. CASE k = "downloading" BY <1>1, <1>2, <1>4, <3>2
    <3>3. CASE k = "indexing" BY <1>1, <1>2, <1>4, <3>3
    <3>4. CASE k = "uploading" BY <1>1, <1>2, <1>4, <3>4
    <3> QED BY <3>1, <3>2, <3>3, <3>4 DEF DaemonFields, StateChangedFields
  <2> QED BY <2>1 DEF Holds
<1> QED BY <1>2, <1>3, <1>4, HearCarried DEF signals
=============================================================================
