---------------------------- MODULE FlyoutProofs ----------------------------
(* Theorems about Flyout, for every number of daemons, services, jobs and    *)
(* messages under way.                                                       *)
EXTENDS Flyout, TLAPS
-----------------------------------------------------------------------------
(* What the poll thread produces.                                            *)

\* A daemon that was in its life `of` had changed its content this often.
Reached(d, of, changes) == d.of < of \/ (d.of = of /\ d.content <= changes)

\* A desktop state of the past: no later than the daemon's present one, nor
\* than the answer that is about to be published.
Past(d) ==
  /\ d \in Desktops
  /\ d.available => Reached(d, life, content)
  /\ (d.available /\ answer.available) => Reached(d, answer.of, answer.content)

Jobs == [id : 0..MaxJobs, running : BOOLEAN]

MachineOK ==
  /\ life \in 0..MaxLives /\ stage \in {"down", "discovering", "serving"}
  /\ content \in Contents /\ profile \in 0..life /\ at \in {"asleep", "asked"}
  /\ job \in Jobs /\ last_job \in Jobs /\ (stage # "down" => life > 0)

\* The profile of an earlier daemon is gone before one answers, and comes no more.
AccountOK ==
  /\ stage = "serving" => profile \in {0, life}
  /\ answer \in Answers
  /\ answer.available => /\ answer.of <= life /\ Reached(answer, life, content)
                         /\ profile \in {0} \cup (answer.of..life)
  /\ Past(desktop_state) /\ NoPreviousAccount

PollInv == MachineOK /\ AccountOK
-----------------------------------------------------------------------------
(* What is under way to the flyout.                                          *)

Followed == {"desktop", "job"}
Current(kind) == IF kind = "desktop" THEN desktop_state ELSE job
Later(kind, old, new) == IF kind = "desktop" THEN NotOlder(old, new) ELSE JobNotOlder(old, new)

NotBehind(kind, a, b) == a.by <= b.by /\ (a.by = b.by => Later(kind, a.value, b.value))

\* Something a process of the service said, at the latest now.
SaidOf(kind, v) ==
  /\ v.by \in 0..service
  /\ IF kind = "desktop" THEN Past(v.value) ELSE v.value \in Jobs
  /\ (up /\ v.by = service) => Later(kind, v.value, Current(kind))

Says == [by : Nat, value : BOOLEAN \cup Desktops \cup Jobs]
Messages == (Kinds \X Says) \cup ({"reply"} \X Slots) \cup ({"came", "done", "gone"} \X Nat)

\* What a message would show of a kind.
Carries(m, kind) == m[1] = kind \/ (m[1] = "reply" /\ kind \in reads[m[2]].fresh)
Carried(m, kind) == IF m[1] = "reply" THEN reads[m[2]].sample[kind] ELSE m[2]

IsRead(read) == read = [at |-> read.at, fresh |-> read.fresh, sample |-> read.sample]
Answering(read) == read.at \in {"sampled", "replied"}

ShapeOK ==
  /\ up \in BOOLEAN /\ service \in Nat /\ running \in BOOLEAN
  /\ wire \in Seq(Messages) /\ DOMAIN shown = Kinds
  /\ DOMAIN reads = Slots
  /\ \A r \in Slots : /\ IsRead(reads[r]) /\ reads[r].fresh \subseteq Kinds
                      /\ Answering(reads[r]) => reads[r].fresh \subseteq DOMAIN reads[r].sample

ReadsOK ==
  \A r \in Slots : Answering(reads[r]) => \A kind \in reads[r].fresh \cap Followed :
    SaidOf(kind, reads[r].sample[kind]) /\ NotBehind(kind, shown[kind], reads[r].sample[kind])

\* Each read that was replied to has its one reply under way.
RepliesOK ==
  \A i \in DOMAIN wire : wire[i][1] = "reply" =>
    /\ wire[i][2] \in Slots /\ reads[wire[i][2]].at = "replied"
    /\ \A j \in DOMAIN wire : (wire[j][1] = "reply" /\ wire[j][2] = wire[i][2]) => j = i

\* No signal is behind what is shown, nor behind what would be shown before it.
SignalsOK ==
  \A j \in DOMAIN wire : \A kind \in Followed : wire[j][1] = kind =>
    /\ SaidOf(kind, wire[j][2]) /\ NotBehind(kind, shown[kind], wire[j][2])
    /\ \A i \in DOMAIN wire : (i < j /\ Carries(wire[i], kind)) =>
         NotBehind(kind, Carried(wire[i], kind), wire[j][2])

ShownOK == \A kind \in Followed : SaidOf(kind, shown[kind])

FlyoutInv == ShapeOK /\ ReadsOK /\ RepliesOK /\ SignalsOK /\ ShownOK
IInv == PollInv /\ FlyoutInv
-----------------------------------------------------------------------------
(* The poll thread and the machine.                                          *)

LEMMA PastRange ==
  ASSUME NEW d \in Desktops, d.available
  PROVE  /\ d.of \in 1..MaxLives /\ d.content \in Contents /\ d.account \in 0..MaxLives
<1>1. ~Unavailable.available BY DEF Unavailable
<1>2. d \in [available : {TRUE}, of : 1..MaxLives, content : Contents, account : 0..MaxLives]
  BY <1>1 DEF Desktops
<1> QED BY <1>2

LEMMA AnswerRange ==
  ASSUME NEW d \in Answers, d.available
  PROVE  d.of \in 1..MaxLives /\ d.content \in Contents
<1>1. ~Unavailable.available BY DEF Unavailable
<1>2. d \in [available : {TRUE}, of : 1..MaxLives, content : Contents] BY <1>1 DEF Answers
<1> QED BY <1>2

LEMMA UnavailableIsState ==
  /\ Unavailable \in Desktops /\ Unavailable \in Answers /\ ~Unavailable.available
BY DEF Unavailable, Desktops, Answers

LEMMA InitPoll == ASSUME Init PROVE PollInv
<1> USE DEF Init
<1>1. 0 \in 0..MaxLives /\ 0 \in Contents /\ 0 \in 0..MaxJobs BY ConstantsAssumption DEF Contents
<1>2. NoJob \in Jobs BY <1>1 DEF NoJob, Jobs
<1>3. MachineOK BY <1>1, <1>2 DEF MachineOK
<1>4. AccountOK BY UnavailableIsState DEF AccountOK, Past, NoPreviousAccount
<1> QED BY <1>3, <1>4 DEF PollInv

\* A step of the daemon: what was past stays past.
LEMMA DaemonPast ==
  ASSUME PollInv, Daemon
  PROVE  PollInv' /\ UNCHANGED <<answer, desktop_state, job>> /\ \A d : Past(d) => Past(d)'
<1> USE DEF PollInv
<1>1. UNCHANGED <<at, answer, job, last_job, desktop_state>>
  BY DEF Daemon, Start, Serve, End, WriteProfile, Change
<1>2. /\ life' \in life..MaxLives /\ content' \in content..MaxChanges
      /\ stage' \in {"down", "discovering", "serving"} /\ (stage' # "down" => life' > 0)
      /\ \/ profile' = profile
         \/ (stage' = "serving" /\ profile' \in {0, life'})
      /\ (stage' = "serving" => \/ profile' \in {0, life'}
                                \/ (stage = "serving" /\ life' = life))
      /\ (life' = life \/ life' = life + 1)
  <2>1. life \in 0..MaxLives /\ content \in 0..MaxChanges /\ MaxLives \in Nat /\ MaxChanges \in Nat
    BY ConstantsAssumption DEF MachineOK, Contents
  <2>2. CASE Start BY <2>1, <2>2 DEF Start, MachineOK
  <2>3. CASE Serve BY <2>1, <2>3 DEF Serve, MachineOK
  <2>4. CASE End BY <2>1, <2>4 DEF End, MachineOK
  <2>5. CASE WriteProfile BY <2>1, <2>5 DEF WriteProfile, MachineOK
  <2>6. CASE Change BY <2>1, <2>6 DEF Change, MachineOK
  <2> QED BY <2>2, <2>3, <2>4, <2>5, <2>6 DEF Daemon
<1>3. MachineOK' BY <1>1, <1>2, ConstantsAssumption DEF MachineOK, Contents
<1>4. ASSUME NEW d, d.of \in Nat, d.content \in Nat, Reached(d, life, content)
      PROVE  Reached(d, life', content')
  BY <1>2, <1>4, ConstantsAssumption DEF Reached, MachineOK, Contents
<1>5. ASSUME NEW d, Past(d) PROVE Past(d)'
  <2>1. d.available => d.of \in Nat /\ d.content \in Nat
    BY <1>5, PastRange, ConstantsAssumption DEF Past, Contents
  <2>2. d.available => Reached(d, life', content') BY <1>4, <1>5, <2>1 DEF Past
  <2> QED BY <1>1, <1>5, <2>2 DEF Past, Desktops, Contents
<1>6. AccountOK'
  <2>1. stage' = "serving" => profile' \in {0, life'} BY <1>2, <1>3 DEF AccountOK, MachineOK
  <2>2. ASSUME answer.available
        PROVE  /\ answer.of <= life' /\ Reached(answer, life', content')
               /\ profile' \in {0} \cup (answer.of..life')
    <3>1. answer.of \in Nat /\ answer.content \in Nat
      BY <2>2, AnswerRange, ConstantsAssumption DEF AccountOK, Contents
    <3>2. Reached(answer, life', content') BY <1>4, <2>2, <3>1 DEF AccountOK
    <3>3. answer.of <= life /\ profile \in {0} \cup (answer.of..life) BY <2>2 DEF AccountOK
    <3> QED BY <1>2, <3>1, <3>2, <3>3 DEF MachineOK
  <2>3. Past(desktop_state)' BY <1>1, <1>5 DEF AccountOK
  <2>4. NoPreviousAccount'
    <3>1. ASSUME desktop_state.available
          PROVE  desktop_state.account \in {0} \cup (desktop_state.of..life')
      <4>1. desktop_state.of \in Nat BY <3>1, PastRange, ConstantsAssumption DEF AccountOK, Past
      <4>2. desktop_state.account \in {0} \cup (desktop_state.of..life)
        BY <3>1 DEF AccountOK, NoPreviousAccount
      <4> QED BY <1>2, <4>1, <4>2 DEF MachineOK
    <3> QED BY <1>1, <3>1 DEF NoPreviousAccount
  <2> QED BY <1>1, <2>1, <2>2, <2>3, <2>4 DEF AccountOK, Answers, Contents
<1> QED BY <1>1, <1>3, <1>5, <1>6

LEMMA PastNumbers ==
  ASSUME NEW d \in Desktops, d.available
  PROVE  d.of \in Nat /\ d.content \in Nat /\ d.account \in Nat /\ d.of >= 1
BY PastRange, ConstantsAssumption DEF Contents

\* A question to the daemon, answered or not.
LEMMA AskPast ==
  ASSUME PollInv, Ask
  PROVE  PollInv' /\ UNCHANGED <<desktop_state, job>> /\ \A d : Past(d) => Past(d)'
<1> USE DEF PollInv
<1>1. UNCHANGED <<life, stage, content, profile, job, last_job, desktop_state>> BY DEF Ask, daemon
<1>2. MachineOK' BY <1>1 DEF Ask, MachineOK
<1>3. /\ answer' \in Answers
      /\ answer'.available => stage = "serving" /\ answer'.of = life /\ answer'.content = content
  <2>1. CASE answer' = Unavailable BY <2>1, UnavailableIsState
  <2>2. CASE stage = "serving" /\ answer' = [available |-> TRUE, of |-> life, content |-> content]
    <3>1. life \in 1..MaxLives BY <2>2, ConstantsAssumption DEF MachineOK
    <3> QED BY <2>2, <3>1 DEF Answers, MachineOK
  <2> QED BY <2>1, <2>2 DEF Ask
<1>4. ASSUME NEW d, Past(d) PROVE Past(d)'
  BY <1>1, <1>3, <1>4 DEF Past, Desktops, Contents
<1>5. AccountOK'
  <2>1. answer'.available => /\ answer'.of <= life /\ Reached(answer', life, content)
                             /\ profile \in {0} \cup (answer'.of..life)
    BY <1>3, ConstantsAssumption DEF AccountOK, Reached, MachineOK, Contents
  <2>2. Past(desktop_state)' BY <1>1, <1>4 DEF AccountOK
  <2> QED BY <1>1, <1>3, <2>1, <2>2 DEF AccountOK, NoPreviousAccount
<1> QED BY <1>1, <1>2, <1>4, <1>5

\* What is published is no older than anything of the past, nor than its account.
LEMMA PublishPast ==
  ASSUME PollInv, Publish
  PROVE  /\ PollInv' /\ UNCHANGED job /\ last_job' = job
         /\ \A d : Past(d) => Past(d)' /\ NotOlder(d, desktop_state')
<1> USE DEF PollInv
<1>1. /\ UNCHANGED <<life, stage, content, profile, job>> /\ last_job' = job /\ at' = "asleep"
      /\ answer' = Unavailable /\ desktop_state' = WithAccount(profile)
  BY DEF Publish, PublishDesktop, daemon
<1>2. MachineOK' BY <1>1 DEF MachineOK
<1>3. /\ desktop_state' \in Desktops
      /\ desktop_state'.available =>
           /\ answer.available /\ desktop_state'.of = answer.of
           /\ desktop_state'.content = answer.content /\ desktop_state'.account = profile
  <2>1. CASE ~answer.available
    BY <1>1, <2>1, UnavailableIsState DEF WithAccount
  <2>2. CASE answer.available
    <3>1. /\ answer.of \in 1..MaxLives /\ answer.content \in Contents
          /\ profile \in 0..MaxLives
      BY <2>2, AnswerRange, ConstantsAssumption DEF AccountOK, MachineOK
    <3>2. desktop_state' = [available |-> TRUE, of |-> answer.of, content |-> answer.content,
                            account |-> profile]
      BY <1>1, <2>2 DEF WithAccount
    <3>3. desktop_state' \in Desktops BY <3>1, <3>2 DEF Desktops
    <3> QED BY <2>2, <3>2, <3>3
  <2> QED BY <2>1, <2>2
<1>4. ASSUME NEW d, Past(d) PROVE Past(d)' /\ NotOlder(d, desktop_state')
  <2>1. Past(d)' BY <1>1, <1>4, UnavailableIsState DEF Past, Desktops, Contents
  <2>2. ASSUME d.available, desktop_state'.available
        PROVE  \/ desktop_state'.of > d.of
               \/ (desktop_state'.of = d.of /\ desktop_state'.content >= d.content)
    <3>1. Reached(d, answer.of, answer.content) BY <1>3, <1>4, <2>2 DEF Past
    <3>2. d.of \in Nat /\ d.content \in Nat /\ answer.of \in Nat /\ answer.content \in Nat
      BY <1>3, <1>4, <2>2, PastNumbers, AnswerRange, ConstantsAssumption
      DEF Past, AccountOK, Contents
    <3> QED BY <1>3, <2>2, <3>1, <3>2 DEF Reached
  <2> QED BY <2>1, <2>2 DEF NotOlder
<1>5. AccountOK'
  <2>1. ASSUME desktop_state'.available
        PROVE  /\ Reached(desktop_state', life, content)
               /\ desktop_state'.account \in {0} \cup (desktop_state'.of..life)
    BY <1>3, <2>1 DEF AccountOK, Reached
  <2>2. Past(desktop_state)' BY <1>1, <1>3, <2>1, UnavailableIsState DEF Past, Desktops, Contents
  <2>3. NoPreviousAccount' BY <1>1, <2>1 DEF NoPreviousAccount
  <2> QED BY <1>1, <2>2, <2>3, UnavailableIsState DEF AccountOK, Answers, Contents
<1> QED BY <1>1, <1>2, <1>4, <1>5

LEMMA JobPast ==
  ASSUME PollInv, Job
  PROVE  /\ PollInv' /\ UNCHANGED <<answer, desktop_state>> /\ \A d : Past(d) => Past(d)'
         /\ \A old \in Jobs : JobNotOlder(old, job) => JobNotOlder(old, job')
<1> USE DEF PollInv
<1>1. UNCHANGED <<life, stage, content, profile, at, answer, last_job, desktop_state>>
  BY DEF Job, StartJob, EndJob, daemon
<1>2. job' \in Jobs /\ (job'.id > job.id \/ (job'.id = job.id /\ ~job'.running))
  <2>1. job \in Jobs /\ job.id \in 0..MaxJobs BY DEF MachineOK, Jobs
  <2>2. CASE StartJob BY <2>1, <2>2, ConstantsAssumption DEF StartJob, Jobs
  <2>3. CASE EndJob BY <2>1, <2>3, ConstantsAssumption DEF EndJob, Jobs
  <2> QED BY <2>2, <2>3 DEF Job
<1>3. MachineOK' BY <1>1, <1>2 DEF MachineOK
<1>4. \A d : Past(d) => Past(d)' BY <1>1 DEF Past, Desktops, Contents
<1>5. AccountOK' BY <1>1, <1>4 DEF AccountOK, NoPreviousAccount, Answers, Contents
<1>6. ASSUME NEW old \in Jobs, JobNotOlder(old, job) PROVE JobNotOlder(old, job')
  <2>1. old.id \in Nat /\ job.id \in Nat /\ job'.id \in Nat
    BY <1>2, ConstantsAssumption DEF MachineOK, Jobs
  <2> QED BY <1>2, <1>6, <2>1 DEF JobNotOlder
<1> QED BY <1>1, <1>3, <1>4, <1>5, <1>6

\* The service leaves, and its job and desktop state with it.
LEMMA LeavePast ==
  ASSUME PollInv, Leave PROVE PollInv' /\ \A d : Past(d) => Past(d)'
<1> USE DEF PollInv
<1>1. /\ UNCHANGED <<life, stage, content, profile>> /\ at' = "asleep" /\ answer' = Unavailable
      /\ job' = NoJob /\ last_job' = NoJob /\ desktop_state' = Unavailable
  BY DEF Leave, daemon
<1>2. NoJob \in Jobs BY ConstantsAssumption DEF NoJob, Jobs
<1>3. MachineOK' BY <1>1, <1>2 DEF MachineOK
<1>4. \A d : Past(d) => Past(d)' BY <1>1, UnavailableIsState DEF Past, Desktops, Contents
<1>5. AccountOK' BY <1>1, UnavailableIsState DEF AccountOK, NoPreviousAccount, Past, Desktops, Contents
<1> QED BY <1>3, <1>4, <1>5

LEMMA SamePoll ==
  ASSUME PollInv, UNCHANGED <<life, stage, content, profile, at, answer, job, last_job, desktop_state>>
  PROVE  PollInv'
<1>1. MachineOK' BY DEF PollInv, MachineOK
<1>2. Past(desktop_state)' BY DEF PollInv, AccountOK, Past
<1>3. NoPreviousAccount' BY DEF PollInv, AccountOK, NoPreviousAccount
<1>4. AccountOK' BY <1>2, <1>3 DEF PollInv, AccountOK
<1> QED BY <1>1, <1>4 DEF PollInv
-----------------------------------------------------------------------------
(* What the service says.                                                    *)

LEMMA LaterReflexive ==
  ASSUME NEW kind \in Followed, NEW x, x \in IF kind = "desktop" THEN Desktops ELSE Jobs
  PROVE  Later(kind, x, x)
<1>1. CASE kind = "desktop"
  <2>1. x.available => x.of \in Nat /\ x.content \in Nat BY <1>1, PastNumbers
  <2> QED BY <1>1, <2>1 DEF Later, NotOlder
<1>2. CASE kind = "job"
  <2>1. x.id \in Nat BY <1>2, ConstantsAssumption DEF Jobs
  <2> QED BY <1>2, <2>1 DEF Later, JobNotOlder
<1> QED BY <1>1, <1>2 DEF Followed

\* What is said now was said, and nothing said before is ahead of it.
LEMMA SaidNow ==
  ASSUME PollInv', service' \in Nat, up', NEW kind \in Followed
  PROVE  /\ SaidOf(kind, Said(Current(kind)))'
         /\ \A v : SaidOf(kind, v)' => NotBehind(kind, v, Said(Current(kind))')
<1>1. IF kind = "desktop" THEN Past(Current(kind))' ELSE Current(kind)' \in Jobs
  BY DEF PollInv, MachineOK, AccountOK, Current, Jobs
<1>2. Said(Current(kind))'.by = service' /\ Said(Current(kind))'.value = Current(kind)'
  BY DEF Said
<1>3. Later(kind, Current(kind)', Current(kind)')
  BY <1>1, LaterReflexive DEF Past, Desktops, Contents
<1>4. SaidOf(kind, Said(Current(kind)))' BY <1>1, <1>2, <1>3 DEF SaidOf, Jobs
<1> QED BY <1>2, <1>4 DEF SaidOf, NotBehind

LEMMA SelfNotBehind ==
  ASSUME NEW kind \in Followed, NEW v, service \in Nat, SaidOf(kind, v) PROVE NotBehind(kind, v, v)
<1>1. Later(kind, v.value, v.value) BY LaterReflexive DEF SaidOf, Past
<1> QED BY <1>1 DEF NotBehind, SaidOf

\* What was said stays said, whatever the next step of the system is.
LEMMA SaidStays ==
  ASSUME PollInv, service \in Nat, [FlyoutNext]_allVars
  PROVE  PollInv' /\ \A kind \in Followed : \A v : SaidOf(kind, v) => SaidOf(kind, v)'
<1> DEFINE Stays == \A kind \in Followed : \A v : SaidOf(kind, v) => SaidOf(kind, v)'
<1>1. ASSUME UNCHANGED <<up, service>>, \A d : Past(d) => Past(d)',
             \A d : (Past(d) /\ NotOlder(d, desktop_state)) => NotOlder(d, desktop_state'),
             \A old \in Jobs : JobNotOlder(old, job) => JobNotOlder(old, job')
      PROVE  Stays
  BY <1>1 DEF SaidOf, Later, Current, Followed, Jobs
<1>2. ASSUME UNCHANGED <<up, service, vars>> PROVE PollInv' /\ Stays
  <2>1. UNCHANGED <<life, stage, content, profile, at, answer, job, last_job, desktop_state>>
    BY <1>2 DEF vars, daemon
  <2>2. PollInv' BY <2>1, SamePoll
  <2>3. \A d : Past(d) => Past(d)' BY <2>1 DEF Past, Desktops, Contents
  <2> QED BY <1>1, <1>2, <2>1, <2>2, <2>3
<1>3. CASE Machine
  <2>1. UNCHANGED <<up, service>> BY <1>3 DEF Machine, flyoutVars, serviceVars
  <2>2. Daemon \/ Job BY <1>3 DEF Machine, Job
  <2>3. CASE Daemon BY <1>1, <2>1, <2>3, DaemonPast
  <2>4. CASE Job BY <1>1, <2>1, <2>4, JobPast
  <2> QED BY <2>2, <2>3, <2>4
<1>4. CASE Poll
  <2>1. UNCHANGED <<up, service>> BY <1>4 DEF Poll, serviceVars
  <2>2. CASE Ask BY <1>1, <2>1, <2>2, AskPast
  <2>3. CASE Publish BY <1>1, <2>1, <2>3, PublishPast
  <2> QED BY <1>4, <2>2, <2>3 DEF Poll
<1>5. CASE Leave
  <2>1. PollInv' /\ \A d : Past(d) => Past(d)' BY <1>5, LeavePast
  <2>2. up' = FALSE /\ service' = service BY <1>5 DEF Leave
  <2> QED BY <2>1, <2>2 DEF SaidOf, Jobs
<1>6. CASE Come
  <2>1. UNCHANGED <<life, stage, content, profile, at, answer, job, last_job, desktop_state>>
    BY <1>6 DEF Come, vars, daemon
  <2>2. PollInv' BY <2>1, SamePoll
  <2>3. \A d : Past(d) => Past(d)' BY <2>1 DEF Past, Desktops, Contents
  <2>4. service' = service + 1 BY <1>6 DEF Come
  <2>5. \A n \in 0..service : n \in 0..service' /\ n # service' BY <2>4
  <2> QED BY <2>2, <2>3, <2>5 DEF SaidOf, Jobs
<1>7. CASE Watch BY <1>2, <1>7 DEF Watch
<1>8. CASE Answer BY <1>2, <1>8 DEF Answer, Sample, Reply, serviceVars
<1>9. CASE Control BY <1>2, <1>9 DEF Control, serviceVars
<1>10. CASE Apply BY <1>2, <1>10 DEF Apply, ApplySignal, ApplyReply, ReadAll, Forget, Hear, serviceVars
<1>11. CASE UNCHANGED allVars BY <1>2, <1>11 DEF allVars, flyoutVars, serviceVars
<1> QED BY <1>3, <1>4, <1>5, <1>6, <1>7, <1>8, <1>9, <1>10, <1>11 DEF FlyoutNext
-----------------------------------------------------------------------------
(* Messages.                                                                 *)

LEMMA SignalIsMessage ==
  ASSUME PollInv, service \in Nat, NEW kind \in Kinds, NEW value,
         value \in BOOLEAN \/ value = desktop_state \/ value = job
  PROVE  <<kind, Said(value)>> \in Messages
<1>1. Said(value) \in Says BY DEF Said, Says, PollInv, MachineOK, AccountOK, Past
<1> QED BY <1>1 DEF Messages

LEMMA OtherIsMessage ==
  /\ \A r \in Slots : <<"reply", r>> \in Messages
  /\ \A name \in {"came", "done", "gone"}, n \in Nat : <<name, n>> \in Messages
BY DEF Messages

LEMMA SlotOfReply == ASSUME NEW m \in Messages, m[1] = "reply" PROVE m[2] \in Slots
BY DEF Messages, Kinds

LEMMA QueueJoins ==
  ASSUME NEW S, NEW w \in Seq(S), NEW a \in Seq(S), NEW b \in Seq(S)
  PROVE  (w \o a) \o b = w \o (a \o b) /\ a \o b \in Seq(S) /\ w \o (a \o b) \in Seq(S)
<1>1. a \o b \in Seq(S) /\ w \o a \in Seq(S) OBVIOUS
<1>2. w \o (a \o b) \in Seq(S) BY <1>1
<1>3. (w \o a) \o b = w \o (a \o b) OBVIOUS
<1> QED BY <1>1, <1>2, <1>3

\* A queue that grows, and one of which the head is taken.
LEMMA QueueGrows ==
  ASSUME NEW S, NEW w \in Seq(S), NEW s \in Seq(S), NEW g, g = w \o s
  PROVE  /\ g \in Seq(S) /\ DOMAIN w \subseteq DOMAIN g /\ \A i \in DOMAIN w : g[i] = w[i]
         /\ \A i \in DOMAIN g \ DOMAIN w : i - Len(w) \in DOMAIN s /\ g[i] = s[i - Len(w)]
         /\ \A i \in DOMAIN w : \A j \in DOMAIN g \ DOMAIN w : i < j
         /\ DOMAIN g \subseteq Nat /\ Len(w) \in Nat
<1>1. /\ g \in Seq(S) /\ Len(g) = Len(w) + Len(s) /\ Len(w) \in Nat /\ Len(s) \in Nat
      /\ DOMAIN w = 1..Len(w) /\ DOMAIN s = 1..Len(s) /\ DOMAIN g = 1..Len(g)
  OBVIOUS
<1>2. \A i \in 1..Len(g) : g[i] = IF i <= Len(w) THEN w[i] ELSE s[i - Len(w)]
  OBVIOUS
<1> QED BY <1>1, <1>2

LEMMA QueueShrinks ==
  ASSUME NEW S, NEW w \in Seq(S), w # << >>, NEW t, t = Tail(w)
  PROVE  /\ t \in Seq(S) /\ 1 \in DOMAIN w /\ Head(w) = w[1] /\ w[1] \in S
         /\ \A i \in DOMAIN t : i \in Nat /\ i + 1 \in DOMAIN w /\ t[i] = w[i + 1] /\ 1 < i + 1
<1>1. /\ t \in Seq(S) /\ Len(t) = Len(w) - 1 /\ Len(w) \in Nat /\ Len(w) >= 1
      /\ DOMAIN w = 1..Len(w) /\ DOMAIN t = 1..Len(t) /\ Head(w) = w[1]
  OBVIOUS
<1>2. \A i \in 1..Len(t) : t[i] = w[i + 1] BY <1>1
<1> QED BY <1>1, <1>2
-----------------------------------------------------------------------------
(* The service sends.                                                        *)

\* Signals of what is said now, a reply, or a message that shows nothing.
LEMMA Sends ==
  ASSUME IInv, [FlyoutNext]_allVars, ShapeOK', NEW s \in Seq(Messages), wire' = wire \o s,
         UNCHANGED shown, ReadsOK',
         \A r \in Slots : reads[r].at = "replied" => reads'[r] = reads[r],
         \A n \in DOMAIN s : s[n][1] = "reply" =>
            /\ reads'[s[n][2]].at = "replied" /\ reads[s[n][2]].at # "replied" /\ Len(s) = 1,
         \A n \in DOMAIN s : \A kind \in Followed : s[n][1] = kind =>
            /\ up' /\ s[n][2] = Said(Current(kind))'
            /\ \A m \in DOMAIN s : m # n => s[m][1] # kind
  PROVE  IInv'
<1> USE DEF IInv, FlyoutInv
<1>1. PollInv' /\ service' \in Nat /\ \A kind \in Followed : \A v : SaidOf(kind, v) => SaidOf(kind, v)'
  BY SaidStays DEF ShapeOK
<1>2. ShownOK' BY <1>1 DEF ShownOK
<1> DEFINE old == DOMAIN wire
           new == DOMAIN wire' \ DOMAIN wire
<1>3. /\ old \subseteq DOMAIN wire' /\ \A i \in old : wire'[i] = wire[i]
      /\ \A i \in new : i - Len(wire) \in DOMAIN s /\ wire'[i] = s[i - Len(wire)]
      /\ \A i \in old : \A j \in new : i < j
      /\ DOMAIN wire' \subseteq Nat /\ Len(wire) \in Nat
  BY QueueGrows DEF ShapeOK
<1>4. \A i \in old : wire[i] \in Messages BY DEF ShapeOK
<1>5. \A n \in DOMAIN s : s[n] \in Messages OBVIOUS
<1>6. RepliesOK'
  <2> SUFFICES ASSUME NEW i \in DOMAIN wire', wire'[i][1] = "reply"
               PROVE  /\ wire'[i][2] \in Slots /\ reads'[wire'[i][2]].at = "replied"
                      /\ \A j \in DOMAIN wire' :
                           (wire'[j][1] = "reply" /\ wire'[j][2] = wire'[i][2]) => j = i
    BY DEF RepliesOK
  <2>1. \A j \in old : wire[j][1] = "reply" =>
          wire[j][2] \in Slots /\ reads[wire[j][2]].at = "replied"
    BY DEF RepliesOK
  <2>2. \A j \in new : wire'[j][1] = "reply" =>
          /\ wire'[j][2] \in Slots /\ reads'[wire'[j][2]].at = "replied"
          /\ reads[wire'[j][2]].at # "replied" /\ j = 1 + Len(wire)
    <3> TAKE j \in new
    <3> HAVE wire'[j][1] = "reply"
    <3>1. j - Len(wire) \in DOMAIN s /\ wire'[j] = s[j - Len(wire)] BY <1>3
    <3>2. Len(s) = 1 /\ DOMAIN s = 1..1 BY <3>1
    <3>3. j = 1 + Len(wire) BY <1>3, <3>1, <3>2
    <3> QED BY <1>5, <3>1, <3>3, SlotOfReply
  <2>3. CASE i \in old
    <3>1. wire'[i] = wire[i] /\ wire[i][1] = "reply" BY <1>3, <2>3
    <3>2. /\ wire[i][2] \in Slots /\ reads[wire[i][2]].at = "replied"
          /\ reads'[wire[i][2]].at = "replied"
      BY <2>1, <2>3, <3>1
    <3>3. ASSUME NEW j \in DOMAIN wire', wire'[j][1] = "reply", wire'[j][2] = wire[i][2] PROVE j = i
      <4>1. j \notin new BY <2>2, <3>2, <3>3
      <4>2. j \in old /\ wire'[j] = wire[j] BY <1>3, <4>1
      <4> QED BY <2>3, <3>1, <3>3, <4>2 DEF RepliesOK
    <3> QED BY <3>1, <3>2, <3>3
  <2>4. CASE i \in new BY <1>3, <2>1, <2>2, <2>4
  <2> QED BY <2>3, <2>4
<1>7. SignalsOK'
  <2> SUFFICES ASSUME NEW j \in DOMAIN wire', NEW kind \in Followed, wire'[j][1] = kind
               PROVE  /\ SaidOf(kind, wire[j][2])' /\ NotBehind(kind, shown'[kind], wire'[j][2])
                      /\ \A i \in DOMAIN wire' : (i < j /\ Carries(wire[i], kind)') =>
                           NotBehind(kind, Carried(wire[i], kind)', wire'[j][2])
    BY DEF SignalsOK
  <2>1. \A i \in old : /\ Carries(wire[i], kind)' => Carries(wire[i], kind)
                       /\ Carried(wire[i], kind)' = Carried(wire[i], kind)
    BY <1>3 DEF RepliesOK, Carries, Carried
  <2>2. CASE j \in old
    <3>1. \A i \in DOMAIN wire' : i < j => i \in old BY <1>3, <2>2
    <3>2. wire'[j] = wire[j] BY <1>3, <2>2
    <3>3. /\ SaidOf(kind, wire[j][2]) /\ NotBehind(kind, shown[kind], wire[j][2])
          /\ \A i \in old : (i < j /\ Carries(wire[i], kind)) =>
               NotBehind(kind, Carried(wire[i], kind), wire[j][2])
      BY <2>2, <3>2 DEF SignalsOK
    <3> QED BY <1>1, <1>3, <2>1, <3>1, <3>2, <3>3
  <2>3. CASE j \in new
    <3>1. PICK n \in DOMAIN s : n = j - Len(wire) /\ wire'[j] = s[n] BY <1>3, <2>3
    <3>2. up' /\ wire'[j][2] = Said(Current(kind))' BY <3>1
    <3>3. /\ SaidOf(kind, Said(Current(kind)))'
          /\ \A v : SaidOf(kind, v)' => NotBehind(kind, v, Said(Current(kind))') BY <1>1, <3>2, SaidNow
    <3>4. ASSUME NEW i \in DOMAIN wire', i < j, Carries(wire[i], kind)'
          PROVE  \A v : v = Carried(wire[i], kind)' => SaidOf(kind, v)'
      <4>1. CASE i \in new
        <5>1. PICK m \in DOMAIN s : m = i - Len(wire) /\ wire'[i] = s[m] BY <1>3, <4>1
        <5>2. m # n BY <1>3, <3>1, <3>4, <5>1
        <5>3. s[m][1] # kind BY <3>1, <5>2
        <5>4. s[m][1] = "reply" BY <3>4, <5>1, <5>3 DEF Carries
        <5>5. Len(s) = 1 /\ DOMAIN s = 1..1 BY <5>4
        <5> QED BY <3>1, <5>1, <5>2, <5>5
      <4>2. CASE i \in old
        <5>1. wire'[i] = wire[i] BY <1>3, <4>2
        <5>2. CASE wire[i][1] = "reply"
          <6>1. wire[i][2] \in Slots /\ reads[wire[i][2]].at = "replied"
            BY <4>2, <5>2 DEF RepliesOK
          <6>2. kind \in reads[wire[i][2]].fresh BY <2>1, <3>4, <4>2, <5>1, <5>2 DEF Carries, Followed
          <6>3. SaidOf(kind, reads[wire[i][2]].sample[kind]) BY <6>1, <6>2 DEF ReadsOK, Answering
          <6> QED BY <1>1, <2>1, <4>2, <5>1, <5>2, <6>3 DEF Carried
        <5>3. CASE wire[i][1] = kind
          <6>1. SaidOf(kind, wire[i][2]) BY <4>2, <5>3 DEF SignalsOK
          <6>2. kind # "reply" BY DEF Followed
          <6> QED BY <1>1, <2>1, <4>2, <5>1, <5>3, <6>1, <6>2 DEF Carried
        <5> QED BY <3>4, <5>1, <5>2, <5>3 DEF Carries
      <4> QED BY <4>1, <4>2
    <3>5. SaidOf(kind, shown[kind])' BY <1>2 DEF ShownOK
    <3> QED BY <3>2, <3>3, <3>4, <3>5
  <2> QED BY <2>2, <2>3
<1> QED BY <1>1, <1>2, <1>6, <1>7
-----------------------------------------------------------------------------
(* The flyout applies a message.                                             *)

\* A message shows what it carries, and no older answer is of use for that any
\* more; a read that is not forgotten or begun keeps what is of use.
LEMMA Applies ==
  ASSUME IInv, [FlyoutNext]_allVars, ShapeOK', wire # << >>, wire' = Tail(wire),
         NEW m, m = Head(wire),
         \A kind \in Followed :
           \/ shown'[kind] = shown[kind]
           \/ /\ Carries(m, kind) /\ shown'[kind] = Carried(m, kind)
              /\ \A r \in Slots : kind \notin reads'[r].fresh \/ ~Answering(reads'[r]),
         \A r \in Slots :
           \/ ~Answering(reads'[r]) /\ (reads[r].at # "replied" \/ (m[1] = "reply" /\ m[2] = r))
           \/ /\ reads'[r].at = reads[r].at /\ reads'[r].fresh \subseteq reads[r].fresh
              /\ \A kind \in reads'[r].fresh : reads'[r].sample[kind] = reads[r].sample[kind]
              /\ ~(m[1] = "reply" /\ m[2] = r)
  PROVE  IInv' /\ \A kind \in Followed : NotBehind(kind, shown[kind], shown'[kind])
<1> USE DEF IInv, FlyoutInv
<1>1. PollInv' /\ service \in Nat /\ \A kind \in Followed : \A v : SaidOf(kind, v) => SaidOf(kind, v)'
  BY SaidStays DEF ShapeOK
<1>2. /\ 1 \in DOMAIN wire /\ m = wire[1] /\ m \in Messages
      /\ \A i \in DOMAIN wire' : i \in Nat /\ i + 1 \in DOMAIN wire /\ wire'[i] = wire[i + 1] /\ 1 < i + 1
  BY QueueShrinks DEF ShapeOK
<1>3. ASSUME NEW kind \in Followed, Carries(m, kind)
      PROVE  SaidOf(kind, Carried(m, kind)) /\ NotBehind(kind, shown[kind], Carried(m, kind))
  <2>1. CASE m[1] = "reply"
    <3>1. m[2] \in Slots /\ Answering(reads[m[2]]) BY <1>2, <2>1 DEF RepliesOK, Answering
    <3>2. kind \in reads[m[2]].fresh BY <1>3, <2>1 DEF Carries, Followed
    <3> QED BY <2>1, <3>1, <3>2 DEF ReadsOK, Carried
  <2>2. CASE m[1] = kind BY <1>2, <2>2 DEF SignalsOK, Carried, Followed
  <2> QED BY <1>3, <2>1, <2>2 DEF Carries
<1>4. ShownOK' /\ \A kind \in Followed : NotBehind(kind, shown[kind], shown'[kind])
  <2> SUFFICES ASSUME NEW kind \in Followed
               PROVE  SaidOf(kind, shown[kind])' /\ NotBehind(kind, shown[kind], shown'[kind])
    BY DEF ShownOK
  <2>1. SaidOf(kind, shown[kind]) BY DEF ShownOK
  <2>2. CASE shown'[kind] = shown[kind] BY <1>1, <2>1, <2>2, SelfNotBehind
  <2>3. CASE Carries(m, kind) /\ shown'[kind] = Carried(m, kind) BY <1>1, <1>3, <2>3
  <2> QED BY <2>2, <2>3
<1>5. ASSUME NEW r \in Slots, Answering(reads'[r]), NEW kind \in reads'[r].fresh \cap Followed
      PROVE  /\ reads'[r].at = reads[r].at /\ Answering(reads[r]) /\ kind \in reads[r].fresh
             /\ reads'[r].sample[kind] = reads[r].sample[kind] /\ shown'[kind] = shown[kind]
  BY <1>5 DEF Answering
<1>6. ReadsOK'
  <2> SUFFICES ASSUME NEW r \in Slots, Answering(reads'[r]), NEW kind \in reads'[r].fresh \cap Followed
               PROVE  /\ SaidOf(kind, reads[r].sample[kind])'
                      /\ NotBehind(kind, shown'[kind], reads'[r].sample[kind])
    BY DEF ReadsOK, Answering
  <2>1. SaidOf(kind, reads[r].sample[kind]) /\ NotBehind(kind, shown[kind], reads[r].sample[kind])
    BY <1>5 DEF ReadsOK
  <2> QED BY <1>1, <1>5, <2>1
<1>7. ASSUME NEW i \in DOMAIN wire', wire'[i][1] = "reply"
      PROVE  /\ wire'[i][2] \in Slots /\ reads[wire'[i][2]].at = "replied"
             /\ ~(m[1] = "reply" /\ m[2] = wire'[i][2])
  BY <1>2, <1>7 DEF RepliesOK
<1>8. RepliesOK'
  <2> SUFFICES ASSUME NEW i \in DOMAIN wire', wire'[i][1] = "reply"
               PROVE  /\ wire'[i][2] \in Slots /\ reads'[wire'[i][2]].at = "replied"
                      /\ \A j \in DOMAIN wire' :
                           (wire'[j][1] = "reply" /\ wire'[j][2] = wire'[i][2]) => j = i
    BY DEF RepliesOK
  <2>1. wire'[i][2] \in Slots /\ reads'[wire'[i][2]].at = "replied" BY <1>7
  <2>2. ASSUME NEW j \in DOMAIN wire', wire'[j][1] = "reply", wire'[j][2] = wire'[i][2] PROVE j = i
    <3>1. j + 1 = i + 1 BY <1>2, <2>2 DEF RepliesOK
    <3> QED BY <1>2, <3>1
  <2> QED BY <2>1, <2>2
<1>9. SignalsOK'
  <2> SUFFICES ASSUME NEW j \in DOMAIN wire', NEW kind \in Followed, wire'[j][1] = kind
               PROVE  /\ SaidOf(kind, wire[j][2])' /\ NotBehind(kind, shown'[kind], wire'[j][2])
                      /\ \A i \in DOMAIN wire' : (i < j /\ Carries(wire[i], kind)') =>
                           NotBehind(kind, Carried(wire[i], kind)', wire'[j][2])
    BY DEF SignalsOK
  <2>1. /\ j + 1 \in DOMAIN wire /\ wire'[j] = wire[j + 1] /\ j \in Nat BY <1>2
  <2>2. /\ SaidOf(kind, wire[j + 1][2]) /\ NotBehind(kind, shown[kind], wire[j + 1][2])
        /\ \A i \in DOMAIN wire : (i < j + 1 /\ Carries(wire[i], kind)) =>
             NotBehind(kind, Carried(wire[i], kind), wire[j + 1][2])
    BY <2>1 DEF SignalsOK
  <2>3. SaidOf(kind, wire[j][2])' BY <1>1, <2>1, <2>2
  <2>4. NotBehind(kind, shown'[kind], wire'[j][2])
    <3>1. CASE shown'[kind] = shown[kind] BY <2>1, <2>2, <3>1
    <3>2. CASE Carries(m, kind) /\ shown'[kind] = Carried(m, kind) BY <1>2, <2>1, <2>2, <3>2
    <3> QED BY <3>1, <3>2
  <2>5. ASSUME NEW i \in DOMAIN wire', i < j, Carries(wire[i], kind)'
        PROVE  NotBehind(kind, Carried(wire[i], kind)', wire'[j][2])
    <3>1. i \in Nat /\ i + 1 \in DOMAIN wire /\ wire'[i] = wire[i + 1] /\ i + 1 < j + 1
      BY <1>2, <2>1, <2>5
    <3>2. Carries(wire[i + 1], kind) /\ Carried(wire[i], kind)' = Carried(wire[i + 1], kind)
      <4>1. CASE wire'[i][1] = "reply"
        <5>1. PICK r \in Slots : wire'[i][2] = r /\ reads[r].at = "replied" /\ ~(m[1] = "reply" /\ m[2] = r)
          BY <1>7, <4>1
        <5>2. kind \in reads'[r].fresh BY <2>5, <4>1, <5>1 DEF Carries, Followed
        <5>3. kind \in reads[r].fresh /\ reads'[r].sample[kind] = reads[r].sample[kind]
          BY <5>1, <5>2
        <5> QED BY <3>1, <4>1, <5>1, <5>3 DEF Carries, Carried
      <4>2. CASE wire'[i][1] = kind BY <3>1, <4>2 DEF Carries, Carried, Followed
      <4> QED BY <2>5, <4>1, <4>2 DEF Carries
    <3> QED BY <2>1, <2>2, <3>1, <3>2
  <2> QED BY <2>3, <2>4, <2>5
<1> QED BY <1>1, <1>4, <1>6, <1>8, <1>9
-----------------------------------------------------------------------------
(* The steps.                                                                *)

LEMMA ReadFields ==
  ASSUME NEW c, IsRead(c), NEW x
  PROVE  /\ \A d : d = [c EXCEPT !.at = x] =>
              IsRead(d) /\ d.at = x /\ d.fresh = c.fresh /\ d.sample = c.sample
         /\ \A d : d = [c EXCEPT !.fresh = x] =>
              IsRead(d) /\ d.at = c.at /\ d.fresh = x /\ d.sample = c.sample
         /\ \A d : d = [c EXCEPT !.sample = x] =>
              IsRead(d) /\ d.at = c.at /\ d.fresh = c.fresh /\ d.sample = x
BY DEF IsRead

\* Reads that stay as they are, or are given up, while nothing is shown.
LEMMA ReadsStay ==
  ASSUME IInv, [FlyoutNext]_allVars, shown' = shown,
         \A r \in Slots : reads'[r] = reads[r] \/ ~Answering(reads'[r])
  PROVE  ReadsOK'
<1>1. \A kind \in Followed : \A v : SaidOf(kind, v) => SaidOf(kind, v)'
  BY SaidStays DEF IInv, FlyoutInv, ShapeOK
<1> SUFFICES ASSUME NEW r \in Slots, Answering(reads'[r]), NEW kind \in reads'[r].fresh \cap Followed
             PROVE  /\ SaidOf(kind, reads[r].sample[kind])'
                    /\ NotBehind(kind, shown'[kind], reads'[r].sample[kind])
  BY DEF ReadsOK, Answering
<1>2. reads'[r] = reads[r] OBVIOUS
<1>3. SaidOf(kind, reads[r].sample[kind]) /\ NotBehind(kind, shown[kind], reads[r].sample[kind])
  BY <1>2 DEF IInv, FlyoutInv, ReadsOK, Answering
<1> QED BY <1>1, <1>2, <1>3

\* Nothing is sent, read or shown.
LEMMA Stands ==
  ASSUME IInv, [FlyoutNext]_allVars, UNCHANGED <<wire, reads, shown>>, up' \in BOOLEAN,
         service' \in Nat, running' \in BOOLEAN
  PROVE  IInv'
<1>1. ShapeOK' BY DEF IInv, FlyoutInv, ShapeOK
<1>2. ReadsOK' BY ReadsStay
<1>3. << >> \in Seq(Messages) /\ wire' = wire \o << >> BY DEF IInv, FlyoutInv, ShapeOK
<1>4. \A n \in DOMAIN << >> : FALSE OBVIOUS
<1> QED BY <1>1, <1>2, <1>3, <1>4, Sends

LEMMA InitOK == ASSUME FlyoutInit PROVE IInv
<1> USE DEF FlyoutInit
<1>1. PollInv BY InitPoll
<1>2. /\ IsRead(Idle) /\ Idle.at = "idle" /\ Idle.fresh = {} /\ ~Answering(Idle)
  BY DEF Idle, IsRead, Answering
<1>3. << >> \in Seq(Messages) OBVIOUS
<1>4. ShapeOK BY <1>2, <1>3 DEF ShapeOK, Sampled, Kinds
<1>5. ReadsOK BY <1>2 DEF ReadsOK
<1>6. RepliesOK /\ SignalsOK BY DEF RepliesOK, SignalsOK
<1>7. shown["desktop"] = Said(desktop_state) /\ shown["job"] = Said(job) BY DEF Sampled
<1>8. ShownOK
  <2>1. Past(desktop_state) /\ job \in Jobs BY <1>1 DEF PollInv, AccountOK, MachineOK
  <2>2. 0 \in 0..service BY DEF Said
  <2> QED BY <1>7, <2>1, <2>2 DEF ShownOK, Followed, SaidOf, Said
<1> QED BY <1>1, <1>4, <1>5, <1>6, <1>8 DEF IInv, FlyoutInv

LEMMA PollOK == ASSUME IInv, Poll PROVE IInv' /\ shown' = shown
<1>1. [FlyoutNext]_allVars BY DEF FlyoutNext
<1>2. UNCHANGED <<up, service, running, reads, shown>> /\ up BY DEF Poll, serviceVars
<1>3. up' \in BOOLEAN /\ service' \in Nat /\ running' \in BOOLEAN
  BY <1>2 DEF IInv, FlyoutInv, ShapeOK
<1>4. CASE UNCHANGED wire BY <1>1, <1>2, <1>3, <1>4, Stands
<1>5. CASE Publish /\ ~UNCHANGED wire
  <2> DEFINE J == IF last_job' = last_job THEN << >> ELSE << <<"job", Said(last_job')>> >>
             D == IF desktop_state' = desktop_state THEN << >>
                  ELSE << <<"desktop", Said(desktop_state')>> >>
             s == J \o D
  <2>1. wire' = (wire \o J) \o D BY <1>5 DEF Poll, Ask
  <2>2. PollInv' /\ last_job' = job' BY <1>5, PublishPast DEF IInv
  <2>3. /\ <<"job", Said(last_job')>> \in Messages /\ <<"desktop", Said(desktop_state')>> \in Messages
    <3>1. Said(last_job') \in Says /\ Said(desktop_state') \in Says
      BY <1>3, <1>2, <2>2 DEF Said, Says, PollInv, MachineOK, AccountOK, Past, Jobs, Desktops, Contents
    <3> QED BY <3>1 DEF Messages, Kinds
  <2>4. J \in Seq(Messages) /\ D \in Seq(Messages) /\ wire \in Seq(Messages)
    BY <2>3 DEF IInv, FlyoutInv, ShapeOK
  <2>5. wire' = wire \o s /\ s \in Seq(Messages) /\ wire' \in Seq(Messages)
    <3> HIDE DEF J, D
    <3> QED BY <2>1, <2>4, QueueJoins
  <2>6. \A n \in DOMAIN s : /\ s[n] \in {<<"job", Said(last_job')>>, <<"desktop", Said(desktop_state')>>}
                            /\ \A m \in DOMAIN s : m # n => s[m][1] # s[n][1]
    OBVIOUS
  <2>7. Said(Current("job"))' = Said(last_job') /\ Said(Current("desktop"))' = Said(desktop_state')
    BY <1>2, <2>2 DEF Said, Current
  <2> HIDE DEF s
  <2>8. ShapeOK' BY <1>2, <1>3, <2>5 DEF IInv, FlyoutInv, ShapeOK
  <2>9. ReadsOK' BY <1>1, <1>2, ReadsStay
  <2>10. /\ \A n \in DOMAIN s : s[n][1] # "reply"
         /\ \A n \in DOMAIN s : \A kind \in Followed : s[n][1] = kind =>
              /\ up' /\ s[n][2] = Said(Current(kind))'
              /\ \A m \in DOMAIN s : m # n => s[m][1] # kind
    BY <1>2, <2>6, <2>7 DEF Followed
  <2> QED BY <1>1, <1>2, <2>5, <2>8, <2>9, <2>10, Sends
<1> QED BY <1>2, <1>4, <1>5 DEF Poll

\* A message that shows neither the desktop state nor the job.
LEMMA SendsOther ==
  ASSUME IInv, [FlyoutNext]_allVars, NEW m \in Messages, wire' = Append(wire, m),
         m[1] \notin Followed \cup {"reply"}, shown' = shown, DOMAIN reads' = Slots,
         \A r \in Slots : reads'[r] = reads[r] \/ (reads'[r] = Idle /\ reads[r].at # "replied"),
         up' \in BOOLEAN, service' \in Nat, running' \in BOOLEAN
  PROVE  IInv'
<1>1. IsRead(Idle) /\ Idle.fresh = {} /\ ~Answering(Idle) BY DEF Idle, IsRead, Answering
<1>2. wire \in Seq(Messages) BY DEF IInv, FlyoutInv, ShapeOK
<1>3. <<m>> \in Seq(Messages) /\ wire' = wire \o <<m>> /\ wire' \in Seq(Messages) BY <1>2
<1>4. ShapeOK' BY <1>1, <1>3 DEF IInv, FlyoutInv, ShapeOK
<1>5. ReadsOK' BY <1>1, ReadsStay
<1>6. \A n \in DOMAIN <<m>> : <<m>>[n] = m OBVIOUS
<1> QED BY <1>3, <1>4, <1>5, <1>6, Sends

LEMMA WatchOK == ASSUME IInv, Watch PROVE IInv' /\ shown' = shown
<1>1. PICK m : m = <<"state", [by |-> service, value |-> running']>> OBVIOUS
<1>2. running' \in BOOLEAN /\ service \in Nat BY DEF Watch, IInv, FlyoutInv, ShapeOK
<1>3. m \in Messages BY <1>1, <1>2 DEF Messages, Kinds, Says
<1>4. wire' = Append(wire, m) /\ m[1] = "state" /\ UNCHANGED <<up, service, reads, shown>>
  BY <1>1 DEF Watch, Send
<1> QED BY <1>2, <1>3, <1>4, SendsOther DEF FlyoutNext, Followed, IInv, FlyoutInv, ShapeOK

LEMMA ServiceOK == ASSUME IInv, Control \/ Leave \/ Come PROVE IInv' /\ shown' = shown
<1>1. /\ up' \in BOOLEAN /\ service' \in Nat /\ running' \in BOOLEAN /\ DOMAIN reads' = Slots
      /\ shown' = shown
      /\ \A r \in Slots : reads'[r] = reads[r] \/ (reads'[r] = Idle /\ reads[r].at # "replied")
  <2>1. /\ up \in BOOLEAN /\ service \in Nat /\ running \in BOOLEAN /\ DOMAIN reads = Slots
    BY DEF IInv, FlyoutInv, ShapeOK
  <2>2. CASE Control BY <2>1, <2>2 DEF Control, serviceVars
  <2>3. CASE Leave BY <2>1, <2>3 DEF Leave
  <2>4. CASE Come BY <2>1, <2>4 DEF Come
  <2> QED BY <2>2, <2>3, <2>4
<1>2. PICK name \in {"came", "done", "gone"}, n \in Nat : wire' = Append(wire, <<name, n>>)
  BY <1>1 DEF Control, Leave, Come, Send, IInv, FlyoutInv, ShapeOK
<1>3. PICK m : m = <<name, n>> OBVIOUS
<1>4. m \in Messages /\ m[1] = name /\ wire' = Append(wire, m) BY <1>2, <1>3, OtherIsMessage
<1> QED BY <1>1, <1>4, SendsOther DEF FlyoutNext, Followed

LEMMA SampleOK == ASSUME IInv, NEW r \in Slots, Sample(r) PROVE IInv' /\ shown' = shown
<1> USE DEF IInv, FlyoutInv
<1>1. [FlyoutNext]_allVars BY DEF FlyoutNext, Answer
<1>2. /\ up /\ reads[r].at = "asked" /\ UNCHANGED <<up, service, running, wire, shown, desktop_state, job>>
      /\ up' \in BOOLEAN /\ service' \in Nat /\ running' \in BOOLEAN
  BY DEF Sample, ShapeOK, vars, serviceVars
<1>3. PollInv' /\ \A kind \in Followed : \A v : SaidOf(kind, v) => SaidOf(kind, v)'
  BY <1>1, SaidStays DEF ShapeOK
<1>4. PICK x : x = Without(Sampled, Kinds \ reads[r].fresh) OBVIOUS
<1>5. /\ IsRead(reads'[r]) /\ reads'[r].at = "sampled" /\ reads'[r].fresh = reads[r].fresh
      /\ reads'[r].sample = x
  <2>1. IsRead(reads[r]) BY DEF ShapeOK
  <2>2. PICK c : c = [reads[r] EXCEPT !.at = "sampled"] OBVIOUS
  <2>3. IsRead(c) /\ c.at = "sampled" /\ c.fresh = reads[r].fresh BY <2>1, <2>2, ReadFields
  <2>4. reads'[r] = [c EXCEPT !.sample = x] BY <1>4, <2>2 DEF Sample, ShapeOK
  <2> QED BY <2>3, <2>4, ReadFields
<1>6. DOMAIN reads' = Slots /\ \A q \in Slots \ {r} : reads'[q] = reads[q]
  BY DEF Sample, ShapeOK
<1>7. DOMAIN x = reads[r].fresh /\ \A kind \in reads[r].fresh : x[kind] = Sampled[kind]
  BY <1>4 DEF Without, Sampled, Kinds, ShapeOK
<1>8. ShapeOK' BY <1>2, <1>5, <1>6, <1>7 DEF ShapeOK
<1>9. ReadsOK'
  <2> SUFFICES ASSUME NEW q \in Slots, Answering(reads'[q]), NEW kind \in reads'[q].fresh \cap Followed
               PROVE  /\ SaidOf(kind, reads[q].sample[kind])'
                      /\ NotBehind(kind, shown'[kind], reads'[q].sample[kind])
    BY DEF ReadsOK, Answering
  <2>1. CASE q # r
    <3>1. SaidOf(kind, reads[q].sample[kind]) /\ NotBehind(kind, shown[kind], reads[q].sample[kind])
      BY <1>6, <2>1 DEF ReadsOK
    <3> QED BY <1>2, <1>3, <1>6, <2>1, <3>1
  <2>2. CASE q = r
    <3>1. reads'[q].sample[kind] = Said(Current(kind))'
      BY <1>2, <1>5, <1>7, <2>2 DEF Sampled, Current, Said, Followed
    <3>2. SaidOf(kind, shown[kind])' BY <1>2, <1>3 DEF ShownOK
    <3>3. /\ SaidOf(kind, Said(Current(kind)))'
          /\ \A v : SaidOf(kind, v)' => NotBehind(kind, v, Said(Current(kind))')
      BY <1>2, <1>3, SaidNow
    <3> QED BY <3>1, <3>2, <3>3
  <2> QED BY <2>1, <2>2
<1>10. << >> \in Seq(Messages) /\ wire' = wire \o << >> BY <1>2 DEF ShapeOK
<1>11. \A q \in Slots : reads[q].at = "replied" => reads'[q] = reads[q] BY <1>2, <1>6
<1>12. \A n \in DOMAIN << >> : FALSE OBVIOUS
<1> QED BY <1>1, <1>2, <1>8, <1>9, <1>10, <1>11, <1>12, Sends

LEMMA ReplyOK == ASSUME IInv, NEW r \in Slots, Reply(r) PROVE IInv' /\ shown' = shown
<1> USE DEF IInv, FlyoutInv
<1>1. [FlyoutNext]_allVars BY DEF FlyoutNext, Answer
<1>2. /\ reads[r].at = "sampled" /\ UNCHANGED <<up, service, running, shown>>
      /\ up' \in BOOLEAN /\ service' \in Nat /\ running' \in BOOLEAN
  BY DEF Reply, ShapeOK, serviceVars
<1>3. PICK m : m = <<"reply", r>> OBVIOUS
<1>4. m \in Messages /\ m[1] = "reply" /\ m[2] = r /\ wire' = Append(wire, m)
  BY <1>3, OtherIsMessage DEF Reply, Send
<1>5. <<m>> \in Seq(Messages) /\ wire' = wire \o <<m>> /\ wire' \in Seq(Messages)
      /\ Len(<<m>>) = 1 /\ \A n \in DOMAIN <<m>> : <<m>>[n] = m
  <2>1. wire \in Seq(Messages) BY DEF ShapeOK
  <2> QED BY <1>4, <2>1
<1>6. /\ IsRead(reads'[r]) /\ reads'[r].at = "replied" /\ reads'[r].fresh = reads[r].fresh
      /\ reads'[r].sample = reads[r].sample
  <2>1. reads'[r] = [reads[r] EXCEPT !.at = "replied"] BY DEF Reply, ShapeOK
  <2> QED BY <2>1, ReadFields DEF ShapeOK
<1>7. DOMAIN reads' = Slots /\ \A q \in Slots \ {r} : reads'[q] = reads[q]
  BY DEF Reply, ShapeOK
<1>8. ShapeOK' BY <1>2, <1>5, <1>6, <1>7 DEF ShapeOK, Answering
<1>9. ReadsOK'
  <2>1. \A kind \in Followed : \A v : SaidOf(kind, v) => SaidOf(kind, v)'
    BY <1>1, SaidStays DEF ShapeOK
  <2> SUFFICES ASSUME NEW q \in Slots, Answering(reads'[q]), NEW kind \in reads'[q].fresh \cap Followed
               PROVE  /\ SaidOf(kind, reads[q].sample[kind])'
                      /\ NotBehind(kind, shown'[kind], reads'[q].sample[kind])
    BY DEF ReadsOK, Answering
  <2>2. /\ Answering(reads[q]) /\ reads'[q].fresh = reads[q].fresh
        /\ reads'[q].sample = reads[q].sample
    BY <1>2, <1>6, <1>7 DEF Answering
  <2>3. SaidOf(kind, reads[q].sample[kind]) /\ NotBehind(kind, shown[kind], reads[q].sample[kind])
    BY <2>2 DEF ReadsOK
  <2> QED BY <1>2, <2>1, <2>2, <2>3
<1>10. \A q \in Slots : reads[q].at = "replied" => reads'[q] = reads[q] BY <1>2, <1>7
<1> QED BY <1>1, <1>2, <1>4, <1>5, <1>6, <1>8, <1>9, <1>10, Sends DEF Followed

\* What overtaking does to the reads, each of them.
LEMMA OvertakenReads ==
  ASSUME ShapeOK, NEW kinds, NEW o, o = Overtaken(kinds)
  PROVE  /\ DOMAIN o = Slots
         /\ \A r \in Slots :
              /\ IsRead(o[r]) /\ o[r].at = reads[r].at /\ o[r].fresh = reads[r].fresh \ kinds
              /\ Answering(o[r]) => o[r].fresh \subseteq DOMAIN o[r].sample
              /\ Answering(o[r]) => \A kind \in o[r].fresh : o[r].sample[kind] = reads[r].sample[kind]
<1>1. DOMAIN o = Slots BY DEF Overtaken
<1> SUFFICES ASSUME NEW r \in Slots
             PROVE  /\ IsRead(o[r]) /\ o[r].at = reads[r].at /\ o[r].fresh = reads[r].fresh \ kinds
                    /\ Answering(o[r]) => o[r].fresh \subseteq DOMAIN o[r].sample
                    /\ Answering(o[r]) =>
                         \A kind \in o[r].fresh : o[r].sample[kind] = reads[r].sample[kind]
  BY <1>1
<1> DEFINE c == reads[r]
           d == o[r]
<1>2. PICK x : x = Without(c.sample, kinds) OBVIOUS
<1>3. d = [c EXCEPT !.fresh = c.fresh \ kinds, !.sample = x] BY <1>2 DEF Overtaken
<1>4. IsRead(c) /\ (Answering(c) => c.fresh \subseteq DOMAIN c.sample) BY DEF ShapeOK
<1> HIDE DEF c, d
<1>5. IsRead(d) /\ d.at = c.at /\ d.fresh = c.fresh \ kinds /\ d.sample = x
  <2>1. c = [at |-> c.at, fresh |-> c.fresh, sample |-> c.sample] BY <1>4 DEF IsRead
  <2>2. d = [at |-> c.at, fresh |-> c.fresh \ kinds, sample |-> x] BY <1>3, <2>1
  <2> QED BY <2>2 DEF IsRead
<1>6. /\ DOMAIN d.sample = DOMAIN c.sample \ kinds
      /\ \A kind \in DOMAIN d.sample : d.sample[kind] = c.sample[kind]
  BY <1>2, <1>5 DEF Without
<1>7. Answering(d) => c.fresh \subseteq DOMAIN c.sample BY <1>4, <1>5 DEF Answering
<1> QED BY <1>5, <1>6, <1>7 DEF c, d

Monotone == \A kind \in Followed : NotBehind(kind, shown[kind], shown'[kind])

LEMMA HeardFacts ==
  ASSUME IInv, NEW names, Hear(names)
  PROVE  /\ wire # << >> /\ wire' = Tail(wire) /\ wire' \in Seq(Messages) /\ Head(wire) \in Messages
         /\ 1 \in DOMAIN wire /\ Head(wire) = wire[1] /\ Head(wire)[1] \in names
         /\ UNCHANGED <<up, service, running>>
<1>1. wire \in Seq(Messages) BY DEF IInv, FlyoutInv, ShapeOK
<1>2. wire # << >> /\ wire' = Tail(wire) /\ Head(wire)[1] \in names /\ UNCHANGED <<up, service, running>>
  BY DEF Hear, serviceVars
<1> QED BY <1>1, <1>2, QueueShrinks

LEMMA ApplySignalOK == ASSUME IInv, ApplySignal PROVE IInv' /\ Monotone
<1>1. [FlyoutNext]_allVars /\ ShapeOK BY DEF FlyoutNext, Apply, IInv, FlyoutInv
<1>2. PICK m : m = Head(wire) OBVIOUS
<1>3. /\ wire # << >> /\ wire' = Tail(wire) /\ wire' \in Seq(Messages) /\ m[1] \in Kinds
      /\ UNCHANGED <<up, service, running>>
  BY <1>2, HeardFacts DEF ApplySignal
<1>4. PICK kinds : kinds = {m[1]} OBVIOUS
<1>5. reads' = Overtaken(kinds) /\ shown' = [shown EXCEPT ![m[1]] = m[2]]
  BY <1>2, <1>4 DEF ApplySignal
<1>6. /\ DOMAIN reads' = Slots
      /\ \A r \in Slots :
           /\ IsRead(reads'[r]) /\ reads'[r].at = reads[r].at /\ reads'[r].fresh = reads[r].fresh \ kinds
           /\ Answering(reads'[r]) => reads'[r].fresh \subseteq DOMAIN reads'[r].sample
           /\ Answering(reads'[r]) =>
                \A kind \in reads'[r].fresh : reads'[r].sample[kind] = reads[r].sample[kind]
  BY <1>1, <1>5, OvertakenReads
<1>7. ShapeOK' BY <1>1, <1>3, <1>5, <1>6 DEF ShapeOK
<1>8. m[1] # "reply" BY <1>3 DEF Kinds
<1>9. ASSUME NEW kind \in Followed
      PROVE  \/ shown'[kind] = shown[kind]
             \/ /\ Carries(m, kind) /\ shown'[kind] = Carried(m, kind)
                /\ \A r \in Slots : kind \notin reads'[r].fresh \/ ~Answering(reads'[r])
  <2>1. kind \in Kinds BY DEF Followed, Kinds
  <2>2. CASE kind = m[1]
    <3>1. Carries(m, kind) /\ Carried(m, kind) = m[2] BY <1>8, <2>2 DEF Carries, Carried
    <3>2. shown'[kind] = m[2] BY <1>1, <1>5, <2>1, <2>2 DEF ShapeOK
    <3>3. \A r \in Slots : kind \notin reads'[r].fresh BY <1>4, <1>6, <2>2
    <3> QED BY <3>1, <3>2, <3>3
  <2>3. CASE kind # m[1] BY <1>1, <1>5, <2>1, <2>3 DEF ShapeOK
  <2> QED BY <2>2, <2>3
<1>10. ASSUME NEW r \in Slots
      PROVE  \/ ~Answering(reads'[r]) /\ (reads[r].at # "replied" \/ (m[1] = "reply" /\ m[2] = r))
             \/ /\ reads'[r].at = reads[r].at /\ reads'[r].fresh \subseteq reads[r].fresh
                /\ \A kind \in reads'[r].fresh : reads'[r].sample[kind] = reads[r].sample[kind]
                /\ ~(m[1] = "reply" /\ m[2] = r)
  BY <1>6, <1>8 DEF Answering
<1> QED BY <1>1, <1>2, <1>3, <1>7, <1>9, <1>10, Applies DEF Monotone

LEMMA ForgetOK == ASSUME IInv, Forget PROVE IInv' /\ Monotone
<1>1. [FlyoutNext]_allVars /\ ShapeOK BY DEF FlyoutNext, Apply, IInv, FlyoutInv
<1>2. PICK m : m = Head(wire) OBVIOUS
<1>3. /\ wire # << >> /\ wire' = Tail(wire) /\ wire' \in Seq(Messages) /\ m[1] = "gone"
      /\ UNCHANGED <<up, service, running>>
  BY <1>2, HeardFacts DEF Forget
<1>4. reads' = Overtaken({"state"}) /\ shown' = shown BY DEF Forget
<1>5. /\ DOMAIN reads' = Slots
      /\ \A r \in Slots :
           /\ IsRead(reads'[r]) /\ reads'[r].at = reads[r].at /\ reads'[r].fresh = reads[r].fresh \ {"state"}
           /\ Answering(reads'[r]) => reads'[r].fresh \subseteq DOMAIN reads'[r].sample
           /\ Answering(reads'[r]) =>
                \A kind \in reads'[r].fresh : reads'[r].sample[kind] = reads[r].sample[kind]
  BY <1>1, <1>4, OvertakenReads
<1>6. ShapeOK' BY <1>1, <1>3, <1>4, <1>5 DEF ShapeOK
<1>7. ASSUME NEW r \in Slots
      PROVE  \/ ~Answering(reads'[r]) /\ (reads[r].at # "replied" \/ (m[1] = "reply" /\ m[2] = r))
             \/ /\ reads'[r].at = reads[r].at /\ reads'[r].fresh \subseteq reads[r].fresh
                /\ \A kind \in reads'[r].fresh : reads'[r].sample[kind] = reads[r].sample[kind]
                /\ ~(m[1] = "reply" /\ m[2] = r)
  BY <1>3, <1>5 DEF Answering
<1> QED BY <1>1, <1>2, <1>3, <1>4, <1>6, <1>7, Applies DEF Monotone

LEMMA ReadAllOK == ASSUME IInv, ReadAll PROVE IInv' /\ Monotone
<1>1. [FlyoutNext]_allVars /\ ShapeOK BY DEF FlyoutNext, Apply, IInv, FlyoutInv
<1>2. PICK m : m = Head(wire) OBVIOUS
<1>3. /\ wire # << >> /\ wire' = Tail(wire) /\ wire' \in Seq(Messages) /\ m[1] \in {"came", "done"}
      /\ UNCHANGED <<up, service, running>>
  BY <1>2, HeardFacts DEF ReadAll
<1>4. shown' = shown BY DEF ReadAll
<1>5. PICK r \in Slots : /\ reads[r].at = "idle"
                         /\ reads' = [reads EXCEPT ![r].at = "asked", ![r].fresh = Kinds]
  BY DEF ReadAll
<1>6. DOMAIN reads' = Slots /\ \A q \in Slots \ {r} : reads'[q] = reads[q]
  BY <1>1, <1>5 DEF ShapeOK
<1>7. IsRead(reads'[r]) /\ reads'[r].at = "asked" /\ reads'[r].fresh = Kinds
  <2>1. IsRead(reads[r]) BY <1>1 DEF ShapeOK
  <2>2. PICK c : c = [reads[r] EXCEPT !.at = "asked"] OBVIOUS
  <2>3. IsRead(c) /\ c.at = "asked" BY <2>1, <2>2, ReadFields
  <2>4. reads'[r] = [c EXCEPT !.fresh = Kinds] BY <1>1, <1>5, <2>2 DEF ShapeOK
  <2> QED BY <2>3, <2>4, ReadFields
<1>8. ShapeOK' BY <1>1, <1>3, <1>4, <1>6, <1>7 DEF ShapeOK, Answering
<1>9. ASSUME NEW q \in Slots
      PROVE  \/ ~Answering(reads'[q]) /\ (reads[q].at # "replied" \/ (m[1] = "reply" /\ m[2] = q))
             \/ /\ reads'[q].at = reads[q].at /\ reads'[q].fresh \subseteq reads[q].fresh
                /\ \A kind \in reads'[q].fresh : reads'[q].sample[kind] = reads[q].sample[kind]
                /\ ~(m[1] = "reply" /\ m[2] = q)
  BY <1>3, <1>5, <1>6, <1>7 DEF Answering
<1> QED BY <1>1, <1>2, <1>3, <1>4, <1>8, <1>9, Applies DEF Monotone

LEMMA ApplyReplyOK == ASSUME IInv, ApplyReply PROVE IInv' /\ Monotone
<1>1. [FlyoutNext]_allVars /\ ShapeOK BY DEF FlyoutNext, Apply, IInv, FlyoutInv
<1>2. PICK m : m = Head(wire) OBVIOUS
<1>3. /\ wire # << >> /\ wire' = Tail(wire) /\ wire' \in Seq(Messages) /\ m[1] = "reply"
      /\ UNCHANGED <<up, service, running>> /\ 1 \in DOMAIN wire /\ m = wire[1]
  BY <1>2, HeardFacts DEF ApplyReply
<1>4. PICK r \in Slots : m[2] = r BY <1>3 DEF IInv, FlyoutInv, RepliesOK
<1>5. PICK o : o = Overtaken(reads[r].fresh) OBVIOUS
<1>6. /\ DOMAIN o = Slots
      /\ \A q \in Slots :
           /\ IsRead(o[q]) /\ o[q].at = reads[q].at /\ o[q].fresh = reads[q].fresh \ reads[r].fresh
           /\ Answering(o[q]) => o[q].fresh \subseteq DOMAIN o[q].sample
           /\ Answering(o[q]) => \A kind \in o[q].fresh : o[q].sample[kind] = reads[q].sample[kind]
  BY <1>1, <1>5, OvertakenReads
<1>7. /\ shown' = [kind \in Kinds |-> IF kind \in reads[r].fresh THEN reads[r].sample[kind]
                                      ELSE shown[kind]]
      /\ reads' = [o EXCEPT ![r] = Idle]
  BY <1>2, <1>4, <1>5 DEF ApplyReply
<1>8. /\ IsRead(Idle) /\ Idle.fresh = {} /\ ~Answering(Idle) BY DEF Idle, IsRead, Answering
<1>9. DOMAIN reads' = Slots /\ reads'[r] = Idle /\ \A q \in Slots \ {r} : reads'[q] = o[q]
  BY <1>6, <1>7
<1>10. ShapeOK' BY <1>1, <1>3, <1>6, <1>7, <1>8, <1>9 DEF ShapeOK
<1>11. ASSUME NEW kind \in Followed
       PROVE  \/ shown'[kind] = shown[kind]
              \/ /\ Carries(m, kind) /\ shown'[kind] = Carried(m, kind)
                 /\ \A q \in Slots : kind \notin reads'[q].fresh \/ ~Answering(reads'[q])
  <2>1. kind \in Kinds BY DEF Followed, Kinds
  <2>2. CASE kind \notin reads[r].fresh BY <1>7, <2>1, <2>2
  <2>3. CASE kind \in reads[r].fresh
    <3>1. Carries(m, kind) /\ shown'[kind] = Carried(m, kind)
      BY <1>3, <1>4, <1>7, <2>1, <2>3 DEF Carries, Carried
    <3>2. \A q \in Slots : kind \notin reads'[q].fresh BY <1>6, <1>8, <1>9, <2>3
    <3> QED BY <3>1, <3>2
  <2> QED BY <2>2, <2>3
<1>12. ASSUME NEW q \in Slots
       PROVE  \/ ~Answering(reads'[q]) /\ (reads[q].at # "replied" \/ (m[1] = "reply" /\ m[2] = q))
              \/ /\ reads'[q].at = reads[q].at /\ reads'[q].fresh \subseteq reads[q].fresh
                 /\ \A kind \in reads'[q].fresh : reads'[q].sample[kind] = reads[q].sample[kind]
                 /\ ~(m[1] = "reply" /\ m[2] = q)
  BY <1>3, <1>4, <1>6, <1>8, <1>9 DEF Answering
<1> QED BY <1>1, <1>2, <1>3, <1>10, <1>11, <1>12, Applies DEF Monotone

LEMMA StepOK == IInv /\ [FlyoutNext]_allVars => IInv' /\ Monotone
<1> SUFFICES ASSUME IInv, [FlyoutNext]_allVars PROVE IInv' /\ Monotone OBVIOUS
<1>1. ASSUME shown' = shown PROVE Monotone
  BY <1>1, SelfNotBehind DEF Monotone, IInv, FlyoutInv, ShownOK, ShapeOK
<1>2. CASE Machine
  <2>1. UNCHANGED <<up, service, running, wire, reads, shown>>
    BY <1>2 DEF Machine, flyoutVars, serviceVars
  <2> QED BY <1>1, <2>1, Stands DEF IInv, FlyoutInv, ShapeOK
<1>3. CASE Poll BY <1>1, <1>3, PollOK
<1>4. CASE Watch BY <1>1, <1>4, WatchOK
<1>5. CASE Answer BY <1>1, <1>5, SampleOK, ReplyOK DEF Answer
<1>6. CASE Control \/ Leave \/ Come BY <1>1, <1>6, ServiceOK
<1>7. CASE Apply BY <1>7, ApplySignalOK, ApplyReplyOK, ReadAllOK, ForgetOK DEF Apply
<1>8. CASE UNCHANGED allVars
  <2>1. UNCHANGED <<up, service, running, wire, reads, shown>>
    BY <1>8 DEF allVars, flyoutVars, serviceVars
  <2> QED BY <1>1, <2>1, Stands DEF IInv, FlyoutInv, ShapeOK
<1> QED BY <1>2, <1>3, <1>4, <1>5, <1>6, <1>7, <1>8 DEF FlyoutNext
-----------------------------------------------------------------------------
(* Nothing is missed: a follow-up read is never needed.                      *)

\* The thread that publishes has not yet announced a job that has moved.
Settled(kind) == kind = "job" => last_job = job

\* This message is a signal of the service that is there now.
Fresh(i, kind) == wire[i][1] = kind /\ wire[i][2].by = service
Signalled(kind) == \E i \in DOMAIN wire : Fresh(i, kind)

\* The flyout has yet to learn that this service has come.
Announced(j) == wire[j] = <<"came", service>>
Announcing == \E j \in DOMAIN wire : Announced(j)

\* The reply is under way, and was so when the present service came.
Overdue(r) == \E i, j \in DOMAIN wire : wire[i] = <<"reply", r>> /\ i < j /\ Announced(j)

\* The last signal of a kind says what is served.
LastWord(kind) ==
  \A i \in DOMAIN wire : Fresh(i, kind) =>
    wire[i][2] = Sampled[kind] \/ \E j \in DOMAIN wire : i < j /\ Fresh(j, kind)

\* A read has sampled what is served, or something newer comes after it.
LastAnswer(kind) ==
  \A r \in Slots : (Answering(reads[r]) /\ kind \in reads[r].fresh) =>
    reads[r].sample[kind] = Sampled[kind] \/ Signalled(kind) \/ Overdue(r)

\* What is served is shown, or under way in one form or another.
OnItsWay(kind) ==
  \/ Signalled(kind) \/ Announcing \/ shown[kind] = Sampled[kind]
  \/ \E r \in Slots : kind \in reads[r].fresh

\* Whatever an earlier service sent comes before the announcement of the present one.
EarlierFirst ==
  \A i \in DOMAIN wire :
    (wire[i][1] = "gone" \/ (wire[i][1] \in Kinds /\ wire[i][2].by # service)) =>
      \E j \in DOMAIN wire : i < j /\ Announced(j)

HeardOrComing == known \/ Announcing \/ \E r \in Slots : "state" \in reads[r].fresh

\* The calls of a service that has gone have failed; every other has its reply.
CallsOK ==
  \A r \in Slots : /\ reads[r].at = "idle" => reads[r].fresh = {}
                   /\ reads[r].at = "sampled" => up
                   /\ reads[r].at = "replied" => \E i \in DOMAIN wire : wire[i] = <<"reply", r>>

BookOK ==
  /\ JobNotOlder(last_job, job) /\ shown = [kind \in Kinds |-> shown[kind]]
  /\ \A i \in DOMAIN wire : wire[i][1] \in Kinds => wire[i][2].by \in 0..service

PresentOK ==
  /\ \A kind \in Kinds : Settled(kind) => LastWord(kind) /\ LastAnswer(kind) /\ OnItsWay(kind)
  /\ EarlierFirst /\ HeardOrComing

NeedInv == CallsOK /\ BookOK /\ (up => PresentOK)

\* "No follow-up read is ever needed": once the thread that publishes has
\* announced the job and nothing is under way, neither message nor read, the
\* flyout shows what is served.
NothingMissed ==
  (up /\ wire = << >> /\ (\A r \in Slots : reads[r].at = "idle") /\ last_job = job) =>
    (known /\ shown = Sampled)
LEMMA MessageRange ==
  ASSUME NEW kind \in Kinds
  PROVE  kind \notin {"reply", "came", "done", "gone"} /\ Sampled[kind].by = service
BY DEF Kinds, Sampled, Said

LEMMA QueueShifts ==
  ASSUME NEW S, NEW w \in Seq(S), w # << >>, NEW t, t = Tail(w)
  PROVE  \A i \in DOMAIN w : i = 1 \/ (i > 1 /\ i - 1 \in DOMAIN t /\ t[i - 1] = w[i] /\ i \in Nat)
<1>1. /\ t \in Seq(S) /\ Len(t) = Len(w) - 1 /\ Len(w) \in Nat /\ Len(w) >= 1
      /\ DOMAIN w = 1..Len(w) /\ DOMAIN t = 1..Len(t)
  OBVIOUS
<1>2. \A i \in 1..Len(t) : t[i] = w[i + 1] BY <1>1
<1> QED BY <1>1, <1>2

\* The service says more: of each kind nothing, with what is served unchanged,
\* or what is now served; or a job has moved and is not announced yet.
LEMMA SaysMore ==
  ASSUME IInv, NeedInv, NEW s \in Seq(Messages), wire' = wire \o s,
         UNCHANGED <<up, service, known, shown>>, JobNotOlder(last_job', job'),
         \A n \in DOMAIN s : s[n][1] # "gone",
         \A kind \in Kinds :
           \/ /\ \A n \in DOMAIN s : s[n][1] # kind
              /\ Settled(kind)' => Settled(kind) /\ Sampled'[kind] = Sampled[kind]
           \/ \E n \in DOMAIN s : /\ s[n] = <<kind, Sampled'[kind]>>
                                  /\ \A l \in DOMAIN s : s[l][1] = kind => l = n,
         \A r \in Slots :
           /\ reads'[r].fresh = reads[r].fresh
           /\ reads'[r].at = "idle" => reads[r].at = "idle"
           /\ reads'[r].at = "sampled" => reads[r].at = "sampled" \/ up
           /\ reads'[r].at = "replied" =>
                reads[r].at = "replied" \/ \E n \in DOMAIN s : s[n] = <<"reply", r>>
           /\ Answering(reads'[r]) => \A kind \in reads[r].fresh :
                \/ reads'[r].sample[kind] = Sampled'[kind]
                \/ Answering(reads[r]) /\ reads'[r].sample[kind] = reads[r].sample[kind]
  PROVE  NeedInv'
<1> DEFINE old == DOMAIN wire
           new == DOMAIN wire' \ DOMAIN wire
<1>1. /\ old \subseteq DOMAIN wire' /\ \A i \in old : wire'[i] = wire[i]
      /\ \A i \in new : i - Len(wire) \in DOMAIN s /\ wire'[i] = s[i - Len(wire)]
      /\ \A i \in old : \A j \in new : i < j
      /\ DOMAIN wire' \subseteq Nat /\ Len(wire) \in Nat
  BY QueueGrows DEF IInv, FlyoutInv, ShapeOK
<1>2. \A n \in DOMAIN s : n + Len(wire) \in new /\ wire'[n + Len(wire)] = s[n]
  <2>1. /\ wire \in Seq(Messages) /\ Len(wire') = Len(wire) + Len(s) /\ Len(wire) \in Nat
        /\ Len(s) \in Nat /\ DOMAIN wire = 1..Len(wire) /\ DOMAIN s = 1..Len(s)
        /\ DOMAIN wire' = 1..Len(wire')
    BY DEF IInv, FlyoutInv, ShapeOK
  <2>2. \A i \in 1..Len(wire') : wire'[i] = IF i <= Len(wire) THEN wire[i] ELSE s[i - Len(wire)]
    BY <2>1
  <2> QED BY <2>1, <2>2
<1> HIDE DEF old, new
<1>3. \A i \in DOMAIN wire' : i \in old \/ i \in new BY DEF old, new
<1>4. old = DOMAIN wire BY DEF old
<1>5. service \in Nat /\ service' = service BY DEF IInv, FlyoutInv, ShapeOK
<1>6. \A kind \in Kinds : kind # "gone" /\ kind # "reply" /\ Sampled'[kind].by = service
  BY <1>5 DEF Kinds, Sampled, Said
\* What a new signal says.
<1>7. ASSUME NEW i \in new, wire'[i][1] \in Kinds
      PROVE  wire'[i][2].by = service /\ wire'[i][2] = Sampled'[wire'[i][1]]
  <2>1. PICK n \in DOMAIN s : n = i - Len(wire) /\ wire'[i] = s[n] BY <1>1, <1>7
  <2>2. PICK kind \in Kinds : kind = wire'[i][1] BY <1>7
  <2>3. PICK l \in DOMAIN s : s[l] = <<kind, Sampled'[kind]>> /\ \A k \in DOMAIN s : s[k][1] = kind => k = l
    BY <2>1, <2>2
  <2>4. wire'[i] = <<kind, Sampled'[kind]>> BY <2>1, <2>2, <2>3
  <2>5. wire'[i][1] = kind /\ wire'[i][2] = Sampled'[kind]
    <3>1. PICK v : v = Sampled'[kind] OBVIOUS
    <3>2. PICK m : m = wire'[i] OBVIOUS
    <3>3. m = <<kind, v>> BY <2>4, <3>1, <3>2
    <3>4. m[1] = kind /\ m[2] = v BY <3>3
    <3> QED BY <3>1, <3>2, <3>4
  <2>6. Sampled'[kind].by = service BY <1>6
  <2> QED BY <2>5, <2>6
<1>8. CallsOK'
  <2> SUFFICES ASSUME NEW r \in Slots
               PROVE  /\ reads'[r].at = "idle" => reads'[r].fresh = {}
                      /\ reads'[r].at = "sampled" => up'
                      /\ reads'[r].at = "replied" => \E i \in DOMAIN wire' : wire'[i] = <<"reply", r>>
    BY DEF CallsOK
  <2>1. reads'[r].at = "idle" => reads'[r].fresh = {} BY DEF NeedInv, CallsOK
  <2>2. reads'[r].at = "sampled" => up' BY DEF NeedInv, CallsOK
  <2>3. ASSUME reads'[r].at = "replied" PROVE \E i \in DOMAIN wire' : wire'[i] = <<"reply", r>>
    <3>1. CASE reads[r].at = "replied"
      <4>1. PICK i \in DOMAIN wire : wire[i] = <<"reply", r>> BY <3>1 DEF NeedInv, CallsOK
      <4> QED BY <1>1, <1>4, <4>1
    <3>2. CASE \E n \in DOMAIN s : s[n] = <<"reply", r>>
      <4>1. PICK n \in DOMAIN s : s[n] = <<"reply", r>> BY <3>2
      <4>2. n + Len(wire) \in new /\ wire'[n + Len(wire)] = <<"reply", r>> BY <1>2, <4>1
      <4>3. n + Len(wire) \in DOMAIN wire' BY <4>2 DEF new
      <4> QED BY <4>2, <4>3
    <3> QED BY <2>3, <3>1, <3>2
  <2> QED BY <2>1, <2>2, <2>3
<1>9. BookOK'
  <2>1. \A i \in DOMAIN wire' : wire'[i][1] \in Kinds => wire'[i][2].by \in 0..service'
    <3> TAKE i \in DOMAIN wire'
    <3> HAVE wire'[i][1] \in Kinds
    <3>1. CASE i \in old BY <1>1, <1>4, <1>5, <3>1 DEF NeedInv, BookOK
    <3>2. CASE i \in new BY <1>5, <1>7, <3>2
    <3> QED BY <1>3, <3>1, <3>2
  <2>2. shown' = [kind \in Kinds |-> shown'[kind]] BY DEF NeedInv, BookOK
  <2> QED BY <2>1, <2>2 DEF BookOK
<1>10. ASSUME up' PROVE PresentOK'
  <2>1. PresentOK BY <1>10 DEF NeedInv
  <2>2. \A j \in old : Announced(j) => Announced(j)' /\ j \in DOMAIN wire'
    BY <1>1, <1>5 DEF Announced
  <2>3. Announcing => Announcing' BY <1>4, <2>2 DEF Announcing
  <2>4. ASSUME NEW kind \in Kinds, Settled(kind)'
        PROVE  LastWord(kind)' /\ LastAnswer(kind)' /\ OnItsWay(kind)'
    <3>1. CASE \E n \in DOMAIN s : /\ s[n] = <<kind, Sampled'[kind]>>
                                   /\ \A l \in DOMAIN s : s[l][1] = kind => l = n
      <4>1. PICK n \in DOMAIN s : s[n] = <<kind, Sampled'[kind]>> BY <3>1
      <4>2. n + Len(wire) \in new /\ wire'[n + Len(wire)] = s[n] BY <1>2
      <4>3. PICK k \in new : wire'[k] = <<kind, Sampled'[kind]>>
        <5>1. wire'[n + Len(wire)] = <<kind, Sampled'[kind]>> BY <4>1, <4>2
        <5> QED BY <4>2, <5>1
      <4>4. k \in DOMAIN wire' /\ Fresh(k, kind)' BY <1>5, <1>6, <4>3 DEF Fresh, new
      <4>5. LastWord(kind)'
        <5> SUFFICES ASSUME NEW i \in DOMAIN wire', Fresh(i, kind)'
                     PROVE  wire'[i][2] = Sampled'[kind] \/ \E j \in DOMAIN wire' : i < j /\ Fresh(j, kind)'
          BY DEF LastWord
        <5>1. CASE i \in old BY <1>1, <4>3, <4>4, <5>1
        <5>2. CASE i \in new BY <1>7, <5>2 DEF Fresh
        <5> QED BY <1>3, <5>1, <5>2
      <4>6. Signalled(kind)' BY <4>4 DEF Signalled
      <4> QED BY <4>5, <4>6 DEF LastAnswer, OnItsWay
    <3>2. CASE /\ \A n \in DOMAIN s : s[n][1] # kind
               /\ Settled(kind)' => Settled(kind) /\ Sampled'[kind] = Sampled[kind]
      <4>1. Settled(kind) /\ Sampled'[kind] = Sampled[kind] BY <2>4, <3>2
      <4>2. LastWord(kind) /\ LastAnswer(kind) /\ OnItsWay(kind) BY <2>1, <4>1 DEF PresentOK
      <4>3. \A i \in new : wire'[i][1] # kind BY <1>1, <3>2
      <4>4. \A i \in old : i \in DOMAIN wire' /\ (Fresh(i, kind)' <=> Fresh(i, kind))
        BY <1>1, <1>5 DEF Fresh
      <4>5. Signalled(kind) => Signalled(kind)' BY <1>4, <4>4 DEF Signalled
      <4>6. LastWord(kind)'
        <5> SUFFICES ASSUME NEW i \in DOMAIN wire', Fresh(i, kind)'
                     PROVE  wire'[i][2] = Sampled'[kind] \/ \E j \in DOMAIN wire' : i < j /\ Fresh(j, kind)'
          BY DEF LastWord
        <5>1. i \in old BY <1>3, <4>3 DEF Fresh
        <5>2. wire'[i] = wire[i] /\ Fresh(i, kind) BY <1>1, <4>4, <5>1
        <5>3. wire[i][2] = Sampled[kind] \/ \E j \in old : i < j /\ Fresh(j, kind)
          BY <1>4, <4>2, <5>1, <5>2 DEF LastWord
        <5> QED BY <4>1, <4>4, <5>2, <5>3
      <4>7. LastAnswer(kind)'
        <5> SUFFICES ASSUME NEW r \in Slots, Answering(reads'[r]), kind \in reads'[r].fresh
                     PROVE  reads'[r].sample[kind] = Sampled'[kind] \/ Signalled(kind)' \/ Overdue(r)'
          BY DEF LastAnswer, Answering
        <5>1. CASE reads'[r].sample[kind] = Sampled'[kind] BY <5>1
        <5>2. CASE Answering(reads[r]) /\ reads'[r].sample[kind] = reads[r].sample[kind]
          <6>1. reads[r].sample[kind] = Sampled[kind] \/ Signalled(kind) \/ Overdue(r)
            BY <4>2, <5>2 DEF LastAnswer
          <6>2. ASSUME Overdue(r) PROVE Overdue(r)'
            <7>1. PICK i \in old, j \in old : wire[i] = <<"reply", r>> /\ i < j /\ Announced(j)
              BY <1>4, <6>2 DEF Overdue
            <7>2. i \in DOMAIN wire' /\ wire'[i] = <<"reply", r>> /\ j \in DOMAIN wire' /\ Announced(j)'
              BY <1>1, <2>2, <7>1
            <7> QED BY <7>1, <7>2 DEF Overdue
          <6> QED BY <4>1, <4>5, <5>2, <6>1, <6>2
        <5> QED BY <5>1, <5>2
      <4>8. OnItsWay(kind)' BY <2>3, <4>1, <4>2, <4>5 DEF OnItsWay
      <4> QED BY <4>6, <4>7, <4>8
    <3> QED BY <3>1, <3>2
  <2>5. EarlierFirst'
    <3> SUFFICES ASSUME NEW i \in DOMAIN wire',
                        wire'[i][1] = "gone" \/ (wire'[i][1] \in Kinds /\ wire'[i][2].by # service')
                 PROVE  \E j \in DOMAIN wire' : i < j /\ Announced(j)'
      BY DEF EarlierFirst
    <3>1. i \notin new BY <1>1, <1>5, <1>7
    <3>2. i \in old /\ wire'[i] = wire[i] BY <1>1, <1>3, <3>1
    <3>3. PICK j \in old : i < j /\ Announced(j) BY <1>4, <1>5, <2>1, <3>2 DEF PresentOK, EarlierFirst
    <3> QED BY <2>2, <3>3
  <2>6. HeardOrComing' BY <2>1, <2>3 DEF PresentOK, HeardOrComing
  <2>7. \A kind \in Kinds : (Settled(kind) => LastWord(kind) /\ LastAnswer(kind) /\ OnItsWay(kind))'
    BY <2>4
  <2> QED BY <2>5, <2>6, <2>7 DEF PresentOK
<1> QED BY <1>8, <1>9, <1>10 DEF NeedInv

\* The flyout takes a message: it shows what that carries and nothing else, no
\* older answer is of use for it any more, and no other becomes useless, except
\* for the state, when the service has gone.
LEMMA Learns ==
  ASSUME IInv, NeedInv, wire # << >>, wire' = Tail(wire), NEW m, m = Head(wire),
         UNCHANGED <<up, service, running, desktop_state, job, last_job>>,
         shown' = [kind \in Kinds |-> shown'[kind]],
         \A kind \in Kinds :
           \/ ~Carries(m, kind) /\ shown'[kind] = shown[kind]
           \/ /\ Carries(m, kind) /\ shown'[kind] = Carried(m, kind)
              /\ \A r \in Slots : kind \notin reads'[r].fresh,
         \A r \in Slots : \A kind \in reads[r].fresh :
           kind \in reads'[r].fresh \/ Carries(m, kind) \/ (m[1] = "gone" /\ kind = "state"),
         \A r \in Slots : reads'[r].at = "idle" => reads'[r].fresh = {},
         \A r \in Slots : Answering(reads'[r]) =>
           /\ reads'[r].at = reads[r].at /\ m # <<"reply", r>> /\ reads'[r].fresh \subseteq reads[r].fresh
           /\ \A kind \in reads'[r].fresh : reads'[r].sample[kind] = reads[r].sample[kind],
         m[1] = "came" => \E r \in Slots : reads'[r].fresh = Kinds,
         known /\ m[1] # "gone" => known', Carries(m, "state") => known'
  PROVE  NeedInv'
<1>1. /\ 1 \in DOMAIN wire /\ m = wire[1] /\ wire \in Seq(Messages)
      /\ \A i \in DOMAIN wire' : i \in Nat /\ i + 1 \in DOMAIN wire /\ wire'[i] = wire[i + 1] /\ 1 < i + 1
  BY QueueShrinks DEF IInv, FlyoutInv, ShapeOK
<1>2. \A i \in DOMAIN wire :
        i = 1 \/ (i > 1 /\ i - 1 \in DOMAIN wire' /\ wire'[i - 1] = wire[i] /\ i \in Nat)
  BY <1>1, QueueShifts
<1>3. service' = service /\ Sampled' = Sampled BY DEF Sampled, Said
<1>4. \A i \in DOMAIN wire : (i # 1 /\ Announced(i)) => Announcing'
  <2> TAKE i \in DOMAIN wire
  <2> HAVE i # 1 /\ Announced(i)
  <2>1. i - 1 \in DOMAIN wire' /\ wire'[i - 1] = wire[i] BY <1>2
  <2>2. wire'[i - 1] = <<"came", service'>> BY <1>3, <2>1 DEF Announced
  <2> QED BY <2>1, <2>2 DEF Announcing, Announced
<1>5. CallsOK'
  <2> SUFFICES ASSUME NEW r \in Slots
               PROVE  /\ reads'[r].at = "idle" => reads'[r].fresh = {}
                      /\ reads'[r].at = "sampled" => up'
                      /\ reads'[r].at = "replied" => \E i \in DOMAIN wire' : wire'[i] = <<"reply", r>>
    BY DEF CallsOK
  <2>1. reads'[r].at = "sampled" => up' BY DEF NeedInv, CallsOK, Answering
  <2>2. ASSUME reads'[r].at = "replied" PROVE \E i \in DOMAIN wire' : wire'[i] = <<"reply", r>>
    <3>1. reads[r].at = "replied" /\ m # <<"reply", r>> BY <2>2 DEF Answering
    <3>2. PICK i \in DOMAIN wire : wire[i] = <<"reply", r>> BY <3>1 DEF NeedInv, CallsOK
    <3>3. i # 1 BY <1>1, <3>1, <3>2
    <3>4. i - 1 \in DOMAIN wire' /\ wire'[i - 1] = wire[i] BY <1>2, <3>3
    <3>5. wire'[i - 1] = <<"reply", r>> BY <3>2, <3>4
    <3> QED BY <3>4, <3>5
  <2> QED BY <2>1, <2>2
<1>6. BookOK'
  <2>1. \A i \in DOMAIN wire' : wire'[i][1] \in Kinds => wire'[i][2].by \in 0..service'
    BY <1>1, <1>3 DEF NeedInv, BookOK
  <2>2. JobNotOlder(last_job', job') BY DEF NeedInv, BookOK
  <2> QED BY <2>1, <2>2 DEF BookOK
<1>7. ASSUME up' PROVE PresentOK'
  <2>1. PresentOK BY <1>7 DEF NeedInv
  <2>2. m[1] = "gone" \/ (m[1] \in Kinds /\ m[2].by # service) => Announcing'
    <3> HAVE m[1] = "gone" \/ (m[1] \in Kinds /\ m[2].by # service)
    <3>1. PICK j \in DOMAIN wire : 1 < j /\ Announced(j) BY <1>1, <2>1 DEF PresentOK, EarlierFirst
    <3> QED BY <1>4, <3>1
  <2>3. Announcing => Announcing' \/ \E r \in Slots : reads'[r].fresh = Kinds
    <3> HAVE Announcing
    <3>1. PICK i \in DOMAIN wire : Announced(i) BY DEF Announcing
    <3>2. CASE i = 1
      <4>1. m = <<"came", service>> BY <1>1, <3>1, <3>2 DEF Announced
      <4>2. m[1] = "came" BY <4>1
      <4> QED BY <4>2
    <3> QED BY <1>4, <3>1, <3>2
  <2>4. ASSUME NEW kind \in Kinds, Settled(kind)'
        PROVE  LastWord(kind)' /\ LastAnswer(kind)' /\ OnItsWay(kind)'
    <3>1. Settled(kind) /\ Sampled'[kind] = Sampled[kind] BY <1>3, <2>4 DEF Settled
    <3>2. LastWord(kind) /\ LastAnswer(kind) /\ OnItsWay(kind) BY <2>1, <3>1 DEF PresentOK
    <3>3. kind \notin {"reply", "came", "done", "gone"} BY MessageRange
    <3>4. ASSUME NEW i \in DOMAIN wire, i # 1, Fresh(i, kind)
          PROVE  i - 1 \in DOMAIN wire' /\ Fresh(i - 1, kind)' /\ Signalled(kind)'
      <4>1. i - 1 \in DOMAIN wire' /\ wire'[i - 1] = wire[i] BY <1>2, <3>4
      <4>2. Fresh(i - 1, kind)' BY <1>3, <3>4, <4>1 DEF Fresh
      <4> QED BY <4>1, <4>2 DEF Signalled
    <3>5. LastWord(kind)'
      <4> SUFFICES ASSUME NEW i \in DOMAIN wire', Fresh(i, kind)'
                   PROVE  wire'[i][2] = Sampled'[kind] \/ \E j \in DOMAIN wire' : i < j /\ Fresh(j, kind)'
        BY DEF LastWord
      <4>1. i \in Nat /\ i + 1 \in DOMAIN wire /\ wire'[i] = wire[i + 1] BY <1>1
      <4>2. Fresh(i + 1, kind) BY <1>3, <4>1 DEF Fresh
      <4>3. CASE wire[i + 1][2] = Sampled[kind] BY <3>1, <4>1, <4>3
      <4>4. CASE \E j \in DOMAIN wire : i + 1 < j /\ Fresh(j, kind)
        <5>1. PICK j \in DOMAIN wire : i + 1 < j /\ Fresh(j, kind) BY <4>4
        <5>2. j # 1 /\ j \in Nat BY <1>2, <4>1, <5>1
        <5>3. j - 1 \in DOMAIN wire' /\ Fresh(j - 1, kind)' BY <3>4, <5>1, <5>2
        <5>4. i < j - 1 BY <4>1, <5>1, <5>2
        <5> QED BY <5>3, <5>4
      <4> QED BY <3>2, <4>1, <4>2, <4>3, <4>4 DEF LastWord
    <3>6. LastAnswer(kind)'
      <4> SUFFICES ASSUME NEW r \in Slots, Answering(reads'[r]), kind \in reads'[r].fresh
                   PROVE  reads'[r].sample[kind] = Sampled'[kind] \/ Signalled(kind)' \/ Overdue(r)'
        BY DEF LastAnswer, Answering
      <4>1. /\ reads'[r].at = reads[r].at /\ kind \in reads[r].fresh /\ m # <<"reply", r>>
            /\ reads'[r].sample[kind] = reads[r].sample[kind]
        OBVIOUS
      <4>2. Answering(reads[r]) BY <4>1 DEF Answering
      <4>3. ~Carries(m, kind) OBVIOUS
      <4>4. Signalled(kind) => Signalled(kind)'
        <5> HAVE Signalled(kind)
        <5>1. PICK i \in DOMAIN wire : Fresh(i, kind) BY DEF Signalled
        <5>2. i # 1 BY <1>1, <4>3, <5>1 DEF Fresh, Carries
        <5> QED BY <3>4, <5>1, <5>2
      <4>5. Overdue(r) => Overdue(r)'
        <5> HAVE Overdue(r)
        <5>1. PICK i \in DOMAIN wire, j \in DOMAIN wire : wire[i] = <<"reply", r>> /\ i < j /\ Announced(j)
          BY DEF Overdue
        <5>2. i # 1 BY <1>1, <4>1, <5>1
        <5>3. i - 1 \in DOMAIN wire' /\ wire'[i - 1] = wire[i] /\ i \in Nat /\ i > 1 BY <1>2, <5>2
        <5>4. j # 1 BY <5>1, <5>3
        <5>5. j - 1 \in DOMAIN wire' /\ wire'[j - 1] = wire[j] /\ j \in Nat BY <1>2, <5>4
        <5>6. wire'[i - 1] = <<"reply", r>> BY <5>1, <5>3
        <5>7. Announced(j - 1)' BY <1>3, <5>1, <5>5 DEF Announced
        <5>8. i - 1 < j - 1 BY <5>1, <5>3, <5>5
        <5> QED BY <5>3, <5>5, <5>6, <5>7, <5>8 DEF Overdue
      <4> QED BY <3>1, <3>2, <4>1, <4>2, <4>4, <4>5 DEF LastAnswer
    <3>7. OnItsWay(kind)'
      <4>1. CASE m[1] = kind
        <5>1. Carries(m, kind) /\ Carried(m, kind) = m[2] BY <3>3, <4>1 DEF Carries, Carried
        <5>2. shown'[kind] = m[2] BY <5>1
        <5>3. CASE m[2].by # service BY <2>2, <4>1, <5>3 DEF OnItsWay
        <5>4. CASE m[2].by = service
          <6>1. Fresh(1, kind) BY <1>1, <4>1, <5>4 DEF Fresh
          <6>2. CASE m[2] = Sampled[kind] BY <3>1, <5>2, <6>2 DEF OnItsWay
          <6>3. CASE \E j \in DOMAIN wire : 1 < j /\ Fresh(j, kind)
            <7>1. PICK j \in DOMAIN wire : 1 < j /\ Fresh(j, kind) BY <6>3
            <7>2. Signalled(kind)' BY <3>4, <7>1
            <7> QED BY <7>2 DEF OnItsWay
          <6> QED BY <1>1, <3>2, <6>1, <6>2, <6>3 DEF LastWord
        <5> QED BY <5>3, <5>4
      <4>2. CASE m[1] = "reply" /\ kind \in reads[m[2]].fresh
        <5>1. PICK r \in Slots : r = m[2] /\ reads[r].at = "replied"
          BY <1>1, <4>2 DEF IInv, FlyoutInv, RepliesOK
        <5>2. Carries(m, kind) /\ Carried(m, kind) = reads[r].sample[kind]
          BY <4>2, <5>1 DEF Carries, Carried
        <5>3. shown'[kind] = reads[r].sample[kind] BY <5>2
        <5>4. CASE reads[r].sample[kind] = Sampled[kind] BY <3>1, <5>3, <5>4 DEF OnItsWay
        <5>5. CASE Signalled(kind)
          <6>1. PICK i \in DOMAIN wire : Fresh(i, kind) BY <5>5 DEF Signalled
          <6>2. i # 1 BY <1>1, <3>3, <4>2, <6>1 DEF Fresh
          <6>3. Signalled(kind)' BY <3>4, <6>1, <6>2
          <6> QED BY <6>3 DEF OnItsWay
        <5>6. CASE Overdue(r)
          <6>1. PICK i \in DOMAIN wire, j \in DOMAIN wire : i < j /\ Announced(j)
            BY <5>6 DEF Overdue
          <6>2. j # 1 BY <1>2, <6>1
          <6>3. Announcing' BY <1>4, <6>1, <6>2
          <6> QED BY <6>3 DEF OnItsWay
        <5> QED BY <3>2, <4>2, <5>1, <5>4, <5>5, <5>6 DEF LastAnswer, Answering
      <4>3. CASE ~Carries(m, kind)
        <5>1. shown'[kind] = shown[kind] /\ m[1] # kind BY <4>3 DEF Carries
        <5>2. CASE Signalled(kind)
          <6>1. PICK i \in DOMAIN wire : Fresh(i, kind) BY <5>2 DEF Signalled
          <6>2. i # 1 BY <1>1, <5>1, <6>1 DEF Fresh
          <6>3. Signalled(kind)' BY <3>4, <6>1, <6>2
          <6> QED BY <6>3 DEF OnItsWay
        <5>3. CASE Announcing BY <2>3, <5>3 DEF OnItsWay
        <5>4. CASE shown[kind] = Sampled[kind] BY <3>1, <5>1, <5>4 DEF OnItsWay
        <5>5. CASE \E r \in Slots : kind \in reads[r].fresh BY <2>2, <4>3, <5>5 DEF OnItsWay
        <5> QED BY <3>2, <5>2, <5>3, <5>4, <5>5 DEF OnItsWay
      <4> QED BY <4>1, <4>2, <4>3 DEF Carries
    <3> QED BY <3>5, <3>6, <3>7
  <2>5. EarlierFirst'
    <3> SUFFICES ASSUME NEW i \in DOMAIN wire',
                        wire'[i][1] = "gone" \/ (wire'[i][1] \in Kinds /\ wire'[i][2].by # service')
                 PROVE  \E j \in DOMAIN wire' : i < j /\ Announced(j)'
      BY DEF EarlierFirst
    <3>1. i \in Nat /\ i + 1 \in DOMAIN wire /\ wire'[i] = wire[i + 1] BY <1>1
    <3>2. PICK j \in DOMAIN wire : i + 1 < j /\ Announced(j)
      BY <1>3, <2>1, <3>1 DEF PresentOK, EarlierFirst
    <3>3. j # 1 BY <1>2, <3>1, <3>2
    <3>4. j \in Nat /\ j - 1 \in DOMAIN wire' /\ wire'[j - 1] = wire[j] BY <1>2, <3>3
    <3>5. Announced(j - 1)' BY <1>3, <3>2, <3>4 DEF Announced
    <3>6. i < j - 1 BY <3>1, <3>2, <3>4
    <3> QED BY <3>4, <3>5, <3>6
  <2>6. HeardOrComing'
    <3>1. CASE known BY <2>2, <3>1 DEF HeardOrComing
    <3>2. CASE Announcing BY <2>3, <3>2 DEF HeardOrComing, Kinds
    <3>3. CASE \E r \in Slots : "state" \in reads[r].fresh BY <2>2, <3>3 DEF HeardOrComing
    <3> QED BY <2>1, <3>1, <3>2, <3>3 DEF PresentOK, HeardOrComing
  <2>7. \A kind \in Kinds : (Settled(kind) => LastWord(kind) /\ LastAnswer(kind) /\ OnItsWay(kind))'
    BY <2>4
  <2> QED BY <2>5, <2>6, <2>7 DEF PresentOK
<1> QED BY <1>5, <1>6, <1>7 DEF NeedInv

\* Nothing is sent or heard, and what is served stays, or a job moves.
LEMMA SaysNothing ==
  ASSUME IInv, NeedInv, ShapeOK, UNCHANGED <<up, service, running, wire, reads, known, shown, desktop_state>>,
         JobNotOlder(last_job', job'), UNCHANGED <<job, last_job>> \/ last_job' # job'
  PROVE  NeedInv'
<1>1. << >> \in Seq(Messages) /\ wire' = wire \o << >> BY DEF ShapeOK
<1>2. PICK s : s = << >> OBVIOUS
<1>3. s \in Seq(Messages) /\ wire' = wire \o s /\ \A n \in DOMAIN s : FALSE BY <1>1, <1>2
<1>4. ASSUME NEW kind \in Kinds, Settled(kind)' PROVE Settled(kind) /\ Sampled'[kind] = Sampled[kind]
  <2>1. Settled(kind) BY <1>4 DEF Settled
  <2>2. kind = "job" => UNCHANGED job BY <1>4 DEF Settled
  <2> QED BY <2>1, <2>2 DEF Sampled, Said, Kinds
<1>5. \A r \in Slots : reads'[r].at = "sampled" => reads[r].at = "sampled" \/ up OBVIOUS
<1>6. \A r \in Slots : Answering(reads'[r]) => Answering(reads[r]) BY DEF Answering
<1> QED BY <1>3, <1>4, <1>5, <1>6, SaysMore

\* The job that was announced last is no later than the job.
LEMMA JobMoves ==
  ASSUME PollInv, Job, JobNotOlder(last_job, job)
  PROVE  JobNotOlder(last_job', job') /\ last_job' # job'
<1>1. last_job' = last_job BY DEF Job, StartJob, EndJob
<1>2. /\ job \in Jobs /\ job.id \in Nat /\ last_job.id \in Nat /\ job'.id \in Nat
      /\ \/ job'.id = job.id + 1
         \/ job.running /\ job'.id = job.id /\ ~job'.running
  <2>1. job \in Jobs /\ last_job \in Jobs /\ job.id \in Nat /\ last_job.id \in Nat
    BY ConstantsAssumption DEF PollInv, MachineOK, Jobs
  <2>2. CASE StartJob BY <2>1, <2>2 DEF StartJob
  <2>3. CASE EndJob BY <2>1, <2>3 DEF EndJob, Jobs
  <2> QED BY <2>1, <2>2, <2>3 DEF Job
<1>3. job'.id > last_job.id \/ (job'.id = last_job.id /\ ~job'.running /\ last_job.running)
  BY <1>2 DEF JobNotOlder
<1> QED BY <1>1, <1>2, <1>3 DEF JobNotOlder

LEMMA MachineMisses == ASSUME IInv, NeedInv, Machine PROVE NeedInv'
<1>1. UNCHANGED <<up, service, running, wire, reads, known, shown>>
  BY DEF Machine, flyoutVars, serviceVars
<1>2. ShapeOK /\ PollInv /\ JobNotOlder(last_job, job) BY DEF IInv, FlyoutInv, NeedInv, BookOK
<1>3. CASE Daemon
  <2>1. UNCHANGED <<job, last_job, desktop_state>>
    BY <1>3 DEF Daemon, Start, Serve, End, WriteProfile, Change
  <2> QED BY <1>1, <1>2, <2>1, SaysNothing
<1>4. CASE Job
  <2>1. UNCHANGED desktop_state BY <1>4 DEF Job, StartJob, EndJob
  <2>2. JobNotOlder(last_job', job') /\ last_job' # job' BY <1>2, <1>4, JobMoves
  <2> QED BY <1>1, <1>2, <2>1, <2>2, SaysNothing
<1> QED BY <1>3, <1>4 DEF Machine, Job

LEMMA PollMisses == ASSUME IInv, NeedInv, Poll PROVE NeedInv'
<1>1. UNCHANGED <<up, service, running, reads, known, shown>> /\ up BY DEF Poll, serviceVars
<1>2. ShapeOK /\ PollInv /\ JobNotOlder(last_job, job) BY DEF IInv, FlyoutInv, NeedInv, BookOK
<1>3. CASE Ask /\ UNCHANGED wire
  <2>1. UNCHANGED <<job, last_job, desktop_state>> BY <1>3 DEF Ask
  <2> QED BY <1>1, <1>2, <1>3, <2>1, SaysNothing
<1>4. CASE Publish /\ ~Ask
  <2> DEFINE J == IF last_job' = last_job THEN << >> ELSE << <<"job", Said(last_job')>> >>
             D == IF desktop_state' = desktop_state THEN << >>
                  ELSE << <<"desktop", Said(desktop_state')>> >>
             s == J \o D
  <2>1. wire' = (wire \o J) \o D BY <1>4 DEF Poll
  <2>2. PollInv' /\ last_job' = job' /\ job' = job BY <1>2, <1>4, PublishPast
  <2>3. <<"job", Said(last_job')>> \in Messages /\ <<"desktop", Said(desktop_state')>> \in Messages
    <3>1. Said(last_job') \in Says /\ Said(desktop_state') \in Says
      BY <1>2, <2>2 DEF ShapeOK, Said, Says, PollInv, MachineOK, AccountOK, Past, Jobs, Desktops, Contents
    <3> QED BY <3>1 DEF Messages, Kinds
  <2>4. J \in Seq(Messages) /\ D \in Seq(Messages) /\ wire \in Seq(Messages) BY <1>2, <2>3 DEF ShapeOK
  <2>5. wire' = wire \o s /\ s \in Seq(Messages) /\ wire' \in Seq(Messages)
    <3> HIDE DEF J, D
    <3> QED BY <2>1, <2>4, QueueJoins
  <2>6. \A n \in DOMAIN s : /\ s[n] \in {<<"job", Said(last_job')>>, <<"desktop", Said(desktop_state')>>}
                            /\ \A l \in DOMAIN s : l # n => s[l][1] # s[n][1]
    OBVIOUS
  <2>7. /\ last_job' # last_job => \E n \in DOMAIN s : s[n] = <<"job", Said(last_job')>>
        /\ desktop_state' # desktop_state => \E n \in DOMAIN s : s[n] = <<"desktop", Said(desktop_state')>>
    OBVIOUS
  <2>8. /\ last_job' = last_job => \A n \in DOMAIN s : s[n][1] # "job"
        /\ desktop_state' = desktop_state => \A n \in DOMAIN s : s[n][1] # "desktop"
    OBVIOUS
  <2> HIDE DEF s
  <2>9. /\ Sampled'["job"] = Said(last_job') /\ Sampled'["desktop"] = Said(desktop_state')
        /\ Sampled'["state"] = Sampled["state"]
    BY <1>1, <2>2 DEF Sampled, Said
  <2>10. JobNotOlder(last_job', job')
    BY <2>2, ConstantsAssumption DEF JobNotOlder, PollInv, MachineOK, Jobs
  <2>11. \A n \in DOMAIN s : s[n][1] \in {"job", "desktop"} BY <2>6
  <2>12. ASSUME NEW kind \in Kinds
         PROVE  \/ /\ \A n \in DOMAIN s : s[n][1] # kind
                   /\ Settled(kind)' => Settled(kind) /\ Sampled'[kind] = Sampled[kind]
                \/ \E n \in DOMAIN s : /\ s[n] = <<kind, Sampled'[kind]>>
                                       /\ \A l \in DOMAIN s : s[l][1] = kind => l = n
    <3>1. CASE kind = "state" BY <2>9, <2>11, <3>1 DEF Settled
    <3>2. CASE kind = "job"
      <4>1. CASE last_job' = last_job
        <5>1. Settled(kind) /\ Sampled'[kind] = Sampled[kind]
          BY <1>1, <2>2, <3>2, <4>1 DEF Settled, Sampled, Said
        <5> QED BY <2>8, <3>2, <4>1, <5>1
      <4>2. CASE last_job' # last_job
        <5>1. PICK n \in DOMAIN s : s[n] = <<"job", Said(last_job')>> BY <2>7, <4>2
        <5>2. s[n] = <<kind, Sampled'[kind]>> /\ s[n][1] = kind BY <2>9, <3>2, <5>1
        <5> QED BY <2>6, <5>2
      <4> QED BY <4>1, <4>2
    <3>3. CASE kind = "desktop"
      <4>1. CASE desktop_state' = desktop_state
        <5>1. Settled(kind) /\ Sampled'[kind] = Sampled[kind]
          BY <1>1, <3>3, <4>1 DEF Settled, Sampled, Said
        <5> QED BY <2>8, <3>3, <4>1, <5>1
      <4>2. CASE desktop_state' # desktop_state
        <5>1. PICK n \in DOMAIN s : s[n] = <<"desktop", Said(desktop_state')>> BY <2>7, <4>2
        <5>2. s[n] = <<kind, Sampled'[kind]>> /\ s[n][1] = kind BY <2>9, <3>3, <5>1
        <5> QED BY <2>6, <5>2
      <4> QED BY <4>1, <4>2
    <3> QED BY <3>1, <3>2, <3>3 DEF Kinds
  <2>13. \A r \in Slots : Answering(reads'[r]) => Answering(reads[r]) BY <1>1 DEF Answering
  <2>14. \A n \in DOMAIN s : s[n][1] # "gone" BY <2>11
  <2> QED BY <1>1, <2>5, <2>10, <2>12, <2>13, <2>14, SaysMore
<1>5. ~(Ask /\ Publish) BY DEF Ask, Publish
<1> QED BY <1>3, <1>4, <1>5 DEF Poll

\* One message more, while the machine stands.
LEMMA SaysOne ==
  ASSUME IInv, NeedInv, NEW m \in Messages, wire' = Append(wire, m),
         UNCHANGED <<up, service, known, shown, desktop_state, job, last_job>>,
         \/ m[1] = "done" /\ reads' = reads /\ running' = running
         \/ m = <<"state", Said(running)'>> /\ reads' = reads
         \/ \E r \in Slots : /\ m = <<"reply", r>> /\ running' = running
                             /\ Answering(reads[r]) /\ reads'[r].at = "replied"
                             /\ reads'[r].fresh = reads[r].fresh /\ reads'[r].sample = reads[r].sample
                             /\ \A q \in Slots \ {r} : reads'[q] = reads[q]
  PROVE  NeedInv'
<1>1. wire \in Seq(Messages) BY DEF IInv, FlyoutInv, ShapeOK
<1>2. PICK s : s = <<m>> OBVIOUS
<1>3. /\ s \in Seq(Messages) /\ wire' = wire \o s /\ DOMAIN s = {1} /\ s[1] = m
      /\ \A n \in DOMAIN s : s[n] = m
  BY <1>1, <1>2
<1>4. JobNotOlder(last_job', job') BY DEF NeedInv, BookOK
<1>5. m[1] # "gone" OBVIOUS
<1>6. ASSUME NEW kind \in Kinds
      PROVE  \/ /\ \A n \in DOMAIN s : s[n][1] # kind
                /\ Settled(kind)' => Settled(kind) /\ Sampled'[kind] = Sampled[kind]
             \/ \E n \in DOMAIN s : /\ s[n] = <<kind, Sampled'[kind]>>
                                    /\ \A l \in DOMAIN s : s[l][1] = kind => l = n
  <2>1. Settled(kind)' => Settled(kind) BY DEF Settled
  <2>2. running' = running \/ kind # "state" => Sampled'[kind] = Sampled[kind]
    BY DEF Sampled, Said, Kinds
  <2>3. CASE m = <<"state", Said(running)'>>
    <3>1. CASE kind = "state"
      <4>1. Sampled'[kind] = Said(running)' BY <3>1 DEF Sampled
      <4> QED BY <1>3, <2>3, <3>1, <4>1
    <3>2. CASE kind # "state"
      <4>1. m[1] = "state" BY <2>3
      <4> QED BY <1>3, <2>1, <2>2, <3>2, <4>1
    <3> QED BY <3>1, <3>2
  <2>4. CASE m[1] \in {"done", "reply"} /\ running' = running
    <3>1. m[1] # kind BY <2>4, MessageRange
    <3> QED BY <1>3, <2>1, <2>2, <2>4, <3>1
  <2> QED BY <2>3, <2>4
<1>7. ASSUME NEW q \in Slots
      PROVE  /\ reads'[q].fresh = reads[q].fresh
             /\ reads'[q].at = "idle" => reads[q].at = "idle"
             /\ reads'[q].at = "sampled" => reads[q].at = "sampled" \/ up
             /\ reads'[q].at = "replied" =>
                  reads[q].at = "replied" \/ \E n \in DOMAIN s : s[n] = <<"reply", q>>
             /\ Answering(reads'[q]) => \A kind \in reads[q].fresh :
                  \/ reads'[q].sample[kind] = Sampled'[kind]
                  \/ Answering(reads[q]) /\ reads'[q].sample[kind] = reads[q].sample[kind]
  <2>1. CASE reads'[q] = reads[q] BY <2>1
  <2>2. CASE /\ m = <<"reply", q>> /\ Answering(reads[q]) /\ reads'[q].at = "replied"
             /\ reads'[q].fresh = reads[q].fresh /\ reads'[q].sample = reads[q].sample
    BY <1>3, <2>2
  <2> QED BY <2>1, <2>2
<1>8. \A n \in DOMAIN s : s[n][1] # "gone" BY <1>3, <1>5
<1>9. UNCHANGED <<up, service, known, shown>> OBVIOUS
<1> QED BY <1>3, <1>4, <1>6, <1>7, <1>8, <1>9, SaysMore

LEMMA AnswerMisses == ASSUME IInv, NeedInv, Answer PROVE NeedInv'
<1>1. ShapeOK BY DEF IInv, FlyoutInv
<1>2. ASSUME NEW r \in Slots, Sample(r) PROVE NeedInv'
  <2>1. /\ up /\ reads[r].at = "asked"
        /\ UNCHANGED <<up, service, running, wire, known, shown, desktop_state, job, last_job>>
    BY <1>2 DEF Sample, vars, serviceVars
  <2>2. PICK x : x = Without(Sampled, Kinds \ reads[r].fresh) OBVIOUS
  <2>3. /\ IsRead(reads'[r]) /\ reads'[r].at = "sampled" /\ reads'[r].fresh = reads[r].fresh
        /\ reads'[r].sample = x
    <3>1. IsRead(reads[r]) BY <1>1 DEF ShapeOK
    <3>2. PICK c : c = [reads[r] EXCEPT !.at = "sampled"] OBVIOUS
    <3>3. IsRead(c) /\ c.at = "sampled" /\ c.fresh = reads[r].fresh BY <3>1, <3>2, ReadFields
    <3>4. reads'[r] = [c EXCEPT !.sample = x] BY <1>1, <1>2, <2>2, <3>2 DEF Sample, ShapeOK
    <3> QED BY <3>3, <3>4, ReadFields
  <2>4. \A q \in Slots \ {r} : reads'[q] = reads[q] BY <1>1, <1>2 DEF Sample, ShapeOK
  <2>5. \A kind \in reads[r].fresh : x[kind] = Sampled[kind]
    BY <1>1, <2>2 DEF Without, Sampled, Kinds, ShapeOK
  <2>6. Sampled' = Sampled BY <2>1 DEF Sampled, Said
  <2>7. << >> \in Seq(Messages) /\ wire' = wire \o << >> BY <1>1, <2>1 DEF ShapeOK
  <2>8. PICK s : s = << >> OBVIOUS
  <2>9. s \in Seq(Messages) /\ wire' = wire \o s /\ \A n \in DOMAIN s : FALSE BY <2>7, <2>8
  <2>10. \A kind \in Kinds : Settled(kind)' => Settled(kind) /\ Sampled'[kind] = Sampled[kind]
    BY <2>1, <2>6 DEF Settled
  <2>11. ASSUME NEW q \in Slots
         PROVE  /\ reads'[q].fresh = reads[q].fresh
                /\ reads'[q].at = "idle" => reads[q].at = "idle"
                /\ reads'[q].at = "sampled" => reads[q].at = "sampled" \/ up
                /\ reads'[q].at = "replied" => reads[q].at = "replied"
                /\ Answering(reads'[q]) => \A kind \in reads[q].fresh :
                     \/ reads'[q].sample[kind] = Sampled'[kind]
                     \/ Answering(reads[q]) /\ reads'[q].sample[kind] = reads[q].sample[kind]
    <3>1. CASE q = r BY <2>1, <2>3, <2>5, <2>6, <3>1
    <3>2. CASE q # r BY <2>4, <3>2
    <3> QED BY <3>1, <3>2
  <2>12. JobNotOlder(last_job', job') BY <2>1 DEF NeedInv, BookOK
  <2> QED BY <2>1, <2>9, <2>10, <2>11, <2>12, SaysMore
<1>3. ASSUME NEW r \in Slots, Reply(r) PROVE NeedInv'
  <2>1. /\ reads[r].at = "sampled"
        /\ UNCHANGED <<up, service, running, known, shown, desktop_state, job, last_job>>
    BY <1>3 DEF Reply, vars, serviceVars
  <2>2. PICK m : m = <<"reply", r>> OBVIOUS
  <2>3. m \in Messages /\ wire' = Append(wire, m) BY <1>3, <2>2, OtherIsMessage DEF Reply, Send
  <2>4. /\ reads'[r].at = "replied" /\ reads'[r].fresh = reads[r].fresh
        /\ reads'[r].sample = reads[r].sample
    <3>1. reads'[r] = [reads[r] EXCEPT !.at = "replied"] BY <1>1, <1>3 DEF Reply, ShapeOK
    <3> QED BY <1>1, <3>1, ReadFields DEF ShapeOK
  <2>5. \A q \in Slots \ {r} : reads'[q] = reads[q] BY <1>1, <1>3 DEF Reply, ShapeOK
  <2>6. Answering(reads[r]) BY <2>1 DEF Answering
  <2>7. \E q \in Slots : /\ m = <<"reply", q>> /\ running' = running
                         /\ Answering(reads[q]) /\ reads'[q].at = "replied"
                         /\ reads'[q].fresh = reads[q].fresh /\ reads'[q].sample = reads[q].sample
                         /\ \A p \in Slots \ {q} : reads'[p] = reads[p]
    <3> WITNESS r \in Slots
    <3> QED BY <2>1, <2>2, <2>4, <2>5, <2>6
  <2> QED BY <2>1, <2>3, <2>7, SaysOne
<1> QED BY <1>2, <1>3 DEF Answer

LEMMA WatchMisses == ASSUME IInv, NeedInv, Watch \/ Control PROVE NeedInv'
<1>1. /\ UNCHANGED <<up, service, known, shown, desktop_state, job, last_job, reads>>
      /\ service \in Nat
  BY DEF Watch, Control, vars, serviceVars, IInv, FlyoutInv, ShapeOK
<1>2. CASE Watch
  <2>1. PICK m : m = <<"state", [by |-> service, value |-> running']>> OBVIOUS
  <2>2. running' \in BOOLEAN BY <1>2 DEF Watch
  <2>3. m \in Messages BY <1>1, <2>1, <2>2 DEF Messages, Kinds, Says
  <2>4. wire' = Append(wire, m) BY <1>2, <2>1 DEF Watch, Send
  <2>5. m = <<"state", Said(running)'>> BY <1>1, <2>1 DEF Said
  <2> QED BY <1>1, <2>3, <2>4, <2>5, SaysOne
<1>3. CASE Control
  <2>1. PICK m : m = <<"done", service>> OBVIOUS
  <2>2. m \in Messages /\ m[1] = "done" BY <1>1, <2>1, OtherIsMessage
  <2>3. wire' = Append(wire, m) /\ running' = running BY <1>3, <2>1 DEF Control, Send, serviceVars
  <2> QED BY <1>1, <2>2, <2>3, SaysOne
<1> QED BY <1>2, <1>3

\* The service leaves: what it sent and replied is still under way.
LEMMA LeaveMisses == ASSUME IInv, NeedInv, Leave PROVE NeedInv'
<1>1. PICK m : m = <<"gone", service>> OBVIOUS
<1>2. /\ service' = service /\ service \in Nat /\ ~up' /\ shown' = shown /\ wire' = Append(wire, m)
      /\ m[1] = "gone" /\ m \in Messages /\ wire \in Seq(Messages)
      /\ last_job' = NoJob /\ job' = NoJob
  BY <1>1, OtherIsMessage DEF Leave, Send, IInv, FlyoutInv, ShapeOK
<1>3. /\ DOMAIN wire' = DOMAIN wire \cup {Len(wire) + 1} /\ wire'[Len(wire) + 1] = m
      /\ \A i \in DOMAIN wire : wire'[i] = wire[i]
  BY <1>2
<1>4. CallsOK'
  <2> SUFFICES ASSUME NEW r \in Slots
               PROVE  /\ reads'[r].at = "idle" => reads'[r].fresh = {}
                      /\ reads'[r].at = "sampled" => up'
                      /\ reads'[r].at = "replied" => \E i \in DOMAIN wire' : wire'[i] = <<"reply", r>>
    BY DEF CallsOK
  <2>1. reads'[r] = Idle \/ (reads'[r] = reads[r] /\ reads[r].at = "replied") BY DEF Leave
  <2>2. CASE reads'[r] = Idle BY <2>2 DEF Idle
  <2>3. CASE reads'[r] = reads[r] /\ reads[r].at = "replied"
    <3>1. PICK i \in DOMAIN wire : wire[i] = <<"reply", r>> BY <2>3 DEF NeedInv, CallsOK
    <3>2. i \in DOMAIN wire' /\ wire'[i] = <<"reply", r>> BY <1>3, <3>1
    <3> QED BY <2>3, <3>2
  <2> QED BY <2>1, <2>2, <2>3
<1>5. BookOK'
  <2>1. JobNotOlder(last_job', job') BY <1>2 DEF JobNotOlder, NoJob
  <2>2. m[1] \notin Kinds BY <1>2 DEF Kinds
  <2>3. \A i \in DOMAIN wire' : wire'[i][1] \in Kinds => wire'[i][2].by \in 0..service'
    BY <1>2, <1>3, <2>2 DEF NeedInv, BookOK
  <2> QED BY <1>2, <2>1, <2>3 DEF NeedInv, BookOK
<1> QED BY <1>2, <1>4, <1>5 DEF NeedInv

\* A service comes: the flyout will hear of it after all that was sent before.
LEMMA ComeMisses == ASSUME IInv, NeedInv, Come PROVE NeedInv'
<1>1. PICK m : m = <<"came", service'>> OBVIOUS
<1>2. /\ ~up /\ service' = service + 1 /\ service \in Nat
      /\ UNCHANGED <<shown, reads, known, job, last_job>> /\ wire' = Append(wire, m)
      /\ m[1] = "came" /\ m \in Messages /\ wire \in Seq(Messages)
  BY <1>1, OtherIsMessage DEF Come, Send, vars, IInv, FlyoutInv, ShapeOK
<1>3. PICK k : k = Len(wire) + 1 OBVIOUS
<1>4. /\ DOMAIN wire' = DOMAIN wire \cup {k} /\ wire'[k] = m /\ k \in Nat
      /\ \A i \in DOMAIN wire : wire'[i] = wire[i] /\ i < k
  BY <1>2, <1>3
<1>5. k \in DOMAIN wire' /\ Announced(k)' BY <1>1, <1>4 DEF Announced
<1>6. Announcing' BY <1>5 DEF Announcing
<1>7. m[1] \notin Kinds BY <1>2 DEF Kinds
<1>8. \A i \in DOMAIN wire' : wire'[i][1] \in Kinds => i \in DOMAIN wire /\ wire'[i][2].by \in 0..service
  BY <1>4, <1>7 DEF NeedInv, BookOK
<1>9. CallsOK'
  <2> SUFFICES ASSUME NEW r \in Slots
               PROVE  /\ reads'[r].at = "idle" => reads'[r].fresh = {}
                      /\ reads'[r].at = "sampled" => up'
                      /\ reads'[r].at = "replied" => \E i \in DOMAIN wire' : wire'[i] = <<"reply", r>>
    BY DEF CallsOK
  <2>1. reads'[r] = reads[r] BY <1>2
  <2>2. reads[r].at = "replied" => \E i \in DOMAIN wire' : wire'[i] = <<"reply", r>>
    <3> HAVE reads[r].at = "replied"
    <3>1. PICK i \in DOMAIN wire : wire[i] = <<"reply", r>> BY DEF NeedInv, CallsOK
    <3>2. i \in DOMAIN wire' /\ wire'[i] = <<"reply", r>> BY <1>4, <3>1
    <3> QED BY <3>2
  <2> QED BY <1>2, <2>1, <2>2 DEF NeedInv, CallsOK
<1>10. BookOK'
  <2>1. JobNotOlder(last_job', job') BY <1>2 DEF NeedInv, BookOK
  <2>2. \A i \in DOMAIN wire' : wire'[i][1] \in Kinds => wire'[i][2].by \in 0..service'
    BY <1>2, <1>8
  <2> QED BY <1>2, <2>1, <2>2 DEF NeedInv, BookOK
<1>11. PresentOK'
  <2>1. \A kind \in Kinds : \A i \in DOMAIN wire' : ~Fresh(i, kind)' BY <1>2, <1>8 DEF Fresh
  <2>2. \A kind \in Kinds : LastWord(kind)' BY <2>1 DEF LastWord
  <2>3. \A kind \in Kinds : LastAnswer(kind)'
    <3>1. ASSUME NEW r \in Slots, Answering(reads'[r]) PROVE Overdue(r)'
      <4>1. reads[r].at = "replied" BY <1>2, <3>1 DEF Answering, NeedInv, CallsOK
      <4>2. PICK i \in DOMAIN wire : wire[i] = <<"reply", r>> BY <4>1 DEF NeedInv, CallsOK
      <4>3. i \in DOMAIN wire' /\ wire'[i] = <<"reply", r>> /\ i < k BY <1>4, <4>2
      <4> QED BY <1>5, <4>3 DEF Overdue
    <3> QED BY <3>1 DEF LastAnswer, Answering
  <2>4. \A kind \in Kinds : OnItsWay(kind)' BY <1>6 DEF OnItsWay
  <2>5. EarlierFirst'
    <3> SUFFICES ASSUME NEW i \in DOMAIN wire',
                        wire'[i][1] = "gone" \/ (wire'[i][1] \in Kinds /\ wire'[i][2].by # service')
                 PROVE  \E j \in DOMAIN wire' : i < j /\ Announced(j)'
      BY DEF EarlierFirst
    <3>1. i # k BY <1>2, <1>4, <1>7
    <3>2. i < k BY <1>4, <3>1
    <3> QED BY <1>5, <3>2
  <2>6. HeardOrComing' BY <1>6 DEF HeardOrComing
  <2>7. \A kind \in Kinds : (Settled(kind) => LastWord(kind) /\ LastAnswer(kind) /\ OnItsWay(kind))'
    BY <2>2, <2>3, <2>4
  <2> QED BY <2>5, <2>6, <2>7 DEF PresentOK
<1> QED BY <1>9, <1>10, <1>11 DEF NeedInv

\* A message that carries nothing, and overtakes no answer but those of the state.
LEMMA HearsOther ==
  ASSUME IInv, NeedInv, ReadAll \/ Forget PROVE NeedInv'
<1>1. ShapeOK BY DEF IInv, FlyoutInv
<1>2. PICK m : m = Head(wire) OBVIOUS
<1>3. /\ wire # << >> /\ wire' = Tail(wire) /\ m[1] \in {"came", "done", "gone"}
      /\ UNCHANGED <<up, service, running, desktop_state, job, last_job>> /\ shown' = shown
  BY <1>2, HeardFacts DEF ReadAll, Forget, Hear, vars
<1>4. shown' = [kind \in Kinds |-> shown'[kind]] BY <1>3 DEF NeedInv, BookOK
<1>5. \A kind \in Kinds : ~Carries(m, kind) BY <1>3, MessageRange DEF Carries
<1>6. CASE ReadAll
  <2>1. m[1] # "gone" /\ known' = known BY <1>2, <1>6 DEF ReadAll, Hear
  <2>2. PICK r \in Slots : /\ reads[r].at = "idle"
                           /\ reads' = [reads EXCEPT ![r].at = "asked", ![r].fresh = Kinds]
    BY <1>6 DEF ReadAll
  <2>3. IsRead(reads'[r]) /\ reads'[r].at = "asked" /\ reads'[r].fresh = Kinds
    <3>1. IsRead(reads[r]) BY <1>1 DEF ShapeOK
    <3>2. PICK c : c = [reads[r] EXCEPT !.at = "asked"] OBVIOUS
    <3>3. IsRead(c) /\ c.at = "asked" BY <3>1, <3>2, ReadFields
    <3>4. reads'[r] = [c EXCEPT !.fresh = Kinds] BY <1>1, <2>2, <3>2 DEF ShapeOK
    <3> QED BY <3>3, <3>4, ReadFields
  <2>4. \A q \in Slots \ {r} : reads'[q] = reads[q] BY <1>1, <2>2 DEF ShapeOK
  <2>5. \A q \in Slots : reads[q].fresh \subseteq reads'[q].fresh BY <1>1, <2>3, <2>4 DEF ShapeOK
  <2>6. \A q \in Slots : reads'[q].at = "idle" => reads'[q].fresh = {}
    BY <2>3, <2>4 DEF NeedInv, CallsOK
  <2>7. \A q \in Slots : Answering(reads'[q]) => reads'[q] = reads[q] BY <2>3, <2>4 DEF Answering
  <2>8. \A q \in Slots : m # <<"reply", q>> BY <1>3
  <2>9. "state" \in Kinds BY DEF Kinds
  <2>10. \E q \in Slots : reads'[q].fresh = Kinds BY <2>3
  <2>11. ~Carries(m, "state") BY <1>5, <2>9
  <2>12. \A q \in Slots : \A kind \in reads[q].fresh : kind \in reads'[q].fresh BY <2>5
  <2>13. \A q \in Slots : Answering(reads'[q]) =>
           /\ reads'[q].at = reads[q].at /\ m # <<"reply", q>> /\ reads'[q].fresh \subseteq reads[q].fresh
           /\ \A kind \in reads'[q].fresh : reads'[q].sample[kind] = reads[q].sample[kind]
    BY <2>7, <2>8
  <2>14. \A kind \in Kinds : ~Carries(m, kind) /\ shown'[kind] = shown[kind] BY <1>3, <1>5
  <2>15. known /\ m[1] # "gone" => known' BY <2>1
  <2> QED BY <1>2, <1>3, <1>4, <2>6, <2>10, <2>11, <2>12, <2>13, <2>14, <2>15, Learns
<1>7. CASE Forget
  <2>1. m[1] = "gone" BY <1>2, <1>7 DEF Forget, Hear
  <2>2. PICK kinds : kinds = {"state"} OBVIOUS
  <2>3. reads' = Overtaken(kinds) BY <1>7, <2>2 DEF Forget
  <2>4. \A r \in Slots :
          /\ reads'[r].at = reads[r].at /\ reads'[r].fresh = reads[r].fresh \ kinds
          /\ Answering(reads'[r]) =>
               \A kind \in reads'[r].fresh : reads'[r].sample[kind] = reads[r].sample[kind]
    BY <1>1, <2>3, OvertakenReads
  <2>5. \A r \in Slots : \A kind \in reads[r].fresh :
          kind \in reads'[r].fresh \/ (m[1] = "gone" /\ kind = "state")
    BY <2>1, <2>2, <2>4
  <2>6. \A r \in Slots : reads'[r].at = "idle" => reads'[r].fresh = {}
    BY <2>4 DEF NeedInv, CallsOK
  <2>7. \A r \in Slots : m # <<"reply", r>> BY <2>1
  <2>8. \A q \in Slots : Answering(reads'[q]) =>
          /\ reads'[q].at = reads[q].at /\ m # <<"reply", q>> /\ reads'[q].fresh \subseteq reads[q].fresh
          /\ \A kind \in reads'[q].fresh : reads'[q].sample[kind] = reads[q].sample[kind]
    BY <2>4, <2>7
  <2>9. \A kind \in Kinds : ~Carries(m, kind) /\ shown'[kind] = shown[kind] BY <1>3, <1>5
  <2>10. ~Carries(m, "state") BY <1>5 DEF Kinds
  <2>11. m[1] # "came" BY <2>1
  <2> QED BY <1>2, <1>3, <1>4, <2>1, <2>5, <2>6, <2>8, <2>9, <2>10, <2>11, Learns
<1> QED BY <1>6, <1>7

LEMMA SignalMisses == ASSUME IInv, NeedInv, ApplySignal PROVE NeedInv'
<1>1. ShapeOK BY DEF IInv, FlyoutInv
<1>2. PICK m : m = Head(wire) OBVIOUS
<1>3. /\ wire # << >> /\ wire' = Tail(wire) /\ m[1] \in Kinds
      /\ UNCHANGED <<up, service, running, desktop_state, job, last_job>>
  BY <1>2, HeardFacts DEF ApplySignal, Hear, vars
<1>4. PICK kinds : kinds = {m[1]} OBVIOUS
<1>5. /\ reads' = Overtaken(kinds) /\ shown' = [shown EXCEPT ![m[1]] = m[2]]
      /\ known' = (known \/ m[1] = "state")
  BY <1>2, <1>4 DEF ApplySignal
<1>6. m[1] \notin {"reply", "came", "done", "gone"} BY <1>3 DEF Kinds
<1>7. \A kind \in Kinds : (Carries(m, kind) <=> kind = m[1]) /\ Carried(m, kind) = m[2]
  BY <1>6 DEF Carries, Carried
<1>8. shown' = [kind \in Kinds |-> shown'[kind]]
  <2>1. shown = [kind \in Kinds |-> shown[kind]] BY DEF NeedInv, BookOK
  <2> QED BY <1>5, <2>1
<1>9. \A r \in Slots :
        /\ reads'[r].at = reads[r].at /\ reads'[r].fresh = reads[r].fresh \ kinds
        /\ Answering(reads'[r]) =>
             \A kind \in reads'[r].fresh : reads'[r].sample[kind] = reads[r].sample[kind]
  BY <1>1, <1>5, OvertakenReads
<1>10. ASSUME NEW kind \in Kinds
       PROVE  \/ ~Carries(m, kind) /\ shown'[kind] = shown[kind]
              \/ /\ Carries(m, kind) /\ shown'[kind] = Carried(m, kind)
                 /\ \A r \in Slots : kind \notin reads'[r].fresh
  <2>1. CASE kind = m[1]
    <3>1. Carries(m, kind) /\ Carried(m, kind) = m[2] BY <1>7, <2>1
    <3>2. shown'[kind] = m[2] BY <1>1, <1>5, <2>1 DEF ShapeOK
    <3>3. \A r \in Slots : kind \notin reads'[r].fresh BY <1>4, <1>9, <2>1
    <3> QED BY <3>1, <3>2, <3>3
  <2>2. CASE kind # m[1]
    <3>1. ~Carries(m, kind) BY <1>7, <2>2
    <3>2. shown'[kind] = shown[kind] BY <1>1, <1>5, <2>2 DEF ShapeOK
    <3> QED BY <3>1, <3>2
  <2> QED BY <2>1, <2>2
<1>11. \A r \in Slots : \A kind \in reads[r].fresh : kind \in reads'[r].fresh \/ Carries(m, kind)
  BY <1>1, <1>4, <1>7, <1>9 DEF ShapeOK
<1>12. \A r \in Slots : reads'[r].at = "idle" => reads'[r].fresh = {} BY <1>9 DEF NeedInv, CallsOK
<1>13. \A r \in Slots : m # <<"reply", r>> BY <1>6
<1>14. \A q \in Slots : Answering(reads'[q]) =>
         /\ reads'[q].at = reads[q].at /\ m # <<"reply", q>> /\ reads'[q].fresh \subseteq reads[q].fresh
         /\ \A kind \in reads'[q].fresh : reads'[q].sample[kind] = reads[q].sample[kind]
  BY <1>9, <1>13
<1>15. /\ m[1] # "came" /\ (known /\ m[1] # "gone" => known')
       /\ Carries(m, "state") => known'
  BY <1>5, <1>6 DEF Carries
<1> QED BY <1>2, <1>3, <1>8, <1>10, <1>11, <1>12, <1>14, <1>15, Learns

LEMMA ReplyMisses == ASSUME IInv, NeedInv, ApplyReply PROVE NeedInv'
<1>1. ShapeOK BY DEF IInv, FlyoutInv
<1>2. PICK m : m = Head(wire) OBVIOUS
<1>3. /\ wire # << >> /\ wire' = Tail(wire) /\ m[1] = "reply" /\ 1 \in DOMAIN wire /\ m = wire[1]
      /\ UNCHANGED <<up, service, running, desktop_state, job, last_job>>
  BY <1>2, HeardFacts DEF ApplyReply, Hear, vars
<1>4. PICK r \in Slots : m[2] = r BY <1>3 DEF IInv, FlyoutInv, RepliesOK
<1>5. PICK kinds : kinds = reads[r].fresh OBVIOUS
<1>6. PICK o : o = Overtaken(kinds) OBVIOUS
<1>7. /\ DOMAIN o = Slots
      /\ \A q \in Slots :
           /\ o[q].at = reads[q].at /\ o[q].fresh = reads[q].fresh \ kinds
           /\ Answering(o[q]) => \A kind \in o[q].fresh : o[q].sample[kind] = reads[q].sample[kind]
  BY <1>1, <1>6, OvertakenReads
<1>8. /\ shown' = [kind \in Kinds |-> IF kind \in kinds THEN reads[r].sample[kind] ELSE shown[kind]]
      /\ reads' = [o EXCEPT ![r] = Idle] /\ known' = (known \/ "state" \in kinds)
  BY <1>2, <1>4, <1>5, <1>6 DEF ApplyReply
<1>9. Idle.at = "idle" /\ Idle.fresh = {} /\ ~Answering(Idle) BY DEF Idle, Answering
<1>10. reads'[r] = Idle /\ \A q \in Slots \ {r} : reads'[q] = o[q] BY <1>7, <1>8
<1>11. shown' = [kind \in Kinds |-> shown'[kind]] BY <1>8
<1>12. \A kind \in Kinds : (Carries(m, kind) <=> kind \in kinds) /\ Carried(m, kind) = reads[r].sample[kind]
  BY <1>3, <1>4, <1>5, MessageRange DEF Carries, Carried
<1>13. ASSUME NEW kind \in Kinds
       PROVE  \/ ~Carries(m, kind) /\ shown'[kind] = shown[kind]
              \/ /\ Carries(m, kind) /\ shown'[kind] = Carried(m, kind)
                 /\ \A q \in Slots : kind \notin reads'[q].fresh
  BY <1>7, <1>8, <1>9, <1>10, <1>12
<1>14. \A q \in Slots : \A kind \in reads[q].fresh : kind \in reads'[q].fresh \/ Carries(m, kind)
  BY <1>1, <1>5, <1>7, <1>10, <1>12 DEF ShapeOK
<1>15. \A q \in Slots : reads'[q].at = "idle" => reads'[q].fresh = {}
  BY <1>7, <1>9, <1>10 DEF NeedInv, CallsOK
<1>16. \A q \in Slots : m # <<"reply", q>> \/ q = r BY <1>4
<1>17. \A q \in Slots : Answering(reads'[q]) =>
         /\ reads'[q].at = reads[q].at /\ m # <<"reply", q>> /\ reads'[q].fresh \subseteq reads[q].fresh
         /\ \A kind \in reads'[q].fresh : reads'[q].sample[kind] = reads[q].sample[kind]
  BY <1>7, <1>9, <1>10, <1>16
<1>18. /\ m[1] # "came" /\ (known /\ m[1] # "gone" => known')
       /\ Carries(m, "state") => known'
  BY <1>3, <1>8, <1>12 DEF Kinds
<1> QED BY <1>2, <1>3, <1>11, <1>13, <1>14, <1>15, <1>17, <1>18, Learns

LEMMA StepMisses == IInv /\ NeedInv /\ [FlyoutNext]_allVars => NeedInv'
<1> SUFFICES ASSUME IInv, NeedInv, [FlyoutNext]_allVars PROVE NeedInv' OBVIOUS
<1>1. CASE UNCHANGED allVars
  <2>1. UNCHANGED <<up, service, running, wire, reads, known, shown, desktop_state, job, last_job>>
    BY <1>1 DEF allVars, vars, flyoutVars, serviceVars
  <2>2. ShapeOK /\ JobNotOlder(last_job', job') BY <2>1 DEF IInv, FlyoutInv, NeedInv, BookOK
  <2> QED BY <2>1, <2>2, SaysNothing
<1>2. CASE Apply BY <1>2, HearsOther, SignalMisses, ReplyMisses DEF Apply
<1>3. CASE Control \/ Watch BY <1>3, WatchMisses
<1> QED BY <1>1, <1>2, <1>3, MachineMisses, PollMisses, AnswerMisses, LeaveMisses, ComeMisses
    DEF FlyoutNext

LEMMA InitMisses == FlyoutInit => NeedInv
<1> SUFFICES ASSUME FlyoutInit PROVE NeedInv OBVIOUS
<1>1. CallsOK BY DEF FlyoutInit, CallsOK, Idle
<1>2. JobNotOlder(last_job, job) BY DEF FlyoutInit, Init, JobNotOlder, NoJob
<1>3. shown = [kind \in Kinds |-> shown[kind]] BY DEF FlyoutInit, Sampled, Kinds
<1>4. BookOK BY <1>2, <1>3 DEF FlyoutInit, BookOK
<1> QED BY <1>1, <1>4 DEF FlyoutInit, NeedInv
-----------------------------------------------------------------------------
(* The theorems.                                                             *)

\* What is under way to the flyout, signals and replies, is never behind what
\* it shows already, nor a signal behind what would be shown before it.
THEOREM Invariance == FlyoutSpec => []IInv
<1>1. FlyoutInit => IInv BY InitOK
<1>2. IInv /\ [FlyoutNext]_allVars => IInv' BY StepOK
<1> QED BY <1>1, <1>2, PTL DEF FlyoutSpec

\* The types of what the poll thread reads, keeps and publishes.
THEOREM TypeCorrect == FlyoutSpec => []TypeOK
<1>1. IInv => TypeOK
  <2> SUFFICES ASSUME IInv PROVE TypeOK OBVIOUS
  <2>1. MachineOK /\ answer \in Answers /\ desktop_state \in Desktops
    BY DEF IInv, PollInv, AccountOK, Past
  <2> QED BY <2>1 DEF MachineOK, TypeOK, Jobs
<1> QED BY <1>1, Invariance, PTL

\* No desktop state is published with the account of a daemon before the one
\* that gave it, however often daemons and services start and end and wherever
\* the write of a profile falls between an answer and its publication.
THEOREM NeverThePreviousAccount == FlyoutSpec => []NoPreviousAccount
<1>1. IInv => NoPreviousAccount BY DEF IInv, PollInv, AccountOK
<1> QED BY <1>1, Invariance, PTL

\* Neither the desktop state nor the job that the flyout shows steps back:
\* for any number of messages under way, with reads overlapping each other,
\* the signals and the end of the service.
THEOREM StepsForwardOnly == FlyoutSpec => NeverStepsBack
<1>1. ASSUME IInv, [FlyoutNext]_allVars
      PROVE  /\ \A kind \in {"desktop", "job"} : shown'[kind].by >= shown[kind].by
             /\ shown'.desktop.by = shown.desktop.by =>
                  NotOlder(shown.desktop.value, shown'.desktop.value)
             /\ shown'.job.by = shown.job.by => JobNotOlder(shown.job.value, shown'.job.value)
  <2>1. NotBehind("desktop", shown["desktop"], shown'["desktop"])
        /\ NotBehind("job", shown["job"], shown'["job"])
    BY <1>1, StepOK DEF Monotone, Followed
  <2>2. \A kind \in Followed : shown[kind].by \in Nat /\ shown'[kind].by \in Nat
    <3>1. IInv' BY <1>1, StepOK
    <3> QED BY <1>1, <3>1 DEF IInv, FlyoutInv, ShownOK, SaidOf, ShapeOK
  <2> QED BY <2>1, <2>2 DEF NotBehind, Later, Followed
<1>2. IInv /\ [FlyoutNext]_allVars =>
        [ /\ \A kind \in {"desktop", "job"} : shown'[kind].by >= shown[kind].by
          /\ shown'.desktop.by = shown.desktop.by =>
               NotOlder(shown.desktop.value, shown'.desktop.value)
          /\ shown'.job.by = shown.job.by =>
               JobNotOlder(shown.job.value, shown'.job.value) ]_allVars
  BY <1>1
<1> QED BY <1>2, Invariance, PTL DEF FlyoutSpec, NeverStepsBack

\* "No follow-up read is ever needed": whatever was discarded on the way, reads
\* overtaken by signals, signals of a service that has gone, a job that ended,
\* once nothing is under way the flyout shows what the service serves.  It is
\* the part of FlyoutSettles that does not depend on time.
THEOREM NothingIsMissed == FlyoutSpec => []NothingMissed
<1>1. FlyoutInit => NeedInv BY InitMisses
<1>2. IInv /\ NeedInv /\ [FlyoutNext]_allVars => NeedInv' BY StepMisses
<1>3. NeedInv => NothingMissed
  <2> SUFFICES ASSUME NeedInv, up, wire = << >>, \A r \in Slots : reads[r].at = "idle", last_job = job
               PROVE  known /\ shown = Sampled
    BY DEF NothingMissed
  <2>1. \A r \in Slots : reads[r].fresh = {} BY DEF NeedInv, CallsOK
  <2>2. DOMAIN wire = {} OBVIOUS
  <2>3. ~Announcing /\ \A kind \in Kinds : ~Signalled(kind) BY <2>2 DEF Announcing, Signalled
  <2>4. known BY <2>1, <2>3 DEF NeedInv, PresentOK, HeardOrComing
  <2>5. \A kind \in Kinds : shown[kind] = Sampled[kind]
    BY <2>1, <2>3 DEF NeedInv, PresentOK, OnItsWay, Settled
  <2>6. shown = [kind \in Kinds |-> Sampled[kind]] BY <2>5 DEF NeedInv, BookOK
  <2>7. Sampled = [kind \in Kinds |-> Sampled[kind]] BY DEF Sampled, Kinds
  <2> QED BY <2>4, <2>6, <2>7
<1> QED BY <1>1, <1>2, <1>3, Invariance, PTL DEF FlyoutSpec
=============================================================================
