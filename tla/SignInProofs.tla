---------------------------- MODULE SignInProofs ----------------------------
(* Theorems about SignIn, for every set of browser sign-ins, commands and   *)
(* files.                                                                   *)
EXTENDS SignIn, FiniteSetTheorems, TLAPS

Stops == {"down", "wait", "migrate", "save", "remove", "sync", "resume", "discover", "run",
          "sign-in", "done"}

\* What the machine and OneDrive keep.
StoreOK ==
  /\ answering \in BOOLEAN /\ secret \in Credentials /\ accepted \subseteq SignIns
  /\ file \in Credentials \cup {NoCredential, Unfit} /\ disk \in Credentials \cup {NoCredential, Unfit}
  /\ unwritten \subseteq Files /\ mishaps \in 0..MaxMishaps

\* What the processes keep: a cache has a credential from its resumption on, and
\* whoever is to save a credential has loaded one.
MemoryOK ==
  /\ pc \in [Processes -> Stops] /\ found \in [Processes -> Credentials \cup {NoCredential}]
  /\ waited \in 0..WaitBound /\ held \in Credentials \cup {NoCredential}
  /\ rejections \in 0..MaxRejections
  /\ unsaved \in BOOLEAN /\ rotating \in BOOLEAN /\ asked \in BOOLEAN
  /\ pc["daemon"] \in {"discover", "run"} => held \in Credentials
  /\ rotating => pc["daemon"] \in {"discover", "run"}
  /\ \A p \in Processes : pc[p] \in {"save", "remove"} => found[p] \in Credentials

\* What the service keeps: a command's sign-in is none of its business.
FlowsOK ==
  /\ stage \in [Flows -> Stages] /\ busy \in BOOLEAN
  /\ status \in [of : ServiceFlows \cup {Nobody}, value : {"idle", "waiting", "complete", "error"}]
  /\ flyout \in {"free", "asking", "polling"}
  /\ \A f \in CommandFlows : stage[f] \notin {"begun", "closing"}

TypeInv == StoreOK /\ MemoryOK /\ FlowsOK

LEMMA TypeParts == TypeInv => TypeOK
BY DEF TypeInv, TypeOK, StoreOK, MemoryOK, FlowsOK, Stops

LEMMA Constants ==
  /\ "daemon" \in Processes /\ CommandFlows \subseteq Processes /\ "daemon" \notin Flows
  /\ Processes \subseteq {"daemon"} \cup Flows /\ CommandFlows \subseteq Flows
  /\ \A p \in Processes : p = "daemon" \/ p \in CommandFlows
  /\ \A f \in Flows : f \in ServiceFlows <=> f \notin CommandFlows
BY ConstantsAssumption DEF Processes, Flows

LEMMA FreshType == ASSUME NEW s \in SignIns PROVE Fresh(s) \in Credentials /\ Fresh(s).sign_in = s
BY ConstantsAssumption DEF Fresh, Credentials
-----------------------------------------------------------------------------
(* Type correctness.                                                        *)

LEMMA GotoType ==
  ASSUME MemoryOK, NEW p \in Processes, NEW to \in Stops \ {"save", "remove"}, Goto(p, to),
         p = "daemon" => \/ to = "run" /\ pc[p] = "discover"
                         \/ ~rotating /\ to \notin {"discover", "run"}
  PROVE  MemoryOK'
<1>1. UNCHANGED <<found, waited, held, rejections, unsaved, rotating, asked>>
  BY DEF Goto, memory, cacheVars
<1>2. pc' = [pc EXCEPT ![p] = to] BY DEF Goto
<1>3. pc' \in [Processes -> Stops] BY <1>2 DEF MemoryOK
<1>4. \A q \in Processes : pc'[q] = IF q = p THEN to ELSE pc[q] BY <1>2 DEF MemoryOK
<1>5. "daemon" \in Processes BY Constants
<1> QED BY <1>1, <1>3, <1>4, <1>5 DEF MemoryOK

LEMMA EndType == ASSUME MemoryOK, NEW p \in Processes, End(p) PROVE MemoryOK'
<1>1. pc' \in [Processes -> Stops] BY DEF MemoryOK, End, Stops
<1>2. found' \in [Processes -> Credentials \cup {NoCredential}] BY DEF MemoryOK, End
<1>3. \A q \in Processes : IF q = p THEN pc'[q] \in {"down", "done"}
                                   ELSE pc'[q] = pc[q] /\ found'[q] = found[q]
  BY DEF MemoryOK, End
<1>4. "daemon" \in Processes BY Constants
<1>5. CASE p = "daemon"
  <2>1. /\ held' = NoCredential /\ rejections' = 0 /\ unsaved' = FALSE
        /\ rotating' = FALSE /\ asked' = FALSE /\ waited' = 0
    BY <1>5 DEF End
  <2>2. 0 \in 0..WaitBound /\ 0 \in 0..MaxRejections BY ConstantsAssumption
  <2> QED BY <1>1, <1>2, <1>3, <1>4, <1>5, <2>1, <2>2 DEF MemoryOK
<1>6. CASE p # "daemon"
  <2>1. UNCHANGED <<waited, held, rejections, unsaved, rotating, asked>>
    BY <1>6 DEF End, cacheVars
  <2> QED BY <1>1, <1>2, <1>3, <1>4, <1>6, <2>1 DEF MemoryOK
<1> QED BY <1>5, <1>6

LEMMA KeptTypes ==
  /\ StoreOK /\ UNCHANGED <<secret, fileVars, outside>> => StoreOK'
  /\ MemoryOK /\ UNCHANGED <<pc, memory>> => MemoryOK'
  /\ FlowsOK /\ UNCHANGED flowVars => FlowsOK'
BY DEF StoreOK, MemoryOK, FlowsOK, fileVars, outside, memory, cacheVars, flowVars

LEMMA MigrationType ==
  ASSUME TypeInv, NEW p \in Processes,
         Start(p) \/ ReadFile(p) \/ SaveFound(p) \/ RemoveFile(p) \/ SyncDirectory(p)
  PROVE  TypeInv'
<1> USE DEF TypeInv
<1>0. p = "daemon" /\ pc[p] \notin {"discover", "run"} => ~rotating BY DEF MemoryOK
<1>1. FlowsOK'
  BY KeptTypes DEF Start, ReadFile, SaveFound, RemoveFile, SyncDirectory, flowVars
<1>2. CASE Start(p)
  <2>1. MemoryOK' BY <1>2, <1>0, GotoType DEF Start, Stops
  <2> QED BY <1>1, <1>2, <2>1, KeptTypes DEF Start
<1>3. CASE ReadFile(p)
  <2>1. StoreOK' BY <1>3, KeptTypes DEF ReadFile
  <2>2. CASE Goto(p, "resume")
    <3>1. MemoryOK' BY <1>3, <1>0, <2>2, GotoType DEF ReadFile, Stops
    <3> QED BY <1>1, <2>1, <3>1
  <2>3. CASE End(p) BY <1>1, <2>1, <2>3, EndType
  <2>4. CASE ~Goto(p, "resume") /\ ~End(p)
    <3>1. /\ file \in Credentials /\ found' = [found EXCEPT ![p] = file] /\ pc[p] = "migrate"
          /\ pc' = [pc EXCEPT ![p] = "save"]
          /\ UNCHANGED <<waited, held, rejections, unsaved, rotating, asked>>
      BY <1>3, <2>4 DEF ReadFile, cacheVars
    <3>2. /\ pc' \in [Processes -> Stops] /\ found' \in [Processes -> Credentials \cup {NoCredential}]
          /\ \A q \in Processes : IF q = p THEN pc'[q] = "save" /\ found'[q] \in Credentials
                                         ELSE pc'[q] = pc[q] /\ found'[q] = found[q]
      BY <3>1 DEF MemoryOK, Stops
    <3>3. MemoryOK' BY <1>0, <3>1, <3>2, Constants DEF MemoryOK
    <3> QED BY <1>1, <2>1, <3>3
  <2> QED BY <2>2, <2>3, <2>4
<1>4. CASE SaveFound(p)
  <2>1. pc[p] = "save" /\ UNCHANGED <<fileVars, outside>> BY <1>4 DEF SaveFound
  <2>2. CASE Goto(p, "remove") /\ secret' = found[p]
    <3>1. found[p] \in Credentials BY <2>1 DEF MemoryOK
    <3>2. StoreOK' BY <2>1, <2>2, <3>1 DEF StoreOK, fileVars, outside
    <3>3. /\ pc' = [pc EXCEPT ![p] = "remove"]
          /\ UNCHANGED <<found, waited, held, rejections, unsaved, rotating, asked>>
      BY <2>2 DEF Goto, memory, cacheVars
    <3>4. /\ pc' \in [Processes -> Stops]
          /\ \A q \in Processes : pc'[q] = IF q = p THEN "remove" ELSE pc[q]
      BY <3>3 DEF MemoryOK, Stops
    <3>5. MemoryOK' BY <1>0, <2>1, <3>1, <3>3, <3>4, Constants DEF MemoryOK
    <3> QED BY <1>1, <3>2, <3>5
  <2>3. CASE End(p) /\ UNCHANGED secret
    <3>1. StoreOK' BY <2>1, <2>3, KeptTypes
    <3> QED BY <1>1, <2>3, <3>1, EndType
  <2> QED BY <1>4, <2>2, <2>3 DEF SaveFound
<1>5. CASE RemoveFile(p)
  <2>1. StoreOK' BY <1>5 DEF RemoveFile, StoreOK, outside
  <2>2. MemoryOK' BY <1>5, <1>0, GotoType, EndType DEF RemoveFile, Stops
  <2> QED BY <1>1, <2>1, <2>2
<1>6. CASE SyncDirectory(p)
  <2>1. StoreOK' BY <1>6 DEF SyncDirectory, StoreOK, outside
  <2>2. MemoryOK' BY <1>6, <1>0, GotoType DEF SyncDirectory, Stops
  <2> QED BY <1>1, <2>1, <2>2
<1> QED BY <1>2, <1>3, <1>4, <1>5, <1>6

LEMMA DaemonType ==
  ASSUME TypeInv, Glance \/ Resume \/ Discover \/ Restart \/ Refresh \/ Persist PROVE TypeInv'
<1> USE DEF TypeInv
<1>0. "daemon" \in Processes BY Constants
<1>1. CASE Glance
  <2>1. StoreOK' /\ FlowsOK' BY <1>1, KeptTypes DEF Glance
  <2>2. CASE Goto("daemon", "migrate")
    <3>1. ~rotating BY <1>1 DEF Glance, MemoryOK
    <3>2. MemoryOK' BY <1>0, <2>2, <3>1, GotoType DEF Stops
    <3> QED BY <2>1, <3>2
  <2>3. CASE End("daemon") BY <1>0, <2>1, <2>3, EndType
  <2>4. CASE waited < WaitBound /\ waited' = waited + 1 /\ UNCHANGED <<pc, found, cacheVars, asked>>
    <3>1. waited' \in 0..WaitBound BY <2>4, ConstantsAssumption DEF MemoryOK
    <3> QED BY <2>1, <2>4, <3>1 DEF MemoryOK, cacheVars
  <2> QED BY <1>1, <2>2, <2>3, <2>4 DEF Glance
<1>2. CASE Resume
  <2>1. StoreOK' /\ FlowsOK' BY <1>2, KeptTypes DEF Resume
  <2>2. CASE End("daemon") BY <1>0, <2>1, <2>2, EndType
  <2>3. CASE ~End("daemon")
    <3>1. /\ held' = secret /\ pc' = [pc EXCEPT !["daemon"] = "discover"]
          /\ UNCHANGED <<found, waited, rejections, unsaved, rotating, asked>>
      BY <1>2, <2>3 DEF Resume
    <3>2. pc' \in [Processes -> Stops] /\ pc'["daemon"] = "discover"
          /\ \A p \in Processes : p # "daemon" => pc'[p] = pc[p]
      BY <1>0, <3>1 DEF MemoryOK, Stops
    <3>3. held' \in Credentials BY <3>1 DEF StoreOK
    <3>4. MemoryOK' BY <3>1, <3>2, <3>3 DEF MemoryOK
    <3> QED BY <2>1, <3>4
  <2> QED BY <2>2, <2>3
<1>3. CASE Discover
  <2>1. StoreOK' /\ FlowsOK' BY <1>3, KeptTypes DEF Discover
  <2>2. MemoryOK' BY <1>0, <1>3, GotoType, EndType DEF Discover, Stops
  <2> QED BY <2>1, <2>2
<1>4. CASE Restart
  <2>1. StoreOK' /\ FlowsOK' BY <1>4, KeptTypes DEF Restart
  <2> QED BY <1>0, <1>4, <2>1, EndType DEF Restart
<1>5. CASE Refresh
  <2>1. StoreOK' /\ FlowsOK' BY <1>5, KeptTypes DEF Refresh
  <2>2. rejections' \in 0..MaxRejections
    BY <1>5, ConstantsAssumption DEF Refresh, SignedIn, MemoryOK
  <2>3. held \in Credentials /\ pc["daemon"] \in {"discover", "run"} BY <1>5 DEF Refresh, MemoryOK
  <2>4. held' \in Credentials
    <3>1. CASE held.rotation < MaxRotations /\ held' = [held EXCEPT !.rotation = @ + 1]
      BY <2>3, <3>1, ConstantsAssumption DEF Credentials
    <3> QED BY <1>5, <2>3, <3>1 DEF Refresh
  <2>5. rotating' \in BOOLEAN BY <1>5 DEF Refresh, MemoryOK
  <2>6. UNCHANGED <<pc, found, waited, unsaved, asked>> BY <1>5 DEF Refresh
  <2> QED BY <2>1, <2>2, <2>3, <2>4, <2>5, <2>6 DEF MemoryOK
<1>6. CASE Persist
  <2>1. FlowsOK' BY <1>6, KeptTypes DEF Persist
  <2>2. secret' \in Credentials BY <1>6 DEF Persist, MemoryOK, StoreOK
  <2>3. StoreOK' BY <1>6, <2>2 DEF Persist, StoreOK, fileVars, outside
  <2>4. rotating' = FALSE /\ unsaved' = ~answering
        /\ UNCHANGED <<pc, found, waited, held, rejections, asked>>
    BY <1>6 DEF Persist
  <2>5. MemoryOK' BY <2>4 DEF MemoryOK
  <2> QED BY <2>1, <2>3, <2>5
<1> QED BY <1>1, <1>2, <1>3, <1>4, <1>5, <1>6

LEMMA AbandonType == ASSUME FlowsOK, NEW F, Abandon(F)
  PROVE  stage' \in [Flows -> Stages] /\ \A f \in CommandFlows : stage'[f] \notin {"begun", "closing"}
BY Constants DEF FlowsOK, Abandon, Stages

LEMMA MishapType == ASSUME TypeInv, Mishap PROVE TypeInv'
<1> USE DEF TypeInv
<1>1. mishaps' \in 0..MaxMishaps /\ UNCHANGED <<answering, accepted>>
  BY ConstantsAssumption DEF Mishap, StoreOK
<1>2. CASE \E p \in Processes : Killed(p)
  <2>1. PICK p \in Processes : Killed(p) BY <1>2
  <2>2. MemoryOK' BY <2>1, EndType DEF Killed
  <2>3. StoreOK' BY <1>1, <2>1 DEF Killed, StoreOK, fileVars
  <2>4. FlowsOK' BY <2>1, AbandonType DEF Killed, FlowsOK
  <2> QED BY <2>2, <2>3, <2>4
<1>3. CASE ServiceKilled
  <2>1. MemoryOK' BY <1>3, KeptTypes DEF ServiceKilled
  <2>2. StoreOK' BY <1>1, <1>3 DEF ServiceKilled, StoreOK, fileVars
  <2>3. FlowsOK' BY <1>3, AbandonType DEF ServiceKilled, ServiceForgets, FlowsOK
  <2> QED BY <2>1, <2>2, <2>3
<1>4. CASE PowerLoss
  <2>1. StoreOK' BY <1>1, <1>4 DEF PowerLoss, StoreOK
  <2>2. FlowsOK' BY <1>4, AbandonType DEF PowerLoss, ServiceForgets, FlowsOK
  <2>3. pc' \in [Processes -> Stops] /\ \A p \in Processes : pc'[p] \in {"down", "done"}
    BY <1>4 DEF PowerLoss, Stops
  <2>4. 0 \in 0..WaitBound /\ 0 \in 0..MaxRejections BY ConstantsAssumption
  <2>5. MemoryOK' BY <1>4, <2>3, <2>4, Constants DEF PowerLoss, MemoryOK
  <2> QED BY <2>1, <2>2, <2>5
<1> QED BY <1>2, <1>3, <1>4 DEF Mishap

LEMMA AdvanceType ==
  ASSUME FlowsOK, NEW f \in Flows, NEW from, NEW to \in Stages, Advance(f, from, to),
         f \in CommandFlows => to \notin {"begun", "closing"}
  PROVE  stage' \in [Flows -> Stages] /\ \A g \in CommandFlows : stage'[g] \notin {"begun", "closing"}
BY Constants DEF FlowsOK, Advance

LEMMA FlowType == ASSUME TypeInv, NEW f \in Flows, Begin(f) \/ Flow(f) PROVE TypeInv'
<1> USE DEF TypeInv
<1>0. f \in ServiceFlows \/ (f \in CommandFlows /\ f \in Processes) BY Constants DEF Flows
<1>1. CASE Begin(f)
  <2>1. StoreOK' /\ MemoryOK' BY <1>1, KeptTypes DEF Begin
  <2>2. "begun" \in Stages /\ f \notin CommandFlows BY <1>1, Constants DEF Begin, Stages
  <2>3. FlowsOK' BY <1>1, <2>2, AdvanceType DEF Begin, Asks, FlowsOK
  <2> QED BY <2>1, <2>3
<1>2. CASE Listen(f)
  <2>1. StoreOK' /\ MemoryOK' BY <1>2, KeptTypes DEF Listen
  <2>2. stage[f] = "begun" /\ {"waiting", "done"} \subseteq Stages BY <1>2 DEF Listen, Advance, Stages
  <2>3. f \in ServiceFlows BY <1>0, <2>2 DEF FlowsOK
  <2>4. /\ stage' \in [Flows -> Stages] /\ \A g \in CommandFlows : stage'[g] \notin {"begun", "closing"}
    BY <1>2, <2>2, AdvanceType DEF Listen
  <2>5. /\ status' \in [of : ServiceFlows \cup {Nobody}, value : {"idle", "waiting", "complete", "error"}]
        /\ busy' \in BOOLEAN /\ flyout' \in {"free", "asking", "polling"}
    <3>1. [of |-> f, value |-> "waiting"] \in [of : ServiceFlows \cup {Nobody},
                                               value : {"idle", "waiting", "complete", "error"}]
      BY <2>3
    <3>2. status' = [of |-> f, value |-> "waiting"] \/ UNCHANGED status BY <1>2 DEF Listen
    <3>3. busy' \in BOOLEAN /\ flyout' \in {"free", "asking", "polling"}
      BY <1>2 DEF Listen, FlowsOK
    <3> QED BY <3>1, <3>2, <3>3 DEF FlowsOK
  <2> QED BY <2>1, <2>4, <2>5 DEF FlowsOK
<1>3. CASE Redirected(f) \/ Respond(f)
  <2>1. StoreOK' /\ MemoryOK' BY <1>3, KeptTypes DEF Redirected, Respond
  <2>2. {"store", "failed", "notify"} \subseteq Stages BY DEF Stages
  <2>3. /\ stage' \in [Flows -> Stages] /\ \A g \in CommandFlows : stage'[g] \notin {"begun", "closing"}
    BY <1>3, <2>2, AdvanceType DEF Redirected, Respond
  <2> QED BY <1>3, <2>1, <2>3 DEF FlowsOK, Redirected, Respond
<1>4. CASE StoreEnrolled(f)
  <2>1. MemoryOK' BY <1>4, KeptTypes DEF StoreEnrolled
  <2>2. {"respond", "failed"} \subseteq Stages BY DEF Stages
  <2>3. /\ stage' \in [Flows -> Stages] /\ \A g \in CommandFlows : stage'[g] \notin {"begun", "closing"}
    BY <1>4, <2>2, AdvanceType DEF StoreEnrolled
  <2>4. Fresh(f) \in Credentials BY FreshType DEF SignIns
  <2>5. StoreOK' BY <1>4, <2>4 DEF StoreEnrolled, StoreOK, fileVars, outside
  <2> QED BY <1>4, <2>1, <2>3, <2>5 DEF FlowsOK, StoreEnrolled
<1>5. CASE Notify(f)
  <2>1. StoreOK' BY <1>5, KeptTypes DEF Notify
  <2>2. "completed" \in Stages BY DEF Stages
  <2>3. FlowsOK' BY <1>5, <2>2, AdvanceType DEF Notify, FlowsOK
  <2>4. asked' \in BOOLEAN BY <1>5 DEF Notify
  <2>5. UNCHANGED <<pc, found, waited, held, rejections, unsaved, rotating>>
    BY <1>5 DEF Notify, cacheVars
  <2>6. MemoryOK' BY <2>4, <2>5 DEF MemoryOK
  <2> QED BY <2>1, <2>3, <2>6
<1>6. CASE Report(f)
  <2>1. StoreOK' /\ MemoryOK' BY <1>6, KeptTypes DEF Report
  <2>2. "closing" \in Stages /\ f \notin CommandFlows BY <1>6, Constants DEF Report, Stages
  <2>3. FlowsOK' BY <1>6, <2>2, AdvanceType DEF Report, FlowsOK
  <2> QED BY <2>1, <2>3
<1>7. CASE Release(f)
  <2>1. StoreOK' /\ MemoryOK' BY <1>7, KeptTypes DEF Release
  <2>2. "done" \in Stages BY DEF Stages
  <2>3. FlowsOK' BY <1>7, <2>2, AdvanceType DEF Release, FlowsOK
  <2> QED BY <2>1, <2>3
<1>8. CASE CommandEnds(f)
  <2>1. MemoryOK' BY <1>0, <1>8, EndType, Constants DEF CommandEnds
  <2>2. StoreOK' BY <1>8, KeptTypes DEF CommandEnds
  <2>3. "done" \in Stages BY DEF Stages
  <2>4. FlowsOK' BY <1>8, <2>3, AdvanceType DEF CommandEnds, FlowsOK
  <2> QED BY <2>1, <2>2, <2>4
<1> QED BY <1>1, <1>2, <1>3, <1>4, <1>5, <1>6, <1>7, <1>8 DEF Flow

LEMMA CommandType == ASSUME TypeInv, NEW p \in CommandFlows, CommandResume(p) PROVE TypeInv'
<1> USE DEF TypeInv
<1>0. p \in Processes /\ p \in Flows /\ p # "daemon" BY Constants
<1>1. StoreOK' BY KeptTypes DEF CommandResume
<1>2. MemoryOK' BY <1>0, GotoType, EndType DEF CommandResume, Stops
<1>3. "waiting" \in Stages BY DEF Stages
<1>4. UNCHANGED <<busy, status, flyout>> BY DEF CommandResume
<1>5. /\ stage' \in [Flows -> Stages]
      /\ \A f \in CommandFlows : stage'[f] = stage[f] \/ stage'[f] = "waiting"
  <2>1. stage' = stage \/ stage' = [stage EXCEPT ![p] = "waiting"] BY DEF CommandResume
  <2> QED BY <1>0, <1>3, <2>1, Constants DEF FlowsOK
<1>6. FlowsOK' BY <1>4, <1>5 DEF FlowsOK
<1> QED BY <1>1, <1>2, <1>6

LEMMA EnvironmentType ==
  ASSUME TypeInv, ReadStatus \/ Environment \/ UNCHANGED vars PROVE TypeInv'
<1> USE DEF TypeInv
<1>1. CASE ReadStatus
  <2>1. StoreOK' /\ MemoryOK' BY <1>1, KeptTypes DEF ReadStatus
  <2> QED BY <1>1, <2>1 DEF ReadStatus, FlowsOK
<1>2. CASE Environment
  <2>1. MemoryOK' /\ FlowsOK'
    BY <1>2, KeptTypes DEF Environment, StoreChanges, WriteBack, Revoke, WriteFile
  <2>2. CASE StoreChanges
    <3>1. answering' \in BOOLEAN BY <2>2 DEF StoreChanges
    <3>2. UNCHANGED <<secret, fileVars, accepted, mishaps>> BY <2>2 DEF StoreChanges
    <3>3. StoreOK' BY <3>1, <3>2 DEF StoreOK, fileVars
    <3> QED BY <2>1, <3>3
  <2>4. CASE WriteBack
    <3>1. StoreOK' BY <2>4 DEF WriteBack, StoreOK, outside
    <3> QED BY <2>1, <3>1
  <2>3. ASSUME NEW s \in SignIns, Revoke(s) \/ WriteFile(s) PROVE StoreOK'
    <3>1. Fresh(s) \in Credentials BY FreshType
    <3> QED BY <2>3, <3>1 DEF Revoke, WriteFile, StoreOK, fileVars, outside
  <2> QED BY <1>2, <2>1, <2>2, <2>3, <2>4 DEF Environment
<1>3. CASE UNCHANGED vars BY <1>3, KeptTypes DEF vars
<1> QED BY <1>1, <1>2, <1>3

LEMMA InitType == Init => TypeInv
<1> SUFFICES ASSUME Init PROVE TypeInv OBVIOUS
<1>1. Fresh(First) \in Credentials BY FreshType DEF SignIns
<1>2. StoreOK BY <1>1, ConstantsAssumption DEF Init, StoreOK
<1>3. MemoryOK
  <2>1. 0 \in 0..WaitBound /\ 0 \in 0..MaxRejections BY ConstantsAssumption
  <2>2. pc \in [Processes -> Stops] /\ \A p \in Processes : pc[p] = "down" BY DEF Init, Stops
  <2>3. found \in [Processes -> Credentials \cup {NoCredential}] BY DEF Init
  <2> QED BY <2>1, <2>2, <2>3, Constants DEF Init, MemoryOK
<1>4. FlowsOK BY Constants DEF Init, FlowsOK, Stages
<1> QED BY <1>2, <1>3, <1>4 DEF TypeInv

LEMMA NextType == TypeInv /\ [Next]_vars => TypeInv'
<1> SUFFICES ASSUME TypeInv, [Next]_vars PROVE TypeInv' OBVIOUS
<1> QED BY MigrationType, DaemonType, MishapType, FlowType, CommandType, EnvironmentType, Constants
        DEF Next, DaemonSteps, CommandSteps

\* Every variable keeps its type.
THEOREM TypeCorrect == Spec => []TypeOK
BY TypeParts, InitType, NextType, PTL DEF Spec
-----------------------------------------------------------------------------
(* One browser sign-in at a time, and what is read of it.                   *)

Open(f) == stage[f] \notin {"unused", "done"}

\* The flag is set exactly if a sign-in is open, and no second one is.
BusyInv ==
  /\ busy <=> \E f \in ServiceFlows : Open(f)
  /\ \A f, g \in ServiceFlows : Open(f) /\ Open(g) => f = g

FlowInv == TypeInv /\ BusyInv /\ PollTruthful

\* What a step of a sign-in does to its stage and to the service.
LEMMA FlowStep == ASSUME TypeInv, NEW f \in Flows, Flow(f)
  PROVE  /\ Open(f) /\ (f \in CommandFlows => UNCHANGED <<busy, status>>)
         /\ \A g \in Flows : g # f => stage'[g] = stage[g]
         /\ f \in ServiceFlows =>
              \/ Open(f)' /\ UNCHANGED <<busy, status>> /\ stage'[f] # "closing"
                 /\ stage[f] \notin {"begun", "closing"}
              \/ Open(f)' /\ UNCHANGED busy /\ stage'[f] = "waiting"
                 /\ status' = [of |-> f, value |-> "waiting"]
              \/ Open(f)' /\ UNCHANGED busy /\ stage'[f] = "closing" /\ stage[f] # "begun"
                 /\ status'.of = f /\ status'.value # "waiting"
              \/ ~Open(f)' /\ busy' = FALSE /\ UNCHANGED status
<1> USE DEF TypeInv, FlowsOK, Open, Advance
<1>0. f \in ServiceFlows <=> f \notin CommandFlows BY Constants
<1>1. CASE Listen(f) BY <1>0, <1>1 DEF Listen
<1>2. CASE Redirected(f) \/ StoreEnrolled(f) \/ Respond(f) \/ Notify(f)
  BY <1>2 DEF Redirected, StoreEnrolled, Respond, Notify
<1>3. CASE Report(f)
  <2>1. status'.of = f /\ status'.value # "waiting" BY <1>3 DEF Report
  <2>2. /\ stage[f] \in {"completed", "failed"} /\ stage' = [stage EXCEPT ![f] = "closing"]
        /\ UNCHANGED busy /\ f \notin CommandFlows
    BY <1>0, <1>3 DEF Report
  <2> QED BY <2>1, <2>2
<1>4. CASE Release(f) BY <1>0, <1>4 DEF Release
<1>5. CASE CommandEnds(f)
  <2>1. stage[f] \in {"completed", "failed"} /\ stage' = [stage EXCEPT ![f] = "done"]
        /\ UNCHANGED <<busy, status>> /\ f \in CommandFlows
    BY <1>5 DEF CommandEnds
  <2> QED BY <1>0, <2>1
<1> QED BY <1>1, <1>2, <1>3, <1>4, <1>5 DEF Flow

LEMMA FlowStepInv == ASSUME FlowInv, NEW f \in Flows, Flow(f) PROVE BusyInv' /\ PollTruthful'
<1> USE DEF FlowInv
<1>0. ServiceFlows \subseteq Flows /\ (f \in ServiceFlows \/ f \in CommandFlows) BY DEF Flows
<1>1. Open(f) /\ \A g \in Flows : g # f => stage'[g] = stage[g] BY FlowStep
<1>2. CASE f \in CommandFlows
  <2>1. UNCHANGED <<busy, status>> /\ f \notin ServiceFlows BY <1>2, FlowStep, Constants
  <2>2. \A g \in ServiceFlows : stage'[g] = stage[g] BY <1>0, <1>1, <2>1
  <2>3. \A g \in ServiceFlows : Open(g)' = Open(g) BY <2>2 DEF Open
  <2> QED BY <2>1, <2>2, <2>3 DEF BusyInv, PollTruthful
<1>3. CASE f \in ServiceFlows
  <2>1. \A g \in ServiceFlows : g # f => ~Open(g) BY <1>1, <1>3 DEF BusyInv
  <2>2. \A g \in ServiceFlows : g # f => ~Open(g)' BY <1>0, <1>1, <2>1 DEF Open
  <2>3. busy BY <1>1, <1>3 DEF BusyInv
  <2>4. \A g \in ServiceFlows : g # f => stage'[g] \in {"unused", "done"} BY <2>2 DEF Open
  <2>5. CASE UNCHANGED <<busy, status>> /\ Open(f)' /\ stage'[f] # "closing"
             /\ stage[f] \notin {"begun", "closing"}
    <3>1. status.of = f /\ status.value = "waiting" BY <1>1, <1>3, <2>5 DEF PollTruthful, Open
    <3> QED BY <1>3, <2>2, <2>3, <2>4, <2>5, <3>1 DEF BusyInv, PollTruthful
  <2>6. CASE /\ Open(f)' /\ UNCHANGED busy /\ stage'[f] = "waiting"
             /\ status' = [of |-> f, value |-> "waiting"]
    BY <1>3, <2>2, <2>3, <2>4, <2>6 DEF BusyInv, PollTruthful
  <2>7. CASE /\ Open(f)' /\ UNCHANGED busy /\ stage'[f] = "closing"
             /\ status'.of = f /\ status'.value # "waiting"
    BY <1>3, <2>2, <2>3, <2>4, <2>7 DEF BusyInv, PollTruthful
  <2>8. CASE ~Open(f)' /\ busy' = FALSE
    <3>1. \A g \in ServiceFlows : ~Open(g)' BY <2>2, <2>8
    <3> QED BY <2>8, <3>1 DEF BusyInv, PollTruthful, Open
  <2> QED BY <1>3, <2>5, <2>6, <2>7, <2>8, FlowStep
<1> QED BY <1>0, <1>2, <1>3

LEMMA BeginInv == ASSUME FlowInv, NEW f \in Flows, Begin(f) PROVE BusyInv' /\ PollTruthful'
<1> USE DEF FlowInv
<1>1. f \in ServiceFlows /\ ~busy /\ busy' = TRUE /\ UNCHANGED status BY DEF Begin
<1>2. \A g \in ServiceFlows : ~Open(g) BY <1>1 DEF BusyInv
<1>3. \A g \in ServiceFlows : stage'[g] = IF g = f THEN "begun" ELSE stage[g]
  BY DEF Begin, Advance, TypeInv, FlowsOK, Flows
<1>4. \A g \in ServiceFlows : Open(g)' <=> g = f BY <1>2, <1>3 DEF Open
<1>5. BusyInv' BY <1>1, <1>4 DEF BusyInv
<1>6. PollTruthful' BY <1>2, <1>3 DEF PollTruthful, Open
<1> QED BY <1>5, <1>6

LEMMA MishapInv == ASSUME FlowInv, Mishap PROVE BusyInv' /\ PollTruthful'
<1> USE DEF FlowInv
<1>0. ServiceFlows \subseteq Flows BY DEF Flows
<1>1. CASE \E p \in Processes : Killed(p)
  <2>1. PICK p \in Processes : Killed(p) BY <1>1
  <2>2. UNCHANGED <<busy, status>> /\ p \notin ServiceFlows BY <2>1, Constants DEF Killed, Flows
  <2>3. \A f \in ServiceFlows : stage'[f] = stage[f] BY <1>0, <2>1, <2>2 DEF Killed, Abandon
  <2>4. \A f \in ServiceFlows : Open(f)' = Open(f) BY <2>3 DEF Open
  <2> QED BY <2>2, <2>3, <2>4 DEF BusyInv, PollTruthful
<1>2. CASE ServiceKilled \/ PowerLoss
  <2>1. busy' = FALSE BY <1>2 DEF ServiceKilled, PowerLoss, ServiceForgets
  <2>2. \A f \in ServiceFlows : stage'[f] \in {"unused", "done"}
    BY <1>0, <1>2 DEF ServiceKilled, PowerLoss, Abandon
  <2>3. \A f \in ServiceFlows : ~Open(f)' BY <2>2 DEF Open
  <2> QED BY <2>1, <2>2, <2>3 DEF BusyInv, PollTruthful
<1> QED BY <1>1, <1>2 DEF Mishap

\* Everything else leaves the sign-ins of the service alone.
LEMMA ElsewhereInv ==
  ASSUME FlowInv,
         \/ DaemonSteps \/ ReadStatus \/ Refresh \/ Persist \/ Environment \/ UNCHANGED vars
         \/ \E p \in CommandFlows : CommandSteps(p)
  PROVE  BusyInv' /\ PollTruthful'
<1> USE DEF FlowInv
<1>1. UNCHANGED <<busy, status>>
  BY DEF DaemonSteps, CommandSteps, ReadStatus, Refresh, Persist, Environment, vars, flowVars,
         Start, Glance, ReadFile, SaveFound, RemoveFile, SyncDirectory, Resume, Discover, Restart,
         CommandResume, StoreChanges, WriteBack, Revoke, WriteFile
<1>2. stage' = stage \/ \E p \in CommandFlows : stage' = [stage EXCEPT ![p] = "waiting"]
  BY DEF DaemonSteps, CommandSteps, ReadStatus, Refresh, Persist, Environment, vars, flowVars,
         Start, Glance, ReadFile, SaveFound, RemoveFile, SyncDirectory, Resume, Discover, Restart,
         CommandResume, StoreChanges, WriteBack, Revoke, WriteFile
<1>3. \A f \in ServiceFlows : stage'[f] = stage[f]
  BY <1>2, Constants DEF TypeInv, FlowsOK, Flows
<1>4. \A f \in ServiceFlows : Open(f)' = Open(f) BY <1>3 DEF Open
<1> QED BY <1>1, <1>3, <1>4 DEF BusyInv, PollTruthful

LEMMA FlowInvariance == Spec => []FlowInv
<1>1. Init => FlowInv
  <2> SUFFICES ASSUME Init PROVE FlowInv OBVIOUS
  <2>1. \A f \in ServiceFlows : stage[f] = "unused" BY DEF Init, Flows
  <2>2. busy = FALSE BY DEF Init
  <2> QED BY <2>1, <2>2, InitType DEF FlowInv, BusyInv, PollTruthful, Open
<1>2. FlowInv /\ [Next]_vars => FlowInv'
  <2> SUFFICES ASSUME FlowInv, [Next]_vars PROVE FlowInv' OBVIOUS
  <2>1. TypeInv' BY NextType DEF FlowInv
  <2>2. BusyInv' /\ PollTruthful'
    BY FlowStepInv, BeginInv, MishapInv, ElsewhereInv DEF Next
  <2> QED BY <2>1, <2>2 DEF FlowInv
<1> QED BY <1>1, <1>2, PTL DEF Spec

\* enrollment_busy is set exactly while one browser sign-in is under way.
THEOREM BusyIsOne == Spec => []OneFlow
<1>1. FlowInv => OneFlow
  <2> SUFFICES ASSUME FlowInv PROVE OneFlow OBVIOUS
  <2> DEFINE open == {f \in ServiceFlows : stage[f] \notin {"unused", "done"}}
  <2>1. CASE ~busy
    <3>1. open = {} BY <2>1 DEF FlowInv, BusyInv, Open
    <3> QED BY <2>1, <3>1, FS_EmptySet DEF OneFlow
  <2>2. CASE busy
    <3>1. PICK f : open = {f} BY <2>2 DEF FlowInv, BusyInv, Open
    <3> QED BY <2>2, <3>1, FS_Singleton DEF OneFlow
  <2> QED BY <2>1, <2>2
<1> QED BY <1>1, FlowInvariance, PTL

\* A caller reads the state of its own sign-in, and an outcome only when there is one.
THEOREM PollsTellTheTruth == Spec => []PollTruthful
<1>1. FlowInv => PollTruthful BY DEF FlowInv
<1> QED BY <1>1, FlowInvariance, PTL
-----------------------------------------------------------------------------
(* What is stored, what the daemon runs on, and what the file held.  An     *)
(* auth command that runs beside the daemon may save the file's older       *)
(* credential over a rotation, so all of this is about the times when none  *)
(* does.                                                                    *)

NoCommand == CommandFlows = {}

Early == {"unused", "begun", "waiting", "store"}

\* The file, on disk or loaded, is the helper's.
FilesInv ==
  /\ file \in Credentials => file.sign_in \in Files
  /\ disk \in Credentials => disk.sign_in \in Files
  /\ \A p \in Processes : found[p] \in Credentials => found[p].sign_in \in Files

\* Nobody has the credential of a browser sign-in that has not stored it yet.
EarlyInv ==
  \A f \in Flows : stage[f] \in Early =>
    secret.sign_in # f /\ (held \in Credentials => held.sign_in # f)

\* A cache that owes no write-back runs on what is stored, or on an older sign-in.
HealthyInv ==
  pc["daemon"] \in {"discover", "run"} /\ ~unsaved /\ ~rotating
    => secret = held \/ secret.sign_in # held.sign_in

\* A daemon about to remove the file has stored what it loaded from it; since
\* then only a browser sign-in can have replaced that.
MovedInv ==
  pc["daemon"] = "remove" =>
    secret.sign_in = found["daemon"].sign_in \/ secret.sign_in \in ServiceFlows

SavedInv == TypeInv /\ FilesInv /\ EarlyInv /\ HealthyInv /\ MovedInv

\* A file is removed only when its sign-in, or a later one in the browser, is stored.
RemovedIsKept ==
  [][file' = NoCredential /\ file \in Credentials /\ mishaps' = mishaps
       => \/ secret.sign_in = file.sign_in \/ secret.sign_in \in ServiceFlows
          \/ \E p \in Processes : pc[p] = "remove" /\ found[p] # file]_vars

LEMMA OneProcess == ASSUME NoCommand PROVE Processes = {"daemon"} /\ Flows = ServiceFlows
BY DEF NoCommand, Processes, Flows

LEMMA DaemonEnds == ASSUME TypeInv, End("daemon")
  PROVE  pc'["daemon"] = "down" /\ held' = NoCredential
         /\ found' = [found EXCEPT !["daemon"] = NoCredential]
BY Constants DEF End, TypeInv, MemoryOK

LEMMA EndSaved ==
  ASSUME SavedInv, NoCommand, End("daemon"), UNCHANGED <<secret, file, disk, stage>>
  PROVE  FilesInv' /\ EarlyInv' /\ HealthyInv' /\ MovedInv'
<1> USE DEF SavedInv
<1>1. /\ pc'["daemon"] = "down" /\ held' \notin Credentials
      /\ \A p \in Processes : found'[p] \notin Credentials
  BY DaemonEnds, OneProcess, ConstantsAssumption DEF TypeInv, MemoryOK
<1> QED BY <1>1 DEF FilesInv, EarlyInv, HealthyInv, MovedInv

LEMMA GotoSaved ==
  ASSUME SavedInv, NoCommand, NEW to \in Stops, Goto("daemon", to), to # "remove",
         to = "run" => pc["daemon"] = "discover", to # "discover",
         UNCHANGED <<secret, stage>>, file' = file \/ file' = NoCredential,
         disk' = disk \/ disk' = file
  PROVE  FilesInv' /\ EarlyInv' /\ HealthyInv' /\ MovedInv'
<1> USE DEF SavedInv
<1>1. pc'["daemon"] = to BY Constants DEF Goto, TypeInv, MemoryOK
<1>2. UNCHANGED <<found, held, unsaved, rotating>> BY DEF Goto, memory, cacheVars
<1>3. NoCredential \notin Credentials BY ConstantsAssumption
<1>4. FilesInv' BY <1>2, <1>3 DEF FilesInv
<1>5. EarlyInv' BY <1>2 DEF EarlyInv
<1>6. HealthyInv' BY <1>1, <1>2 DEF HealthyInv
<1>7. MovedInv' BY <1>1 DEF MovedInv
<1> QED BY <1>4, <1>5, <1>6, <1>7

LEMMA DaemonSaved == ASSUME SavedInv, NoCommand, DaemonSteps
  PROVE  FilesInv' /\ EarlyInv' /\ HealthyInv' /\ MovedInv'
<1> USE DEF SavedInv, Stops
<1>0. "daemon" \in Processes BY Constants
<1>1. CASE Start("daemon") BY <1>1, GotoSaved DEF Start, fileVars, flowVars
<1>2. CASE Glance
  <2>1. CASE waited' = waited + 1 /\ UNCHANGED <<pc, found, cacheVars, asked>>
    BY <1>2, <2>1
       DEF Glance, FilesInv, EarlyInv, HealthyInv, MovedInv, cacheVars, fileVars, flowVars
  <2> QED BY <1>2, <2>1, GotoSaved, EndSaved DEF Glance, fileVars, flowVars
<1>3. CASE ReadFile("daemon")
  <2>0. UNCHANGED <<secret, file, disk, stage>> BY <1>3 DEF ReadFile, fileVars, flowVars
  <2>1. CASE /\ file \in Credentials /\ found' = [found EXCEPT !["daemon"] = file]
             /\ pc' = [pc EXCEPT !["daemon"] = "save"] /\ UNCHANGED <<waited, cacheVars, asked>>
    <3>1. pc'["daemon"] = "save" /\ found'["daemon"] = file
      BY <1>0, <2>1 DEF TypeInv, MemoryOK
    <3> QED BY <2>0, <2>1, <3>1, OneProcess
          DEF FilesInv, EarlyInv, HealthyInv, MovedInv, cacheVars
  <2> QED BY <1>3, <2>0, <2>1, GotoSaved, EndSaved DEF ReadFile
<1>4. CASE SaveFound("daemon")
  <2>0. UNCHANGED <<file, disk, stage>> BY <1>4 DEF SaveFound, fileVars, flowVars
  <2>1. CASE secret' = found["daemon"] /\ Goto("daemon", "remove")
    <3>1. pc'["daemon"] = "remove" /\ UNCHANGED <<found, held>>
      BY <1>0, <2>1 DEF Goto, memory, cacheVars, TypeInv, MemoryOK
    <3>2. found["daemon"] \in Credentials BY <1>0, <1>4 DEF SaveFound, TypeInv, MemoryOK
    <3>3. secret'.sign_in \in Files BY <1>0, <2>1, <3>2 DEF FilesInv
    <3>4. secret'.sign_in \notin Flows BY <3>3, ConstantsAssumption
    <3> QED BY <2>0, <2>1, <3>1, <3>4 DEF FilesInv, EarlyInv, HealthyInv, MovedInv
  <2> QED BY <1>4, <2>0, <2>1, EndSaved DEF SaveFound
<1>5. CASE RemoveFile("daemon")
  <2>1. UNCHANGED <<secret, disk, stage>> BY <1>5 DEF RemoveFile, flowVars
  <2> QED BY <1>5, <2>1, GotoSaved, EndSaved DEF RemoveFile
<1>6. CASE SyncDirectory("daemon") BY <1>6, GotoSaved DEF SyncDirectory, flowVars
<1>7. CASE Resume
  <2>0. UNCHANGED <<secret, file, disk, stage>> BY <1>7 DEF Resume, fileVars, flowVars
  <2>1. CASE held' = secret /\ pc' = [pc EXCEPT !["daemon"] = "discover"] /\ UNCHANGED found
    <3>1. pc'["daemon"] = "discover" BY <1>0, <2>1 DEF TypeInv, MemoryOK
    <3> QED BY <2>0, <2>1, <3>1 DEF FilesInv, EarlyInv, HealthyInv, MovedInv
  <2> QED BY <1>7, <2>0, <2>1, EndSaved DEF Resume
<1>8. CASE Discover BY <1>8, GotoSaved, EndSaved DEF Discover, fileVars, flowVars
<1>9. CASE Restart BY <1>9, EndSaved DEF Restart, fileVars, flowVars
<1> QED BY <1>1, <1>2, <1>3, <1>4, <1>5, <1>6, <1>7, <1>8, <1>9 DEF DaemonSteps

LEMMA CacheSaved == ASSUME SavedInv, NoCommand, Refresh \/ Persist
  PROVE  FilesInv' /\ EarlyInv' /\ HealthyInv' /\ MovedInv'
<1> USE DEF SavedInv
<1>1. UNCHANGED <<file, disk, found, pc, stage>> BY DEF Refresh, Persist, fileVars, flowVars
<1>2. FilesInv' BY <1>1 DEF FilesInv
<1>3. held \in Credentials /\ pc["daemon"] # "remove" BY DEF Refresh, Persist, TypeInv, MemoryOK
<1>4. MovedInv' BY <1>1, <1>3 DEF MovedInv
<1>5. CASE Refresh
  <2>1. UNCHANGED <<secret, unsaved>> BY <1>5 DEF Refresh
  <2>2. held'.sign_in = held.sign_in BY <1>3, <1>5 DEF Refresh, Credentials
  <2>3. rotating' \/ (UNCHANGED <<held, rotating>>) BY <1>5 DEF Refresh
  <2> QED BY <1>1, <1>2, <1>3, <1>4, <2>1, <2>2, <2>3 DEF EarlyInv, HealthyInv
<1>6. CASE Persist
  <2>1. UNCHANGED held /\ (secret' = held \/ (secret' = secret /\ unsaved')) BY <1>6 DEF Persist
  <2> QED BY <1>1, <1>2, <1>3, <1>4, <2>1 DEF EarlyInv, HealthyInv
<1> QED BY <1>5, <1>6

LEMMA FlowSaved == ASSUME SavedInv, NoCommand, NEW f \in Flows, Begin(f) \/ Flow(f)
  PROVE  FilesInv' /\ EarlyInv' /\ HealthyInv' /\ MovedInv'
<1> USE DEF SavedInv
<1>0. f \notin CommandFlows BY DEF NoCommand
<1>1. UNCHANGED <<file, disk, found, pc, held, unsaved, rotating>>
  BY <1>0 DEF Begin, Flow, Listen, Redirected, StoreEnrolled, Respond, Notify, Report, Release,
     CommandEnds, fileVars, memory, cacheVars
<1>2. FilesInv' BY <1>1 DEF FilesInv
<1>3. \A g \in Flows : stage'[g] \in Early => stage[g] \in Early
  BY <1>0 DEF Begin, Flow, Listen, Redirected, StoreEnrolled, Respond, Notify, Report, Release,
     CommandEnds, Advance, Early, TypeInv, FlowsOK
<1>4. CASE UNCHANGED secret
  BY <1>1, <1>2, <1>3, <1>4 DEF EarlyInv, HealthyInv, MovedInv
<1>5. CASE StoreEnrolled(f) /\ secret' = Fresh(f)
  <2>1. secret'.sign_in = f BY <1>5, FreshType DEF SignIns
  <2>2. stage[f] = "store" /\ stage'[f] \in {"respond", "failed"}
    BY <1>5 DEF StoreEnrolled, Advance, TypeInv, FlowsOK
  <2>3. EarlyInv'
    <3>1. stage'[f] \notin Early BY <2>2 DEF Early
    <3> QED BY <1>1, <1>3, <2>1, <3>1 DEF EarlyInv
  <2>4. held \in Credentials => held.sign_in # f BY <2>2 DEF EarlyInv, Early
  <2>5. HealthyInv' BY <1>1, <2>1, <2>4 DEF HealthyInv, TypeInv, MemoryOK
  <2>6. MovedInv' BY <1>1, <2>1, OneProcess DEF MovedInv
  <2> QED BY <1>2, <2>3, <2>5, <2>6
<1> QED BY <1>4, <1>5
      DEF Begin, Flow, Listen, Redirected, StoreEnrolled, Respond, Notify, Report, Release,
          CommandEnds

LEMMA MishapSaved == ASSUME SavedInv, NoCommand, Mishap
  PROVE  FilesInv' /\ EarlyInv' /\ HealthyInv' /\ MovedInv'
<1> USE DEF SavedInv
<1>1. UNCHANGED <<secret, disk>> /\ (file' = file \/ file' = disk)
  BY DEF Mishap, Killed, ServiceKilled, PowerLoss, fileVars
<1>2. \A f \in Flows : stage'[f] \in Early => stage[f] \in Early
  BY DEF Mishap, Killed, ServiceKilled, PowerLoss, Abandon, Early
<1>3. CASE UNCHANGED <<found, pc, held, unsaved, rotating>>
  BY <1>1, <1>2, <1>3 DEF FilesInv, EarlyInv, HealthyInv, MovedInv
<1>4. CASE pc'["daemon"] = "down" /\ held' = NoCredential /\ found'["daemon"] = NoCredential
  <2>1. NoCredential \notin Credentials BY ConstantsAssumption
  <2> QED BY <1>1, <1>2, <1>4, <2>1, OneProcess DEF FilesInv, EarlyInv, HealthyInv, MovedInv
<1>5. CASE \E p \in Processes : Killed(p)
  <2>1. End("daemon") BY <1>5, OneProcess DEF Killed
  <2>2. found'["daemon"] = NoCredential BY <2>1, DaemonEnds, Constants DEF TypeInv, MemoryOK
  <2> QED BY <1>4, <2>1, <2>2, DaemonEnds
<1>6. CASE ServiceKilled BY <1>3, <1>6 DEF ServiceKilled, memory, cacheVars
<1>7. CASE PowerLoss
  <2>1. pc'["daemon"] = "down" /\ held' = NoCredential /\ found'["daemon"] = NoCredential
    BY <1>7, Constants DEF PowerLoss
  <2> QED BY <1>4, <2>1
<1> QED BY <1>5, <1>6, <1>7 DEF Mishap

LEMMA EnvironmentSaved ==
  ASSUME SavedInv, NoCommand, ReadStatus \/ Environment \/ UNCHANGED vars
  PROVE  FilesInv' /\ EarlyInv' /\ HealthyInv' /\ MovedInv'
<1> USE DEF SavedInv
<1>1. UNCHANGED <<secret, pc, found, held, unsaved, rotating, stage>>
  BY DEF ReadStatus, Environment, StoreChanges, WriteBack, Revoke, WriteFile, vars, memory,
         cacheVars, flowVars
<1>2. EarlyInv' /\ HealthyInv' /\ MovedInv' BY <1>1 DEF EarlyInv, HealthyInv, MovedInv
<1>3. FilesInv'
  <2>1. CASE UNCHANGED file /\ (disk' = disk \/ disk' = file) BY <1>1, <2>1 DEF FilesInv
  <2>2. ASSUME NEW s \in SignIns, WriteFile(s) PROVE FilesInv'
    <3>1. s \in Files /\ file' \in {Fresh(s), Unfit} /\ UNCHANGED disk
      BY <2>2 DEF WriteFile, TypeInv, StoreOK
    <3>2. Fresh(s).sign_in = s /\ Unfit \notin Credentials BY FreshType, ConstantsAssumption
    <3> QED BY <1>1, <3>1, <3>2 DEF FilesInv
  <2> QED BY <2>1, <2>2 DEF ReadStatus, Environment, StoreChanges, WriteBack, Revoke, vars, fileVars
<1> QED BY <1>2, <1>3

LEMMA SavedInvariance == ASSUME NoCommand PROVE Spec => []SavedInv
<1>1. Init => SavedInv
  <2> SUFFICES ASSUME Init PROVE SavedInv OBVIOUS
  <2>1. NoCredential \notin Credentials BY ConstantsAssumption
  <2>2. secret.sign_in \notin Flows BY FreshType, ConstantsAssumption DEF Init, SignIns
  <2>3. /\ file = NoCredential /\ disk = NoCredential /\ held = NoCredential
        /\ \A p \in Processes : found[p] = NoCredential /\ pc[p] = "down"
    BY DEF Init
  <2> QED BY <2>1, <2>2, <2>3, InitType, Constants
        DEF SavedInv, FilesInv, EarlyInv, HealthyInv, MovedInv
<1>2. SavedInv /\ [Next]_vars => SavedInv'
  <2> SUFFICES ASSUME SavedInv, [Next]_vars PROVE SavedInv' OBVIOUS
  <2>1. TypeInv' BY NextType DEF SavedInv
  <2>2. FilesInv' /\ EarlyInv' /\ HealthyInv' /\ MovedInv'
    BY DaemonSaved, CacheSaved, FlowSaved, MishapSaved, EnvironmentSaved DEF Next, NoCommand
  <2> QED BY <2>1, <2>2 DEF SavedInv
<1> QED BY <1>1, <1>2, PTL DEF Spec

\* A daemon that calls itself healthy runs on what is stored, or on a sign-in
\* older than the one stored since.
THEOREM HealthyTellsTheTruth == ASSUME NoCommand PROVE Spec => []HealthyIsSaved
<1>1. SavedInv => HealthyIsSaved BY DEF SavedInv, HealthyInv, HealthyIsSaved, Running
<1> QED BY <1>1, SavedInvariance, PTL

\* The migration removes a file only when its sign-in or a later one is stored.
THEOREM MigrationKeeps == ASSUME NoCommand PROVE Spec => RemovedIsKept
<1> DEFINE Removed == file' = NoCredential /\ file \in Credentials /\ mishaps' = mishaps
           Kept == \/ secret.sign_in = file.sign_in \/ secret.sign_in \in ServiceFlows
                   \/ \E p \in Processes : pc[p] = "remove" /\ found[p] # file
<1>1. SavedInv /\ [Next]_vars => [Removed => Kept]_vars
  <2> SUFFICES ASSUME SavedInv, [Next]_vars, Removed PROVE Kept OBVIOUS
  <2>1. file' # file BY ConstantsAssumption
  <2>2. ~Mishap
    <3>1. mishaps \in Nat BY ConstantsAssumption DEF SavedInv, TypeInv, StoreOK
    <3> QED BY <3>1 DEF Mishap
  <2>3. \A s \in SignIns : ~WriteFile(s)
    BY FreshType, ConstantsAssumption DEF WriteFile
  <2>4. RemoveFile("daemon")
    BY <2>1, <2>2, <2>3
       DEF Next, NoCommand, DaemonSteps, Start, Glance, ReadFile, SaveFound, SyncDirectory, Resume,
           Discover, Restart, ReadStatus, Refresh, Persist, Environment, StoreChanges, WriteBack,
           Revoke, Begin, Flow, Listen, Redirected, StoreEnrolled, Respond, Notify, Report, Release,
           CommandEnds, fileVars, vars
  <2>5. pc["daemon"] = "remove" /\ "daemon" \in Processes BY <2>4, Constants DEF RemoveFile
  <2> QED BY <2>5 DEF SavedInv, MovedInv
<1> QED BY <1>1, SavedInvariance, PTL DEF Spec, RemovedIsKept

\* With neither commands nor browser sign-ins it is the file's own.
THEOREM MigrationSaves == ASSUME Flows = {} PROVE Spec => RemovedIsSaved
<1>1. NoCommand /\ ServiceFlows = {} BY DEF NoCommand, Flows
<1>2. Spec => RemovedIsKept BY <1>1, MigrationKeeps
<1> DEFINE Removed == file' = NoCredential /\ file \in Credentials /\ mishaps' = mishaps
           Replaced == \E p \in Processes : pc[p] = "remove" /\ found[p] # file
<1>3. [Removed => secret.sign_in = file.sign_in \/ secret.sign_in \in ServiceFlows \/ Replaced]_vars
        => [Removed => secret.sign_in = file.sign_in \/ Replaced]_vars
  BY <1>1
<1> QED BY <1>2, <1>3, PTL DEF RemovedIsKept, RemovedIsSaved
=============================================================================
