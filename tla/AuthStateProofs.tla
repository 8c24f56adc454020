-------------------------- MODULE AuthStateProofs --------------------------
(* Theorems about AuthState, for every set of connections, every cap and    *)
(* every set of enrollment snapshots.                                       *)
EXTENDS AuthState, FiniteSetTheorems, TLAPS

-----------------------------------------------------------------------------
(* What the helpers the actions are built from do to the types.             *)

LEMMA StateType == \A h : State(h) \in CredentialState
BY DEF State, CredentialState

LEMMA CloseOK == ASSUME PeersOK, NEW S, Close(S) PROVE PeersOK'
<1>1. phase' \in [Conns -> {"idle", "queued", "served", "watching"}] BY DEF PeersOK, Close
<1>2. inbox' \in [Conns -> Seq(Verbs)] BY DEF PeersOK, Close
<1>3. unread' \in [Conns -> 0..SocketBuffer] BY ConstantsAssumption DEF PeersOK, Close
<1>4. told' \in [Conns -> CredentialState \cup {Nothing}] BY DEF PeersOK, Close
<1>5. gone' \in [Conns -> BOOLEAN] BY DEF PeersOK, Close
<1> QED BY <1>1, <1>2, <1>3, <1>4, <1>5 DEF PeersOK

LEMMA PutOK ==
  ASSUME PeersOK, NEW c \in Conns, Put(c) PROVE unread' \in [Conns -> 0..SocketBuffer]
BY ConstantsAssumption DEF PeersOK, Put

LEMMA ConsumeOK ==
  ASSUME PeersOK, serving \in Conns, inbox[serving] # << >>, Consume
  PROVE  inbox' \in [Conns -> Seq(Verbs)]
BY DEF PeersOK, Consume

LEMMA BacklogOK ==
  ASSUME backlog \in Seq(Conns), backlog # << >>
  PROVE  Head(backlog) \in Conns /\ Tail(backlog) \in Seq(Conns)
OBVIOUS

LEMMA TailDomain ==
  ASSUME NEW S, NEW s \in Seq(S), s # << >>
  PROVE  /\ 1 \in DOMAIN s /\ Head(s) = s[1]
         /\ \A i \in DOMAIN Tail(s) : i \in Nat \ {0} /\ i + 1 \in DOMAIN s /\ Tail(s)[i] = s[i + 1]
<1>1. Len(s) \in Nat \ {0} /\ DOMAIN s = 1..Len(s) OBVIOUS
<1>2. Tail(s) \in Seq(S) /\ Len(Tail(s)) = Len(s) - 1 OBVIOUS
<1>3. DOMAIN Tail(s) = 1..(Len(s) - 1) BY <1>1, <1>2
<1>4. \A i \in 1..(Len(s) - 1) : Tail(s)[i] = s[i + 1] OBVIOUS
<1> QED BY <1>1, <1>3, <1>4

LEMMA LeaveOK ==
  ASSUME TypeOK, NEW r \in {"crashed", "restarted", "adopted"}, Leave(r), UNCHANGED lastLook
  PROVE  TypeOK'
<1>1. PeersOK' BY CloseOK DEF TypeOK, Leave
<1>2. ThreadsOK'
  <2>1. backlog' \in Seq(Conns) BY DEF Leave
  <2>2. serving' \in IF acceptor' = "accept" THEN {NoConn} ELSE Conns BY DEF Leave
  <2>3. lastLook' \in (CredentialState \cup {Nothing}) \X (Snapshots \cup {NoSnapshot})
    BY DEF TypeOK, ThreadsOK
  <2> HIDE DEF CredentialState
  <2> QED BY <2>1, <2>2, <2>3 DEF TypeOK, ThreadsOK, Leave
<1> QED BY <1>1, <1>2 DEF TypeOK

LEMMA DropOK ==
  ASSUME TypeOK, Drop,
         UNCHANGED <<envVars, process, current, restart_requested, samplerVars, backlog>>
  PROVE  TypeOK'
<1>1. PeersOK' BY CloseOK DEF TypeOK, Drop
<1>2. ThreadsOK' BY DEF TypeOK, ThreadsOK, Drop, envVars, samplerVars
<1> QED BY <1>1, <1>2 DEF TypeOK
-----------------------------------------------------------------------------
(* Type correctness.                                                        *)

LEMMA SamplerType == ASSUME TypeOK, Sampler PROVE TypeOK'
<1>1. CASE Sample
  BY <1>1 DEF Sample, Changed, SamplerAt, TypeOK, ThreadsOK, PeersOK, envVars, acceptorVars, peerVars
<1>2. CASE BroadcastLock
  BY <1>2 DEF BroadcastLock, SamplerAt, TypeOK, ThreadsOK, PeersOK, envVars, acceptorVars,
              peerVars, watchers
<1>3. ASSUME NEW c \in Conns, Tell(c) PROVE TypeOK'
  <2>1. ThreadsOK'
    BY <1>3 DEF Tell, SamplerAt, TypeOK, ThreadsOK, envVars, acceptorVars
  <2>2. CASE ~gone[c] /\ Put(c)
    <3>1. unread' \in [Conns -> 0..SocketBuffer] BY <2>2, PutOK DEF TypeOK
    <3>2. told' \in [Conns -> CredentialState \cup {Nothing}]
      <4>1. told' = [told EXCEPT ![c] = State(current)] BY <1>3, <2>2 DEF Tell, TypeOK, PeersOK
      <4> QED BY <4>1, StateType DEF TypeOK, PeersOK
    <3> QED BY <1>3, <2>1, <2>2, <3>1, <3>2 DEF Tell, TypeOK, PeersOK
  <2>3. CASE gone[c] BY <1>3, <2>1, <2>3, CloseOK DEF Tell, TypeOK
  <2> QED BY <1>3, <2>2, <2>3 DEF Tell
<1>4. CASE BroadcastUnlock
  BY <1>4 DEF BroadcastUnlock, SamplerAt, TypeOK, ThreadsOK, PeersOK, envVars, acceptorVars,
              peerVars
<1>5. CASE Cull
  <2>1. PeersOK' BY <1>5, CloseOK DEF Cull, TypeOK
  <2>2. ThreadsOK' BY <1>5 DEF Cull, SamplerAt, TypeOK, ThreadsOK, envVars, acceptorVars
  <2> QED BY <2>1, <2>2 DEF TypeOK
<1>6. CASE RestartRequested BY <1>6, LeaveOK DEF RestartRequested
<1>7. CASE NoRestart
  BY <1>7 DEF NoRestart, SamplerAt, TypeOK, ThreadsOK, PeersOK, envVars, acceptorVars, peerVars
<1>8. CASE Look
  BY <1>8, StateType DEF Look, Believed, SamplerAt, TypeOK, ThreadsOK, PeersOK, envVars, acceptorVars,
              peerVars
<1>9. CASE AdoptEnrollment BY <1>9, LeaveOK DEF AdoptEnrollment
<1> QED BY <1>1, <1>2, <1>3, <1>4, <1>5, <1>6, <1>7, <1>8, <1>9 DEF Sampler

LEMMA AcceptorType == ASSUME TypeOK, Acceptor PROVE TypeOK'
<1>1. CASE Accept
  <2>1. Head(backlog) \in Conns /\ Tail(backlog) \in Seq(Conns)
    BY <1>1, BacklogOK DEF Accept, TypeOK, ThreadsOK
  <2>2. ThreadsOK'
    BY <1>1, <2>1 DEF Accept, AcceptorAt, TypeOK, ThreadsOK, envVars, samplerVars
  <2>3. PeersOK'
    BY <1>1, <2>1, CloseOK DEF Accept, TypeOK, PeersOK
  <2> QED BY <2>2, <2>3 DEF TypeOK
<1>2. CASE Command
  <2>1. inbox' \in [Conns -> Seq(Verbs)]
    BY <1>2, ConsumeOK DEF Command, NextVerb, TypeOK, ThreadsOK
  <2> QED BY <1>2, <2>1 DEF Command, NextVerb, TypeOK, ThreadsOK, PeersOK, envVars, samplerVars
<1>3. CASE EndOfInput BY <1>3, DropOK DEF EndOfInput
<1>4. CASE Reply
  <2>1. CASE ~gone[serving] /\ Put(serving)
    <3>1. unread' \in [Conns -> 0..SocketBuffer]
      BY <1>4, <2>1, PutOK DEF Reply, TypeOK, ThreadsOK
    <3> QED BY <1>4, <2>1, <3>1 DEF Reply, TypeOK, ThreadsOK, PeersOK, envVars, samplerVars
  <2>2. CASE gone[serving] BY <1>4, <2>2, DropOK DEF Reply
  <2> QED BY <1>4, <2>1, <2>2 DEF Reply
<1>5. CASE Watch
  <2>1. CASE Consume
    <3>1. inbox' \in [Conns -> Seq(Verbs)]
      BY <1>5, <2>1, ConsumeOK DEF Watch, NextVerb, TypeOK, ThreadsOK
    <3> QED BY <1>5, <3>1, DropOK
          DEF Watch, NextVerb, TypeOK, ThreadsOK, PeersOK, envVars, samplerVars
  <2>2. CASE Drop BY <1>5, <2>2, DropOK DEF Watch
  <2> QED BY <1>5, <2>1, <2>2 DEF Watch
<1>6. CASE Adopt
  BY <1>6, StateType DEF Adopt, AcceptorAt, TypeOK, ThreadsOK, PeersOK, envVars, samplerVars,
              peerVars
<1>7. CASE Greet
  <2>1. serving \in Conns BY <1>7 DEF Greet, AcceptorAt, TypeOK, ThreadsOK
  <2>2. ThreadsOK' BY <1>7 DEF Greet, AcceptorAt, TypeOK, ThreadsOK, envVars, samplerVars
  <2>3. CASE ~gone[serving] /\ Put(serving)
    <3>1. unread' \in [Conns -> 0..SocketBuffer] BY <2>1, <2>3, PutOK DEF TypeOK
    <3>2. told' \in [Conns -> CredentialState \cup {Nothing}]
      BY <1>7, <2>3 DEF Greet, TypeOK, ThreadsOK, PeersOK, Close
    <3>3. inbox' \in [Conns -> Seq(Verbs)]
      <4>1. inbox' = [inbox EXCEPT ![serving] = << >>] BY <1>7, <2>3 DEF Greet
      <4>2. << >> \in Seq(Verbs) OBVIOUS
      <4> QED BY <4>1, <4>2 DEF TypeOK, PeersOK
    <3> QED BY <1>7, <2>2, <2>3, <3>1, <3>2, <3>3 DEF Greet, TypeOK, PeersOK
  <2>4. CASE gone[serving] BY <1>7, <2>2, <2>4, CloseOK DEF Greet, TypeOK
  <2> QED BY <1>7, <2>3, <2>4 DEF Greet
<1> QED BY <1>1, <1>2, <1>3, <1>4, <1>5, <1>6, <1>7 DEF Acceptor

LEMMA PeerType == ASSUME TypeOK, NEW c \in Conns, Peer(c) PROVE TypeOK'
<1>1. CASE Connect(c)
  <2>1. inbox' \in [Conns -> Seq(Verbs)]
    BY <1>1, ConstantsAssumption DEF Connect, TypeOK, PeersOK
  <2>2. backlog' \in Seq(Conns) BY <1>1 DEF Connect, TypeOK, ThreadsOK
  <2> QED BY <1>1, <2>1, <2>2 DEF Connect, TypeOK, ThreadsOK, PeersOK, envVars, samplerVars,
              acceptorVars
<1>2. CASE ReadLine(c)
  <2>1. unread' \in [Conns -> 0..SocketBuffer]
    BY <1>2, ConstantsAssumption DEF ReadLine, TypeOK, PeersOK
  <2> QED BY <1>2, <2>1 DEF ReadLine, TypeOK, ThreadsOK, PeersOK, envVars, samplerVars,
              acceptorVars
<1>3. CASE HangUp(c)
  BY <1>3 DEF HangUp, TypeOK, ThreadsOK, PeersOK, envVars, samplerVars, acceptorVars
<1> QED BY <1>1, <1>2, <1>3 DEF Peer

LEMMA InitType == ASSUME Init PROVE TypeOK
<1>1. ThreadsOK
  <2>1. backlog \in Seq(Conns) BY DEF Init
  <2>2. SignedIn \in CredentialHealth BY DEF SignedIn, CredentialHealth
  <2> QED BY <2>1, <2>2 DEF Init, ThreadsOK
<1>2. PeersOK BY ConstantsAssumption DEF Init, PeersOK
<1> QED BY <1>1, <1>2 DEF TypeOK

LEMMA TypeStep == ASSUME TypeOK, [Next]_vars PROVE TypeOK'
<1>1. CASE Crash BY <1>1, LeaveOK DEF Crash
<1>2. CASE Start
  BY <1>2 DEF Start, TypeOK, ThreadsOK, PeersOK, acceptorVars, peerVars, SignedIn,
              CredentialHealth
<1>3. CASE CacheChanges
  <2>1. cache' \in CredentialHealth
    BY <1>3 DEF CacheChanges, TypeOK, ThreadsOK, CredentialHealth
  <2> QED BY <1>3, <2>1
        DEF CacheChanges, TypeOK, ThreadsOK, PeersOK, samplerVars, acceptorVars, peerVars
<1>4. CASE FileChanges
  BY <1>4 DEF FileChanges, TypeOK, ThreadsOK, PeersOK, samplerVars, acceptorVars, peerVars
<1>5. CASE UNCHANGED vars
  BY <1>5 DEF vars, TypeOK, ThreadsOK, PeersOK, envVars, samplerVars, acceptorVars, peerVars
<1> QED BY <1>1, <1>2, <1>3, <1>4, <1>5, SamplerType, AcceptorType, PeerType DEF Next

\* Every component of the state keeps its type, and the acceptor always serves
\* a connection when it is not accepting one.
THEOREM TypeCorrect == Spec => []TypeOK
BY InitType, TypeStep, PTL DEF Spec
-----------------------------------------------------------------------------
\* What the two threads know of each other is preserved by every step.
LEMMA ThreadsStep == ASSUME IInv, [Next]_vars PROVE ThreadsInv'
<1> USE ConstantsAssumption DEF IInv, TypeOK, ThreadsOK, PeersOK, Running, watchers, State,
      envVars, samplerVars, acceptorVars, peerVars, ThreadsInv, Exclusive, GreetingOK, DownOK,
      LookOK, RefusalOK, Placed, FeedInv
<1>1. CASE Sample
  BY <1>1 DEF Sample, Changed, SamplerAt
<1>2. CASE BroadcastLock
  BY <1>2 DEF BroadcastLock, SamplerAt, LockFree
<1>3. ASSUME NEW c \in Conns, Tell(c) PROVE ThreadsInv'
  BY <1>3 DEF Tell, SamplerAt, Put, Close
<1>4. CASE BroadcastUnlock
  BY <1>4 DEF BroadcastUnlock, SamplerAt
<1>5. CASE Cull
  BY <1>5 DEF Cull, Dead, SamplerAt, Close, LockFree
<1>6. CASE RestartRequested
  BY <1>6 DEF RestartRequested, Leave, Close
<1>7. CASE NoRestart
  BY <1>7 DEF NoRestart, SamplerAt
<1>8. CASE Look
  BY <1>8 DEF Look, Believed, SamplerAt
<1>9. CASE AdoptEnrollment
  BY <1>9 DEF AdoptEnrollment, Leave, Close
<1>10. CASE Accept
  BY <1>10 DEF Accept, AcceptorAt, Close
<1>11. CASE Command
  BY <1>11 DEF Command, NextVerb, Consume
<1>12. CASE EndOfInput
  BY <1>12 DEF EndOfInput, Drop, Close
<1>13. CASE Reply
  BY <1>13 DEF Reply, Drop, Close, Put
<1>14. CASE Watch
  BY <1>14 DEF Watch, LockFree, NextVerb, Consume, Drop, Close
<1>15. CASE Adopt
  <2>1. greeting' \in CredentialState BY <1>15, StateType DEF Adopt
  <2> QED BY <1>15, <2>1 DEF Adopt, AcceptorAt
<1>16. CASE Greet
  BY <1>16 DEF Greet, AcceptorAt, Close, Put
<1>17. CASE Crash
  BY <1>17 DEF Crash, Leave, Close
<1>18. CASE Start
  BY <1>18 DEF Start, SignedIn
<1>19. CASE CacheChanges
  BY <1>19 DEF CacheChanges
<1>20. CASE FileChanges
  BY <1>20 DEF FileChanges
<1>21. ASSUME NEW c \in Conns, Connect(c) PROVE ThreadsInv'
  BY <1>21 DEF Connect
<1>22. ASSUME NEW c \in Conns, ReadLine(c) PROVE ThreadsInv'
  BY <1>22 DEF ReadLine
<1>23. ASSUME NEW c \in Conns, HangUp(c) PROVE ThreadsInv'
  BY <1>23 DEF HangUp
<1>24. CASE UNCHANGED vars BY <1>24 DEF vars
<1> HIDE DEF IInv, TypeOK, ThreadsOK, PeersOK, Running, watchers, State, envVars, samplerVars,
      acceptorVars, peerVars, ThreadsInv, Exclusive, GreetingOK, DownOK, LookOK, RefusalOK,
      Placed, FeedInv
<1> QED BY <1>1, <1>2, <1>3, <1>4, <1>5, <1>6, <1>7, <1>8, <1>9, <1>10, <1>11, <1>12, <1>13,
      <1>14, <1>15, <1>16, <1>17, <1>18, <1>19, <1>20, <1>21, <1>22, <1>23, <1>24 DEF Next,
      Sampler, Acceptor, Peer

\* So is what the registry has been told.
LEMMA FeedStep == ASSUME IInv, [Next]_vars PROVE FeedInv'
<1> USE ConstantsAssumption DEF IInv, TypeOK, ThreadsOK, PeersOK, Running, watchers, State,
      envVars, samplerVars, acceptorVars, peerVars, FeedInv, ThreadsInv, Exclusive, GreetingOK,
      DownOK, ToldIsCurrent, Owed, Placed, ToTellOK
<1>1. CASE Sample
  BY <1>1 DEF Sample, Changed, SamplerAt
<1>2. CASE BroadcastLock
  BY <1>2 DEF BroadcastLock, SamplerAt, LockFree
<1>3. ASSUME NEW c \in Conns, Tell(c) PROVE FeedInv'
  <2>1. CASE gone[c] /\ Close({c})
    BY <1>3, <2>1 DEF Tell, SamplerAt, Close
  <2>2. CASE ~gone[c] /\ Put(c)
    <3>1. told' = [told EXCEPT ![c] = State(current)] /\ phase' = phase
      BY <1>3, <2>2 DEF Tell
    <3>2. State(current) # Nothing BY StateType DEF CredentialState
    <3> QED BY <1>3, <3>1, <3>2 DEF Tell, SamplerAt
  <2> QED BY <1>3, <2>1, <2>2 DEF Tell
<1>4. CASE BroadcastUnlock
  BY <1>4 DEF BroadcastUnlock, SamplerAt
<1>5. CASE Cull
  BY <1>5 DEF Cull, Dead, SamplerAt, Close, LockFree
<1>6. CASE RestartRequested
  BY <1>6 DEF RestartRequested, Leave, Close
<1>7. CASE NoRestart
  BY <1>7 DEF NoRestart, SamplerAt
<1>8. CASE Look
  BY <1>8 DEF Look, Believed, SamplerAt
<1>9. CASE AdoptEnrollment
  BY <1>9 DEF AdoptEnrollment, Leave, Close
<1>10. CASE Accept
  <2> DEFINE h == Head(backlog)
             t == Tail(backlog)
  <2>1. backlog \in Seq(Conns) /\ backlog # << >> BY <1>10 DEF Accept
  <2>2. /\ 1 \in DOMAIN backlog /\ h = backlog[1]
        /\ \A i \in DOMAIN t : i \in Nat \ {0} /\ i + 1 \in DOMAIN backlog /\ t[i] = backlog[i + 1]
    BY <2>1, TailDomain
  <2>3. h \in Conns /\ phase[h] = "queued" BY <2>1, <2>2, BacklogOK
  <2> HIDE DEF t, h
  <2>4. \A i \in DOMAIN t : phase[t[i]] = "queued" /\ t[i] # h
    <3> SUFFICES ASSUME NEW i \in DOMAIN t PROVE phase[t[i]] = "queued" /\ t[i] # h OBVIOUS
    <3>1. i + 1 \in DOMAIN backlog /\ t[i] = backlog[i + 1] /\ i + 1 # 1 BY <2>2
    <3> QED BY <2>2, <3>1
  <2>5. \A i, j \in DOMAIN t : i # j => t[i] # t[j]
    <3> SUFFICES ASSUME NEW i \in DOMAIN t, NEW j \in DOMAIN t, i # j PROVE t[i] # t[j] OBVIOUS
    <3>1. i + 1 \in DOMAIN backlog /\ j + 1 \in DOMAIN backlog /\ i + 1 # j + 1 BY <2>2
    <3> QED BY <2>2, <3>1
  <2>6. backlog' = t /\ sampler' = sampler /\ toTell' = toTell /\ current' = current
    BY <1>10 DEF Accept, t
  <2>7. t \in Seq(Conns) BY <2>1, BacklogOK DEF t
  <2>8. \A i \in DOMAIN t : t[i] \in Conns BY <2>7
  <2>9. CASE serving' = h /\ phase' = [phase EXCEPT ![h] = "served"] /\ told' = told
    BY <2>3, <2>4, <2>5, <2>6, <2>8, <2>9
  <2>10. CASE Close({h}) /\ acceptor' = "accept"
    <3>1. \A c \in Conns : c # h => phase'[c] = phase[c] /\ told'[c] = told[c] BY <2>10 DEF Close
    <3>2. phase'[h] = "idle" /\ told'[h] = Nothing BY <2>3, <2>10 DEF Close
    <3>3. h \notin watchers BY <2>3
    <3>4. Placed'
      <4>1. \A i \in DOMAIN backlog' : phase'[backlog'[i]] = "queued" BY <2>4, <2>6, <2>8, <3>1
      <4>2. \A i, j \in DOMAIN backlog' : i # j => backlog'[i] # backlog'[j] BY <2>5, <2>6
      <4>3. \A c \in Conns : told'[c] = Nothing <=> phase'[c] # "watching"
        <5> SUFFICES ASSUME NEW c \in Conns
                     PROVE  told'[c] = Nothing <=> phase'[c] # "watching"  OBVIOUS
        <5>1. CASE c = h BY <3>2, <5>1
        <5>2. CASE c # h BY <3>1, <5>2
        <5> QED BY <5>1, <5>2
      <4> QED BY <2>10, <4>1, <4>2, <4>3
    <3>5. ToldIsCurrent'
      <4> SUFFICES ASSUME NEW c \in Conns, phase'[c] = "watching", c \notin Owed'
                   PROVE  told'[c] = State(current')  OBVIOUS
      <4>1. c # h BY <3>2
      <4>2. phase[c] = "watching" /\ told'[c] = told[c] BY <3>1, <4>1
      <4>3. c \notin Owed BY <2>6, <4>2
      <4> QED BY <2>6, <4>2, <4>3
    <3>6. ToTellOK' BY <2>6, <3>1, <3>3
    <3> QED BY <3>4, <3>5, <3>6
  <2> QED BY <1>10, <2>9, <2>10 DEF Accept, AcceptorAt, h
<1>11. CASE Command
  BY <1>11 DEF Command, NextVerb, Consume
<1>12. CASE EndOfInput
  BY <1>12 DEF EndOfInput, Drop, Close
<1>13. CASE Reply
  <2>1. CASE Drop BY <1>13, <2>1 DEF Reply, Drop, Close
  <2>2. CASE ~gone[serving] /\ Put(serving) BY <1>13, <2>2 DEF Reply
  <2> QED BY <1>13, <2>1, <2>2 DEF Reply
<1>14. CASE Watch
  <2>1. CASE Drop BY <1>14, <2>1 DEF Watch, NextVerb, Drop, Close
  <2>2. CASE Consume /\ acceptor' = "adopt" /\ UNCHANGED <<serving, phase, told>>
    <3>1. serving \in Conns /\ phase[serving] = "served" BY <1>14 DEF Watch, NextVerb
    <3>2. /\ backlog' = backlog /\ sampler' = sampler /\ toTell' = toTell /\ current' = current
          /\ serving' = serving /\ phase' = phase /\ told' = told
      BY <1>14, <2>2 DEF Watch
    <3> QED BY <3>1, <3>2
  <2> QED BY <1>14, <2>1, <2>2 DEF Watch
<1>15. CASE Adopt
  BY <1>15 DEF Adopt, AcceptorAt
<1>16. CASE Greet
  <2>1. serving \in Conns /\ phase[serving] = "served" BY <1>16 DEF Greet, AcceptorAt
  <2>2. CASE gone[serving] /\ Close({serving})
    BY <1>16, <2>1, <2>2 DEF Greet, AcceptorAt, Close
  <2>3. CASE ~gone[serving] /\ Put(serving)
    <3>1. told' = [told EXCEPT ![serving] = greeting]
          /\ phase' = [phase EXCEPT ![serving] = "watching"]
      BY <1>16, <2>3 DEF Greet
    <3>2. greeting # Nothing BY <1>16 DEF Greet, AcceptorAt, CredentialState
    <3> QED BY <1>16, <2>1, <3>1, <3>2 DEF Greet, AcceptorAt
  <2> QED BY <1>16, <2>2, <2>3 DEF Greet
<1>17. CASE Crash
  BY <1>17 DEF Crash, Leave, Close
<1>18. CASE Start
  BY <1>18 DEF Start, SignedIn
<1>19. CASE CacheChanges
  BY <1>19 DEF CacheChanges
<1>20. CASE FileChanges
  BY <1>20 DEF FileChanges
<1>21. ASSUME NEW c \in Conns, Connect(c) PROVE FeedInv'
  <2>1. backlog' = Append(backlog, c) /\ phase[c] = "idle"
        /\ phase' = [phase EXCEPT ![c] = "queued"]
    BY <1>21 DEF Connect
  <2>2. \A i \in DOMAIN backlog' : backlog'[i] = IF i \in DOMAIN backlog THEN backlog[i] ELSE c
    BY <2>1
  <2>3. /\ told' = told /\ current' = current /\ sampler' = sampler /\ toTell' = toTell
        /\ acceptor' = acceptor /\ serving' = serving
    BY <1>21 DEF Connect
  <2>4. \A d \in Conns : phase'[d] = IF d = c THEN "queued" ELSE phase[d] BY <2>1
  <2>5. watchers' = watchers BY <2>1, <2>4
  <2>6. ToldIsCurrent' BY <2>3, <2>5
  <2>7. ToTellOK' BY <2>3, <2>5
  <2>8. Placed'
    <3>1. acceptor' # "accept" => phase'[serving'] = "served" BY <2>1, <2>3, <2>4
    <3>2. \A i \in DOMAIN backlog' : phase'[backlog'[i]] = "queued" BY <2>1, <2>2, <2>4
    <3>3. \A i \in DOMAIN backlog : backlog[i] # c BY <2>1
    <3>4. DOMAIN backlog' = DOMAIN backlog \cup {Len(backlog) + 1} /\ DOMAIN backlog = 1..Len(backlog)
      BY <2>1
    <3>5. \A i, j \in DOMAIN backlog' : i # j => backlog'[i] # backlog'[j] BY <2>2, <3>3, <3>4
    <3>6. \A d \in Conns : told'[d] = Nothing <=> phase'[d] # "watching" BY <2>1, <2>3, <2>4
    <3> QED BY <3>1, <3>2, <3>5, <3>6
  <2> QED BY <2>6, <2>7, <2>8
<1>22. ASSUME NEW c \in Conns, ReadLine(c) PROVE FeedInv'
  BY <1>22 DEF ReadLine
<1>23. ASSUME NEW c \in Conns, HangUp(c) PROVE FeedInv'
  BY <1>23 DEF HangUp
<1>24. CASE UNCHANGED vars BY <1>24 DEF vars
<1> HIDE DEF IInv, TypeOK, ThreadsOK, PeersOK, Running, watchers, State, envVars, samplerVars,
      acceptorVars, peerVars, FeedInv, ThreadsInv, Exclusive, GreetingOK, DownOK, ToldIsCurrent,
      Owed, Placed, ToTellOK
<1> QED BY <1>1, <1>2, <1>3, <1>4, <1>5, <1>6, <1>7, <1>8, <1>9, <1>10, <1>11, <1>12, <1>13,
      <1>14, <1>15, <1>16, <1>17, <1>18, <1>19, <1>20, <1>21, <1>22, <1>23, <1>24 DEF Next,
      Sampler, Acceptor, Peer
-----------------------------------------------------------------------------
(* The size of the registry.  Only the connection the acceptor is greeting  *)
(* joins it, and the acceptor begins to greet only when it found room; the  *)
(* sampler, which may run in between, only removes.                         *)

LEMMA RegistryFinite == IsFiniteSet(watchers) /\ Cardinality(watchers) \in Nat
<1>1. watchers \subseteq Conns BY DEF watchers
<1> QED BY <1>1, ConstantsAssumption, FS_Subset, FS_CardinalityType

LEMMA Closed == ASSUME NEW S, Close(S) PROVE watchers' \subseteq watchers
BY DEF Close, watchers

LEMMA RegistryStep ==
  ASSUME IInv, [Next]_vars
  PROVE  /\ \/ watchers' \subseteq watchers
            \/ /\ acceptor = "greet" /\ acceptor' = "accept"
               /\ watchers' \subseteq watchers \cup {serving}
         /\ acceptor' \in {"adopt", "greet"}
              => acceptor \in {"adopt", "greet"} \/ Cardinality(watchers) < MaxWatchers
<1> DEFINE Shrinks == watchers' \subseteq watchers
           Joins == /\ acceptor = "greet" /\ acceptor' = "accept"
                    /\ watchers' \subseteq watchers \cup {serving}
           Room == acceptor' \in {"adopt", "greet"}
                     => acceptor \in {"adopt", "greet"} \/ Cardinality(watchers) < MaxWatchers
<1>1. phase \in [Conns -> {"idle", "queued", "served", "watching"}]
  BY DEF IInv, TypeOK, PeersOK
<1>2. ASSUME phase' = phase, acceptor' = acceptor PROVE Shrinks /\ Room BY <1>2 DEF watchers
<1>3. CASE Sampler \/ CacheChanges \/ FileChanges \/ Start \/ Crash \/ UNCHANGED vars
  <2>1. ASSUME NEW r, Leave(r) PROVE Shrinks /\ Room BY <2>1, Closed DEF Leave
  <2>2. CASE Sampler
    <3>1. ASSUME NEW c \in Conns, Tell(c) PROVE Shrinks /\ Room
      <4>1. Shrinks BY <3>1, Closed DEF Tell, watchers
      <4> QED BY <3>1, <4>1 DEF Tell, acceptorVars
    <3>2. CASE Cull BY <3>2, Closed DEF Cull, acceptorVars
    <3>3. CASE RestartRequested BY <3>3, <2>1 DEF RestartRequested
    <3>4. CASE AdoptEnrollment BY <3>4, <2>1 DEF AdoptEnrollment
    <3>5. CASE Sample \/ BroadcastLock \/ BroadcastUnlock \/ NoRestart \/ Look
      BY <3>5, <1>2 DEF Sample, BroadcastLock, BroadcastUnlock, NoRestart, Look, acceptorVars,
                        peerVars
    <3> QED BY <2>2, <3>1, <3>2, <3>3, <3>4, <3>5 DEF Sampler
  <2>3. CASE CacheChanges \/ FileChanges \/ Start \/ UNCHANGED vars
    BY <2>3, <1>2 DEF CacheChanges, FileChanges, Start, vars, acceptorVars, peerVars
  <2> QED BY <1>3, <2>1, <2>2, <2>3 DEF Crash
<1>4. CASE Accept
  <2>1. CASE acceptor' = "read" /\ phase' = [phase EXCEPT ![Head(backlog)] = "served"]
    BY <1>1, <2>1 DEF watchers
  <2>2. CASE acceptor' = "accept" /\ Close({Head(backlog)}) BY <2>2, Closed
  <2> QED BY <1>4, <2>1, <2>2 DEF Accept, AcceptorAt
<1>5. CASE Command BY <1>5 DEF Command, watchers
<1>6. ASSUME Drop PROVE Shrinks /\ Room BY <1>6, Closed DEF Drop
<1>7. CASE Reply
  <2>1. CASE phase' = phase /\ acceptor' = "read" BY <2>1 DEF watchers
  <2> QED BY <1>6, <1>7, <2>1 DEF Reply
<1>8. CASE Watch
  <2>1. CASE phase' = phase /\ ~Full
    <3>1. Cardinality(watchers) < MaxWatchers
      BY <2>1, RegistryFinite, ConstantsAssumption DEF Full
    <3> QED BY <2>1, <3>1 DEF watchers
  <2> QED BY <1>6, <1>8, <2>1 DEF Watch
<1>9. CASE Adopt BY <1>9 DEF Adopt, AcceptorAt, peerVars, watchers
<1>10. CASE Greet
  <2>1. CASE phase' = [phase EXCEPT ![serving] = "watching"]
    BY <1>1, <1>10, <2>1 DEF Greet, AcceptorAt, watchers
  <2>2. CASE Close({serving}) BY <1>10, <2>2, Closed DEF Greet, AcceptorAt
  <2> QED BY <1>10, <2>1, <2>2 DEF Greet
<1>11. ASSUME NEW c \in Conns, Peer(c) PROVE Shrinks /\ Room
  <2>1. CASE Connect(c) BY <1>1, <2>1 DEF Connect, acceptorVars, watchers
  <2>2. CASE ReadLine(c) \/ HangUp(c) BY <1>2, <2>2 DEF ReadLine, HangUp, acceptorVars
  <2> QED BY <1>11, <2>1, <2>2 DEF Peer
<1> QED BY <1>3, <1>4, <1>5, <1>6, <1>7, <1>8, <1>9, <1>10, <1>11
        DEF Next, Acceptor, EndOfInput

LEMMA RoomStep == ASSUME IInv, [Next]_vars PROVE RoomInv'
<1>1. IsFiniteSet(watchers) /\ Cardinality(watchers) \in Nat BY RegistryFinite
<1>2. MaxWatchers \in Nat BY ConstantsAssumption
<1>3. Cardinality(watchers) <= MaxWatchers
      /\ (acceptor \in {"adopt", "greet"} => Cardinality(watchers) < MaxWatchers)
  BY DEF IInv, RoomInv, WatchersBounded, RoomOK
<1>4. CASE watchers' \subseteq watchers
  <2>1. Cardinality(watchers') \in Nat /\ Cardinality(watchers') <= Cardinality(watchers)
    BY <1>1, <1>4, FS_Subset, FS_CardinalityType
  <2>2. WatchersBounded' BY <1>1, <1>2, <1>3, <2>1 DEF WatchersBounded
  <2>3. RoomOK' BY <1>1, <1>2, <1>3, <2>1, RegistryStep DEF RoomOK
  <2> QED BY <2>2, <2>3 DEF RoomInv
<1>5. CASE acceptor = "greet" /\ acceptor' = "accept" /\ watchers' \subseteq watchers \cup {serving}
  <2> DEFINE W == watchers \cup {serving}
  <2>1. IsFiniteSet(W)
        /\ Cardinality(W) = IF serving \in watchers THEN Cardinality(watchers)
                            ELSE Cardinality(watchers) + 1
    BY <1>1, FS_AddElement
  <2>2. Cardinality(watchers') \in Nat /\ Cardinality(watchers') <= Cardinality(W)
    BY <1>5, <2>1, FS_Subset, FS_CardinalityType
  <2>3. Cardinality(watchers') <= MaxWatchers BY <1>1, <1>2, <1>3, <1>5, <2>1, <2>2
  <2> QED BY <1>5, <2>3 DEF RoomInv, WatchersBounded, RoomOK
<1> QED BY <1>4, <1>5, RegistryStep
-----------------------------------------------------------------------------
LEMMA InitInv == ASSUME Init PROVE IInv
<1>1. watchers = {} BY DEF Init, watchers
<1>2. ThreadsInv
  BY DEF Init, ThreadsInv, Exclusive, GreetingOK, DownOK, LookOK, RefusalOK, Running, SignedIn
<1>3. Placed BY ConstantsAssumption DEF Init, Placed
<1>4. FeedInv BY <1>1, <1>3 DEF Init, FeedInv, ToldIsCurrent, ToTellOK
<1>5. RoomInv
  <2>1. Cardinality(watchers) = 0 BY <1>1, FS_EmptySet
  <2> QED BY <2>1, ConstantsAssumption DEF Init, RoomInv, WatchersBounded, RoomOK
<1> QED BY <1>2, <1>4, <1>5, InitType DEF IInv

\* The invariant is inductive: it holds whatever the threads, the peers, the
\* token cache and the supervisor do.
THEOREM Invariance == Spec => []IInv
<1>1. IInv /\ [Next]_vars => IInv'
  BY TypeStep, ThreadsStep, FeedStep, RoomStep DEF IInv
<1> QED BY <1>1, InitInv, PTL DEF Spec

\* A watcher that no broadcast will still reach was last told the state the
\* daemon asserts: no interleaving of serve()'s unlocked write of `current`
\* with the locked admission of a watcher loses an update.
THEOREM NoLostUpdate == Spec => []ToldIsCurrent
<1>1. IInv => ToldIsCurrent BY DEF IInv, FeedInv
<1> QED BY <1>1, Invariance, PTL

\* The registry never outgrows MAX_WATCHERS.
THEOREM RegistryBounded == Spec => []WatchersBounded
<1>1. IInv => WatchersBounded BY DEF IInv, RoomInv
<1> QED BY <1>1, Invariance, PTL

\* The sampler adopts an enrollment file only when the daemon is really refused
\* and only after two looks that found the same file while it was refused.
THEOREM AdoptsOnlySettled == Spec => SettledAdoption
<1> DEFINE A == Running /\ process' = "adopted"
                  => /\ ~cache.signed_in
                     /\ file \in Snapshots
                     /\ lastLook = <<"rejected", file>>
<1>1. ASSUME IInv, [Next]_vars, Running, process' = "adopted" PROVE A
  <2>1. AdoptEnrollment
    <3>1. process = "running" BY <1>1 DEF Running
    <3>2. CASE RestartRequested BY <1>1, <3>2 DEF RestartRequested, Leave
    <3>3. CASE Crash BY <1>1, <3>3 DEF Crash, Leave
    <3>4. ASSUME process' = process PROVE FALSE BY <1>1, <3>1, <3>4
    <3>5. CASE Start BY <3>5, <1>1 DEF Start
    <3>6. CASE Acceptor
      BY <3>4, <3>6 DEF Acceptor, Accept, Command, EndOfInput, Reply, Watch, Adopt, Greet
    <3>7. CASE \E c \in Conns : Peer(c) BY <3>4, <3>7 DEF Peer, Connect, ReadLine, HangUp
    <3>8. CASE CacheChanges \/ FileChanges \/ UNCHANGED vars
      BY <3>4, <3>8 DEF CacheChanges, FileChanges, vars
    <3>9. CASE Sampler
      BY <3>2, <3>4, <3>9 DEF Sampler, Sample, BroadcastLock, Tell, BroadcastUnlock, Cull,
                              NoRestart, Look
    <3> QED BY <1>1, <3>3, <3>5, <3>6, <3>7, <3>8, <3>9 DEF Next
  <2>2. State(current) = "rejected" /\ file # NoSnapshot /\ pending = file
    BY <2>1 DEF AdoptEnrollment, Settled
  <2>3. ~current.signed_in BY <2>2 DEF State
  <2>4. ~cache.signed_in BY <1>1, <2>3 DEF IInv, ThreadsInv, RefusalOK
  <2>5. file \in Snapshots BY <1>1, <2>2 DEF IInv, TypeOK, ThreadsOK
  <2>6. lastLook = <<"rejected", file>> BY <1>1, <2>2 DEF IInv, ThreadsInv, LookOK
  <2> QED BY <2>4, <2>5, <2>6
<1>2. IInv /\ [Next]_vars => [A]_vars BY <1>1
<1> QED BY <1>2, Invariance, PTL DEF Spec, SettledAdoption
-----------------------------------------------------------------------------
(* The publisher implements the feed.                                       *)

LEMMA FeedWatchers == ASSUME IInv PROVE Feed!Watchers = watchers
BY DEF IInv, FeedInv, Placed, Feed!Watchers, watchers

\* Closing connections that are no watchers is no step of the feed.
LEMMA Unheard ==
  ASSUME IInv, NEW S, Close(S), S \cap watchers = {}
  PROVE  told' = told /\ watchers' = watchers
<1>1. \A c \in Conns : c \in S => told[c] = Nothing
  BY DEF IInv, FeedInv, Placed, watchers
<1>2. told \in [Conns -> CredentialState \cup {Nothing}] BY DEF IInv, TypeOK, PeersOK
<1>3. told' = [c \in Conns |-> IF c \in S THEN Nothing ELSE told[c]] BY DEF Close
<1>4. told' = told BY <1>1, <1>2, <1>3
<1>5. watchers' = watchers BY DEF Close, watchers
<1> QED BY <1>4, <1>5

\* A step that leaves the published state, the sampler and the registry alone
\* is no step of the feed either.
LEMMA Stutter ==
  ASSUME current' = current, sampler' = sampler, toTell' = toTell, told' = told,
         watchers' = watchers
  PROVE  UNCHANGED Feed!feed
BY DEF Feed!feed, Owed, State

LEMMA LeaveIsRestart ==
  ASSUME IInv, NEW r, Leave(r) PROVE Feed!Restart
<1>1. told' = [c \in Conns |-> Nothing] BY DEF Leave, Close
<1>2. Owed' = {} BY DEF Leave, Owed
<1>3. State(current') \in CredentialState BY StateType
<1> QED BY <1>1, <1>2, <1>3 DEF Feed!Restart

LEMMA SamplerFeed == ASSUME IInv, Sampler PROVE [Feed!Next]_Feed!feed
<1>1. CASE Sample
  <2>1. Owed = {} /\ told' = told /\ watchers' = watchers
    BY <1>1 DEF Sample, Changed, SamplerAt, Owed, peerVars, watchers
  <2>2. CASE State(cache) # State(current)
    <3>1. Owed' = Feed!Watchers
      BY <1>1, <2>1, <2>2, FeedWatchers DEF Sample, Changed, SamplerAt, Owed
    <3>2. Feed!Change(State(cache)) BY <1>1, <2>1, <3>1 DEF Sample, Feed!Change
    <3> QED BY <3>2, StateType DEF Feed!Next
  <2>3. CASE State(cache) = State(current)
    <3>1. Owed' = {} BY <1>1, <2>3 DEF Sample, Changed, SamplerAt, Owed
    <3> QED BY <1>1, <2>1, <2>3, <3>1 DEF Sample, Feed!feed
  <2> QED BY <2>2, <2>3
<1>2. CASE BroadcastLock
  <2>1. Owed' = Owed /\ told' = told /\ current' = current
    BY <1>2 DEF BroadcastLock, SamplerAt, Owed, peerVars, watchers
  <2> QED BY <2>1 DEF Feed!feed
<1>3. ASSUME NEW c \in Conns, Tell(c) PROVE Feed!Next
  <2>1. c \in Owed /\ Owed' = Owed \ {c} /\ current' = current
    BY <1>3 DEF Tell, SamplerAt, Owed
  <2>2. CASE told' = [told EXCEPT ![c] = State(current)]
    <3>1. Feed!Deliver(c) BY <2>1, <2>2 DEF Feed!Deliver
    <3> QED BY <3>1 DEF Feed!Next
  <2>3. CASE Close({c})
    <3>1. c \in watchers BY <1>3 DEF IInv, FeedInv, ToTellOK, Tell
    <3>2. {c} \in SUBSET Feed!Watchers BY <3>1, FeedWatchers
    <3>3. Feed!Forget({c}) BY <2>1, <2>3 DEF Feed!Forget, Close
    <3> QED BY <3>2, <3>3 DEF Feed!Next
  <2> QED BY <1>3, <2>2, <2>3 DEF Tell
<1>4. CASE BroadcastUnlock
  <2>1. Owed' = Owed /\ told' = told /\ current' = current
    BY <1>4 DEF BroadcastUnlock, SamplerAt, Owed, peerVars
  <2> QED BY <2>1 DEF Feed!feed
<1>5. CASE Cull
  <2> DEFINE G == {c \in watchers : gone[c]}
  <2>1. Owed = {} /\ Owed' = {} /\ current' = current BY <1>5 DEF Cull, SamplerAt, Owed
  <2>2. told' = [c \in Conns |-> IF c \in G THEN Nothing ELSE told[c]] BY <1>5 DEF Cull, Dead, Close
  <2>3. G \in SUBSET Feed!Watchers BY FeedWatchers
  <2> HIDE DEF G
  <2>4. Feed!Forget(G) BY <2>1, <2>2 DEF Feed!Forget
  <2> QED BY <2>3, <2>4 DEF Feed!Next
<1>6. CASE RestartRequested BY <1>6, LeaveIsRestart DEF RestartRequested, Feed!Next
<1>7. CASE NoRestart
  <2>1. Owed' = Owed /\ told' = told /\ current' = current
    BY <1>7 DEF NoRestart, SamplerAt, Owed, peerVars
  <2> QED BY <2>1 DEF Feed!feed
<1>8. CASE Look
  <2>1. Owed' = Owed /\ told' = told /\ current' = current
    BY <1>8 DEF Look, Believed, SamplerAt, Owed, peerVars
  <2> QED BY <2>1 DEF Feed!feed
<1>9. CASE AdoptEnrollment BY <1>9, LeaveIsRestart DEF AdoptEnrollment, Feed!Next
<1> QED BY <1>1, <1>2, <1>3, <1>4, <1>5, <1>6, <1>7, <1>8, <1>9 DEF Sampler, Feed!Next

LEMMA AcceptorFeed == ASSUME IInv, Acceptor PROVE [Feed!Next]_Feed!feed
<1>1. current' = current /\ sampler' = sampler /\ toTell' = toTell
  BY DEF Acceptor, Accept, Command, EndOfInput, Reply, Watch, Adopt, Greet, samplerVars
<1>2. phase \in [Conns -> {"idle", "queued", "served", "watching"}]
      /\ told \in [Conns -> CredentialState \cup {Nothing}]
  BY DEF IInv, TypeOK, PeersOK
<1>3. CASE Accept
  <2> DEFINE h == Head(backlog)
  <2>1. backlog \in Seq(Conns) /\ backlog # << >> BY <1>3 DEF Accept, IInv, TypeOK, ThreadsOK
  <2>2. h \in Conns /\ h = backlog[1] /\ 1 \in DOMAIN backlog BY <2>1, BacklogOK, TailDomain
  <2>3. phase[h] = "queued" BY <2>2 DEF IInv, FeedInv, Placed
  <2> HIDE DEF h
  <2>4. CASE phase' = [phase EXCEPT ![h] = "served"] /\ told' = told
    <3>1. watchers' = watchers BY <1>2, <2>2, <2>3, <2>4 DEF watchers
    <3> QED BY <1>1, <2>4, <3>1, Stutter
  <2>5. CASE Close({h})
    <3>1. {h} \cap watchers = {} BY <2>3 DEF watchers
    <3> QED BY <1>1, <2>5, <3>1, Unheard, Stutter
  <2> QED BY <1>3, <2>4, <2>5 DEF Accept, h
<1>4. ASSUME told' = told, phase' = phase PROVE UNCHANGED Feed!feed
  BY <1>1, <1>4, Stutter DEF watchers
<1>5. ASSUME acceptor # "accept", Close({serving}) PROVE UNCHANGED Feed!feed
  <2>1. {serving} \cap watchers = {} BY <1>5 DEF IInv, FeedInv, Placed, watchers
  <2> QED BY <1>1, <1>5, <2>1, Unheard, Stutter
<1>6. CASE Command \/ Adopt BY <1>4, <1>6 DEF Command, Adopt, peerVars
<1>7. CASE EndOfInput BY <1>5, <1>7 DEF EndOfInput, Drop
<1>8. CASE Reply BY <1>4, <1>5, <1>8 DEF Reply, Drop
<1>9. CASE Watch BY <1>4, <1>5, <1>9 DEF Watch, NextVerb, Drop
<1>10. CASE Greet
  <2>1. acceptor = "greet" /\ serving \in Conns /\ phase[serving] = "served"
    BY <1>10 DEF Greet, AcceptorAt, IInv, TypeOK, ThreadsOK, FeedInv, Placed
  <2>2. CASE Close({serving}) BY <1>5, <2>1, <2>2
  <2>3. CASE told' = [told EXCEPT ![serving] = greeting]
             /\ phase' = [phase EXCEPT ![serving] = "watching"]
    <3>1. told[serving] = Nothing BY <2>1 DEF IInv, FeedInv, Placed
    <3>2. watchers' = watchers \cup {serving} BY <1>2, <2>1, <2>3 DEF watchers
    <3>3. sampler # "telling" BY <2>1 DEF IInv, ThreadsInv, Exclusive
    <3>4. Owed' = IF sampler = "broadcast" THEN Owed \cup {serving} ELSE Owed
      BY <1>1, <3>2, <3>3 DEF Owed
    <3>5. greeting \in CredentialState /\ (greeting # State(current) => sampler = "broadcast")
      BY <2>1 DEF IInv, ThreadsInv, GreetingOK
    <3>6. Feed!Join(serving, greeting) BY <1>1, <2>3, <3>1, <3>4, <3>5 DEF Feed!Join
    <3> QED BY <2>1, <3>5, <3>6 DEF Feed!Next
  <2> QED BY <1>10, <2>2, <2>3 DEF Greet
<1> QED BY <1>3, <1>6, <1>7, <1>8, <1>9, <1>10 DEF Acceptor

LEMMA OthersFeed ==
  ASSUME IInv, Crash \/ Start \/ CacheChanges \/ FileChanges \/ UNCHANGED vars
  PROVE  [Feed!Next]_Feed!feed
<1>1. CASE Crash BY <1>1, LeaveIsRestart DEF Crash, Feed!Next
<1>2. CASE Start
  <2>1. sampler' = "sample" /\ told' = told
    BY <1>2 DEF Start, IInv, ThreadsInv, DownOK, Running, peerVars
  <2>2. \A c \in Conns : told[c] = Nothing
    BY <1>2 DEF Start, IInv, ThreadsInv, DownOK, FeedInv, Placed
  <2>3. told \in [Conns -> CredentialState \cup {Nothing}] BY DEF IInv, TypeOK, PeersOK
  <2>4. told' = [c \in Conns |-> Nothing] BY <2>1, <2>2, <2>3
  <2>5. Owed' = {} BY <2>1 DEF Owed
  <2> QED BY <2>4, <2>5, StateType DEF Feed!Restart, Feed!Next
<1>3. CASE CacheChanges \/ FileChanges \/ UNCHANGED vars
  BY <1>3, Stutter DEF CacheChanges, FileChanges, vars, samplerVars, peerVars, watchers
<1> QED BY <1>1, <1>2, <1>3

LEMMA PeerFeed == ASSUME IInv, NEW c \in Conns, Peer(c) PROVE UNCHANGED Feed!feed
<1>1. phase \in [Conns -> {"idle", "queued", "served", "watching"}]
  BY DEF IInv, TypeOK, PeersOK
<1>2. watchers' = watchers BY <1>1 DEF Peer, Connect, ReadLine, HangUp, watchers
<1> QED BY <1>2, Stutter DEF Peer, Connect, ReadLine, HangUp, samplerVars

\* Every behaviour of the two threads, the peers, the token cache and the
\* supervisor is one the feed allows: joining, being told, being forgotten and
\* being let go are all a watcher can observe, and an unowed watcher is current.
THEOREM ImplementsFeed == Spec => Feed!Safety
<1>1. Init => Feed!Init
  <2> SUFFICES ASSUME Init PROVE Feed!Init OBVIOUS
  <2>1. State(current) \in CredentialState BY StateType
  <2>2. Owed = {} BY DEF Init, Owed
  <2> QED BY <2>1, <2>2 DEF Init, Feed!Init
<1>2. IInv /\ [Next]_vars => [Feed!Next]_Feed!feed
  BY SamplerFeed, AcceptorFeed, OthersFeed, PeerFeed DEF Next
<1> QED BY <1>1, <1>2, Invariance, PTL DEF Spec, Feed!Safety
=============================================================================
