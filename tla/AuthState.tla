----------------------------- MODULE AuthState -----------------------------
(***************************************************************************)
(* The daemon's sign-in state publisher: auth_state.rs.                    *)
(*                                                                         *)
(* Two threads share the credential conclusion (`current`), the registry   *)
(* of watch connections (`watchers`, a mutex of its own) and the flag      *)
(* `restart_requested`.  The sampler copies the token cache into `current` *)
(* once a second, broadcasts a changed conclusion, culls dead peers, obeys *)
(* a restart request and looks at the enrollment file.  The acceptor       *)
(* serves one connection at a time.  A watch connection joins the registry *)
(* under the watchers lock; `current` is written WITHOUT that lock.        *)
(***************************************************************************)
EXTENDS Naturals, FiniteSets, Sequences

CONSTANTS
  Conns,        \* connection slots the peers of the socket use
  MaxWatchers,  \* MAX_WATCHERS
  ErrorKinds,   \* io::ErrorKind values a failed store can report
  NoError,      \* store_error = None
  Snapshots,    \* (length, mtime) pairs of an enrollment file
  NoSnapshot,   \* no file, or one that is not private, regular and non-empty
  Requests,     \* what a peer writes on a connection, a sequence of verbs
  SocketBuffer, \* lines a peer may leave unread before a write to it blocks
  NoConn, Nothing

Verbs == {"watch", "status", "enrollment-complete", "", "other"}

ASSUME ConstantsAssumption ==
  /\ IsFiniteSet(Conns) /\ NoConn \notin Conns
  /\ MaxWatchers \in Nat
  /\ NoError \notin ErrorKinds
  /\ NoSnapshot \notin Snapshots
  /\ Requests \subseteq Seq(Verbs)
  /\ SocketBuffer \in Nat \ {0}
  /\ Nothing \notin {"healthy", "unsaved", "rejected"}

CredentialState == {"healthy", "unsaved", "rejected"}
CredentialHealth == [signed_in : BOOLEAN, store_error : ErrorKinds \cup {NoError}]

\* CredentialHealth::state: rejection outranks a failed store.
State(h) == IF ~h.signed_in THEN "rejected"
            ELSE IF h.store_error # NoError THEN "unsaved" ELSE "healthy"

SignedIn == [signed_in |-> TRUE, store_error |-> NoError]

VARIABLES
  cache,      \* what the token cache's accessors answer
  file,       \* what enrollment_snapshot sees of <state-dir>/refresh-token
  process,    \* "running", or why the daemon last left
  current,    \* the published health; the sampler's `health` equals it
  restart_requested,
  sampler,    \* where the sampler thread is
  toTell,     \* watchers the broadcast has still to write to
  pending,    \* the snapshot the last look at the file found, if rejected
  acceptor,   \* where the acceptor thread is
  serving,    \* the connection it serves
  greeting,   \* the state it read for a new watcher and has not yet written
  backlog,    \* connections not yet accepted
  phase,      \* of a connection: the registry is those "watching"
  inbox,      \* what the peer wrote and the acceptor has not read
  unread,     \* lines written to the peer that it has not read
  told,       \* the last credential line written to it as a watcher
  gone,       \* the peer has hung up
  lastLook    \* history: state and snapshot at the previous enrollment look

envVars  == <<cache, file>>
samplerVars  == <<sampler, toTell, pending, lastLook>>
acceptorVars == <<acceptor, serving, greeting>>
peerVars == <<backlog, phase, inbox, unread, told, gone>>
vars == <<envVars, process, current, restart_requested, samplerVars,
          acceptorVars, peerVars>>

watchers == {c \in Conns : phase[c] = "watching"}
Running == process = "running"

\* The watchers mutex: held while a broadcast writes and while a new watcher
\* is told its first line and pushed.
LockOfBroadcastOnly == sampler # "telling"                        \* mutant
LockFree == sampler # "telling" /\ acceptor \notin {"adopt", "greet"}

FullOneLate == Cardinality(watchers) > MaxWatchers                \* mutant
Full == Cardinality(watchers) >= MaxWatchers

Put(c) == unread[c] < SocketBuffer /\ unread' = [unread EXCEPT ![c] = @ + 1]

\* The descriptors of the connections in S close; their slots can be used for
\* connections opened later.
Close(S) ==
  /\ phase'  = [c \in Conns |-> IF c \in S THEN "idle" ELSE phase[c]]
  /\ inbox'  = [c \in Conns |-> IF c \in S THEN << >> ELSE inbox[c]]
  /\ unread' = [c \in Conns |-> IF c \in S THEN 0 ELSE unread[c]]
  /\ told'   = [c \in Conns |-> IF c \in S THEN Nothing ELSE told[c]]
  /\ gone'   = [c \in Conns |-> IF c \in S THEN FALSE ELSE gone[c]]

Init ==
  /\ cache = SignedIn /\ file \in Snapshots \cup {NoSnapshot}
  /\ process = "running" /\ current = SignedIn /\ restart_requested = FALSE
  /\ sampler = "sample" /\ toTell = {} /\ pending = NoSnapshot
  /\ lastLook = <<Nothing, NoSnapshot>>
  /\ acceptor = "accept" /\ serving = NoConn /\ greeting = Nothing
  /\ backlog = << >>
  /\ phase  = [c \in Conns |-> "idle"]
  /\ inbox  = [c \in Conns |-> << >>]
  /\ unread = [c \in Conns |-> 0]
  /\ told   = [c \in Conns |-> Nothing]
  /\ gone   = [c \in Conns |-> FALSE]
-----------------------------------------------------------------------------
(* The process ends: every descriptor closes, everything in memory is gone. *)

Leave(reason) ==
  /\ process' = reason
  /\ restart_requested' = FALSE
  /\ sampler' = "sample" /\ toTell' = {} /\ pending' = NoSnapshot
  /\ acceptor' = "accept" /\ serving' = NoConn /\ greeting' = Nothing
  /\ backlog' = << >> /\ Close(Conns)
  /\ UNCHANGED <<cache, file, current>>

Crash == Running /\ Leave("crashed") /\ UNCHANGED lastLook

\* systemd starts the unit again.  The startup path moves an adoptable
\* enrollment file into Secret Service and resumes, which lifts a rejection.
Start ==
  /\ ~Running /\ process' = "running"
  /\ cache' = SignedIn /\ current' = SignedIn /\ file' = NoSnapshot
  /\ lastLook' = <<Nothing, NoSnapshot>>
  /\ UNCHANGED <<restart_requested, sampler, toTell, pending, acceptorVars, peerVars>>
-----------------------------------------------------------------------------
(* The sampler thread: the loop of serve().                                 *)

SamplerAt(from, to) == Running /\ sampler = from /\ sampler' = to

Changed == State(cache) # State(current)

\* The two accessors are read in one step: a refused credential is never
\* spent again, so the pair read is one the cache was in between the reads.
Sample ==
  /\ current' = cache
  /\ SamplerAt("sample", IF Changed THEN "broadcast" ELSE "cull")
  /\ UNCHANGED <<envVars, process, restart_requested, toTell, pending, lastLook,
                 acceptorVars, peerVars>>

BroadcastLock ==
  /\ LockFree
  /\ SamplerAt("broadcast", "telling")
  /\ toTell' = watchers
  /\ UNCHANGED <<envVars, process, current, restart_requested, pending, lastLook,
                 acceptorVars, peerVars>>

\* One write of retain_mut: it blocks while the peer's buffer is full, and a
\* peer that has hung up is dropped.
Tell(c) ==
  /\ SamplerAt("telling", "telling") /\ c \in toTell
  /\ toTell' = toTell \ {c}
  /\ \/ /\ ~gone[c] /\ Put(c)
        /\ told' = [told EXCEPT ![c] = State(current)]
        /\ UNCHANGED <<phase, inbox, gone>>
     \/ gone[c] /\ Close({c})
  /\ UNCHANGED <<envVars, process, current, restart_requested, pending, lastLook,
                 acceptorVars, backlog>>

BroadcastUnlock ==
  /\ SamplerAt("telling", "cull") /\ toTell = {}
  /\ UNCHANGED <<envVars, process, current, restart_requested, toTell, pending,
                 lastLook, acceptorVars, peerVars>>

DeadUnseen == {}                                                   \* mutant
Dead == {c \in watchers : gone[c]}

Cull ==
  /\ LockFree
  /\ SamplerAt("cull", "restart")
  /\ Close(Dead)
  /\ UNCHANGED <<envVars, process, current, restart_requested, toTell, pending,
                 lastLook, acceptorVars, backlog>>

\* restart_requested.swap(false): adopt() is exit(1).
RestartRequested ==
  /\ Running /\ sampler = "restart" /\ restart_requested
  /\ Leave("restarted") /\ UNCHANGED lastLook

NoRestart ==
  /\ ~restart_requested
  /\ SamplerAt("restart", "enroll")
  /\ UNCHANGED <<envVars, process, current, restart_requested, toTell, pending,
                 lastLook, acceptorVars, peerVars>>

\* The enrollment file is believed when two looks in a row, both while
\* rejected, find the same snapshot.  (`adopted` only matters to an adopt()
\* that returns, which the daemon's never does.)
Settled == State(current) = "rejected" /\ file # NoSnapshot /\ pending = file

BelievedAlways == file                                             \* mutant
BelievedNever == NoSnapshot                                        \* mutant
Believed == IF State(current) = "rejected" THEN file ELSE NoSnapshot

\* mutant: the request is cleared at the end of a round, not taken by the swap
LookAndForget ==
  /\ ~Settled
  /\ SamplerAt("enroll", "sample")
  /\ pending' = Believed /\ restart_requested' = FALSE
  /\ lastLook' = <<State(current), file>>
  /\ UNCHANGED <<envVars, process, current, toTell, acceptorVars, peerVars>>

Look ==
  /\ ~Settled
  /\ SamplerAt("enroll", "sample")
  /\ pending' = Believed
  /\ lastLook' = <<State(current), file>>
  /\ UNCHANGED <<envVars, process, current, restart_requested, toTell,
                 acceptorVars, peerVars>>

AdoptEnrollment ==
  /\ Running /\ sampler = "enroll" /\ Settled
  /\ Leave("adopted") /\ UNCHANGED lastLook

Sampler == \/ Sample \/ BroadcastLock \/ (\E c \in Conns : Tell(c)) \/ BroadcastUnlock
           \/ Cull \/ RestartRequested \/ NoRestart \/ Look \/ AdoptEnrollment
-----------------------------------------------------------------------------
(* The acceptor thread: accept_loop().                                      *)

AcceptorAt(from, to) == Running /\ acceptor = from /\ acceptor' = to

\* try_clone can fail; the connection is then dropped.
Accept ==
  /\ backlog # << >> /\ backlog' = Tail(backlog)
  /\ LET c == Head(backlog) IN
       \/ /\ AcceptorAt("accept", "read") /\ serving' = c
          /\ phase' = [phase EXCEPT ![c] = "served"]
          /\ UNCHANGED <<inbox, unread, told, gone>>
       \/ AcceptorAt("accept", "accept") /\ Close({c}) /\ UNCHANGED serving
  /\ UNCHANGED <<envVars, process, current, restart_requested, samplerVars, greeting>>

\* The connection leaves scope without joining the registry.
Drop ==
  /\ acceptor' = "accept" /\ serving' = NoConn /\ greeting' = Nothing
  /\ Close({serving})

NextVerb(verb) ==
  /\ Running /\ acceptor = "read"
  /\ inbox[serving] # << >> /\ Head(inbox[serving]) = verb

Consume == inbox' = [inbox EXCEPT ![serving] = Tail(@)]

\* "status", an unknown verb, the restart request, and the skipped blank line.
Command ==
  /\ \E verb \in Verbs \ {"watch"} :
       /\ NextVerb(verb) /\ Consume
       /\ acceptor' = IF verb = "" THEN "read" ELSE "reply"
       /\ restart_requested' = (restart_requested \/ verb = "enrollment-complete")
  /\ UNCHANGED <<envVars, process, current, samplerVars, serving, greeting, backlog,
                 phase, unread, told, gone>>

\* End of stream, a read error, or ten silent seconds.
EndOfInput ==
  /\ Running /\ acceptor = "read" /\ inbox[serving] = << >>
  /\ Drop
  /\ UNCHANGED <<envVars, process, current, restart_requested, samplerVars, backlog>>

Reply ==
  /\ Running /\ acceptor = "reply"
  /\ \/ ~gone[serving] /\ Put(serving) /\ acceptor' = "read"
        /\ UNCHANGED <<serving, greeting, phase, inbox, told, gone>>
     \/ gone[serving] /\ Drop
  /\ UNCHANGED <<envVars, process, current, restart_requested, samplerVars, backlog>>

\* "watch": under the lock, refuse over the cap with a bare EOF ...
Watch ==
  /\ LockFree /\ NextVerb("watch")
  /\ \/ /\ ~Full
        /\ acceptor' = "adopt" /\ Consume
        /\ UNCHANGED <<serving, greeting, phase, unread, told, gone>>
     \/ Full /\ Drop
  /\ UNCHANGED <<envVars, process, current, restart_requested, samplerVars, backlog>>

\* ... or read the state and, still under the lock, ...
Adopt ==
  /\ AcceptorAt("adopt", "greet")
  /\ greeting' = State(current)
  /\ UNCHANGED <<envVars, process, current, restart_requested, samplerVars, serving,
                 peerVars>>

\* ... write it and push the connection.
Greet ==
  /\ AcceptorAt("greet", "accept")
  /\ serving' = NoConn /\ greeting' = Nothing
  /\ \/ /\ ~gone[serving] /\ Put(serving)
        /\ told'  = [told EXCEPT ![serving] = greeting]
        /\ phase' = [phase EXCEPT ![serving] = "watching"]
        /\ inbox' = [inbox EXCEPT ![serving] = << >>]  \* never read again
        /\ UNCHANGED gone
     \/ gone[serving] /\ Close({serving})
  /\ UNCHANGED <<envVars, process, current, restart_requested, samplerVars, backlog>>

Acceptor == Accept \/ Command \/ EndOfInput \/ Reply \/ Watch \/ Adopt \/ Greet
-----------------------------------------------------------------------------
(* The environment: the token cache, whoever writes the enrollment file,    *)
(* and the peers.                                                           *)

\* Three refusals in a row end the sign-in; nothing but a restart undoes it,
\* and a refused credential is never spent again, so no store error follows.
CacheChanges ==
  /\ Running /\ cache.signed_in
  /\ \/ cache' = [cache EXCEPT !.signed_in = FALSE]
     \/ \E e \in ErrorKinds \cup {NoError} : cache' = [cache EXCEPT !.store_error = e]
  /\ UNCHANGED <<file, process, current, restart_requested, samplerVars, acceptorVars,
                 peerVars>>

FileChanges ==
  /\ file' \in (Snapshots \cup {NoSnapshot}) \ {file}
  /\ UNCHANGED <<cache, process, current, restart_requested, samplerVars, acceptorVars,
                 peerVars>>

Connect(c) ==
  /\ Running /\ phase[c] = "idle"
  /\ phase' = [phase EXCEPT ![c] = "queued"]
  /\ backlog' = Append(backlog, c)
  /\ \E r \in Requests : inbox' = [inbox EXCEPT ![c] = r]
  /\ UNCHANGED <<envVars, process, current, restart_requested, samplerVars,
                 acceptorVars, unread, told, gone>>

ReadLine(c) ==
  /\ ~gone[c] /\ unread[c] > 0
  /\ unread' = [unread EXCEPT ![c] = @ - 1]
  /\ UNCHANGED <<envVars, process, current, restart_requested, samplerVars,
                 acceptorVars, backlog, phase, inbox, told, gone>>

HangUp(c) ==
  /\ phase[c] # "idle" /\ ~gone[c]
  /\ gone' = [gone EXCEPT ![c] = TRUE]
  /\ UNCHANGED <<envVars, process, current, restart_requested, samplerVars,
                 acceptorVars, backlog, phase, inbox, unread, told>>

Peer(c) == Connect(c) \/ ReadLine(c) \/ HangUp(c)

Next == \/ Sampler \/ Acceptor \/ Crash \/ Start \/ CacheChanges \/ FileChanges
        \/ \E c \in Conns : Peer(c)

Spec == Init /\ [][Next]_vars

\* Both threads run; a thread waiting for the watchers lock gets it in the
\* end (the other gives it up again and again and then sleeps or blocks in
\* accept); peers read what they are sent: the two readers of this socket are
\* blocking read loops.  Nothing is assumed of the environment.
Fairness ==
  /\ WF_vars(Sampler) /\ SF_vars(BroadcastLock) /\ SF_vars(Cull)
  /\ WF_vars(Acceptor) /\ SF_vars(Watch)
  /\ \A c \in Conns : WF_vars(ReadLine(c))

FairSpec == Spec /\ Fairness
-----------------------------------------------------------------------------
(* Properties.                                                              *)

ThreadsOK ==
  /\ cache \in CredentialHealth /\ current \in CredentialHealth
  /\ file \in Snapshots \cup {NoSnapshot} /\ pending \in Snapshots \cup {NoSnapshot}
  /\ process \in {"running", "crashed", "restarted", "adopted"}
  /\ restart_requested \in BOOLEAN
  /\ sampler \in {"sample", "broadcast", "telling", "cull", "restart", "enroll"}
  /\ toTell \subseteq Conns
  /\ lastLook \in (CredentialState \cup {Nothing}) \X (Snapshots \cup {NoSnapshot})
  /\ acceptor \in {"accept", "read", "reply", "adopt", "greet"}
  /\ serving \in IF acceptor = "accept" THEN {NoConn} ELSE Conns
  /\ greeting \in CredentialState \cup {Nothing}
  /\ backlog \in Seq(Conns)

PeersOK ==
  /\ phase \in [Conns -> {"idle", "queued", "served", "watching"}]
  /\ inbox \in [Conns -> Seq(Verbs)]
  /\ unread \in [Conns -> 0..SocketBuffer]
  /\ told \in [Conns -> CredentialState \cup {Nothing}]
  /\ gone \in [Conns -> BOOLEAN]

TypeOK == ThreadsOK /\ PeersOK

\* The watchers a broadcast under way will still write to: all of them while
\* the sampler waits for the lock, then those it has not reached.
Owed == IF sampler = "broadcast" THEN watchers
        ELSE IF sampler = "telling" THEN toTell ELSE {}

\* No update is lost between the two locks: whatever the order in which the
\* sampler writes `current` and a new watcher reads it, a watcher that no
\* broadcast will still reach was last told the current state.
ToldIsCurrent == \A c \in watchers \ Owed : told[c] = State(current)

\* MAX_WATCHERS bounds the registry although connections are admitted on one
\* thread and removed on another.
WatchersBounded == Cardinality(watchers) <= MaxWatchers

(* Why they hold: what else is true of every reachable state.               *)

\* The two threads never both hold the watchers lock.
Exclusive == ~(sampler = "telling" /\ acceptor \in {"adopt", "greet"})

\* A connection is in one place: the backlog, the acceptor's hands, or the
\* registry; and only those in the registry have been told a state.
Placed ==
  /\ acceptor # "accept" => phase[serving] = "served"
  /\ \A i \in DOMAIN backlog : phase[backlog[i]] = "queued"
  /\ \A i, j \in DOMAIN backlog : i # j => backlog[i] # backlog[j]
  /\ \A c \in Conns : told[c] = Nothing <=> phase[c] # "watching"

ToTellOK == toTell \subseteq watchers /\ (sampler # "telling" => toTell = {})

\* A greeting still to be written is out of date only if the broadcast of the
\* newer state is waiting for the lock the greeter holds.
GreetingOK ==
  acceptor = "greet" => /\ greeting \in CredentialState
                        /\ greeting = State(current) \/ sampler = "broadcast"

RoomOK == acceptor \in {"adopt", "greet"} => Cardinality(watchers) < MaxWatchers

DownOK ==
  ~Running => /\ sampler = "sample" /\ acceptor = "accept" /\ backlog = << >>
              /\ pending = NoSnapshot
              /\ \A c \in Conns : phase[c] = "idle"

\* `pending` is the file found at the last look, at which the state was
\* "rejected"; and a published refusal is a real one, which nothing undoes.
LookOK == pending # NoSnapshot => lastLook = <<"rejected", pending>>
RefusalOK == Running /\ ~current.signed_in => ~cache.signed_in

ThreadsInv == Exclusive /\ GreetingOK /\ DownOK /\ LookOK /\ RefusalOK
FeedInv == ToldIsCurrent /\ Placed /\ ToTellOK
RoomInv == WatchersBounded /\ RoomOK
IInv == TypeOK /\ ThreadsInv /\ FeedInv /\ RoomInv

\* The daemon restarts for an enrollment file only when the credential it runs
\* on is really refused, and only onto a file that it found unchanged on two
\* consecutive looks, at both of which it was already refused.
SettledAdoption ==
  [][Running /\ process' = "adopted"
       => /\ ~cache.signed_in
          /\ file \in Snapshots
          /\ lastLook = <<"rejected", file>>]_vars

\* What a watcher is promised.
Feed == INSTANCE CredentialFeed WITH
          States <- CredentialState, latest <- State(current), owed <- Owed

FeedSpec == Feed!Spec

\* "enrollment-complete", once accepted, ends the process: the request survives
\* until the sampler comes round, whatever watchers and peers do meanwhile.
RestartHonoured == restart_requested ~> ~Running

\* A watcher whose peer has hung up does not hold its slot until the next
\* change of state.
DeadWatcherCulled ==
  \A c \in Conns : (c \in watchers /\ gone[c]) ~> ~(c \in watchers /\ gone[c])

\* A refused daemon does not sit beside an enrollment file that holds still.
EnrollmentNoticed ==
  \A f \in Snapshots : ~<>[](Running /\ ~cache.signed_in /\ file = f)
=============================================================================
