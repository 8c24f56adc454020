------------------------------- MODULE SignIn -------------------------------
(***************************************************************************)
(* The life of the OneDrive credential: lib.rs, main.rs, pkce.rs and the   *)
(* enrollment methods of dbus.rs.                                          *)
(*                                                                         *)
(* Four parties write it.  The daemon's startup moves a legacy file into   *)
(* Secret Service and resumes from it; while it lives, its token cache     *)
(* saves every rotation over the same entry.  The auth command moves the   *)
(* file too, and signs in.  Browser sign-ins, of the D-Bus service or of   *)
(* the command, store a new credential and then ask the daemon, on the     *)
(* socket AuthState models, to restart.  The legacy helper writes the      *)
(* file.  No lock orders them.                                             *)
(***************************************************************************)
EXTENDS Naturals, FiniteSets

CONSTANTS
  First,         \* the sign-in stored when the behaviour begins
  ServiceFlows,  \* browser sign-ins begun over D-Bus, each at most once
  CommandFlows,  \* auth and reauth commands, each run at most once
  Files,         \* sign-ins the legacy helper writes, each at most once
  WaitBound,     \* SECRET_SERVICE_WAIT in units of STORE_POLL
  MaxRejections, \* of the token cache: invalid_grants in a row
  MaxRotations,  \* bound: rotations of one sign-in
  MaxMishaps,    \* bound: crashes, failed starts and power losses
  MaxRevoked,    \* bound: sign-ins OneDrive revokes
  Nobody, NoCredential, Unfit

Flows == ServiceFlows \cup CommandFlows
SignIns == {First} \cup Flows \cup Files
Credentials == [sign_in : SignIns, rotation : 0..MaxRotations]
Fresh(s) == [sign_in |-> s, rotation |-> 0]

ASSUME ConstantsAssumption ==
  /\ First \notin Flows \cup Files
  /\ ServiceFlows \cap CommandFlows = {} /\ Flows \cap Files = {}
  /\ "daemon" \notin Flows
  /\ NoCredential \notin Credentials /\ Unfit \notin Credentials \cup {NoCredential}
  /\ WaitBound \in Nat /\ MaxRejections \in Nat \ {0}
  /\ {MaxRotations, MaxMishaps, MaxRevoked} \subseteq Nat

\* Who runs token_cache(), and with it the migration.
Processes == {"daemon"} \cup CommandFlows

VARIABLES
  answering,  \* Secret Service is up and unlocked
  secret,     \* the credential in it
  file,       \* <state-dir>/refresh-token; an empty file counts as none
  disk,       \* what a power loss would leave of it
  unwritten,  \* the sign-ins the helper has yet to write
  accepted,   \* the sign-ins OneDrive has not revoked
  pc,         \* where each process is
  found,      \* what migrate_legacy_credential loaded from the file
  waited,     \* wait_for_store's count of polls
  held,       \* the token cache: its credential,
  rejections, \*   invalid_grants in a row,
  unsaved,    \*   last_store_error() is set,
  rotating,   \*   a rotation was received and not yet written back
  asked,      \* restart_requested
  stage,      \* of each browser sign-in
  busy,       \* enrollment_busy
  status,     \* enrollment_status, and the sign-in it is about
  flyout,     \* the Plasmoid's sign-in: "free", "asking" for a URL, "polling"
  mishaps

fileVars  == <<file, disk, unwritten>>
cacheVars == <<held, rejections, unsaved, rotating>>
memory    == <<found, waited, cacheVars, asked>>
flowVars  == <<stage, busy, status, flyout>>
outside   == <<answering, accepted, mishaps>>
vars == <<secret, fileVars, pc, memory, flowVars, outside>>

Running == pc["daemon"] = "run"
SignedIn == rejections < MaxRejections

Init ==
  /\ answering \in BOOLEAN /\ secret = Fresh(First) /\ accepted = SignIns
  /\ file = NoCredential /\ disk = NoCredential /\ unwritten = Files
  /\ pc = [p \in Processes |-> "down"] /\ found = [p \in Processes |-> NoCredential]
  /\ waited = 0 /\ asked = FALSE
  /\ held = NoCredential /\ rejections = 0 /\ unsaved = FALSE /\ rotating = FALSE
  /\ stage = [f \in Flows |-> "unused"] /\ busy = FALSE
  /\ status = [of |-> Nobody, value |-> "idle"] /\ flyout = "free"
  /\ mishaps = 0
-----------------------------------------------------------------------------
(* The processes: the steps of token_cache() and main(), and their ends.    *)

Goto(p, at) == pc' = [pc EXCEPT ![p] = at] /\ UNCHANGED memory

\* What a process keeps in memory goes with it.
End(p) ==
  /\ pc' = [pc EXCEPT ![p] = IF p = "daemon" THEN "down" ELSE "done"]
  /\ found' = [found EXCEPT ![p] = NoCredential]
  /\ IF p = "daemon"
     THEN /\ held' = NoCredential /\ rejections' = 0 /\ unsaved' = FALSE
          /\ rotating' = FALSE /\ asked' = FALSE /\ waited' = 0
     ELSE UNCHANGED <<cacheVars, asked, waited>>

\* The daemon begins by waiting for the store; the interactive command does not.
Start(p) ==
  /\ pc[p] = "down" /\ Goto(p, IF p = "daemon" THEN "wait" ELSE "migrate")
  /\ UNCHANGED <<secret, fileVars, flowVars, outside>>

\* wait_for_store: a store that cannot answer is looked at again, and a last
\* time when the whole bound has been slept.
Glance ==
  /\ pc["daemon"] = "wait"
  /\ \/ answering /\ Goto("daemon", "migrate")
     \/ ~answering /\ waited >= WaitBound /\ End("daemon")
     \/ /\ ~answering /\ waited < WaitBound /\ waited' = waited + 1
        /\ UNCHANGED <<pc, found, cacheVars, asked>>
  /\ UNCHANGED <<secret, fileVars, flowVars, outside>>

\* migrate_legacy_credential, one step per call that can fail or be overtaken.
ReadFile(p) ==
  /\ pc[p] = "migrate"
  /\ \/ file = NoCredential /\ Goto(p, "resume")
     \/ file = Unfit /\ End(p)
     \/ /\ file \in Credentials /\ found' = [found EXCEPT ![p] = file]
        /\ pc' = [pc EXCEPT ![p] = "save"] /\ UNCHANGED <<waited, cacheVars, asked>>
  /\ UNCHANGED <<secret, fileVars, flowVars, outside>>

\* mutants: the secure credential wins over the file; or the store fills once
SecureWins(p) ==
  /\ pc[p] = "save" /\ Goto(p, "remove")
  /\ UNCHANGED <<secret, fileVars, flowVars, outside>>
SaveOnce(p) ==
  /\ pc[p] = "save" /\ End(p)
  /\ UNCHANGED <<secret, fileVars, flowVars, outside>>
SaveFound(p) ==
  /\ pc[p] = "save"
  /\ \/ answering /\ secret' = found[p] /\ Goto(p, "remove")
     \/ ~answering /\ UNCHANGED secret /\ End(p)
  /\ UNCHANGED <<fileVars, flowVars, outside>>

\* remove_file fails when another process has removed it first.
RemoveFile(p) ==
  /\ pc[p] = "remove"
  /\ \/ file # NoCredential /\ file' = NoCredential /\ Goto(p, "sync")
     \/ file = NoCredential /\ UNCHANGED file /\ End(p)
  /\ UNCHANGED <<secret, disk, unwritten, flowVars, outside>>

SyncDirectory(p) ==
  /\ pc[p] = "sync" /\ disk' = file /\ Goto(p, "resume")
  /\ UNCHANGED <<secret, file, unwritten, flowVars, outside>>

\* The daemon resumes what is stored.
Resume ==
  /\ pc["daemon"] = "resume"
  /\ \/ /\ answering /\ held' = secret /\ pc' = [pc EXCEPT !["daemon"] = "discover"]
        /\ UNCHANGED <<found, waited, rejections, unsaved, rotating, asked>>
     \/ ~answering /\ End("daemon")
  /\ UNCHANGED <<secret, fileVars, flowVars, outside>>

\* "auth" is content with a credential that resumes; "reauth" does not look.
CommandResume(p) ==
  /\ p \in CommandFlows /\ pc[p] = "resume"
  /\ \/ End(p) /\ UNCHANGED stage
     \/ Goto(p, "sign-in") /\ stage' = [stage EXCEPT ![p] = "waiting"]
  /\ UNCHANGED <<secret, fileVars, busy, status, flyout, outside>>

\* Drive discovery spends a token; then the publisher's socket is bound.
Discover ==
  /\ pc["daemon"] = "discover"
  /\ \/ SignedIn /\ held.sign_in \in accepted /\ Goto("daemon", "run")
     \/ ~(SignedIn /\ held.sign_in \in accepted) /\ End("daemon")
  /\ UNCHANGED <<secret, fileVars, flowVars, outside>>

\* The publisher's two reasons to leave; AuthState has the detail.
Restart ==
  /\ Running /\ (asked \/ (~SignedIn /\ file \in Credentials))
  /\ End("daemon")
  /\ UNCHANGED <<secret, fileVars, flowVars, outside>>

\* Flows whose process has died; those of the service begin afresh with it.
Abandon(F) == stage' = [f \in Flows |-> IF f \in F /\ stage[f] # "unused" THEN "done" ELSE stage[f]]
ServiceForgets == busy' = FALSE /\ status' = [of |-> Nobody, value |-> "idle"]

\* The daemon or a command is killed, or fails for a reason outside the model
\* (no mount directory, no network, a directory that cannot be synced).
Killed(p) ==
  /\ pc[p] \notin {"down", "done"} /\ End(p) /\ Abandon({p})
  /\ UNCHANGED <<secret, fileVars, busy, status, flyout>>

\* The bus starts the next service when somebody calls it.  A call that was
\* under way is answered with an error, which the flyout shows.
ServiceKilled ==
  /\ ServiceForgets /\ Abandon(ServiceFlows)
  /\ flyout' \in {"free"} \cup ({flyout} \ {"asking"})
  /\ UNCHANGED <<secret, fileVars, pc, memory>>

\* No process survives a power loss, and of the file only what was on disk.
PowerLoss ==
  /\ file' = disk /\ Abandon(Flows) /\ ServiceForgets /\ flyout' = "free"
  /\ pc' = [p \in Processes |-> IF p = "daemon" \/ pc[p] = "down" THEN "down" ELSE "done"]
  /\ found' = [p \in Processes |-> NoCredential] /\ waited' = 0 /\ asked' = FALSE
  /\ held' = NoCredential /\ rejections' = 0 /\ unsaved' = FALSE /\ rotating' = FALSE
  /\ UNCHANGED <<secret, disk, unwritten>>

Mishap ==
  /\ mishaps < MaxMishaps /\ mishaps' = mishaps + 1
  /\ (\E p \in Processes : Killed(p)) \/ ServiceKilled \/ PowerLoss
  /\ UNCHANGED <<answering, accepted>>
-----------------------------------------------------------------------------
(* The token cache, an external library, as tests/credential_semantics.rs   *)
(* measures it.                                                             *)

\* One refresh: a rotation, a refusal, or an outage, which resets the count.
Refresh ==
  /\ pc["daemon"] \in {"discover", "run"} /\ SignedIn /\ ~rotating
  /\ \/ /\ held.sign_in \in accepted /\ held.rotation < MaxRotations
        /\ held' = [held EXCEPT !.rotation = @ + 1]
        /\ rotating' = TRUE /\ rejections' = 0
     \/ /\ held.sign_in \notin accepted
        /\ rejections' = rejections + 1 /\ UNCHANGED <<held, rotating>>
     \/ rejections' = 0 /\ UNCHANGED <<held, rotating>>
  /\ UNCHANGED <<secret, fileVars, pc, found, waited, unsaved, asked, flowVars, outside>>

\* The rotation is written back to the entry everybody shares.
PersistQuietly ==                                                  \* mutant
  /\ rotating /\ rotating' = FALSE
  /\ secret' = IF answering THEN held ELSE secret
  /\ UNCHANGED <<fileVars, pc, found, waited, held, rejections, unsaved, asked, flowVars, outside>>
Persist ==
  /\ rotating /\ rotating' = FALSE
  /\ secret' = IF answering THEN held ELSE secret
  /\ unsaved' = ~answering
  /\ UNCHANGED <<fileVars, pc, found, waited, held, rejections, asked, flowVars, outside>>
-----------------------------------------------------------------------------
(* Browser sign-ins: ControlSurface::begin_enrollment and its thread,       *)
(* BrowserEnrollment::complete_with, notify_enrollment.                     *)

Advance(f, from, to) == stage[f] = from /\ stage' = [stage EXCEPT ![f] = to]

\* enrollment_busy admits one; whoever asks for another is refused.  The flyout
\* asks at most once at a time, the tray and others when they like.
Asks == flyout' = flyout \/ (flyout = "free" /\ flyout' = "asking")
BeginUnchecked(f) ==                                               \* mutant
  /\ f \in ServiceFlows /\ busy' = TRUE /\ Advance(f, "unused", "begun") /\ Asks
  /\ UNCHANGED <<secret, fileVars, pc, memory, status, outside>>
Begin(f) ==
  /\ f \in ServiceFlows /\ ~busy /\ busy' = TRUE /\ Advance(f, "unused", "begun") /\ Asks
  /\ UNCHANGED <<secret, fileVars, pc, memory, status, outside>>

\* The listener is bound and the caller gets its URL, or begin() failed.
Listen(f) ==
  /\ \/ /\ Advance(f, "begun", "waiting") /\ UNCHANGED busy
        /\ status' = [of |-> f, value |-> "waiting"]
        /\ flyout' = IF flyout = "asking" THEN "polling" ELSE flyout
     \/ /\ Advance(f, "begun", "done") /\ busy' = FALSE /\ UNCHANGED status
        /\ flyout' = IF flyout = "asking" THEN "free" ELSE flyout
  /\ UNCHANGED <<secret, fileVars, pc, memory, outside>>

\* readEnrollmentStatus: an outcome ends the flyout's sign-in; until it reads
\* one its button stays disabled and it polls on.
ReadStatus ==
  /\ flyout = "polling" /\ status.value \in {"complete", "error"} /\ flyout' = "free"
  /\ UNCHANGED <<secret, fileVars, pc, memory, stage, busy, status, outside>>

\* The redirect arrives and its code is redeemed; or the deadline passes, the
\* redirect is not ours or not whole, the user declined, the exchange failed.
Redirected(f) ==
  /\ Advance(f, "waiting", "store") \/ Advance(f, "waiting", "failed")
  /\ UNCHANGED <<secret, fileVars, pc, memory, busy, status, flyout, outside>>

\* store_enrolled_credential: the same entry as the token cache's.
StoreEnrolled(f) ==
  /\ \/ answering /\ Advance(f, "store", "respond") /\ secret' = Fresh(f)
     \/ ~answering /\ Advance(f, "store", "failed") /\ UNCHANGED secret
  /\ UNCHANGED <<fileVars, pc, memory, busy, status, flyout, outside>>

\* respond(200)?: writing to the browser can fail.
Respond(f) ==
  /\ Advance(f, "respond", "notify") \/ Advance(f, "respond", "failed")
  /\ UNCHANGED <<secret, fileVars, pc, memory, busy, status, flyout, outside>>

\* A daemon that serves the socket takes the request; when nobody listens the
\* refused connection is no error.
NotifyAndRelease(f) ==                                             \* mutant
  /\ Advance(f, "notify", "completed") /\ asked' = (asked \/ Running) /\ busy' = FALSE
  /\ UNCHANGED <<secret, fileVars, pc, found, waited, cacheVars, status, flyout, outside>>
Notify(f) ==
  /\ Advance(f, "notify", "completed") /\ asked' = (asked \/ Running)
  /\ UNCHANGED <<secret, fileVars, pc, found, waited, cacheVars, busy, status, flyout, outside>>

\* The thread publishes its outcome and only then frees enrollment_busy.
Report(f) ==
  /\ f \in ServiceFlows
  /\ \/ Advance(f, "completed", "closing") /\ status' = [of |-> f, value |-> "complete"]
     \/ Advance(f, "failed", "closing") /\ status' = [of |-> f, value |-> "error"]
  /\ UNCHANGED <<secret, fileVars, pc, memory, busy, flyout, outside>>

ReleaseNever(f) ==                                                 \* mutant
  /\ Advance(f, "closing", "done") /\ status.value = "complete" /\ busy' = FALSE
  /\ UNCHANGED <<secret, fileVars, pc, memory, status, flyout, outside>>
Release(f) ==
  /\ Advance(f, "closing", "done") /\ busy' = FALSE
  /\ UNCHANGED <<secret, fileVars, pc, memory, status, flyout, outside>>

\* The command prints the outcome and exits.
CommandEnds(f) ==
  /\ f \in CommandFlows /\ End(f)
  /\ Advance(f, "completed", "done") \/ Advance(f, "failed", "done")
  /\ UNCHANGED <<secret, fileVars, busy, status, flyout, outside>>

Flow(f) ==
  \/ Listen(f) \/ Redirected(f) \/ StoreEnrolled(f) \/ Respond(f) \/ Notify(f)
  \/ Report(f) \/ Release(f) \/ CommandEnds(f)
-----------------------------------------------------------------------------
(* The environment: the keyring, OneDrive, the legacy helper, the disk.     *)

StoreChanges ==
  /\ answering' = ~answering
  /\ UNCHANGED <<secret, fileVars, pc, memory, flowVars, accepted, mishaps>>

Revoke(s) ==
  /\ s \in accepted /\ accepted' = accepted \ {s}
  /\ Cardinality(SignIns \ accepted) < MaxRevoked
  /\ UNCHANGED <<secret, fileVars, pc, memory, flowVars, answering, mishaps>>

\* The helper leaves a private file, or somebody one that is not.
WriteFile(s) ==
  /\ s \in unwritten /\ unwritten' = unwritten \ {s}
  /\ file' \in {Fresh(s), Unfit}
  /\ UNCHANGED <<secret, disk, pc, memory, flowVars, outside>>

WriteBack ==
  /\ disk # file /\ disk' = file
  /\ UNCHANGED <<secret, file, unwritten, pc, memory, flowVars, outside>>

Environment == StoreChanges \/ WriteBack \/ (\E s \in SignIns : Revoke(s) \/ WriteFile(s))

DaemonSteps ==
  Start("daemon") \/ Glance \/ ReadFile("daemon") \/ SaveFound("daemon")
    \/ RemoveFile("daemon") \/ SyncDirectory("daemon") \/ Resume \/ Discover \/ Restart

CommandSteps(p) ==
  Start(p) \/ ReadFile(p) \/ SaveFound(p) \/ RemoveFile(p) \/ SyncDirectory(p) \/ CommandResume(p)

Next == \/ DaemonSteps \/ ReadStatus \/ Refresh \/ Persist \/ Mishap \/ Environment
        \/ \E f \in Flows : Begin(f) \/ Flow(f)
        \/ \E p \in CommandFlows : CommandSteps(p)

Spec == Init /\ [][Next]_vars

\* systemd restarts a failed daemon; its steps, the cache's write-back and the
\* threads of a browser sign-in each end (the redirect has a deadline, the
\* exchange and the sockets have timeouts); the flyout polls every second.
Fairness ==
  /\ WF_vars(DaemonSteps) /\ WF_vars(Persist) /\ WF_vars(ReadStatus)
  /\ \A f \in Flows : WF_vars(Flow(f))
  /\ \A p \in CommandFlows : WF_vars(CommandSteps(p) /\ pc[p] # "down")

FairSpec == Spec /\ Fairness
-----------------------------------------------------------------------------
(* Properties.                                                              *)

Stages == {"unused", "begun", "waiting", "store", "respond", "notify", "completed", "failed",
           "closing", "done"}

TypeOK ==
  /\ answering \in BOOLEAN /\ secret \in Credentials /\ accepted \subseteq SignIns
  /\ {file, disk} \subseteq Credentials \cup {NoCredential, Unfit} /\ unwritten \subseteq Files
  /\ pc \in [Processes -> {"down", "wait", "migrate", "save", "remove", "sync", "resume",
                           "discover", "run", "sign-in", "done"}]
  /\ found \in [Processes -> Credentials \cup {NoCredential}]
  /\ waited \in 0..WaitBound /\ held \in Credentials \cup {NoCredential}
  /\ rejections \in 0..MaxRejections /\ {unsaved, rotating, asked, busy} \subseteq BOOLEAN
  /\ stage \in [Flows -> Stages]
  /\ status \in [of : ServiceFlows \cup {Nobody}, value : {"idle", "waiting", "complete", "error"}]
  /\ flyout \in {"free", "asking", "polling"}
  /\ mishaps \in 0..MaxMishaps

\* "Healthy" tells the truth about the next start: with no store error shown
\* and no write-back under way, Secret Service holds what the daemon runs on,
\* or another sign-in that has been stored since.
HealthyIsSaved ==
  Running /\ SignedIn /\ ~unsaved /\ ~rotating
    => secret = held \/ secret.sign_in # held.sign_in

\* A legacy file is removed only when what is in it is stored, whatever
\* crashes and restarts came before; the one exception is a file that took the
\* place of the one the migration had loaded.
RemovedIsSaved ==
  [][file' = NoCredential /\ file \in Credentials /\ mishaps' = mishaps
       => \/ secret.sign_in = file.sign_in
          \/ \E p \in Processes : pc[p] = "remove" /\ found[p] # file]_vars

\* However late Secret Service comes up, however often the start fails before
\* it does: once it answers for good the daemon gets to run, unless what is
\* stored has been revoked or the file is not one the migration accepts.
StartsWhenStoreAnswers ==
  <>[]answering => []<>(Running \/ secret.sign_in \notin accepted \/ file = Unfit)

\* A sign-in written to the file heals a refused daemon: it ends up running on
\* it, unless the new sign-in is revoked too, or the file was lost (with a power
\* loss, or under a later file).
Lost(f) ==
  /\ file # Fresh(f) /\ secret.sign_in # f
  /\ mishaps > 0 \/ unwritten \cup {f} # Files

FileHeals ==
  <>[]answering => \A f \in Files :
    (Running /\ ~SignedIn /\ file = Fresh(f))
      ~> (Running /\ held.sign_in = f) \/ f \notin accepted \/ file = Unfit \/ Lost(f)

\* enrollment_busy is set exactly while one browser sign-in is under way.
OneFlow ==
  Cardinality({f \in ServiceFlows : stage[f] \notin {"unused", "done"}}) = IF busy THEN 1 ELSE 0

\* Whoever was given the URL of a sign-in reads, from EnrollmentStatus, of that
\* sign-in and of no earlier one, and reads an outcome only when there is one.
PollTruthful ==
  \A f \in ServiceFlows : stage[f] \notin {"unused", "begun", "done"}
    => status.of = f /\ (status.value = "waiting" <=> stage[f] # "closing")

\* A sign-in that nobody finishes does not keep the next one out for ever, in
\* the service or, unless the service is a new one, in the flyout.
FlowEnds ==
  /\ busy ~> ~busy
  /\ (flyout # "free") ~> (flyout = "free" \/ status.value = "idle")

(* What the documentation says, and the code does not do.                   *)

\* A request to restart onto the credential just stored reloads that credential.
AskedKeepsSecret ==
  [][asked /\ asked' => (secret').sign_in = secret.sign_in]_vars

\* A running daemon adopts a new sign-in without a manual restart.
StoredIsAdopted ==
  <>[](answering /\ Flows \subseteq accepted) =>
    \A f \in Flows : stage[f] = "completed" ~> (Running /\ held.sign_in = f)

\* The flyout polls EnrollmentStatus only while a browser sign-in is active.
PollsWhileActive == <>[]~busy => <>[](flyout # "polling")
=============================================================================
