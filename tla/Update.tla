------------------------------- MODULE Update -------------------------------
(***************************************************************************)
(* Installing an update of a Windows build: the command install_update in  *)
(* the running application, the helper process it starts (a copy of the    *)
(* program), the replacement of the executable, and the applications that  *)
(* are started, confirmed and stopped meanwhile.                           *)
(*                                                                         *)
(* Sources: commands.rs:964-1450 (the command, the helper), portable_      *)
(* update.rs (the replacement), update_download.rs (the download), main.rs *)
(* (start, single instance, exit).  A process is a number; a file is what  *)
(* it holds: Absent, the version it is a complete program of, or Altered.  *)
(*                                                                         *)
(* Every call of install_update has its own session directory (a name with *)
(* pid, time and sequence number), so `part`, `staged`, `ready` and        *)
(* `backup` are functions of the call.  Any rename can fail, a process can *)
(* be lost between any two steps, and the power can go.                    *)
(***************************************************************************)
EXTENDS ReleaseChoice, Sequences

CONSTANTS
  MaxCalls,    \* bound: calls of install_update, of all applications that run
  UserStarts,  \* bound: how often the user starts the program by hand
  Tags,        \* Tags[v]: the version text of the v-th release; 1 is installed
  Released,    \* Released[v]: the day and the revision it stands for
  Assets,      \* the assets every release publishes
  Arch,        \* the architecture of this build
  MaxFailures  \* bound: failed renames, spawns, starts and power cuts

Versions == 1..Len(Tags)
Absent   == 0
Altered  == Len(Tags) + 1
Contents == Versions \union {Absent, Altered}
NoPid    == 0
NoCall   == 0

\* The calls, in the order they are made.
Calls == 1..MaxCalls

\* The first application, those the user starts, and two for every helper.
Pids == 1..(1 + UserStarts + 2 * MaxCalls)

ASSUME UpdateAssumption ==
  /\ MaxCalls \in Nat
  /\ Len(Tags) \in Nat \ {0}
  /\ UserStarts \in Nat /\ MaxFailures \in Nat

\* Releases are numbered as they come out, and named as the tests of VersionParts
\* name them.
ASSUME TagsAssumption ==
  /\ \A v \in Versions : Released[v] \in Dates /\ Tags[v] \in Texts(Released[v])
  /\ \A v, w \in Versions : v < w => Earlier(Released[v], Released[w])

VARIABLES
  mode,      \* current_install_mode: told by the name of the executable
  release,   \* the latest published version
  entry,     \* the executable the shortcut points to
  part,      \* the unfinished downloads that exist
  staged,    \* the verified download of a call
  ready,     \* startup.ready of a session: the pid written to it
  backup,    \* .<name>.rollback-<session>
  call,      \* the calls of install_update
  helper,    \* the helper process of a call
  app,       \* the applications
  instance,  \* who holds the single-instance lock
  vacated,   \* history: the call whose helper last moved the entry away
  trusted,   \* history: the versions whose content was verified
  failures, userStarts

fileVars == << entry, part, staged, ready, backup, vacated, trusted >>
appVars  == << app, instance >>
bounds   == << failures, userStarts >>
vars == << mode, release, fileVars, call, helper, appVars, bounds >>

CallStates ==
  {"idle", "asking", "downloading", "published", "stopping", "over",
   "refused", "upToDate"}
HelperStates ==
  {"none", "waiting", "checking", "keeping", "placing", "unplacing",
   "launching", "confirming", "killing", "undoing", "restoring",
   "relaunching", "installing", "starting",
   "done", "rolledBack", "failed", "crashed"}
HelperEnded == {"none", "done", "rolledBack", "failed", "crashed"}
AppStates == {"none", "starting", "setup", "running", "leaving", "gone"}

CallRecords ==
  [pc : CallStates, pid : Pids \union {NoPid}, goal : Versions,
   kind : {"none", "windows-portable", "windows-nsis", "windows-msi"}]
HelperRecords == [pc : HelperStates, child : Pids \union {NoPid}]
AppRecords ==
  [state : AppStates, version : Versions, started : BOOLEAN,
   session : Calls \union {NoCall}]

Init ==
  /\ mode \in InstallModes
  /\ release = 1 /\ entry = 1
  /\ part = {}
  /\ staged = [c \in Calls |-> Absent]
  /\ ready = [c \in Calls |-> NoPid]
  /\ backup = [c \in Calls |-> Absent]
  /\ call = [c \in Calls |-> [pc |-> "idle", pid |-> NoPid, goal |-> 1, kind |-> "none"]]
  /\ helper = [c \in Calls |-> [pc |-> "none", child |-> NoPid]]
  /\ app = [p \in Pids |->
              [state |-> IF p = 1 THEN "running" ELSE "none",
               version |-> 1, started |-> FALSE, session |-> NoCall]]
  /\ instance = 1
  /\ vacated = NoCall /\ trusted = {1}
  /\ failures = 0 /\ userStarts = 0

Alive(p) == app[p].state \notin {"none", "gone"}
Fail == failures < MaxFailures /\ failures' = failures + 1 /\ UNCHANGED userStarts

\* Process ids are given in order.
Fresh(p) == app[p].state = "none" /\ \A q \in 1..(p - 1) : app[q].state # "none"
CallAt(c, pc) == call[c].pc = pc /\ Alive(call[c].pid)
CallTo(c, pc) == call' = [call EXCEPT ![c].pc = pc]
HelperAt(c, pc) == helper[c].pc = pc
HelperTo(c, pc) == helper' = [helper EXCEPT ![c].pc = pc]
AppTo(p, state) == app' = [app EXCEPT ![p].state = state]

\* A process is started from the entry; `session` is its READY_ENV.
Spawn(p, session) ==
  /\ Fresh(p)
  /\ app' = [app EXCEPT ![p] = [state |-> "starting", version |-> entry,
                                started |-> FALSE, session |-> session]]

-----------------------------------------------------------------------------
(* The command install_update. *)

\* A newer release is published.  When no command is about to look, it makes no
\* difference when that happened.
Publish ==
  /\ release < Len(Tags)
  /\ \E c \in Calls : call[c].pc = "asking"
  /\ release' = release + 1
  /\ UNCHANGED << mode, fileVars, call, helper, appVars, bounds >>

\* INSTALL_LOCK is held from the start of the command to its return.
Installing(p) ==
  \E c \in Calls : /\ call[c].pid = p
                   /\ call[c].pc \in {"asking", "downloading", "published", "stopping"}

\* Mutant: INSTALL_STARTED is not looked at.
MayInstallAgain(p) == ~Installing(p)

\* The window is there until the process is gone, so a second click is possible at
\* any time: it is refused while another runs, and once an installer was started.
MayInstall(p) == ~Installing(p) /\ ~app[p].started

Ask(c, p) ==
  /\ call[c].pc = "idle" /\ \A d \in 1..(c - 1) : call[d].pc # "idle"
  /\ app[p].state \in {"running", "leaving"}
  /\ call' = [call EXCEPT ![c].pid = p,
                          ![c].pc = IF MayInstall(p) THEN "asking" ELSE "refused"]
  /\ UNCHANGED << mode, release, fileVars, helper, appVars, bounds >>

\* The release is no newer than this program: nothing to install.
UpToDate(c) ==
  /\ CallAt(c, "asking")
  /\ ~IsNewer(Tags[release], Tags[app[call[c].pid].version])
  /\ call' = [call EXCEPT ![c].pc = "upToDate", ![c].goal = release]
  /\ UNCHANGED << mode, release, fileVars, helper, appVars, bounds >>

\* An artifact is selected (the preferred one, or the one the user picked), its
\* manifest is read and verified, the session directory and the .part are created.
Select(c) ==
  /\ CallAt(c, "asking")
  /\ IsNewer(Tags[release], Tags[app[call[c].pid].version])
  /\ \E a \in Artifacts(Assets, mode, Arch) :
       /\ Automatic(a, TRUE)
       /\ call' = [call EXCEPT ![c].pc = "downloading", ![c].goal = release,
                               ![c].kind = a.kind]
  /\ part' = part \union {c}
  /\ UNCHANGED << mode, release, entry, staged, ready, backup, vacated, trusted,
                  helper, appVars, bounds >>

\* The network, a missing or invalid manifest, a manual build: the command ends.
Refuse(c) ==
  /\ CallAt(c, "asking")
  /\ CallTo(c, "refused")
  /\ UNCHANGED << mode, release, fileVars, helper, appVars, bounds >>

\* The first bytes are those of a program, which an incomplete file may have too.
WellFormed(content) == content # Absent

\* The digest of what was received is compared with that of the manifest.
DigestMatches(content, c) == content = call[c].goal

\* The body was received: complete and what the manifest says, or not. The .part
\* becomes the download, or is removed with its directory when it is dropped.
Receive(c) ==
  /\ CallAt(c, "downloading")
  /\ \E content \in {Absent, Altered, call[c].goal} :
       \/ /\ DigestMatches(content, c) /\ WellFormed(content)
          /\ staged' = [staged EXCEPT ![c] = content]
          /\ trusted' = trusted \union {content}
          /\ CallTo(c, "published")
       \/ /\ ~(DigestMatches(content, c) /\ WellFormed(content))
          /\ CallTo(c, "refused")
          /\ UNCHANGED << staged, trusted >>
  /\ part' = part \ {c}
  /\ UNCHANGED << mode, release, entry, ready, backup, vacated, helper, appVars, bounds >>

\* InstallPlan::new: the entry and the download are files, and no earlier
\* rollback file of this session would be overwritten.
PlanIsPossible(c) == entry # Absent /\ staged[c] # Absent /\ backup[c] = Absent

\* launch_update_installer: the program is copied and started as the helper. No
\* other call sees the command between the start and INSTALL_STARTED.
LaunchHelper(c) ==
  /\ CallAt(c, "published")
  /\ entry # Absent
  /\ call[c].kind = "windows-portable" => PlanIsPossible(c)
  /\ HelperTo(c, "waiting")
  /\ app' = [app EXCEPT ![call[c].pid].started = TRUE]
  /\ CallTo(c, "stopping")
  /\ UNCHANGED << mode, release, fileVars, instance, bounds >>

HelperNotLaunched(c) ==
  /\ CallAt(c, "published")
  /\ \/ /\ \/ entry = Absent
           \/ call[c].kind = "windows-portable" /\ ~PlanIsPossible(c)
        /\ UNCHANGED bounds
     \/ Fail
  /\ CallTo(c, "refused")
  /\ UNCHANGED << mode, release, fileVars, helper, appVars >>

\* The proxy is stopped and the logs are flushed, the single-instance lock is
\* destroyed and the exit is scheduled.
Stop(c) ==
  /\ CallAt(c, "stopping")
  /\ CallTo(c, "over")
  /\ AppTo(call[c].pid, "leaving")
  /\ instance' = IF instance = call[c].pid THEN NoPid ELSE instance
  /\ UNCHANGED << mode, release, fileVars, helper, bounds >>

-----------------------------------------------------------------------------
(* Applications. *)

Gone(p) ==
  /\ AppTo(p, "gone")
  /\ instance' = IF instance = p THEN NoPid ELSE instance

\* app.exit after UPDATE_EXIT_DELAY and the flush of RunEvent::Exit.
Leave(p) ==
  /\ app[p].state = "leaving"
  /\ Gone(p)
  /\ UNCHANGED << mode, release, fileVars, call, helper, bounds >>

\* The user quits from the tray, or closes the window of a program that does not
\* run in the background. A download in progress leaves its .part behind.
Quit(p) ==
  /\ app[p].state = "running"
  /\ Gone(p)
  /\ UNCHANGED << mode, release, fileVars, call, helper, bounds >>

StartByUser ==
  /\ userStarts < UserStarts /\ userStarts' = userStarts + 1
  /\ entry # Absent
  /\ \E p \in Pids : Spawn(p, NoCall)
  /\ UNCHANGED << mode, release, fileVars, call, helper, instance, failures >>

\* Mutant: a second application starts like the first.
BootBeside(p) ==
  /\ app[p].state = "starting"
  /\ AppTo(p, "setup")
  /\ instance' = p
  /\ UNCHANGED << mode, release, fileVars, call, helper, bounds >>

\* The single-instance plugin comes before the setup: a second one shows the
\* window of the first and exits.
Boot(p) ==
  /\ app[p].state = "starting"
  /\ IF instance = NoPid
       THEN /\ instance' = p
            /\ AppTo(p, "setup")
       ELSE Gone(p)
  /\ UNCHANGED << mode, release, fileVars, call, helper, bounds >>

\* The end of setup: mark_ready writes the pid to the session's ready file, which
\* must not exist.
SetUp(p) ==
  /\ app[p].state = "setup"
  /\ LET s == app[p].session IN
       /\ IF s = NoCall THEN UNCHANGED ready
          ELSE ready[s] = NoPid /\ ready' = [ready EXCEPT ![s] = p]
  /\ AppTo(p, "running")
  /\ UNCHANGED << mode, release, entry, part, staged, backup, vacated, trusted,
                  call, helper, instance, bounds >>

\* bootstrap (the database, say) or mark_ready fails and the process ends.
SetUpFails(p) ==
  /\ app[p].state = "setup"
  /\ \/ app[p].session # NoCall /\ ready[app[p].session] # NoPid /\ UNCHANGED bounds
     \/ Fail
  /\ Gone(p)
  /\ UNCHANGED << mode, release, fileVars, call, helper >>

-----------------------------------------------------------------------------
(* The helper: run_windows_update_helper_from_args. *)

\* wait_for_process_exit: without the old program's exit nothing is touched.
ParentExited(c) ==
  /\ HelperAt(c, "waiting")
  /\ ~Alive(call[c].pid)
  /\ HelperTo(c, IF call[c].kind = "windows-portable" THEN "checking" ELSE "installing")
  /\ UNCHANGED << mode, release, fileVars, call, appVars, bounds >>

\* 30 seconds are over, or the wait fails.
GiveUpWaiting(c) ==
  /\ HelperAt(c, "waiting")
  /\ Alive(call[c].pid)
  /\ HelperTo(c, "failed")
  /\ UNCHANGED << mode, release, fileVars, call, appVars, bounds >>

\* Environment: the download is damaged while the helper waits.
Damage(c) ==
  /\ HelperAt(c, "waiting") /\ call[c].kind = "windows-portable"
  /\ staged[c] \notin {Absent, Altered}
  /\ Fail
  /\ staged' = [staged EXCEPT ![c] = Altered]
  /\ UNCHANGED << mode, release, entry, part, ready, backup, vacated, trusted,
                  call, helper, appVars >>

\* Mutant: the digest of the download is trusted.
VerifiedBefore(c) == staged[c] # Absent

\* What the helper installs is read again after the wait.
StillVerified(c) == DigestMatches(staged[c], c)

\* InstallPlan::new once more, then the digest and the ready file.
CheckPlan(c) ==
  /\ HelperAt(c, "checking")
  /\ HelperTo(c, IF PlanIsPossible(c) /\ StillVerified(c) /\ ready[c] = NoPid
                   THEN "keeping" ELSE "failed")
  /\ UNCHANGED << mode, release, fileVars, call, appVars, bounds >>

\* entry -> rollback file.  Nothing was done if it fails.
KeepOld(c) ==
  /\ HelperAt(c, "keeping") /\ entry # Absent
  /\ backup' = [backup EXCEPT ![c] = entry]
  /\ entry' = Absent
  /\ vacated' = c
  /\ HelperTo(c, "placing")
  /\ UNCHANGED << mode, release, part, staged, ready, trusted, call, appVars, bounds >>

OldNotKept(c) ==
  /\ HelperAt(c, "keeping")
  /\ \/ entry = Absent /\ UNCHANGED bounds
     \/ Fail
  /\ HelperTo(c, "failed")
  /\ UNCHANGED << mode, release, fileVars, call, appVars >>

\* staged download -> entry.
PlaceNew(c) ==
  /\ HelperAt(c, "placing")
  /\ entry' = staged[c]
  /\ staged' = [staged EXCEPT ![c] = Absent]
  /\ HelperTo(c, "launching")
  /\ UNCHANGED << mode, release, part, ready, backup, vacated, trusted, call, appVars, bounds >>

NewNotPlaced(c) ==
  /\ HelperAt(c, "placing") /\ Fail
  /\ HelperTo(c, "unplacing")
  /\ UNCHANGED << mode, release, fileVars, call, appVars >>

\* rollback file -> entry, after either failure; `next` is what follows.
PutBack(c, pc, next) ==
  /\ HelperAt(c, pc)
  /\ entry' = backup[c]
  /\ backup' = [backup EXCEPT ![c] = Absent]
  /\ HelperTo(c, next)
  /\ UNCHANGED << mode, release, part, staged, ready, vacated, trusted, call, appVars, bounds >>

RestoreUnplaced(c) == PutBack(c, "unplacing", "failed")
RestoreOld(c) == PutBack(c, "restoring", "relaunching")

NotRestored(c) ==
  /\ helper[c].pc \in {"unplacing", "restoring"} /\ Fail
  /\ HelperTo(c, "failed")
  /\ UNCHANGED << mode, release, fileVars, call, appVars >>

\* launch_and_confirm: the new program is started with the path of the ready file.
LaunchNew(c) ==
  /\ HelperAt(c, "launching") /\ entry # Absent
  /\ \E p \in Pids :
       /\ Spawn(p, c)
       /\ helper' = [helper EXCEPT ![c].pc = "confirming", ![c].child = p]
  /\ UNCHANGED << mode, release, fileVars, call, instance, bounds >>

NewNotLaunched(c) ==
  /\ HelperAt(c, "launching")
  /\ \/ entry = Absent /\ UNCHANGED bounds
     \/ Fail
  /\ HelperTo(c, "undoing")
  /\ UNCHANGED << mode, release, fileVars, call, appVars >>

Confirmed(c) == ready[c] = helper[c].child

\* One round of the loop: an exit is seen first, then the ready file. A success
\* removes the ready file and the empty session directory and keeps the rollback file.
SeeReady(c) ==
  /\ HelperAt(c, "confirming") /\ Alive(helper[c].child)
  /\ Confirmed(c)
  /\ ready' = [ready EXCEPT ![c] = NoPid]
  /\ HelperTo(c, "done")
  /\ UNCHANGED << mode, release, entry, part, staged, backup, vacated, trusted,
                  call, appVars, bounds >>

SeeExit(c) ==
  /\ HelperAt(c, "confirming") /\ ~Alive(helper[c].child)
  /\ HelperTo(c, "undoing")
  /\ UNCHANGED << mode, release, fileVars, call, appVars, bounds >>

\* 30 seconds without a confirmation; it may still come before the kill.
StartTimeout(c) ==
  /\ HelperAt(c, "confirming") /\ Alive(helper[c].child)
  /\ ~Confirmed(c)
  /\ HelperTo(c, "killing")
  /\ UNCHANGED << mode, release, fileVars, call, appVars, bounds >>

KillNew(c) ==
  /\ HelperAt(c, "killing")
  /\ Gone(helper[c].child)
  /\ HelperTo(c, "undoing")
  /\ UNCHANGED << mode, release, fileVars, call, bounds >>

\* entry -> session directory: the failed program is kept for a diagnosis.
RemoveNew(c) ==
  /\ HelperAt(c, "undoing") /\ entry # Absent
  /\ staged' = [staged EXCEPT ![c] = entry]
  /\ entry' = Absent
  /\ vacated' = c
  /\ HelperTo(c, "restoring")
  /\ UNCHANGED << mode, release, part, ready, backup, trusted, call, appVars, bounds >>

\* Mutant: the error of the rename is ignored.
NewStaysAndRelaunches(c) ==
  /\ HelperAt(c, "undoing") /\ Fail
  /\ HelperTo(c, "relaunching")
  /\ UNCHANGED << mode, release, fileVars, call, appVars >>

NewNotRemoved(c) ==
  /\ HelperAt(c, "undoing")
  /\ \/ entry = Absent /\ UNCHANGED bounds
     \/ Fail
  /\ HelperTo(c, "failed")
  /\ UNCHANGED << mode, release, fileVars, call, appVars >>

\* Mutant: the rollback ends with the restored file.
RelaunchForgotten(c) ==
  /\ HelperAt(c, "relaunching")
  /\ HelperTo(c, "rolledBack")
  /\ UNCHANGED << mode, release, fileVars, call, appVars, bounds >>

\* The old program is started again, without a ready file.
Relaunch(c) ==
  /\ HelperAt(c, "relaunching") /\ entry # Absent
  /\ \E p \in Pids : Spawn(p, NoCall)
  /\ HelperTo(c, "rolledBack")
  /\ UNCHANGED << mode, release, fileVars, call, instance, bounds >>

NotRelaunched(c) ==
  /\ HelperAt(c, "relaunching")
  /\ \/ entry = Absent /\ UNCHANGED bounds
     \/ Fail
  /\ HelperTo(c, "failed")
  /\ UNCHANGED << mode, release, fileVars, call, appVars >>

\* The setup program of an installed build replaces the program by itself; its
\* exit code decides, and the new program is started but not waited for.
RunInstaller(c) ==
  /\ HelperAt(c, "installing")
  /\ \/ entry' = staged[c] /\ HelperTo(c, "starting") /\ UNCHANGED bounds
     \/ Fail /\ HelperTo(c, "failed") /\ UNCHANGED entry
  /\ UNCHANGED << mode, release, part, staged, ready, backup, vacated, trusted, call, appVars >>

StartInstalled(c) ==
  /\ HelperAt(c, "starting")
  /\ \E p \in Pids : Spawn(p, NoCall)
  /\ HelperTo(c, "done")
  /\ UNCHANGED << mode, release, fileVars, call, instance, bounds >>

InstalledNotStarted(c) ==
  /\ HelperAt(c, "starting") /\ Fail
  /\ HelperTo(c, "failed")
  /\ UNCHANGED << mode, release, fileVars, call, appVars >>

-----------------------------------------------------------------------------
(* Faults. *)

HelperLost(c) ==
  /\ helper[c].pc \notin HelperEnded /\ Fail
  /\ HelperTo(c, "crashed")
  /\ UNCHANGED << mode, release, fileVars, call, appVars >>

\* Everything stops where it is; the files stay as they are.
PowerCut ==
  /\ Fail
  /\ app' = [p \in Pids |-> IF Alive(p) THEN [app[p] EXCEPT !.state = "gone"] ELSE app[p]]
  /\ instance' = NoPid
  /\ helper' = [c \in Calls |-> IF helper[c].pc \in HelperEnded THEN helper[c]
                                ELSE [helper[c] EXCEPT !.pc = "crashed"]]
  /\ UNCHANGED << mode, release, fileVars, call >>

-----------------------------------------------------------------------------
CallStep(c) ==
  \/ \E p \in Pids : Ask(c, p)
  \/ UpToDate(c) \/ Select(c) \/ Refuse(c) \/ Receive(c)
  \/ LaunchHelper(c) \/ HelperNotLaunched(c) \/ Stop(c)

AppStep(p) == Leave(p) \/ Quit(p) \/ Boot(p) \/ SetUp(p) \/ SetUpFails(p)

HelperStep(c) ==
  \/ ParentExited(c) \/ GiveUpWaiting(c) \/ CheckPlan(c)
  \/ KeepOld(c) \/ OldNotKept(c) \/ PlaceNew(c) \/ NewNotPlaced(c)
  \/ RestoreUnplaced(c) \/ RestoreOld(c) \/ NotRestored(c)
  \/ LaunchNew(c) \/ NewNotLaunched(c)
  \/ SeeReady(c) \/ SeeExit(c) \/ StartTimeout(c) \/ KillNew(c)
  \/ RemoveNew(c) \/ NewNotRemoved(c) \/ Relaunch(c) \/ NotRelaunched(c)
  \/ RunInstaller(c) \/ StartInstalled(c) \/ InstalledNotStarted(c)

Next ==
  \/ Publish \/ StartByUser \/ PowerCut
  \/ \E c \in Calls : CallStep(c) \/ HelperStep(c) \/ Damage(c) \/ HelperLost(c)
  \/ \E p \in Pids : AppStep(p)

Spec == Init /\ [][Next]_vars

\* The helper runs, with its waits bounded by 30 seconds each; a command that has
\* launched it goes on (its flush is bounded by 5 seconds) and the program exits; a
\* program that was started reaches the end of its setup or ends.  Nothing is
\* assumed of the user, of downloads, or of releases.  It is enough that one of
\* these steps happens while any is possible: none of them can be taken forever.
Progress ==
  \/ \E c \in Calls : HelperStep(c) \/ Stop(c)
  \/ \E p \in Pids : Leave(p) \/ Boot(p) \/ SetUp(p) \/ SetUpFails(p)

FairSpec == Spec /\ WF_vars(Progress)

-----------------------------------------------------------------------------
TypeOK ==
  /\ mode \in InstallModes /\ release \in Versions
  /\ entry \in Contents
  /\ part \subseteq Calls
  /\ staged \in [Calls -> Contents] /\ backup \in [Calls -> Contents]
  /\ ready \in [Calls -> Pids \union {NoPid}]
  /\ call \in [Calls -> CallRecords]
  /\ helper \in [Calls -> HelperRecords]
  /\ app \in [Pids -> AppRecords]
  /\ instance \in Pids \union {NoPid}
  /\ vacated \in Calls \union {NoCall}
  /\ trusted \subseteq Versions
  /\ failures \in 0..MaxFailures /\ userStarts \in 0..UserStarts

(***************************************************************************)
(* The replacement implements ProgramStore: wherever the helper stops, by  *)
(* a failed rename, a crash or a power cut, the entry or the rollback file *)
(* of the call that moved it away is a complete program, and it was there  *)
(* from the start or was verified against its manifest -- even when a      *)
(* second application, started by the user in the window between the end   *)
(* of the single-instance lock and the exit, installs at the same time     *)
(* (portable_update.rs:76-103).                                            *)
(***************************************************************************)
Recoverable ==
  IF entry # Absent THEN entry
  ELSE IF vacated = NoCall THEN Absent ELSE backup[vacated]

Store == INSTANCE ProgramStore WITH program <- Recoverable, First <- 1

ProgramSurvives == Store!StoreSpec

(***************************************************************************)
(* The shortcut of the user leads to nothing only between the two renames  *)
(* of an installation or of a rollback: a helper that gives up has put the *)
(* old program back, unless that very rename failed or it was lost there   *)
(* (portable_update.rs:89-100).                                            *)
(***************************************************************************)
EntryIsRestored ==
  [][\A c \in Calls :
       /\ helper[c].pc # "failed" /\ helper'[c].pc = "failed"
       /\ entry' = Absent /\ vacated = c
       => helper[c].pc \in {"unplacing", "restoring"}]_vars

(***************************************************************************)
(* An application is told that it is up to date exactly when nothing later *)
(* than itself was published, however the release encodes its revision     *)
(* (commands.rs:1859-1903).                                                *)
(***************************************************************************)
NewerIsOffered ==
  \A c \in Calls :
    LET version == app[call[c].pid].version IN
      /\ call[c].pc = "upToDate" => call[c].goal <= version
      /\ call[c].pc \in {"downloading", "published", "stopping", "over"} =>
           call[c].goal > version

(***************************************************************************)
(* One application starts at most one helper, although its window takes    *)
(* clicks until the process is gone: the lock covers the command, and      *)
(* INSTALL_STARTED the time after it (commands.rs:973-985, 1049).          *)
(***************************************************************************)
OneHelperPerProgram ==
  \A c, d \in Calls :
    /\ c # d /\ call[c].pid = call[d].pid
    /\ helper[c].pc # "none"
    => helper[d].pc = "none"

(***************************************************************************)
(* Two applications never serve at once, and a program that a helper       *)
(* started never runs beside the one it replaces: both would listen on the *)
(* port and write the database (commands.rs:1409-1450, main.rs:48-50).     *)
(***************************************************************************)
OneServes ==
  /\ \A p, q \in Pids :
       app[p].state \in {"setup", "running"} /\ app[q].state \in {"setup", "running"}
         => p = q
  /\ \A p \in Pids :
       app[p].session # NoCall /\ Alive(p) => ~Alive(call[app[p].session].pid)

(* One helper for a program, and one program for the port and the database.*)
OneAtATime == OneHelperPerProgram /\ OneServes

(***************************************************************************)
(* If no other helper interferes, a rollback ends with the very version    *)
(* that was running before, whichever step of the start failed             *)
(* (portable_update.rs:95-103).                                            *)
(***************************************************************************)
RollbackIsExact ==
  \A c \in Calls :
    /\ helper[c].pc \in {"relaunching", "rolledBack"}
    /\ \A d \in Calls \ {c} : helper[d].pc = "none"
    => entry = app[call[c].pid].version

(***************************************************************************)
(* An installation is kept only if the program it started, and no other,   *)
(* has come to the end of its setup (portable_update.rs:122-143, 166-179). *)
(***************************************************************************)
KeptIsSetUp ==
  [][\A c \in Calls :
       helper[c].pc = "confirming" /\ helper'[c].pc = "done" =>
         app[helper[c].child].state \in {"running", "leaving"}]_vars

(***************************************************************************)
(* After the handover some application runs again, the new one or, after a *)
(* start that times out, the old one -- unless something failed or the     *)
(* helper gave up waiting (README:388).                                    *)
(***************************************************************************)
Resumed ==
  \A c \in Calls :
    call[c].pc = "over" /\ helper[c].pc = "waiting" ~>
      \/ \E p \in Pids \ {call[c].pid} : app[p].state = "running"
      \/ failures > 0 \/ helper[c].pc = "failed"
=============================================================================
