---------------------------- MODULE UpdateProofs ----------------------------
(***************************************************************************)
(* Theorems about the installation of updates (module Update), for every   *)
(* number of releases, calls, processes started by the user and failures.  *)
(*                                                                         *)
(*   TypeCorrect          every variable keeps its type                    *)
(*   StoreImplemented     the replacement implements ProgramStore: there   *)
(*                        is always a verified program                     *)
(*   EntryIsRestoredHolds a helper that gives up has put the program back  *)
(*   OneHelperHolds       an application starts one helper at most         *)
(*   OneServesHolds       two applications never serve at once             *)
(*   KeptIsSetUpHolds     an installation is kept only if it has started   *)
(*   NewerIsOfferedHolds  a program is told of what is newer, and only that*)
(*   RollbackIsExactHolds a rollback ends with the version that ran before *)
(*                                                                         *)
(* The invariant joins what is on disk (Files) with what processes there   *)
(* are (Processes): that a file is verified follows from the place of its  *)
(* call and of its helper, and that nobody else moves the entry of an      *)
(* installed build from the mode, which no step changes (Kinds).           *)
(***************************************************************************)
EXTENDS Update, TLAPS

\* The helper has moved the old program to its rollback file.
Kept == {"placing", "unplacing", "launching", "confirming", "killing", "undoing",
         "restoring"}
PortableSteps == {"checking", "keeping", "placing", "unplacing", "launching", "confirming",
                  "killing", "undoing", "restoring", "relaunching"}
InstallerSteps == {"installing", "starting"}
Busy == {"asking", "downloading", "published", "stopping"}

\* A portable program is replaced by renames and an installed one by its installer.
Kinds ==
  /\ \A c \in Calls :
       /\ call[c].pc \in {"downloading", "published"} => call[c].kind # "none"
       /\ helper[c].pc # "none" => call[c].kind # "none"
       /\ call[c].kind # "none" => (call[c].kind = "windows-portable" <=> mode = "portable")
       /\ helper[c].pc \in PortableSteps => mode = "portable"
       /\ helper[c].pc \in InstallerSteps => mode = "installed"
  /\ mode = "installed" => entry # Absent

\* What is on disk at the places the helper moves files from is verified.
Files ==
  /\ entry \in trusted \union {Absent}
  /\ entry = Absent =>
       /\ vacated \in Calls
       /\ backup[vacated] \in trusted
       /\ helper[vacated].pc \in {"placing", "unplacing", "restoring", "failed", "crashed"}
  /\ \A c \in Calls :
       /\ backup[c] \in trusted \union {Absent}
       /\ staged[c] \in trusted \union {Absent, Altered}
       /\ helper[c].pc \in Kept => backup[c] \in trusted
       /\ call[c].pc = "published" => staged[c] \in trusted
       /\ helper[c].pc \in {"keeping", "placing"} => staged[c] \in trusted
       /\ helper[c].pc \in {"waiting", "installing"} /\ mode = "installed" =>
            staged[c] \in trusted

\* Who runs, who has ended and who was started by whom.
Processes ==
  /\ \A p \in Pids : app[p].state \in {"setup", "running"} => instance = p
  /\ \A c \in Calls :
       /\ call[c].pc # "idle" => call[c].pid \in Pids /\ app[call[c].pid].state # "none"
       /\ call[c].pc = "idle" => call[c].pid = NoPid
       /\ helper[c].pc # "none" =>
            call[c].pc \in {"stopping", "over"} /\ app[call[c].pid].started
       /\ helper[c].pc \in PortableSteps \/ helper[c].pc \in InstallerSteps =>
            app[call[c].pid].state = "gone"
       /\ call[c].pc \in {"asking", "downloading", "published"} =>
            ~app[call[c].pid].started
       /\ ready[c] # NoPid => app[ready[c]].state \in {"running", "leaving", "gone"}
       /\ helper[c].pc \in {"confirming", "killing"} => helper[c].child # NoPid
  /\ \A p \in Pids : app[p].session # NoCall =>
       /\ helper[app[p].session].pc # "none"
       /\ app[call[app[p].session].pid].state = "gone"
  /\ \A c, d \in Calls :
       c # d /\ call[c].pid = call[d].pid /\ call[c].pc \in Busy => call[d].pc \notin Busy

Inv == TypeOK /\ Kinds /\ Files /\ Processes /\ OneHelperPerProgram

-----------------------------------------------------------------------------
(* What a single write does, and what it leaves as it was. *)

\* A failure is counted and nothing else.
LEMMA FailFrame ==
    TypeOK /\ Fail => failures' \in 0..MaxFailures /\ userStarts' = userStarts
  BY UpdateAssumption DEF TypeOK, Fail

\* What is absent or altered was never verified.
LEMMA Untrusted ==
    /\ TypeOK => Absent \notin trusted /\ Altered \notin trusted
    /\ Absent \notin Versions /\ Altered \notin Versions
    /\ Versions \subseteq Contents /\ Absent \in Contents /\ Altered \in Contents
  BY UpdateAssumption DEF TypeOK, Absent, Altered, Versions, Contents

\* No process and no call has number 0.
LEMMA Numbers == /\ NoPid \notin Pids /\ NoCall \notin Calls /\ 1 \in Pids /\ 1 \in Versions
                 /\ NoPid = NoCall
  BY UpdateAssumption DEF NoPid, NoCall, Pids, Calls, Versions

\* A helper goes on.
LEMMA HelperFrame ==
    ASSUME TypeOK, NEW c \in Calls, NEW s, HelperTo(c, s)
    PROVE  /\ helper'[c].pc = s /\ helper'[c].child = helper[c].child
           /\ \A d \in Calls \ {c} : helper'[d] = helper[d]
           /\ s \in HelperStates => helper' \in [Calls -> HelperRecords]
  BY DEF TypeOK, HelperTo, HelperRecords

\* A call goes on.
LEMMA CallFrame ==
    ASSUME TypeOK, NEW c \in Calls, NEW s, CallTo(c, s)
    PROVE  /\ call'[c].pc = s /\ call'[c].pid = call[c].pid
           /\ call'[c].goal = call[c].goal /\ call'[c].kind = call[c].kind
           /\ \A d \in Calls \ {c} : call'[d] = call[d]
           /\ s \in CallStates => call' \in [Calls -> CallRecords]
  BY DEF TypeOK, CallTo, CallRecords

\* An application goes on.
LEMMA AppFrame ==
    ASSUME TypeOK, NEW p \in Pids, NEW s, AppTo(p, s)
    PROVE  /\ app'[p].state = s /\ app'[p].version = app[p].version
           /\ app'[p].started = app[p].started /\ app'[p].session = app[p].session
           /\ \A q \in Pids \ {p} : app'[q] = app[q]
           /\ s \in AppStates => app' \in [Pids -> AppRecords]
  BY DEF TypeOK, AppTo, AppRecords

\* A new process starts from the entry.
LEMMA SpawnFrame ==
    ASSUME TypeOK, NEW p \in Pids, NEW s \in Calls \union {NoCall}, Spawn(p, s)
    PROVE  /\ app[p].state = "none" /\ app'[p].state = "starting"
           /\ app'[p].version = entry /\ ~app'[p].started /\ app'[p].session = s
           /\ \A q \in Pids \ {p} : app'[q] = app[q]
           /\ entry \in Versions => app' \in [Pids -> AppRecords]
  BY DEF TypeOK, AppRecords, AppStates, Spawn, Fresh

\* INSTALL_STARTED is set while the helper is started.
LEMMA LaunchFrame ==
    ASSUME TypeOK, Processes, NEW c \in Calls, LaunchHelper(c)
    PROVE  /\ HelperTo(c, "waiting") /\ CallTo(c, "stopping") /\ call[c].pc = "published"
           /\ app' \in [Pids -> AppRecords]
           /\ \A p \in Pids : /\ app'[p].state = app[p].state
                              /\ app'[p].version = app[p].version
                              /\ app'[p].session = app[p].session
                              /\ app'[p].started = (p = call[c].pid \/ app[p].started)
           /\ UNCHANGED << mode, release, fileVars, instance, bounds >>
<1>1. call[c].pc = "published"
  BY DEF LaunchHelper, CallAt
<1>2. call[c].pid \in Pids
  BY <1>1 DEF Processes
<1> QED
  BY <1>1, <1>2 DEF TypeOK, AppRecords, LaunchHelper

\* The process that the helper started is its child.
LEMMA ChildFrame ==
    ASSUME TypeOK, NEW c \in Calls, LaunchNew(c)
    PROVE  /\ helper[c].pc = "launching" /\ entry # Absent
           /\ helper' \in [Calls -> HelperRecords]
           /\ helper'[c].pc = "confirming"
           /\ \A d \in Calls \ {c} : helper'[d] = helper[d]
           /\ \E p \in Pids : Spawn(p, c) /\ helper'[c].child = p
           /\ UNCHANGED << mode, release, fileVars, call, instance, bounds >>
<1>1. PICK p \in Pids :
        Spawn(p, c) /\ helper' = [helper EXCEPT ![c].pc = "confirming", ![c].child = p]
  BY DEF LaunchNew
<1>2. /\ helper' \in [Calls -> HelperRecords]
      /\ helper'[c].pc = "confirming" /\ helper'[c].child = p
      /\ \A d \in Calls \ {c} : helper'[d] = helper[d]
  BY <1>1 DEF TypeOK, HelperRecords, HelperStates
<1> QED
  BY <1>1, <1>2 DEF LaunchNew, HelperAt

\* All processes end together.
LEMMA PowerFrame ==
    ASSUME TypeOK, PowerCut
    PROVE  /\ app' \in [Pids -> AppRecords]
           /\ \A p \in Pids :
                /\ app'[p].state = IF Alive(p) THEN "gone" ELSE app[p].state
                /\ app'[p].version = app[p].version
                /\ app'[p].started = app[p].started /\ app'[p].session = app[p].session
           /\ helper' \in [Calls -> HelperRecords]
           /\ \A c \in Calls :
                helper'[c].pc = IF helper[c].pc \in HelperEnded THEN helper[c].pc
                                ELSE "crashed"
           /\ instance' = NoPid
           /\ UNCHANGED << mode, release, fileVars, call >>
           /\ Fail
<1>1. ASSUME NEW p \in Pids
      PROVE  /\ [app[p] EXCEPT !.state = "gone"] \in AppRecords
             /\ [app[p] EXCEPT !.state = "gone"].state = "gone"
             /\ [app[p] EXCEPT !.state = "gone"].version = app[p].version
             /\ [app[p] EXCEPT !.state = "gone"].started = app[p].started
             /\ [app[p] EXCEPT !.state = "gone"].session = app[p].session
  BY DEF TypeOK, AppRecords, AppStates
<1>2. ASSUME NEW c \in Calls
      PROVE  /\ [helper[c] EXCEPT !.pc = "crashed"] \in HelperRecords
             /\ [helper[c] EXCEPT !.pc = "crashed"].pc = "crashed"
  BY DEF TypeOK, HelperRecords, HelperStates
<1>3. /\ app' \in [Pids -> AppRecords]
      /\ \A p \in Pids :
           /\ app'[p].state = IF Alive(p) THEN "gone" ELSE app[p].state
           /\ app'[p].version = app[p].version
           /\ app'[p].started = app[p].started /\ app'[p].session = app[p].session
  BY <1>1 DEF PowerCut, TypeOK
<1>4. /\ helper' \in [Calls -> HelperRecords]
      /\ \A c \in Calls :
           helper'[c].pc = IF helper[c].pc \in HelperEnded THEN helper[c].pc ELSE "crashed"
  BY <1>2 DEF PowerCut, TypeOK
<1> QED
  BY <1>3, <1>4 DEF PowerCut

\* A click is refused or makes a call.
LEMMA AskFrame ==
    ASSUME TypeOK, NEW c \in Calls, NEW p \in Pids, Ask(c, p)
    PROVE  /\ call[c].pc = "idle" /\ app[p].state \in {"running", "leaving"}
           /\ call' \in [Calls -> CallRecords]
           /\ call'[c].pc = IF MayInstall(p) THEN "asking" ELSE "refused"
           /\ call'[c].pid = p /\ call'[c].kind = call[c].kind
           /\ \A d \in Calls \ {c} : call'[d] = call[d]
           /\ UNCHANGED << mode, release, fileVars, helper, appVars, bounds >>
  BY DEF TypeOK, Ask, CallRecords, CallStates

\* An artifact is chosen by the mode.
LEMMA SelectFrame ==
    ASSUME TypeOK, NEW c \in Calls, Select(c)
    PROVE  /\ call[c].pc = "asking" /\ call' \in [Calls -> CallRecords]
           /\ IsNewer(Tags[release], Tags[app[call[c].pid].version])
           /\ call'[c].pc = "downloading" /\ call'[c].pid = call[c].pid
           /\ call'[c].goal = release /\ call'[c].kind # "none"
           /\ call'[c].kind = "windows-portable" <=> mode = "portable"
           /\ \A d \in Calls \ {c} : call'[d] = call[d]
           /\ part' = part \union {c}
           /\ UNCHANGED << mode, release, entry, staged, ready, backup, vacated, trusted,
                           helper, appVars, bounds >>
<1>1. PICK a \in Artifacts(Assets, mode, Arch) :
        /\ Automatic(a, TRUE)
        /\ call' = [call EXCEPT ![c].pc = "downloading", ![c].goal = release,
                               ![c].kind = a.kind]
  BY DEF Select
<1>2. /\ a.kind \in {"windows-portable", "windows-nsis", "windows-msi"}
      /\ a.kind = "windows-portable" <=> mode = "portable"
  BY <1>1 DEF TypeOK, Automatic, Artifacts, CurrentPlatform, InstallModes
<1>3. /\ call' \in [Calls -> CallRecords]
      /\ call'[c].pc = "downloading" /\ call'[c].pid = call[c].pid
      /\ call'[c].goal = release /\ call'[c].kind = a.kind
      /\ \A d \in Calls \ {c} : call'[d] = call[d]
  <2> DEFINE next == [call[c] EXCEPT !.pc = "downloading", !.goal = release,
                                    !.kind = a.kind]
  <2>1. call \in [Calls -> CallRecords]
    BY DEF TypeOK
  <2>2. /\ next \in CallRecords
        /\ next.pc = "downloading" /\ next.pid = call[c].pid
        /\ next.goal = release /\ next.kind = a.kind
    BY <1>2, <2>1 DEF TypeOK, CallRecords, CallStates
  <2>3. call' = [call EXCEPT ![c] = next]
    BY <1>1
  <2> HIDE DEF next
  <2> QED
    BY <2>1, <2>2, <2>3
<1> QED
  BY <1>2, <1>3 DEF Select, CallAt

\* There is nothing to install.
LEMMA UpToDateFrame ==
    ASSUME TypeOK, NEW c \in Calls, UpToDate(c)
    PROVE  /\ call[c].pc = "asking" /\ call' \in [Calls -> CallRecords]
           /\ ~IsNewer(Tags[release], Tags[app[call[c].pid].version])
           /\ call'[c].pc = "upToDate" /\ call'[c].pid = call[c].pid
           /\ call'[c].goal = release /\ call'[c].kind = call[c].kind
           /\ \A d \in Calls \ {c} : call'[d] = call[d]
           /\ UNCHANGED << mode, release, fileVars, helper, appVars, bounds >>
  BY DEF TypeOK, UpToDate, CallRecords, CallStates, CallAt

\* What the types say of single processes.
LEMMA Members ==
    ASSUME TypeOK
    PROVE  /\ \A c \in Calls : /\ call[c].pid \in Pids \union {NoPid}
                               /\ call[c].goal \in Versions
                               /\ helper[c].child \in Pids \union {NoPid}
                               /\ ready[c] \in Pids \union {NoPid}
           /\ \A p \in Pids : app[p].session \in Calls \union {NoCall}
           /\ instance \in Pids \union {NoPid}
  BY DEF TypeOK, CallRecords, HelperRecords, AppRecords

\* What the types say of the mode and of files.
LEMMA Places ==
    TypeOK => /\ mode \in {"portable", "installed"}
              /\ staged \in [Calls -> Contents] /\ backup \in [Calls -> Contents]
              /\ ready \in [Calls -> Pids \union {NoPid}]
  BY DEF TypeOK, InstallModes

\* A program that can be started is one of the releases.
LEMMA EntryIsVersion ==
    /\ Inv /\ entry # Absent => entry \in Versions
    /\ Inv /\ (\E c \in Calls : helper[c].pc = "starting") => entry \in Versions
<1>1. Inv => trusted \subseteq Versions
  BY DEF Inv, TypeOK
<1> QED
  BY <1>1 DEF Inv, Files, Kinds, InstallerSteps

-----------------------------------------------------------------------------
\* Every step keeps the types.
LEMMA TypePreserved == ASSUME Inv, Next PROVE TypeOK'
<1>1. ASSUME Publish PROVE TypeOK'
  BY <1>1, Untrusted, FailFrame, UpdateAssumption DEF Publish, CallAt, HelperAt,
     fileVars, appVars, bounds, Inv, TypeOK, CallStates, HelperStates, AppStates,
     Versions
<1>2. ASSUME StartByUser PROVE TypeOK'
  BY <1>2, Untrusted, FailFrame, SpawnFrame, EntryIsVersion, UpdateAssumption DEF
     StartByUser, CallAt, HelperAt, fileVars, appVars, bounds, Inv, TypeOK, CallStates,
     HelperStates, AppStates
<1>3. ASSUME PowerCut PROVE TypeOK'
  BY <1>3, Untrusted, FailFrame, PowerFrame DEF fileVars, appVars, bounds, Inv, TypeOK,
     CallStates, HelperStates, AppStates
<1>4. ASSUME NEW c \in Calls, NEW p \in Pids, Ask(c, p) PROVE TypeOK'
  BY <1>4, Untrusted, FailFrame, AskFrame DEF fileVars, appVars, bounds, Inv, TypeOK,
     CallStates, HelperStates, AppStates
<1>5. ASSUME NEW c \in Calls, UpToDate(c) PROVE TypeOK'
  BY <1>5, Untrusted, FailFrame, UpToDateFrame DEF fileVars, appVars, bounds, Inv,
     TypeOK, CallStates, HelperStates, AppStates
<1>6. ASSUME NEW c \in Calls, Select(c) PROVE TypeOK'
  BY <1>6, Untrusted, FailFrame, SelectFrame DEF fileVars, appVars, bounds, Inv,
     TypeOK, CallStates, HelperStates, AppStates
<1>7. ASSUME NEW c \in Calls, Refuse(c) PROVE TypeOK'
  BY <1>7, Untrusted, FailFrame, CallFrame DEF Refuse, CallAt, HelperAt, fileVars,
     appVars, bounds, Inv, TypeOK, CallStates, HelperStates, AppStates
<1>8. ASSUME NEW c \in Calls, Receive(c) PROVE TypeOK'
  BY <1>8, Untrusted, FailFrame, CallFrame, Members DEF Receive, DigestMatches,
     WellFormed, CallAt, HelperAt, fileVars, appVars, bounds, Inv, TypeOK, CallStates,
     HelperStates, AppStates
<1>9. ASSUME NEW c \in Calls, LaunchHelper(c) PROVE TypeOK'
  BY <1>9, Untrusted, FailFrame, LaunchFrame, CallFrame, HelperFrame DEF fileVars,
     appVars, bounds, Inv, TypeOK, CallStates, HelperStates, AppStates, Processes
<1>10. ASSUME NEW c \in Calls, HelperNotLaunched(c) PROVE TypeOK'
  BY <1>10, Untrusted, FailFrame, CallFrame DEF HelperNotLaunched, PlanIsPossible,
     CallAt, HelperAt, fileVars, appVars, bounds, Inv, TypeOK, CallStates,
     HelperStates, AppStates
<1>11. ASSUME NEW c \in Calls, Stop(c) PROVE TypeOK'
  BY <1>11, Untrusted, FailFrame, CallFrame, AppFrame, Members DEF Stop, CallAt,
     HelperAt, fileVars, appVars, bounds, Inv, TypeOK, CallStates, HelperStates,
     AppStates, Processes
<1>12. ASSUME NEW c \in Calls, ParentExited(c) PROVE TypeOK'
  BY <1>12, Untrusted, FailFrame, HelperFrame DEF ParentExited, CallAt, HelperAt,
     fileVars, appVars, bounds, Inv, TypeOK, CallStates, HelperStates, AppStates
<1>13. ASSUME NEW c \in Calls, GiveUpWaiting(c) PROVE TypeOK'
  BY <1>13, Untrusted, FailFrame, HelperFrame DEF GiveUpWaiting, CallAt, HelperAt,
     fileVars, appVars, bounds, Inv, TypeOK, CallStates, HelperStates, AppStates
<1>14. ASSUME NEW c \in Calls, CheckPlan(c) PROVE TypeOK'
  BY <1>14, Untrusted, FailFrame, HelperFrame DEF CheckPlan, PlanIsPossible,
     StillVerified, DigestMatches, CallAt, HelperAt, fileVars, appVars, bounds, Inv,
     TypeOK, CallStates, HelperStates, AppStates
<1>15. ASSUME NEW c \in Calls, KeepOld(c) PROVE TypeOK'
  BY <1>15, Untrusted, FailFrame, HelperFrame DEF KeepOld, CallAt, HelperAt, fileVars,
     appVars, bounds, Inv, TypeOK, CallStates, HelperStates, AppStates
<1>16. ASSUME NEW c \in Calls, OldNotKept(c) PROVE TypeOK'
  BY <1>16, Untrusted, FailFrame, HelperFrame DEF OldNotKept, CallAt, HelperAt,
     fileVars, appVars, bounds, Inv, TypeOK, CallStates, HelperStates, AppStates
<1>17. ASSUME NEW c \in Calls, PlaceNew(c) PROVE TypeOK'
  BY <1>17, Untrusted, FailFrame, HelperFrame DEF PlaceNew, CallAt, HelperAt, fileVars,
     appVars, bounds, Inv, TypeOK, CallStates, HelperStates, AppStates
<1>18. ASSUME NEW c \in Calls, NewNotPlaced(c) PROVE TypeOK'
  BY <1>18, Untrusted, FailFrame, HelperFrame DEF NewNotPlaced, CallAt, HelperAt,
     fileVars, appVars, bounds, Inv, TypeOK, CallStates, HelperStates, AppStates
<1>19. ASSUME NEW c \in Calls, RestoreUnplaced(c) PROVE TypeOK'
  BY <1>19, Untrusted, FailFrame, HelperFrame DEF RestoreUnplaced, PutBack, CallAt,
     HelperAt, fileVars, appVars, bounds, Inv, TypeOK, CallStates, HelperStates,
     AppStates
<1>20. ASSUME NEW c \in Calls, RestoreOld(c) PROVE TypeOK'
  BY <1>20, Untrusted, FailFrame, HelperFrame DEF RestoreOld, PutBack, CallAt,
     HelperAt, fileVars, appVars, bounds, Inv, TypeOK, CallStates, HelperStates,
     AppStates
<1>21. ASSUME NEW c \in Calls, NotRestored(c) PROVE TypeOK'
  BY <1>21, Untrusted, FailFrame, HelperFrame DEF NotRestored, CallAt, HelperAt,
     fileVars, appVars, bounds, Inv, TypeOK, CallStates, HelperStates, AppStates
<1>22. ASSUME NEW c \in Calls, LaunchNew(c) PROVE TypeOK'
  BY <1>22, Untrusted, FailFrame, ChildFrame, SpawnFrame, EntryIsVersion DEF fileVars,
     appVars, bounds, Inv, TypeOK, CallStates, HelperStates, AppStates
<1>23. ASSUME NEW c \in Calls, NewNotLaunched(c) PROVE TypeOK'
  BY <1>23, Untrusted, FailFrame, HelperFrame DEF NewNotLaunched, CallAt, HelperAt,
     fileVars, appVars, bounds, Inv, TypeOK, CallStates, HelperStates, AppStates
<1>24. ASSUME NEW c \in Calls, SeeReady(c) PROVE TypeOK'
  BY <1>24, Untrusted, FailFrame, HelperFrame DEF SeeReady, Confirmed, CallAt,
     HelperAt, fileVars, appVars, bounds, Inv, TypeOK, CallStates, HelperStates,
     AppStates
<1>25. ASSUME NEW c \in Calls, SeeExit(c) PROVE TypeOK'
  BY <1>25, Untrusted, FailFrame, HelperFrame DEF SeeExit, CallAt, HelperAt, fileVars,
     appVars, bounds, Inv, TypeOK, CallStates, HelperStates, AppStates
<1>26. ASSUME NEW c \in Calls, StartTimeout(c) PROVE TypeOK'
  BY <1>26, Untrusted, FailFrame, HelperFrame DEF StartTimeout, CallAt, HelperAt,
     fileVars, appVars, bounds, Inv, TypeOK, CallStates, HelperStates, AppStates
<1>27. ASSUME NEW c \in Calls, KillNew(c) PROVE TypeOK'
  BY <1>27, Untrusted, FailFrame, HelperFrame, AppFrame, Members DEF KillNew, Gone,
     CallAt, HelperAt, fileVars, appVars, bounds, Inv, TypeOK, CallStates,
     HelperStates, AppStates, Processes
<1>28. ASSUME NEW c \in Calls, RemoveNew(c) PROVE TypeOK'
  BY <1>28, Untrusted, FailFrame, HelperFrame DEF RemoveNew, CallAt, HelperAt,
     fileVars, appVars, bounds, Inv, TypeOK, CallStates, HelperStates, AppStates
<1>29. ASSUME NEW c \in Calls, NewNotRemoved(c) PROVE TypeOK'
  BY <1>29, Untrusted, FailFrame, HelperFrame DEF NewNotRemoved, CallAt, HelperAt,
     fileVars, appVars, bounds, Inv, TypeOK, CallStates, HelperStates, AppStates
<1>30. ASSUME NEW c \in Calls, Relaunch(c) PROVE TypeOK'
  BY <1>30, Untrusted, FailFrame, HelperFrame, SpawnFrame, EntryIsVersion DEF Relaunch,
     CallAt, HelperAt, fileVars, appVars, bounds, Inv, TypeOK, CallStates,
     HelperStates, AppStates
<1>31. ASSUME NEW c \in Calls, NotRelaunched(c) PROVE TypeOK'
  BY <1>31, Untrusted, FailFrame, HelperFrame DEF NotRelaunched, CallAt, HelperAt,
     fileVars, appVars, bounds, Inv, TypeOK, CallStates, HelperStates, AppStates
<1>32. ASSUME NEW c \in Calls, RunInstaller(c) PROVE TypeOK'
  BY <1>32, Untrusted, FailFrame, HelperFrame DEF RunInstaller, CallAt, HelperAt,
     fileVars, appVars, bounds, Inv, TypeOK, CallStates, HelperStates, AppStates
<1>33. ASSUME NEW c \in Calls, StartInstalled(c) PROVE TypeOK'
  BY <1>33, Untrusted, FailFrame, HelperFrame, SpawnFrame, EntryIsVersion DEF
     StartInstalled, CallAt, HelperAt, fileVars, appVars, bounds, Inv, TypeOK,
     CallStates, HelperStates, AppStates
<1>34. ASSUME NEW c \in Calls, InstalledNotStarted(c) PROVE TypeOK'
  BY <1>34, Untrusted, FailFrame, HelperFrame DEF InstalledNotStarted, CallAt,
     HelperAt, fileVars, appVars, bounds, Inv, TypeOK, CallStates, HelperStates,
     AppStates
<1>35. ASSUME NEW c \in Calls, Damage(c) PROVE TypeOK'
  BY <1>35, Untrusted, FailFrame DEF Damage, CallAt, HelperAt, fileVars, appVars,
     bounds, Inv, TypeOK, CallStates, HelperStates, AppStates
<1>36. ASSUME NEW c \in Calls, HelperLost(c) PROVE TypeOK'
  BY <1>36, Untrusted, FailFrame, HelperFrame DEF HelperLost, CallAt, HelperAt,
     fileVars, appVars, bounds, Inv, TypeOK, CallStates, HelperStates, AppStates
<1>37. ASSUME NEW p \in Pids, Leave(p) PROVE TypeOK'
  BY <1>37, Untrusted, FailFrame, AppFrame DEF Leave, Gone, CallAt, HelperAt, fileVars,
     appVars, bounds, Inv, TypeOK, CallStates, HelperStates, AppStates
<1>38. ASSUME NEW p \in Pids, Quit(p) PROVE TypeOK'
  BY <1>38, Untrusted, FailFrame, AppFrame DEF Quit, Gone, CallAt, HelperAt, fileVars,
     appVars, bounds, Inv, TypeOK, CallStates, HelperStates, AppStates
<1>39. ASSUME NEW p \in Pids, Boot(p) PROVE TypeOK'
  BY <1>39, Untrusted, FailFrame, AppFrame DEF Boot, Gone, CallAt, HelperAt, fileVars,
     appVars, bounds, Inv, TypeOK, CallStates, HelperStates, AppStates
<1>40. ASSUME NEW p \in Pids, SetUp(p) PROVE TypeOK'
  BY <1>40, Untrusted, FailFrame, AppFrame DEF SetUp, CallAt, HelperAt, fileVars,
     appVars, bounds, Inv, TypeOK, CallStates, HelperStates, AppStates
<1>41. ASSUME NEW p \in Pids, SetUpFails(p) PROVE TypeOK'
  BY <1>41, Untrusted, FailFrame, AppFrame DEF SetUpFails, Gone, CallAt, HelperAt,
     fileVars, appVars, bounds, Inv, TypeOK, CallStates, HelperStates, AppStates
<1> QED
  BY <1>1, <1>2, <1>3, <1>4, <1>5, <1>6, <1>7, <1>8, <1>9, <1>10, <1>11, <1>12, <1>13,
     <1>14, <1>15, <1>16, <1>17, <1>18, <1>19, <1>20, <1>21, <1>22, <1>23, <1>24,
     <1>25, <1>26, <1>27, <1>28, <1>29, <1>30, <1>31, <1>32, <1>33, <1>34, <1>35,
     <1>36, <1>37, <1>38, <1>39, <1>40, <1>41 DEF Next, CallStep, HelperStep, AppStep

\* Every step keeps mode and kinds together.
LEMMA KindsPreserved == ASSUME Inv, Next PROVE Kinds'
<1>1. ASSUME Publish PROVE Kinds'
  BY <1>1, Untrusted DEF Publish, CallAt, HelperAt, fileVars, appVars, bounds, Inv,
     Kinds, Files, PortableSteps, InstallerSteps
<1>2. ASSUME StartByUser PROVE Kinds'
  BY <1>2, Untrusted, SpawnFrame DEF StartByUser, CallAt, HelperAt, fileVars, appVars,
     bounds, Inv, Kinds, Files, PortableSteps, InstallerSteps
<1>3. ASSUME PowerCut PROVE Kinds'
  BY <1>3, Untrusted, PowerFrame DEF fileVars, appVars, bounds, Inv, Kinds, Files,
     PortableSteps, InstallerSteps, HelperEnded
<1>4. ASSUME NEW c \in Calls, NEW p \in Pids, Ask(c, p) PROVE Kinds'
  BY <1>4, Untrusted, AskFrame DEF fileVars, appVars, bounds, Inv, Kinds, Files,
     PortableSteps, InstallerSteps
<1>5. ASSUME NEW c \in Calls, UpToDate(c) PROVE Kinds'
  BY <1>5, Untrusted, UpToDateFrame DEF fileVars, appVars, bounds, Inv, Kinds, Files,
     PortableSteps, InstallerSteps
<1>6. ASSUME NEW c \in Calls, Select(c) PROVE Kinds'
  BY <1>6, Untrusted, SelectFrame DEF fileVars, appVars, bounds, Inv, Kinds, Files,
     PortableSteps, InstallerSteps
<1>7. ASSUME NEW c \in Calls, Refuse(c) PROVE Kinds'
  BY <1>7, Untrusted, CallFrame DEF Refuse, CallAt, HelperAt, fileVars, appVars,
     bounds, Inv, Kinds, Files, PortableSteps, InstallerSteps
<1>8. ASSUME NEW c \in Calls, Receive(c) PROVE Kinds'
  BY <1>8, Untrusted, CallFrame DEF Receive, DigestMatches, WellFormed, CallAt,
     HelperAt, fileVars, appVars, bounds, Inv, Kinds, Files, PortableSteps,
     InstallerSteps
<1>9. ASSUME NEW c \in Calls, LaunchHelper(c) PROVE Kinds'
  BY <1>9, Untrusted, LaunchFrame, CallFrame, HelperFrame DEF fileVars, appVars,
     bounds, Inv, Kinds, Files, PortableSteps, InstallerSteps
<1>10. ASSUME NEW c \in Calls, HelperNotLaunched(c) PROVE Kinds'
  BY <1>10, Untrusted, CallFrame DEF HelperNotLaunched, PlanIsPossible, CallAt,
     HelperAt, fileVars, appVars, bounds, Inv, Kinds, Files, PortableSteps,
     InstallerSteps
<1>11. ASSUME NEW c \in Calls, Stop(c) PROVE Kinds'
  BY <1>11, Untrusted, CallFrame, AppFrame DEF Stop, CallAt, HelperAt, fileVars,
     appVars, bounds, Inv, Kinds, Files, PortableSteps, InstallerSteps
<1>12. ASSUME NEW c \in Calls, ParentExited(c) PROVE Kinds'
  BY <1>12, Untrusted, HelperFrame, Places DEF ParentExited, CallAt, HelperAt,
     fileVars, appVars, bounds, Inv, Kinds, Files, PortableSteps, InstallerSteps
<1>13. ASSUME NEW c \in Calls, GiveUpWaiting(c) PROVE Kinds'
  BY <1>13, Untrusted, HelperFrame DEF GiveUpWaiting, CallAt, HelperAt, fileVars,
     appVars, bounds, Inv, Kinds, Files, PortableSteps, InstallerSteps
<1>14. ASSUME NEW c \in Calls, CheckPlan(c) PROVE Kinds'
  BY <1>14, Untrusted, HelperFrame DEF CheckPlan, PlanIsPossible, StillVerified,
     DigestMatches, CallAt, HelperAt, fileVars, appVars, bounds, Inv, Kinds, Files,
     PortableSteps, InstallerSteps
<1>15. ASSUME NEW c \in Calls, KeepOld(c) PROVE Kinds'
  BY <1>15, Untrusted, HelperFrame DEF KeepOld, CallAt, HelperAt, fileVars, appVars,
     bounds, Inv, Kinds, Files, PortableSteps, InstallerSteps
<1>16. ASSUME NEW c \in Calls, OldNotKept(c) PROVE Kinds'
  BY <1>16, Untrusted, HelperFrame DEF OldNotKept, CallAt, HelperAt, fileVars, appVars,
     bounds, Inv, Kinds, Files, PortableSteps, InstallerSteps
<1>17. ASSUME NEW c \in Calls, PlaceNew(c) PROVE Kinds'
  BY <1>17, Untrusted, HelperFrame DEF PlaceNew, CallAt, HelperAt, fileVars, appVars,
     bounds, Inv, Kinds, Files, PortableSteps, InstallerSteps
<1>18. ASSUME NEW c \in Calls, NewNotPlaced(c) PROVE Kinds'
  BY <1>18, Untrusted, HelperFrame DEF NewNotPlaced, CallAt, HelperAt, fileVars,
     appVars, bounds, Inv, Kinds, Files, PortableSteps, InstallerSteps
<1>19. ASSUME NEW c \in Calls, RestoreUnplaced(c) PROVE Kinds'
  BY <1>19, Untrusted, HelperFrame DEF RestoreUnplaced, PutBack, CallAt, HelperAt,
     fileVars, appVars, bounds, Inv, Kinds, Files, PortableSteps, InstallerSteps
<1>20. ASSUME NEW c \in Calls, RestoreOld(c) PROVE Kinds'
  BY <1>20, Untrusted, HelperFrame DEF RestoreOld, PutBack, CallAt, HelperAt, fileVars,
     appVars, bounds, Inv, Kinds, Files, PortableSteps, InstallerSteps
<1>21. ASSUME NEW c \in Calls, NotRestored(c) PROVE Kinds'
  BY <1>21, Untrusted, HelperFrame DEF NotRestored, CallAt, HelperAt, fileVars,
     appVars, bounds, Inv, Kinds, Files, PortableSteps, InstallerSteps
<1>22. ASSUME NEW c \in Calls, LaunchNew(c) PROVE Kinds'
  BY <1>22, Untrusted, ChildFrame, SpawnFrame DEF fileVars, appVars, bounds, Inv,
     Kinds, Files, PortableSteps, InstallerSteps
<1>23. ASSUME NEW c \in Calls, NewNotLaunched(c) PROVE Kinds'
  BY <1>23, Untrusted, HelperFrame DEF NewNotLaunched, CallAt, HelperAt, fileVars,
     appVars, bounds, Inv, Kinds, Files, PortableSteps, InstallerSteps
<1>24. ASSUME NEW c \in Calls, SeeReady(c) PROVE Kinds'
  BY <1>24, Untrusted, HelperFrame DEF SeeReady, Confirmed, CallAt, HelperAt, fileVars,
     appVars, bounds, Inv, Kinds, Files, PortableSteps, InstallerSteps
<1>25. ASSUME NEW c \in Calls, SeeExit(c) PROVE Kinds'
  BY <1>25, Untrusted, HelperFrame DEF SeeExit, CallAt, HelperAt, fileVars, appVars,
     bounds, Inv, Kinds, Files, PortableSteps, InstallerSteps
<1>26. ASSUME NEW c \in Calls, StartTimeout(c) PROVE Kinds'
  BY <1>26, Untrusted, HelperFrame DEF StartTimeout, CallAt, HelperAt, fileVars,
     appVars, bounds, Inv, Kinds, Files, PortableSteps, InstallerSteps
<1>27. ASSUME NEW c \in Calls, KillNew(c) PROVE Kinds'
  BY <1>27, Untrusted, HelperFrame, AppFrame DEF KillNew, Gone, CallAt, HelperAt,
     fileVars, appVars, bounds, Inv, Kinds, Files, PortableSteps, InstallerSteps
<1>28. ASSUME NEW c \in Calls, RemoveNew(c) PROVE Kinds'
  BY <1>28, Untrusted, HelperFrame DEF RemoveNew, CallAt, HelperAt, fileVars, appVars,
     bounds, Inv, Kinds, Files, PortableSteps, InstallerSteps
<1>29. ASSUME NEW c \in Calls, NewNotRemoved(c) PROVE Kinds'
  BY <1>29, Untrusted, HelperFrame DEF NewNotRemoved, CallAt, HelperAt, fileVars,
     appVars, bounds, Inv, Kinds, Files, PortableSteps, InstallerSteps
<1>30. ASSUME NEW c \in Calls, Relaunch(c) PROVE Kinds'
  BY <1>30, Untrusted, HelperFrame, SpawnFrame DEF Relaunch, CallAt, HelperAt,
     fileVars, appVars, bounds, Inv, Kinds, Files, PortableSteps, InstallerSteps
<1>31. ASSUME NEW c \in Calls, NotRelaunched(c) PROVE Kinds'
  BY <1>31, Untrusted, HelperFrame DEF NotRelaunched, CallAt, HelperAt, fileVars,
     appVars, bounds, Inv, Kinds, Files, PortableSteps, InstallerSteps
<1>32. ASSUME NEW c \in Calls, RunInstaller(c) PROVE Kinds'
  BY <1>32, Untrusted, HelperFrame DEF RunInstaller, CallAt, HelperAt, fileVars,
     appVars, bounds, Inv, Kinds, Files, PortableSteps, InstallerSteps
<1>33. ASSUME NEW c \in Calls, StartInstalled(c) PROVE Kinds'
  BY <1>33, Untrusted, HelperFrame, SpawnFrame DEF StartInstalled, CallAt, HelperAt,
     fileVars, appVars, bounds, Inv, Kinds, Files, PortableSteps, InstallerSteps
<1>34. ASSUME NEW c \in Calls, InstalledNotStarted(c) PROVE Kinds'
  BY <1>34, Untrusted, HelperFrame DEF InstalledNotStarted, CallAt, HelperAt, fileVars,
     appVars, bounds, Inv, Kinds, Files, PortableSteps, InstallerSteps
<1>35. ASSUME NEW c \in Calls, Damage(c) PROVE Kinds'
  BY <1>35, Untrusted DEF Damage, CallAt, HelperAt, fileVars, appVars, bounds, Inv,
     Kinds, Files, PortableSteps, InstallerSteps
<1>36. ASSUME NEW c \in Calls, HelperLost(c) PROVE Kinds'
  BY <1>36, Untrusted, HelperFrame DEF HelperLost, CallAt, HelperAt, fileVars, appVars,
     bounds, Inv, Kinds, Files, PortableSteps, InstallerSteps, HelperEnded
<1>37. ASSUME NEW p \in Pids, Leave(p) PROVE Kinds'
  BY <1>37, Untrusted, AppFrame DEF Leave, Gone, CallAt, HelperAt, fileVars, appVars,
     bounds, Inv, Kinds, Files, PortableSteps, InstallerSteps
<1>38. ASSUME NEW p \in Pids, Quit(p) PROVE Kinds'
  BY <1>38, Untrusted, AppFrame DEF Quit, Gone, CallAt, HelperAt, fileVars, appVars,
     bounds, Inv, Kinds, Files, PortableSteps, InstallerSteps
<1>39. ASSUME NEW p \in Pids, Boot(p) PROVE Kinds'
  BY <1>39, Untrusted, AppFrame DEF Boot, Gone, CallAt, HelperAt, fileVars, appVars,
     bounds, Inv, Kinds, Files, PortableSteps, InstallerSteps
<1>40. ASSUME NEW p \in Pids, SetUp(p) PROVE Kinds'
  BY <1>40, Untrusted, AppFrame DEF SetUp, CallAt, HelperAt, fileVars, appVars, bounds,
     Inv, Kinds, Files, PortableSteps, InstallerSteps
<1>41. ASSUME NEW p \in Pids, SetUpFails(p) PROVE Kinds'
  BY <1>41, Untrusted, AppFrame DEF SetUpFails, Gone, CallAt, HelperAt, fileVars,
     appVars, bounds, Inv, Kinds, Files, PortableSteps, InstallerSteps
<1> QED
  BY <1>1, <1>2, <1>3, <1>4, <1>5, <1>6, <1>7, <1>8, <1>9, <1>10, <1>11, <1>12, <1>13,
     <1>14, <1>15, <1>16, <1>17, <1>18, <1>19, <1>20, <1>21, <1>22, <1>23, <1>24,
     <1>25, <1>26, <1>27, <1>28, <1>29, <1>30, <1>31, <1>32, <1>33, <1>34, <1>35,
     <1>36, <1>37, <1>38, <1>39, <1>40, <1>41 DEF Next, CallStep, HelperStep, AppStep

\* Every step leaves verified files where they are needed.
LEMMA FilesPreserved == ASSUME Inv, Next PROVE Files'
<1>1. ASSUME Publish PROVE Files'
  BY <1>1, Untrusted DEF Publish, CallAt, HelperAt, fileVars, appVars, bounds, Inv,
     Kinds, Files, Kept, PortableSteps, InstallerSteps
<1>2. ASSUME StartByUser PROVE Files'
  BY <1>2, Untrusted, SpawnFrame DEF StartByUser, CallAt, HelperAt, fileVars, appVars,
     bounds, Inv, Kinds, Files, Kept, PortableSteps, InstallerSteps
<1>3. ASSUME PowerCut PROVE Files'
  BY <1>3, Untrusted, PowerFrame DEF fileVars, appVars, bounds, Inv, Kinds, Files,
     Kept, PortableSteps, InstallerSteps
<1>4. ASSUME NEW c \in Calls, NEW p \in Pids, Ask(c, p) PROVE Files'
  BY <1>4, Untrusted, AskFrame DEF fileVars, appVars, bounds, Inv, Kinds, Files, Kept,
     PortableSteps, InstallerSteps
<1>5. ASSUME NEW c \in Calls, UpToDate(c) PROVE Files'
  BY <1>5, Untrusted, UpToDateFrame DEF fileVars, appVars, bounds, Inv, Kinds, Files,
     Kept, PortableSteps, InstallerSteps
<1>6. ASSUME NEW c \in Calls, Select(c) PROVE Files'
  BY <1>6, Untrusted, SelectFrame DEF fileVars, appVars, bounds, Inv, Kinds, Files,
     Kept, PortableSteps, InstallerSteps
<1>7. ASSUME NEW c \in Calls, Refuse(c) PROVE Files'
  BY <1>7, Untrusted, CallFrame DEF Refuse, CallAt, HelperAt, fileVars, appVars,
     bounds, Inv, Kinds, Files, Kept, PortableSteps, InstallerSteps
<1>8. ASSUME NEW c \in Calls, Receive(c) PROVE Files'
  BY <1>8, Untrusted, CallFrame, Places, Members DEF Receive, DigestMatches,
     WellFormed, CallAt, HelperAt, fileVars, appVars, bounds, Inv, Kinds, Files, Kept,
     PortableSteps, InstallerSteps
<1>9. ASSUME NEW c \in Calls, LaunchHelper(c) PROVE Files'
  BY <1>9, Untrusted, LaunchFrame, CallFrame, HelperFrame DEF fileVars, appVars,
     bounds, Inv, Kinds, Files, Kept, PortableSteps, InstallerSteps, Processes
<1>10. ASSUME NEW c \in Calls, HelperNotLaunched(c) PROVE Files'
  BY <1>10, Untrusted, CallFrame DEF HelperNotLaunched, PlanIsPossible, CallAt,
     HelperAt, fileVars, appVars, bounds, Inv, Kinds, Files, Kept, PortableSteps,
     InstallerSteps
<1>11. ASSUME NEW c \in Calls, Stop(c) PROVE Files'
  BY <1>11, Untrusted, CallFrame, AppFrame DEF Stop, CallAt, HelperAt, fileVars,
     appVars, bounds, Inv, Kinds, Files, Kept, PortableSteps, InstallerSteps
<1>12. ASSUME NEW c \in Calls, ParentExited(c) PROVE Files'
  BY <1>12, Untrusted, HelperFrame DEF ParentExited, CallAt, HelperAt, fileVars,
     appVars, bounds, Inv, Kinds, Files, Kept, PortableSteps, InstallerSteps
<1>13. ASSUME NEW c \in Calls, GiveUpWaiting(c) PROVE Files'
  BY <1>13, Untrusted, HelperFrame DEF GiveUpWaiting, CallAt, HelperAt, fileVars,
     appVars, bounds, Inv, Kinds, Files, Kept, PortableSteps, InstallerSteps
<1>14. ASSUME NEW c \in Calls, CheckPlan(c) PROVE Files'
  BY <1>14, Untrusted, HelperFrame, Members DEF CheckPlan, PlanIsPossible,
     StillVerified, DigestMatches, CallAt, HelperAt, fileVars, appVars, bounds, Inv,
     Kinds, Files, Kept, PortableSteps, InstallerSteps
<1>15. ASSUME NEW c \in Calls, KeepOld(c) PROVE Files'
  BY <1>15, Untrusted, HelperFrame, Places DEF KeepOld, CallAt, HelperAt, fileVars,
     appVars, bounds, Inv, Kinds, Files, Kept, PortableSteps, InstallerSteps
<1>16. ASSUME NEW c \in Calls, OldNotKept(c) PROVE Files'
  BY <1>16, Untrusted, HelperFrame DEF OldNotKept, CallAt, HelperAt, fileVars, appVars,
     bounds, Inv, Kinds, Files, Kept, PortableSteps, InstallerSteps
<1>17. ASSUME NEW c \in Calls, PlaceNew(c) PROVE Files'
  BY <1>17, Untrusted, HelperFrame, Places DEF PlaceNew, CallAt, HelperAt, fileVars,
     appVars, bounds, Inv, Kinds, Files, Kept, PortableSteps, InstallerSteps, Processes
<1>18. ASSUME NEW c \in Calls, NewNotPlaced(c) PROVE Files'
  BY <1>18, Untrusted, HelperFrame DEF NewNotPlaced, CallAt, HelperAt, fileVars,
     appVars, bounds, Inv, Kinds, Files, Kept, PortableSteps, InstallerSteps
<1>19. ASSUME NEW c \in Calls, RestoreUnplaced(c) PROVE Files'
  BY <1>19, Untrusted, HelperFrame DEF RestoreUnplaced, PutBack, CallAt, HelperAt,
     fileVars, appVars, bounds, Inv, Kinds, Files, Kept, PortableSteps, InstallerSteps
<1>20. ASSUME NEW c \in Calls, RestoreOld(c) PROVE Files'
  BY <1>20, Untrusted, HelperFrame DEF RestoreOld, PutBack, CallAt, HelperAt, fileVars,
     appVars, bounds, Inv, Kinds, Files, Kept, PortableSteps, InstallerSteps
<1>21. ASSUME NEW c \in Calls, NotRestored(c) PROVE Files'
  BY <1>21, Untrusted, HelperFrame DEF NotRestored, CallAt, HelperAt, fileVars,
     appVars, bounds, Inv, Kinds, Files, Kept, PortableSteps, InstallerSteps
<1>22. ASSUME NEW c \in Calls, LaunchNew(c) PROVE Files'
  BY <1>22, Untrusted, ChildFrame, SpawnFrame DEF fileVars, appVars, bounds, Inv,
     Kinds, Files, Kept, PortableSteps, InstallerSteps
<1>23. ASSUME NEW c \in Calls, NewNotLaunched(c) PROVE Files'
  BY <1>23, Untrusted, HelperFrame DEF NewNotLaunched, CallAt, HelperAt, fileVars,
     appVars, bounds, Inv, Kinds, Files, Kept, PortableSteps, InstallerSteps
<1>24. ASSUME NEW c \in Calls, SeeReady(c) PROVE Files'
  BY <1>24, Untrusted, HelperFrame DEF SeeReady, Confirmed, CallAt, HelperAt, fileVars,
     appVars, bounds, Inv, Kinds, Files, Kept, PortableSteps, InstallerSteps
<1>25. ASSUME NEW c \in Calls, SeeExit(c) PROVE Files'
  BY <1>25, Untrusted, HelperFrame DEF SeeExit, CallAt, HelperAt, fileVars, appVars,
     bounds, Inv, Kinds, Files, Kept, PortableSteps, InstallerSteps
<1>26. ASSUME NEW c \in Calls, StartTimeout(c) PROVE Files'
  BY <1>26, Untrusted, HelperFrame DEF StartTimeout, CallAt, HelperAt, fileVars,
     appVars, bounds, Inv, Kinds, Files, Kept, PortableSteps, InstallerSteps
<1>27. ASSUME NEW c \in Calls, KillNew(c) PROVE Files'
  BY <1>27, Untrusted, HelperFrame, AppFrame DEF KillNew, Gone, CallAt, HelperAt,
     fileVars, appVars, bounds, Inv, Kinds, Files, Kept, PortableSteps, InstallerSteps
<1>28. ASSUME NEW c \in Calls, RemoveNew(c) PROVE Files'
  BY <1>28, Untrusted, HelperFrame DEF RemoveNew, CallAt, HelperAt, fileVars, appVars,
     bounds, Inv, Kinds, Files, Kept, PortableSteps, InstallerSteps
<1>29. ASSUME NEW c \in Calls, NewNotRemoved(c) PROVE Files'
  BY <1>29, Untrusted, HelperFrame DEF NewNotRemoved, CallAt, HelperAt, fileVars,
     appVars, bounds, Inv, Kinds, Files, Kept, PortableSteps, InstallerSteps
<1>30. ASSUME NEW c \in Calls, Relaunch(c) PROVE Files'
  BY <1>30, Untrusted, HelperFrame, SpawnFrame DEF Relaunch, CallAt, HelperAt,
     fileVars, appVars, bounds, Inv, Kinds, Files, Kept, PortableSteps, InstallerSteps
<1>31. ASSUME NEW c \in Calls, NotRelaunched(c) PROVE Files'
  BY <1>31, Untrusted, HelperFrame DEF NotRelaunched, CallAt, HelperAt, fileVars,
     appVars, bounds, Inv, Kinds, Files, Kept, PortableSteps, InstallerSteps
<1>32. ASSUME NEW c \in Calls, RunInstaller(c) PROVE Files'
  BY <1>32, Untrusted, HelperFrame DEF RunInstaller, CallAt, HelperAt, fileVars,
     appVars, bounds, Inv, Kinds, Files, Kept, PortableSteps, InstallerSteps
<1>33. ASSUME NEW c \in Calls, StartInstalled(c) PROVE Files'
  BY <1>33, Untrusted, HelperFrame, SpawnFrame DEF StartInstalled, CallAt, HelperAt,
     fileVars, appVars, bounds, Inv, Kinds, Files, Kept, PortableSteps, InstallerSteps
<1>34. ASSUME NEW c \in Calls, InstalledNotStarted(c) PROVE Files'
  BY <1>34, Untrusted, HelperFrame DEF InstalledNotStarted, CallAt, HelperAt, fileVars,
     appVars, bounds, Inv, Kinds, Files, Kept, PortableSteps, InstallerSteps
<1>35. ASSUME NEW c \in Calls, Damage(c) PROVE Files'
  BY <1>35, Untrusted, Places DEF Damage, CallAt, HelperAt, fileVars, appVars, bounds,
     Inv, Kinds, Files, Kept, PortableSteps, InstallerSteps, Processes
<1>36. ASSUME NEW c \in Calls, HelperLost(c) PROVE Files'
  BY <1>36, Untrusted, HelperFrame DEF HelperLost, CallAt, HelperAt, fileVars, appVars,
     bounds, Inv, Kinds, Files, Kept, PortableSteps, InstallerSteps
<1>37. ASSUME NEW p \in Pids, Leave(p) PROVE Files'
  BY <1>37, Untrusted, AppFrame DEF Leave, Gone, CallAt, HelperAt, fileVars, appVars,
     bounds, Inv, Kinds, Files, Kept, PortableSteps, InstallerSteps
<1>38. ASSUME NEW p \in Pids, Quit(p) PROVE Files'
  BY <1>38, Untrusted, AppFrame DEF Quit, Gone, CallAt, HelperAt, fileVars, appVars,
     bounds, Inv, Kinds, Files, Kept, PortableSteps, InstallerSteps
<1>39. ASSUME NEW p \in Pids, Boot(p) PROVE Files'
  BY <1>39, Untrusted, AppFrame DEF Boot, Gone, CallAt, HelperAt, fileVars, appVars,
     bounds, Inv, Kinds, Files, Kept, PortableSteps, InstallerSteps
<1>40. ASSUME NEW p \in Pids, SetUp(p) PROVE Files'
  BY <1>40, Untrusted, AppFrame DEF SetUp, CallAt, HelperAt, fileVars, appVars, bounds,
     Inv, Kinds, Files, Kept, PortableSteps, InstallerSteps
<1>41. ASSUME NEW p \in Pids, SetUpFails(p) PROVE Files'
  BY <1>41, Untrusted, AppFrame DEF SetUpFails, Gone, CallAt, HelperAt, fileVars,
     appVars, bounds, Inv, Kinds, Files, Kept, PortableSteps, InstallerSteps
<1> QED
  BY <1>1, <1>2, <1>3, <1>4, <1>5, <1>6, <1>7, <1>8, <1>9, <1>10, <1>11, <1>12, <1>13,
     <1>14, <1>15, <1>16, <1>17, <1>18, <1>19, <1>20, <1>21, <1>22, <1>23, <1>24,
     <1>25, <1>26, <1>27, <1>28, <1>29, <1>30, <1>31, <1>32, <1>33, <1>34, <1>35,
     <1>36, <1>37, <1>38, <1>39, <1>40, <1>41 DEF Next, CallStep, HelperStep, AppStep

\* Every step keeps the facts about processes.
LEMMA ProcessesPreserved == ASSUME Inv, Next PROVE Processes'
<1>1. ASSUME Publish PROVE Processes'
  BY <1>1, Numbers, Members DEF Publish, CallAt, HelperAt, fileVars, appVars, bounds,
     Inv, Processes, PortableSteps, InstallerSteps, Busy, Alive
<1>2. ASSUME StartByUser PROVE Processes'
  BY <1>2, Numbers, Members, SpawnFrame DEF StartByUser, CallAt, HelperAt, fileVars,
     appVars, bounds, Inv, Processes, PortableSteps, InstallerSteps, Busy, Alive
<1>3. ASSUME PowerCut PROVE Processes'
  BY <1>3, Numbers, Members, PowerFrame DEF fileVars, appVars, bounds, Inv, Processes,
     PortableSteps, InstallerSteps, Busy, Alive, HelperEnded
<1>4. ASSUME NEW c \in Calls, NEW p \in Pids, Ask(c, p) PROVE Processes'
  BY <1>4, Numbers, Members, AskFrame DEF fileVars, appVars, bounds, Inv, Processes,
     PortableSteps, InstallerSteps, Busy, Alive, MayInstall, Installing
<1>5. ASSUME NEW c \in Calls, UpToDate(c) PROVE Processes'
  BY <1>5, Numbers, Members, UpToDateFrame DEF fileVars, appVars, bounds, Inv,
     Processes, PortableSteps, InstallerSteps, Busy, Alive
<1>6. ASSUME NEW c \in Calls, Select(c) PROVE Processes'
  BY <1>6, Numbers, Members, SelectFrame DEF fileVars, appVars, bounds, Inv, Processes,
     PortableSteps, InstallerSteps, Busy, Alive
<1>7. ASSUME NEW c \in Calls, Refuse(c) PROVE Processes'
  BY <1>7, Numbers, Members, CallFrame DEF Refuse, CallAt, HelperAt, fileVars, appVars,
     bounds, Inv, Processes, PortableSteps, InstallerSteps, Busy, Alive
<1>8. ASSUME NEW c \in Calls, Receive(c) PROVE Processes'
  BY <1>8, Numbers, Members, CallFrame DEF Receive, DigestMatches, WellFormed, CallAt,
     HelperAt, fileVars, appVars, bounds, Inv, Processes, PortableSteps,
     InstallerSteps, Busy, Alive
<1>9. ASSUME NEW c \in Calls, LaunchHelper(c) PROVE Processes'
  <2>1. /\ HelperTo(c, "waiting") /\ CallTo(c, "stopping") /\ call[c].pc = "published"
        /\ \A p \in Pids : /\ app'[p].state = app[p].state
                           /\ app'[p].session = app[p].session
                           /\ app'[p].started = (p = call[c].pid \/ app[p].started)
        /\ UNCHANGED << instance, ready >>
    BY <1>9, LaunchFrame DEF Inv, fileVars
  <2>2. /\ helper'[c].pc = "waiting"
        /\ \A d \in Calls \ {c} : helper'[d] = helper[d]
    BY <2>1, HelperFrame DEF Inv
  <2>3. /\ call'[c].pc = "stopping"
        /\ \A d \in Calls : call'[d].pid = call[d].pid
        /\ \A d \in Calls \ {c} : call'[d] = call[d]
    BY <2>1, CallFrame DEF Inv
  <2>4. helper[c].pc = "none"
    BY <2>1 DEF Inv, Processes
  <2>5. \A p \in Pids : app[p].state \in {"setup", "running"} => instance = p
    BY DEF Inv, Processes
  <2>6. ASSUME NEW d \in Calls, call[d].pc \in {"asking", "downloading", "published"}, d # c
        PROVE  call[d].pid # call[c].pid
    BY <2>1, <2>6 DEF Inv, Processes, Busy
  <2>7. ASSUME NEW d \in Calls
        PROVE  (/\ call[d].pc # "idle" => call[d].pid \in Pids /\ app[call[d].pid].state # "none"
                /\ call[d].pc = "idle" => call[d].pid = NoPid
                /\ helper[d].pc # "none" =>
                     call[d].pc \in {"stopping", "over"} /\ app[call[d].pid].started
                /\ helper[d].pc \in PortableSteps \/ helper[d].pc \in InstallerSteps =>
                     app[call[d].pid].state = "gone"
                /\ call[d].pc \in {"asking", "downloading", "published"} =>
                     ~app[call[d].pid].started
                /\ ready[d] # NoPid => app[ready[d]].state \in {"running", "leaving", "gone"}
                /\ helper[d].pc \in {"confirming", "killing"} => helper[d].child # NoPid)'
    <3>1. /\ call[d].pc # "idle" => call[d].pid \in Pids /\ app[call[d].pid].state # "none"
          /\ call[d].pc = "idle" => call[d].pid = NoPid
          /\ helper[d].pc # "none" =>
               call[d].pc \in {"stopping", "over"} /\ app[call[d].pid].started
          /\ helper[d].pc \in PortableSteps \/ helper[d].pc \in InstallerSteps =>
               app[call[d].pid].state = "gone"
          /\ call[d].pc \in {"asking", "downloading", "published"} =>
               ~app[call[d].pid].started
          /\ ready[d] # NoPid => app[ready[d]].state \in {"running", "leaving", "gone"}
          /\ helper[d].pc \in {"confirming", "killing"} => helper[d].child # NoPid
      BY DEF Inv, Processes
    <3>2. ready[d] # NoPid => ready[d] \in Pids
      BY Members DEF Inv
    <3>3. CASE d = c
      <4>1. /\ call'[c].pc = "stopping" /\ helper'[c].pc = "waiting"
            /\ call'[c].pid = call[c].pid /\ ready'[c] = ready[c]
        BY <2>1, <2>2, <2>3
      <4>2. call[c].pid \in Pids /\ app[call[c].pid].state # "none"
        BY <2>1, <3>1, <3>3
      <4>3. /\ app'[call[c].pid].state = app[call[c].pid].state
            /\ app'[call[c].pid].started
        BY <2>1, <4>2
      <4>4. ready[c] # NoPid => app'[ready[c]].state = app[ready[c]].state
        BY <2>1, <3>2, <3>3
      <4>5. "waiting" \notin PortableSteps \cup InstallerSteps
        BY DEF PortableSteps, InstallerSteps
      <4> QED
        BY <3>1, <3>3, <4>1, <4>2, <4>3, <4>4, <4>5
    <3>4. CASE d # c
      <4>1. helper'[d] = helper[d] /\ call'[d] = call[d] /\ ready'[d] = ready[d]
        BY <2>1, <2>2, <2>3, <3>4
      <4>2. call[d].pc \in {"asking", "downloading", "published"} =>
              call[d].pid # call[c].pid
        BY <2>6, <3>4
      <4>3. call[d].pc # "idle" => /\ app'[call[d].pid].state = app[call[d].pid].state
                                  /\ app'[call[d].pid].started =
                                       (call[d].pid = call[c].pid \/ app[call[d].pid].started)
        BY <2>1, <3>1
      <4>4. ready[d] # NoPid => app'[ready[d]].state = app[ready[d]].state
        BY <2>1, <3>2
      <4>5. helper[d].pc \in PortableSteps \/ helper[d].pc \in InstallerSteps =>
              helper[d].pc # "none"
        BY DEF PortableSteps, InstallerSteps
      <4> QED
        BY <3>1, <4>1, <4>2, <4>3, <4>4, <4>5
    <3> QED
      BY <3>3, <3>4
  <2>8. ASSUME NEW p \in Pids, app[p].session # NoCall
        PROVE  /\ app[p].session # c /\ app[p].session \in Calls
               /\ helper[app[p].session].pc # "none"
               /\ call[app[p].session].pid \in Pids
               /\ app[call[app[p].session].pid].state = "gone"
    BY <2>4, <2>8, Members DEF Inv, Processes
  <2>9. \A d, e \in Calls :
          d # e /\ call'[d].pid = call'[e].pid /\ call'[d].pc \in Busy => call'[e].pc \notin Busy
    BY <2>1, <2>3 DEF Inv, Processes, Busy
  <2> QED
    BY <2>1, <2>2, <2>3, <2>5, <2>7, <2>8, <2>9 DEF Processes
<1>10. ASSUME NEW c \in Calls, HelperNotLaunched(c) PROVE Processes'
  BY <1>10, Numbers, Members, CallFrame DEF HelperNotLaunched, PlanIsPossible, CallAt,
     HelperAt, fileVars, appVars, bounds, Inv, Processes, PortableSteps,
     InstallerSteps, Busy, Alive
<1>11. ASSUME NEW c \in Calls, Stop(c) PROVE Processes'
  BY <1>11, Numbers, Members, CallFrame, AppFrame DEF Stop, CallAt, HelperAt, fileVars,
     appVars, bounds, Inv, Processes, PortableSteps, InstallerSteps, Busy, Alive
<1>12. ASSUME NEW c \in Calls, ParentExited(c) PROVE Processes'
  BY <1>12, Numbers, Members, HelperFrame DEF ParentExited, CallAt, HelperAt, fileVars,
     appVars, bounds, Inv, Processes, PortableSteps, InstallerSteps, Busy, Alive
<1>13. ASSUME NEW c \in Calls, GiveUpWaiting(c) PROVE Processes'
  BY <1>13, Numbers, Members, HelperFrame DEF GiveUpWaiting, CallAt, HelperAt,
     fileVars, appVars, bounds, Inv, Processes, PortableSteps, InstallerSteps, Busy,
     Alive
<1>14. ASSUME NEW c \in Calls, CheckPlan(c) PROVE Processes'
  BY <1>14, Numbers, Members, HelperFrame DEF CheckPlan, PlanIsPossible, StillVerified,
     DigestMatches, CallAt, HelperAt, fileVars, appVars, bounds, Inv, Processes,
     PortableSteps, InstallerSteps, Busy, Alive
<1>15. ASSUME NEW c \in Calls, KeepOld(c) PROVE Processes'
  BY <1>15, Numbers, Members, HelperFrame DEF KeepOld, CallAt, HelperAt, fileVars,
     appVars, bounds, Inv, Processes, PortableSteps, InstallerSteps, Busy, Alive
<1>16. ASSUME NEW c \in Calls, OldNotKept(c) PROVE Processes'
  BY <1>16, Numbers, Members, HelperFrame DEF OldNotKept, CallAt, HelperAt, fileVars,
     appVars, bounds, Inv, Processes, PortableSteps, InstallerSteps, Busy, Alive
<1>17. ASSUME NEW c \in Calls, PlaceNew(c) PROVE Processes'
  BY <1>17, Numbers, Members, HelperFrame DEF PlaceNew, CallAt, HelperAt, fileVars,
     appVars, bounds, Inv, Processes, PortableSteps, InstallerSteps, Busy, Alive
<1>18. ASSUME NEW c \in Calls, NewNotPlaced(c) PROVE Processes'
  BY <1>18, Numbers, Members, HelperFrame DEF NewNotPlaced, CallAt, HelperAt, fileVars,
     appVars, bounds, Inv, Processes, PortableSteps, InstallerSteps, Busy, Alive
<1>19. ASSUME NEW c \in Calls, RestoreUnplaced(c) PROVE Processes'
  BY <1>19, Numbers, Members, HelperFrame DEF RestoreUnplaced, PutBack, CallAt,
     HelperAt, fileVars, appVars, bounds, Inv, Processes, PortableSteps,
     InstallerSteps, Busy, Alive
<1>20. ASSUME NEW c \in Calls, RestoreOld(c) PROVE Processes'
  BY <1>20, Numbers, Members, HelperFrame DEF RestoreOld, PutBack, CallAt, HelperAt,
     fileVars, appVars, bounds, Inv, Processes, PortableSteps, InstallerSteps, Busy,
     Alive
<1>21. ASSUME NEW c \in Calls, NotRestored(c) PROVE Processes'
  BY <1>21, Numbers, Members, HelperFrame DEF NotRestored, CallAt, HelperAt, fileVars,
     appVars, bounds, Inv, Processes, PortableSteps, InstallerSteps, Busy, Alive
<1>22. ASSUME NEW c \in Calls, LaunchNew(c) PROVE Processes'
  BY <1>22, Numbers, Members, ChildFrame, SpawnFrame DEF fileVars, appVars, bounds,
     Inv, Processes, PortableSteps, InstallerSteps, Busy, Alive
<1>23. ASSUME NEW c \in Calls, NewNotLaunched(c) PROVE Processes'
  BY <1>23, Numbers, Members, HelperFrame DEF NewNotLaunched, CallAt, HelperAt,
     fileVars, appVars, bounds, Inv, Processes, PortableSteps, InstallerSteps, Busy,
     Alive
<1>24. ASSUME NEW c \in Calls, SeeReady(c) PROVE Processes'
  BY <1>24, Numbers, Members, HelperFrame DEF SeeReady, Confirmed, CallAt, HelperAt,
     fileVars, appVars, bounds, Inv, Processes, PortableSteps, InstallerSteps, Busy,
     Alive
<1>25. ASSUME NEW c \in Calls, SeeExit(c) PROVE Processes'
  BY <1>25, Numbers, Members, HelperFrame DEF SeeExit, CallAt, HelperAt, fileVars,
     appVars, bounds, Inv, Processes, PortableSteps, InstallerSteps, Busy, Alive
<1>26. ASSUME NEW c \in Calls, StartTimeout(c) PROVE Processes'
  BY <1>26, Numbers, Members, HelperFrame DEF StartTimeout, CallAt, HelperAt, fileVars,
     appVars, bounds, Inv, Processes, PortableSteps, InstallerSteps, Busy, Alive
<1>27. ASSUME NEW c \in Calls, KillNew(c) PROVE Processes'
  <2>1. /\ helper[c].pc = "killing" /\ helper'[c].pc = "undoing"
        /\ \A d \in Calls \ {c} : helper'[d] = helper[d]
        /\ call' = call /\ ready' = ready
    BY <1>27, HelperFrame DEF KillNew, HelperAt, fileVars, Inv
  <2>2. helper[c].child \in Pids
    BY <2>1, Members DEF Inv, Processes
  <2>3. /\ app'[helper[c].child].state = "gone"
        /\ \A q \in Pids : /\ q # helper[c].child => app'[q].state = app[q].state
                           /\ app'[q].started = app[q].started
                           /\ app'[q].session = app[q].session
        /\ instance' = IF instance = helper[c].child THEN NoPid ELSE instance
    BY <1>27, <2>2, AppFrame DEF KillNew, Gone, Inv
  <2>4. "undoing" \in PortableSteps /\ "killing" \in PortableSteps
    BY DEF PortableSteps
  <2>5. \A q \in Pids : /\ app[q].state = "gone" => app'[q].state = "gone"
                        /\ app'[q].state \in {app[q].state, "gone"}
    BY <2>3
  <2>6. (\A p \in Pids : app[p].state \in {"setup", "running"} => instance = p)'
    BY <2>3 DEF Inv, Processes
  <2>7. ASSUME NEW d \in Calls
        PROVE  (/\ call[d].pc # "idle" => call[d].pid \in Pids /\ app[call[d].pid].state # "none"
                /\ call[d].pc = "idle" => call[d].pid = NoPid
                /\ helper[d].pc # "none" =>
                     call[d].pc \in {"stopping", "over"} /\ app[call[d].pid].started
                /\ helper[d].pc \in PortableSteps \/ helper[d].pc \in InstallerSteps =>
                     app[call[d].pid].state = "gone"
                /\ call[d].pc \in {"asking", "downloading", "published"} =>
                     ~app[call[d].pid].started
                /\ ready[d] # NoPid => app[ready[d]].state \in {"running", "leaving", "gone"}
                /\ helper[d].pc \in {"confirming", "killing"} => helper[d].child # NoPid)'
    <3>1. /\ helper'[d].pc # "none" => helper[d].pc # "none"
          /\ helper'[d].pc \in PortableSteps \/ helper'[d].pc \in InstallerSteps =>
               helper[d].pc \in PortableSteps \/ helper[d].pc \in InstallerSteps
          /\ helper'[d].pc \in {"confirming", "killing"} =>
               helper[d].pc \in {"confirming", "killing"} /\ helper'[d] = helper[d]
      BY <2>1, <2>4
    <3>2. /\ call[d].pid \in Pids \cup {NoPid} /\ ready[d] \in Pids \cup {NoPid}
          /\ helper[d].pc # "none" => call[d].pc # "idle"
      BY Members DEF Inv, Processes
    <3>3. /\ call[d].pc # "idle" => call[d].pid \in Pids
          /\ helper[d].pc \in PortableSteps \/ helper[d].pc \in InstallerSteps =>
               helper[d].pc # "none"
      BY DEF Inv, Processes, PortableSteps, InstallerSteps
    <3> QED
      BY <2>1, <2>3, <2>5, <3>1, <3>2, <3>3 DEF Inv, Processes
  <2>8. (\A p \in Pids : app[p].session # NoCall =>
           /\ helper[app[p].session].pc # "none"
           /\ app[call[app[p].session].pid].state = "gone")'
    BY <2>1, <2>3, <2>5, Members DEF Inv, Processes
  <2> QED
    BY <2>1, <2>6, <2>7, <2>8 DEF Inv, Processes
<1>28. ASSUME NEW c \in Calls, RemoveNew(c) PROVE Processes'
  BY <1>28, Numbers, Members, HelperFrame DEF RemoveNew, CallAt, HelperAt, fileVars,
     appVars, bounds, Inv, Processes, PortableSteps, InstallerSteps, Busy, Alive
<1>29. ASSUME NEW c \in Calls, NewNotRemoved(c) PROVE Processes'
  BY <1>29, Numbers, Members, HelperFrame DEF NewNotRemoved, CallAt, HelperAt,
     fileVars, appVars, bounds, Inv, Processes, PortableSteps, InstallerSteps, Busy,
     Alive
<1>30. ASSUME NEW c \in Calls, Relaunch(c) PROVE Processes'
  BY <1>30, Numbers, Members, HelperFrame, SpawnFrame DEF Relaunch, CallAt, HelperAt,
     fileVars, appVars, bounds, Inv, Processes, PortableSteps, InstallerSteps, Busy,
     Alive
<1>31. ASSUME NEW c \in Calls, NotRelaunched(c) PROVE Processes'
  BY <1>31, Numbers, Members, HelperFrame DEF NotRelaunched, CallAt, HelperAt,
     fileVars, appVars, bounds, Inv, Processes, PortableSteps, InstallerSteps, Busy,
     Alive
<1>32. ASSUME NEW c \in Calls, RunInstaller(c) PROVE Processes'
  BY <1>32, Numbers, Members, HelperFrame DEF RunInstaller, CallAt, HelperAt, fileVars,
     appVars, bounds, Inv, Processes, PortableSteps, InstallerSteps, Busy, Alive
<1>33. ASSUME NEW c \in Calls, StartInstalled(c) PROVE Processes'
  BY <1>33, Numbers, Members, HelperFrame, SpawnFrame DEF StartInstalled, CallAt,
     HelperAt, fileVars, appVars, bounds, Inv, Processes, PortableSteps,
     InstallerSteps, Busy, Alive
<1>34. ASSUME NEW c \in Calls, InstalledNotStarted(c) PROVE Processes'
  BY <1>34, Numbers, Members, HelperFrame DEF InstalledNotStarted, CallAt, HelperAt,
     fileVars, appVars, bounds, Inv, Processes, PortableSteps, InstallerSteps, Busy,
     Alive
<1>35. ASSUME NEW c \in Calls, Damage(c) PROVE Processes'
  BY <1>35, Numbers, Members DEF Damage, CallAt, HelperAt, fileVars, appVars, bounds,
     Inv, Processes, PortableSteps, InstallerSteps, Busy, Alive
<1>36. ASSUME NEW c \in Calls, HelperLost(c) PROVE Processes'
  BY <1>36, Numbers, Members, HelperFrame DEF HelperLost, CallAt, HelperAt, fileVars,
     appVars, bounds, Inv, Processes, PortableSteps, InstallerSteps, Busy, Alive,
     HelperEnded
<1>37. ASSUME NEW p \in Pids, Leave(p) PROVE Processes'
  BY <1>37, Numbers, Members, AppFrame DEF Leave, Gone, CallAt, HelperAt, fileVars,
     appVars, bounds, Inv, Processes, PortableSteps, InstallerSteps, Busy, Alive
<1>38. ASSUME NEW p \in Pids, Quit(p) PROVE Processes'
  BY <1>38, Numbers, Members, AppFrame DEF Quit, Gone, CallAt, HelperAt, fileVars,
     appVars, bounds, Inv, Processes, PortableSteps, InstallerSteps, Busy, Alive
<1>39. ASSUME NEW p \in Pids, Boot(p) PROVE Processes'
  BY <1>39, Numbers, Members, AppFrame DEF Boot, Gone, CallAt, HelperAt, fileVars,
     appVars, bounds, Inv, Processes, PortableSteps, InstallerSteps, Busy, Alive
<1>40. ASSUME NEW p \in Pids, SetUp(p) PROVE Processes'
  <2>1. /\ AppTo(p, "running") /\ app[p].state = "setup"
        /\ UNCHANGED << call, helper, instance >>
    BY <1>40 DEF SetUp
  <2>2. /\ app'[p].state = "running"
        /\ \A q \in Pids : /\ app'[q].started = app[q].started
                           /\ app'[q].session = app[q].session
        /\ \A q \in Pids \ {p} : app'[q] = app[q]
    BY <2>1, AppFrame DEF Inv
  <2>3. \A c \in Calls : ready'[c] \in {ready[c], p}
    BY <1>40, Places DEF Inv, SetUp
  <2> QED
    BY <2>1, <2>2, <2>3, Numbers, Members
    DEF Inv, Processes, PortableSteps, InstallerSteps, Busy
<1>41. ASSUME NEW p \in Pids, SetUpFails(p) PROVE Processes'
  BY <1>41, Numbers, Members, AppFrame DEF SetUpFails, Gone, CallAt, HelperAt,
     fileVars, appVars, bounds, Inv, Processes, PortableSteps, InstallerSteps, Busy,
     Alive
<1> QED
  BY <1>1, <1>2, <1>3, <1>4, <1>5, <1>6, <1>7, <1>8, <1>9, <1>10, <1>11, <1>12, <1>13,
     <1>14, <1>15, <1>16, <1>17, <1>18, <1>19, <1>20, <1>21, <1>22, <1>23, <1>24,
     <1>25, <1>26, <1>27, <1>28, <1>29, <1>30, <1>31, <1>32, <1>33, <1>34, <1>35,
     <1>36, <1>37, <1>38, <1>39, <1>40, <1>41 DEF Next, CallStep, HelperStep, AppStep

\* Every step keeps one helper per program.
LEMMA OneHelperPreserved == ASSUME Inv, Next PROVE OneHelperPerProgram'
<1>1. ASSUME Publish PROVE OneHelperPerProgram'
  BY <1>1, Numbers, Members DEF Publish, CallAt, HelperAt, fileVars, appVars, bounds,
     Inv, Processes, OneHelperPerProgram
<1>2. ASSUME StartByUser PROVE OneHelperPerProgram'
  BY <1>2, Numbers, Members, SpawnFrame DEF StartByUser, CallAt, HelperAt, fileVars,
     appVars, bounds, Inv, Processes, OneHelperPerProgram
<1>3. ASSUME PowerCut PROVE OneHelperPerProgram'
  BY <1>3, Numbers, Members, PowerFrame DEF fileVars, appVars, bounds, Inv, Processes,
     OneHelperPerProgram, HelperEnded
<1>4. ASSUME NEW c \in Calls, NEW p \in Pids, Ask(c, p) PROVE OneHelperPerProgram'
  BY <1>4, Numbers, Members, AskFrame DEF fileVars, appVars, bounds, Inv, Processes,
     OneHelperPerProgram
<1>5. ASSUME NEW c \in Calls, UpToDate(c) PROVE OneHelperPerProgram'
  BY <1>5, Numbers, Members, UpToDateFrame DEF fileVars, appVars, bounds, Inv,
     Processes, OneHelperPerProgram
<1>6. ASSUME NEW c \in Calls, Select(c) PROVE OneHelperPerProgram'
  BY <1>6, Numbers, Members, SelectFrame DEF fileVars, appVars, bounds, Inv, Processes,
     OneHelperPerProgram
<1>7. ASSUME NEW c \in Calls, Refuse(c) PROVE OneHelperPerProgram'
  BY <1>7, Numbers, Members, CallFrame DEF Refuse, CallAt, HelperAt, fileVars, appVars,
     bounds, Inv, Processes, OneHelperPerProgram
<1>8. ASSUME NEW c \in Calls, Receive(c) PROVE OneHelperPerProgram'
  BY <1>8, Numbers, Members, CallFrame DEF Receive, DigestMatches, WellFormed, CallAt,
     HelperAt, fileVars, appVars, bounds, Inv, Processes, OneHelperPerProgram
<1>9. ASSUME NEW c \in Calls, LaunchHelper(c) PROVE OneHelperPerProgram'
  BY <1>9, Numbers, Members, LaunchFrame, CallFrame, HelperFrame DEF fileVars, appVars,
     bounds, Inv, Processes, OneHelperPerProgram
<1>10. ASSUME NEW c \in Calls, HelperNotLaunched(c) PROVE OneHelperPerProgram'
  BY <1>10, Numbers, Members, CallFrame DEF HelperNotLaunched, PlanIsPossible, CallAt,
     HelperAt, fileVars, appVars, bounds, Inv, Processes, OneHelperPerProgram
<1>11. ASSUME NEW c \in Calls, Stop(c) PROVE OneHelperPerProgram'
  BY <1>11, Numbers, Members, CallFrame, AppFrame DEF Stop, CallAt, HelperAt, fileVars,
     appVars, bounds, Inv, Processes, OneHelperPerProgram
<1>12. ASSUME NEW c \in Calls, ParentExited(c) PROVE OneHelperPerProgram'
  BY <1>12, Numbers, Members, HelperFrame DEF ParentExited, CallAt, HelperAt, fileVars,
     appVars, bounds, Inv, Processes, OneHelperPerProgram
<1>13. ASSUME NEW c \in Calls, GiveUpWaiting(c) PROVE OneHelperPerProgram'
  BY <1>13, Numbers, Members, HelperFrame DEF GiveUpWaiting, CallAt, HelperAt,
     fileVars, appVars, bounds, Inv, Processes, OneHelperPerProgram
<1>14. ASSUME NEW c \in Calls, CheckPlan(c) PROVE OneHelperPerProgram'
  BY <1>14, Numbers, Members, HelperFrame DEF CheckPlan, PlanIsPossible, StillVerified,
     DigestMatches, CallAt, HelperAt, fileVars, appVars, bounds, Inv, Processes,
     OneHelperPerProgram
<1>15. ASSUME NEW c \in Calls, KeepOld(c) PROVE OneHelperPerProgram'
  BY <1>15, Numbers, Members, HelperFrame DEF KeepOld, CallAt, HelperAt, fileVars,
     appVars, bounds, Inv, Processes, OneHelperPerProgram
<1>16. ASSUME NEW c \in Calls, OldNotKept(c) PROVE OneHelperPerProgram'
  BY <1>16, Numbers, Members, HelperFrame DEF OldNotKept, CallAt, HelperAt, fileVars,
     appVars, bounds, Inv, Processes, OneHelperPerProgram
<1>17. ASSUME NEW c \in Calls, PlaceNew(c) PROVE OneHelperPerProgram'
  BY <1>17, Numbers, Members, HelperFrame DEF PlaceNew, CallAt, HelperAt, fileVars,
     appVars, bounds, Inv, Processes, OneHelperPerProgram
<1>18. ASSUME NEW c \in Calls, NewNotPlaced(c) PROVE OneHelperPerProgram'
  BY <1>18, Numbers, Members, HelperFrame DEF NewNotPlaced, CallAt, HelperAt, fileVars,
     appVars, bounds, Inv, Processes, OneHelperPerProgram
<1>19. ASSUME NEW c \in Calls, RestoreUnplaced(c) PROVE OneHelperPerProgram'
  BY <1>19, Numbers, Members, HelperFrame DEF RestoreUnplaced, PutBack, CallAt,
     HelperAt, fileVars, appVars, bounds, Inv, Processes, OneHelperPerProgram
<1>20. ASSUME NEW c \in Calls, RestoreOld(c) PROVE OneHelperPerProgram'
  BY <1>20, Numbers, Members, HelperFrame DEF RestoreOld, PutBack, CallAt, HelperAt,
     fileVars, appVars, bounds, Inv, Processes, OneHelperPerProgram
<1>21. ASSUME NEW c \in Calls, NotRestored(c) PROVE OneHelperPerProgram'
  BY <1>21, Numbers, Members, HelperFrame DEF NotRestored, CallAt, HelperAt, fileVars,
     appVars, bounds, Inv, Processes, OneHelperPerProgram
<1>22. ASSUME NEW c \in Calls, LaunchNew(c) PROVE OneHelperPerProgram'
  BY <1>22, Numbers, Members, ChildFrame, SpawnFrame DEF fileVars, appVars, bounds,
     Inv, Processes, OneHelperPerProgram
<1>23. ASSUME NEW c \in Calls, NewNotLaunched(c) PROVE OneHelperPerProgram'
  BY <1>23, Numbers, Members, HelperFrame DEF NewNotLaunched, CallAt, HelperAt,
     fileVars, appVars, bounds, Inv, Processes, OneHelperPerProgram
<1>24. ASSUME NEW c \in Calls, SeeReady(c) PROVE OneHelperPerProgram'
  BY <1>24, Numbers, Members, HelperFrame DEF SeeReady, Confirmed, CallAt, HelperAt,
     fileVars, appVars, bounds, Inv, Processes, OneHelperPerProgram
<1>25. ASSUME NEW c \in Calls, SeeExit(c) PROVE OneHelperPerProgram'
  BY <1>25, Numbers, Members, HelperFrame DEF SeeExit, CallAt, HelperAt, fileVars,
     appVars, bounds, Inv, Processes, OneHelperPerProgram
<1>26. ASSUME NEW c \in Calls, StartTimeout(c) PROVE OneHelperPerProgram'
  BY <1>26, Numbers, Members, HelperFrame DEF StartTimeout, CallAt, HelperAt, fileVars,
     appVars, bounds, Inv, Processes, OneHelperPerProgram
<1>27. ASSUME NEW c \in Calls, KillNew(c) PROVE OneHelperPerProgram'
  BY <1>27, Numbers, Members, HelperFrame, AppFrame DEF KillNew, Gone, CallAt,
     HelperAt, fileVars, appVars, bounds, Inv, Processes, OneHelperPerProgram
<1>28. ASSUME NEW c \in Calls, RemoveNew(c) PROVE OneHelperPerProgram'
  BY <1>28, Numbers, Members, HelperFrame DEF RemoveNew, CallAt, HelperAt, fileVars,
     appVars, bounds, Inv, Processes, OneHelperPerProgram
<1>29. ASSUME NEW c \in Calls, NewNotRemoved(c) PROVE OneHelperPerProgram'
  BY <1>29, Numbers, Members, HelperFrame DEF NewNotRemoved, CallAt, HelperAt,
     fileVars, appVars, bounds, Inv, Processes, OneHelperPerProgram
<1>30. ASSUME NEW c \in Calls, Relaunch(c) PROVE OneHelperPerProgram'
  BY <1>30, Numbers, Members, HelperFrame, SpawnFrame DEF Relaunch, CallAt, HelperAt,
     fileVars, appVars, bounds, Inv, Processes, OneHelperPerProgram
<1>31. ASSUME NEW c \in Calls, NotRelaunched(c) PROVE OneHelperPerProgram'
  BY <1>31, Numbers, Members, HelperFrame DEF NotRelaunched, CallAt, HelperAt,
     fileVars, appVars, bounds, Inv, Processes, OneHelperPerProgram
<1>32. ASSUME NEW c \in Calls, RunInstaller(c) PROVE OneHelperPerProgram'
  BY <1>32, Numbers, Members, HelperFrame DEF RunInstaller, CallAt, HelperAt, fileVars,
     appVars, bounds, Inv, Processes, OneHelperPerProgram
<1>33. ASSUME NEW c \in Calls, StartInstalled(c) PROVE OneHelperPerProgram'
  BY <1>33, Numbers, Members, HelperFrame, SpawnFrame DEF StartInstalled, CallAt,
     HelperAt, fileVars, appVars, bounds, Inv, Processes, OneHelperPerProgram
<1>34. ASSUME NEW c \in Calls, InstalledNotStarted(c) PROVE OneHelperPerProgram'
  BY <1>34, Numbers, Members, HelperFrame DEF InstalledNotStarted, CallAt, HelperAt,
     fileVars, appVars, bounds, Inv, Processes, OneHelperPerProgram
<1>35. ASSUME NEW c \in Calls, Damage(c) PROVE OneHelperPerProgram'
  BY <1>35, Numbers, Members DEF Damage, CallAt, HelperAt, fileVars, appVars, bounds,
     Inv, Processes, OneHelperPerProgram
<1>36. ASSUME NEW c \in Calls, HelperLost(c) PROVE OneHelperPerProgram'
  BY <1>36, Numbers, Members, HelperFrame DEF HelperLost, CallAt, HelperAt, fileVars,
     appVars, bounds, Inv, Processes, OneHelperPerProgram, HelperEnded
<1>37. ASSUME NEW p \in Pids, Leave(p) PROVE OneHelperPerProgram'
  BY <1>37, Numbers, Members, AppFrame DEF Leave, Gone, CallAt, HelperAt, fileVars,
     appVars, bounds, Inv, Processes, OneHelperPerProgram
<1>38. ASSUME NEW p \in Pids, Quit(p) PROVE OneHelperPerProgram'
  BY <1>38, Numbers, Members, AppFrame DEF Quit, Gone, CallAt, HelperAt, fileVars,
     appVars, bounds, Inv, Processes, OneHelperPerProgram
<1>39. ASSUME NEW p \in Pids, Boot(p) PROVE OneHelperPerProgram'
  BY <1>39, Numbers, Members, AppFrame DEF Boot, Gone, CallAt, HelperAt, fileVars,
     appVars, bounds, Inv, Processes, OneHelperPerProgram
<1>40. ASSUME NEW p \in Pids, SetUp(p) PROVE OneHelperPerProgram'
  BY <1>40, Numbers, Members, AppFrame DEF SetUp, CallAt, HelperAt, fileVars, appVars,
     bounds, Inv, Processes, OneHelperPerProgram
<1>41. ASSUME NEW p \in Pids, SetUpFails(p) PROVE OneHelperPerProgram'
  BY <1>41, Numbers, Members, AppFrame DEF SetUpFails, Gone, CallAt, HelperAt,
     fileVars, appVars, bounds, Inv, Processes, OneHelperPerProgram
<1> QED
  BY <1>1, <1>2, <1>3, <1>4, <1>5, <1>6, <1>7, <1>8, <1>9, <1>10, <1>11, <1>12, <1>13,
     <1>14, <1>15, <1>16, <1>17, <1>18, <1>19, <1>20, <1>21, <1>22, <1>23, <1>24,
     <1>25, <1>26, <1>27, <1>28, <1>29, <1>30, <1>31, <1>32, <1>33, <1>34, <1>35,
     <1>36, <1>37, <1>38, <1>39, <1>40, <1>41 DEF Next, CallStep, HelperStep, AppStep

-----------------------------------------------------------------------------
(* The invariant. *)

\* It holds at the start.
LEMMA InvInit == Init => Inv
<1> SUFFICES ASSUME Init PROVE Inv
  OBVIOUS
<1>1. /\ \A c \in Calls : /\ call[c].pc = "idle" /\ call[c].pid = NoPid
                          /\ call[c].kind = "none" /\ helper[c].pc = "none"
                          /\ ready[c] = NoPid /\ backup[c] = Absent /\ staged[c] = Absent
      /\ \A p \in Pids : /\ app[p].state = IF p = 1 THEN "running" ELSE "none"
                         /\ app[p].session = NoCall
      /\ entry = 1 /\ instance = 1 /\ trusted = {1}
  BY DEF Init
<1>2. TypeOK
  <2>1. /\ call \in [Calls -> CallRecords] /\ helper \in [Calls -> HelperRecords]
        /\ app \in [Pids -> AppRecords]
    BY Numbers DEF Init, CallRecords, HelperRecords, AppRecords, CallStates,
                   HelperStates, AppStates
  <2> QED
    BY <2>1, Numbers, Untrusted, UpdateAssumption DEF Init, TypeOK
<1>3. Kinds
  BY <1>1 DEF Kinds, PortableSteps, InstallerSteps, Absent
<1>4. Files
  BY <1>1 DEF Files, Kept, Absent
<1>5. Processes
  BY <1>1, Numbers DEF Processes, PortableSteps, InstallerSteps, Busy
<1> QED
  BY <1>1, <1>2, <1>3, <1>4, <1>5 DEF Inv, OneHelperPerProgram

\* It is kept when nothing happens.
LEMMA InvStutters == Inv /\ UNCHANGED vars => Inv'
<1> SUFFICES ASSUME Inv, UNCHANGED vars PROVE Inv'
  OBVIOUS
<1>1. UNCHANGED << mode, release, entry, part, staged, ready, backup, call, helper,
                   app, instance, vacated, trusted, failures, userStarts >>
  BY DEF vars, fileVars, appVars, bounds
<1>2. TypeOK'
  BY <1>1 DEF Inv, TypeOK
<1>3. Kinds' /\ Files' /\ OneHelperPerProgram'
  BY <1>1 DEF Inv, Kinds, Files, OneHelperPerProgram
<1>4. Processes'
  BY <1>1 DEF Inv, Processes
<1> QED
  BY <1>2, <1>3, <1>4 DEF Inv

\* It always holds.
THEOREM InvHolds == Spec => []Inv
<1>1. Inv /\ [Next]_vars => Inv'
  BY InvStutters, TypePreserved, KindsPreserved, FilesPreserved, ProcessesPreserved,
     OneHelperPreserved DEF Inv
<1> QED
  BY <1>1, InvInit, PTL DEF Spec

\* Every variable keeps its type.
THEOREM TypeCorrect == Spec => []TypeOK
<1>1. Inv => TypeOK
  BY DEF Inv
<1> QED
  BY <1>1, InvHolds, PTL

\* One application starts at most one helper (INSTALL_LOCK and INSTALL_STARTED).
THEOREM OneHelperHolds == Spec => []OneHelperPerProgram
<1>1. Inv => OneHelperPerProgram
  BY DEF Inv
<1> QED
  BY <1>1, InvHolds, PTL

\* Two applications never serve at once, and a program started by a helper never
\* runs beside the one it replaces (the single-instance plugin, the wait for exit).
THEOREM OneServesHolds == Spec => []OneServes
<1>1. Inv => OneServes
  <2> SUFFICES ASSUME Inv PROVE OneServes
    OBVIOUS
  <2>1. ASSUME NEW p \in Pids, NEW q \in Pids, app[p].state \in {"setup", "running"},
               app[q].state \in {"setup", "running"}
        PROVE  p = q
    BY <2>1 DEF Inv, Processes
  <2>2. ASSUME NEW p \in Pids, app[p].session # NoCall
        PROVE  ~Alive(call[app[p].session].pid)
    BY <2>2 DEF Inv, Processes, Alive
  <2> QED
    BY <2>1, <2>2 DEF OneServes
<1> QED
  BY <1>1, InvHolds, PTL

\* One helper for a program, and one program for the port and the database.
THEOREM OneAtATimeHolds == Spec => []OneAtATime
<1>1. OneHelperPerProgram /\ OneServes => OneAtATime
  BY DEF OneAtATime
<1> QED
  BY <1>1, OneHelperHolds, OneServesHolds, PTL
-----------------------------------------------------------------------------
(* The replacement implements ProgramStore. *)

\* Only a verified download adds a version, and it moves no file.
LEMMA TrustGrows ==
    ASSUME TypeOK, Next
    PROVE  \/ trusted' = trusted
           \/ \E v \in Versions : /\ trusted' = trusted \union {v}
                                   /\ UNCHANGED << entry, vacated, backup >>
<1>1. CASE Publish
  BY <1>1 DEF Publish, CallAt, HelperAt, fileVars, appVars, bounds
<1>2. CASE StartByUser
  BY <1>2 DEF StartByUser, CallAt, HelperAt, fileVars, appVars, bounds
<1>3. CASE PowerCut
  BY <1>3 DEF fileVars, appVars, bounds, PowerCut
<1>4. CASE \E e \in Calls, p \in Pids : Ask(e, p)
  BY <1>4 DEF fileVars, appVars, bounds, Ask
<1>5. CASE \E e \in Calls : UpToDate(e)
  BY <1>5 DEF fileVars, appVars, bounds, UpToDate
<1>6. CASE \E e \in Calls : Select(e)
  BY <1>6 DEF fileVars, appVars, bounds, Select
<1>7. CASE \E e \in Calls : Refuse(e)
  BY <1>7 DEF Refuse, CallAt, HelperAt, fileVars, appVars, bounds
<1>8. CASE \E e \in Calls : Receive(e)
  BY <1>8, Members, Untrusted DEF Receive, DigestMatches, WellFormed, CallAt, HelperAt,
     fileVars, appVars, bounds
<1>9. CASE \E e \in Calls : LaunchHelper(e)
  BY <1>9 DEF fileVars, appVars, bounds, LaunchHelper
<1>10. CASE \E e \in Calls : HelperNotLaunched(e)
  BY <1>10 DEF HelperNotLaunched, PlanIsPossible, CallAt, HelperAt, fileVars, appVars,
     bounds
<1>11. CASE \E e \in Calls : Stop(e)
  BY <1>11 DEF Stop, CallAt, HelperAt, fileVars, appVars, bounds
<1>12. CASE \E e \in Calls : ParentExited(e)
  BY <1>12 DEF ParentExited, CallAt, HelperAt, fileVars, appVars, bounds
<1>13. CASE \E e \in Calls : GiveUpWaiting(e)
  BY <1>13 DEF GiveUpWaiting, CallAt, HelperAt, fileVars, appVars, bounds
<1>14. CASE \E e \in Calls : CheckPlan(e)
  BY <1>14 DEF CheckPlan, PlanIsPossible, StillVerified, DigestMatches, CallAt,
     HelperAt, fileVars, appVars, bounds
<1>15. CASE \E e \in Calls : KeepOld(e)
  BY <1>15 DEF KeepOld, CallAt, HelperAt, fileVars, appVars, bounds
<1>16. CASE \E e \in Calls : OldNotKept(e)
  BY <1>16 DEF OldNotKept, CallAt, HelperAt, fileVars, appVars, bounds
<1>17. CASE \E e \in Calls : PlaceNew(e)
  BY <1>17 DEF PlaceNew, CallAt, HelperAt, fileVars, appVars, bounds
<1>18. CASE \E e \in Calls : NewNotPlaced(e)
  BY <1>18 DEF NewNotPlaced, CallAt, HelperAt, fileVars, appVars, bounds
<1>19. CASE \E e \in Calls : RestoreUnplaced(e)
  BY <1>19 DEF RestoreUnplaced, PutBack, CallAt, HelperAt, fileVars, appVars, bounds
<1>20. CASE \E e \in Calls : RestoreOld(e)
  BY <1>20 DEF RestoreOld, PutBack, CallAt, HelperAt, fileVars, appVars, bounds
<1>21. CASE \E e \in Calls : NotRestored(e)
  BY <1>21 DEF NotRestored, CallAt, HelperAt, fileVars, appVars, bounds
<1>22. CASE \E e \in Calls : LaunchNew(e)
  BY <1>22 DEF fileVars, appVars, bounds, LaunchNew
<1>23. CASE \E e \in Calls : NewNotLaunched(e)
  BY <1>23 DEF NewNotLaunched, CallAt, HelperAt, fileVars, appVars, bounds
<1>24. CASE \E e \in Calls : SeeReady(e)
  BY <1>24 DEF SeeReady, Confirmed, CallAt, HelperAt, fileVars, appVars, bounds
<1>25. CASE \E e \in Calls : SeeExit(e)
  BY <1>25 DEF SeeExit, CallAt, HelperAt, fileVars, appVars, bounds
<1>26. CASE \E e \in Calls : StartTimeout(e)
  BY <1>26 DEF StartTimeout, CallAt, HelperAt, fileVars, appVars, bounds
<1>27. CASE \E e \in Calls : KillNew(e)
  BY <1>27 DEF KillNew, Gone, CallAt, HelperAt, fileVars, appVars, bounds
<1>28. CASE \E e \in Calls : RemoveNew(e)
  BY <1>28 DEF RemoveNew, CallAt, HelperAt, fileVars, appVars, bounds
<1>29. CASE \E e \in Calls : NewNotRemoved(e)
  BY <1>29 DEF NewNotRemoved, CallAt, HelperAt, fileVars, appVars, bounds
<1>30. CASE \E e \in Calls : Relaunch(e)
  BY <1>30 DEF Relaunch, CallAt, HelperAt, fileVars, appVars, bounds
<1>31. CASE \E e \in Calls : NotRelaunched(e)
  BY <1>31 DEF NotRelaunched, CallAt, HelperAt, fileVars, appVars, bounds
<1>32. CASE \E e \in Calls : RunInstaller(e)
  BY <1>32 DEF RunInstaller, CallAt, HelperAt, fileVars, appVars, bounds
<1>33. CASE \E e \in Calls : StartInstalled(e)
  BY <1>33 DEF StartInstalled, CallAt, HelperAt, fileVars, appVars, bounds
<1>34. CASE \E e \in Calls : InstalledNotStarted(e)
  BY <1>34 DEF InstalledNotStarted, CallAt, HelperAt, fileVars, appVars, bounds
<1>35. CASE \E e \in Calls : Damage(e)
  BY <1>35 DEF Damage, CallAt, HelperAt, fileVars, appVars, bounds
<1>36. CASE \E e \in Calls : HelperLost(e)
  BY <1>36 DEF HelperLost, CallAt, HelperAt, fileVars, appVars, bounds
<1>37. CASE \E p \in Pids : Leave(p)
  BY <1>37 DEF Leave, Gone, CallAt, HelperAt, fileVars, appVars, bounds
<1>38. CASE \E p \in Pids : Quit(p)
  BY <1>38 DEF Quit, Gone, CallAt, HelperAt, fileVars, appVars, bounds
<1>39. CASE \E p \in Pids : Boot(p)
  BY <1>39 DEF Boot, Gone, CallAt, HelperAt, fileVars, appVars, bounds
<1>40. CASE \E p \in Pids : SetUp(p)
  BY <1>40 DEF SetUp, CallAt, HelperAt, fileVars, appVars, bounds
<1>41. CASE \E p \in Pids : SetUpFails(p)
  BY <1>41 DEF SetUpFails, Gone, CallAt, HelperAt, fileVars, appVars, bounds
<1> QED
  BY <1>1, <1>2, <1>3, <1>4, <1>5, <1>6, <1>7, <1>8, <1>9, <1>10, <1>11, <1>12, <1>13,
     <1>14, <1>15, <1>16, <1>17, <1>18, <1>19, <1>20, <1>21, <1>22, <1>23, <1>24,
     <1>25, <1>26, <1>27, <1>28, <1>29, <1>30, <1>31, <1>32, <1>33, <1>34, <1>35,
     <1>36, <1>37, <1>38, <1>39, <1>40, <1>41 DEF Next, CallStep, HelperStep, AppStep

\* What can be started, or restored by hand, is verified.
LEMMA RecoverableIsTrusted == Inv => Recoverable \in trusted
<1> SUFFICES ASSUME Inv PROVE Recoverable \in trusted
  OBVIOUS
<1>1. CASE entry # Absent
  BY <1>1 DEF Inv, Files, Recoverable
<1>2. CASE entry = Absent
  <2>1. vacated \in Calls /\ backup[vacated] \in trusted
    BY <1>2 DEF Inv, Files
  <2> QED
    BY <1>2, <2>1, Numbers DEF Recoverable
<1> QED
  BY <1>1, <1>2

\* Wherever an installation stops, some verified program can be started or put back
\* (portable_update.rs:76-103): the replacement implements ProgramStore.
THEOREM StoreImplemented == Spec => ProgramSurvives
<1>1. Init => Store!StoreInit
  BY Numbers DEF Init, Store!StoreInit, Recoverable, Absent
<1>2. ASSUME Inv, Inv', [Next]_vars
      PROVE  [Store!StoreNext]_(Store!storeVars)
  <2>1. CASE UNCHANGED vars
    BY <2>1 DEF vars, fileVars, Store!storeVars, Recoverable
  <2>2. CASE Next /\ trusted' = trusted
    <3>1. Recoverable' \in trusted
      <4>1. (Recoverable \in trusted)'
        BY <1>2, RecoverableIsTrusted, PTL
      <4> QED
        BY <2>2, <4>1
    <3>2. Recoverable' \in Versions
      BY <1>2, <3>1 DEF Inv, TypeOK
    <3>3. Store!Replace(Recoverable')
      BY <2>2, <3>1 DEF Store!Replace
    <3> QED
      BY <3>2, <3>3 DEF Store!StoreNext
  <2>3. CASE Next /\ trusted' # trusted
    <3>1. PICK v \in Versions : /\ trusted' = trusted \union {v}
                                /\ UNCHANGED << entry, vacated, backup >>
      BY <1>2, <2>3, TrustGrows DEF Inv
    <3>2. Store!Verify(v)
      BY <3>1 DEF Store!Verify, Recoverable
    <3> QED
      BY <3>2 DEF Store!StoreNext
  <2> QED
    BY <1>2, <2>1, <2>2, <2>3
<1> QED
  BY <1>1, <1>2, InvHolds, PTL DEF Spec, ProgramSurvives, Store!StoreSpec

-----------------------------------------------------------------------------
(* Action properties. *)

\* A helper does not fail in the middle of the replacement but at the second rename.
LEMMA FailsFrom ==
    ASSUME Inv, Next, NEW c \in Calls, helper[c].pc # "failed", helper'[c].pc = "failed"
    PROVE  /\ helper[c].pc \notin {"placing", "crashed"}
           /\ entry' = entry \/ helper[c].pc = "unplacing"
<1>1. CASE Publish
  BY <1>1 DEF Publish, CallAt, HelperAt, fileVars, appVars, bounds, Inv
<1>2. CASE StartByUser
  BY <1>2, SpawnFrame DEF StartByUser, CallAt, HelperAt, fileVars, appVars, bounds, Inv
<1>3. CASE PowerCut
  BY <1>3, PowerFrame DEF fileVars, appVars, bounds, Inv, HelperEnded
<1>4. CASE \E e \in Calls, p \in Pids : Ask(e, p)
  BY <1>4, AskFrame DEF fileVars, appVars, bounds, Inv
<1>5. CASE \E e \in Calls : UpToDate(e)
  BY <1>5, UpToDateFrame DEF fileVars, appVars, bounds, Inv
<1>6. CASE \E e \in Calls : Select(e)
  BY <1>6, SelectFrame DEF fileVars, appVars, bounds, Inv
<1>7. CASE \E e \in Calls : Refuse(e)
  BY <1>7, CallFrame DEF Refuse, CallAt, HelperAt, fileVars, appVars, bounds, Inv
<1>8. CASE \E e \in Calls : Receive(e)
  BY <1>8, CallFrame DEF Receive, DigestMatches, WellFormed, CallAt, HelperAt,
     fileVars, appVars, bounds, Inv
<1>9. CASE \E e \in Calls : LaunchHelper(e)
  BY <1>9, LaunchFrame, CallFrame, HelperFrame DEF fileVars, appVars, bounds, Inv
<1>10. CASE \E e \in Calls : HelperNotLaunched(e)
  BY <1>10, CallFrame DEF HelperNotLaunched, PlanIsPossible, CallAt, HelperAt,
     fileVars, appVars, bounds, Inv
<1>11. CASE \E e \in Calls : Stop(e)
  BY <1>11, CallFrame, AppFrame DEF Stop, CallAt, HelperAt, fileVars, appVars, bounds,
     Inv
<1>12. CASE \E e \in Calls : ParentExited(e)
  BY <1>12, HelperFrame DEF ParentExited, CallAt, HelperAt, fileVars, appVars, bounds,
     Inv
<1>13. CASE \E e \in Calls : GiveUpWaiting(e)
  BY <1>13, HelperFrame DEF GiveUpWaiting, CallAt, HelperAt, fileVars, appVars, bounds,
     Inv
<1>14. CASE \E e \in Calls : CheckPlan(e)
  BY <1>14, HelperFrame DEF CheckPlan, PlanIsPossible, StillVerified, DigestMatches,
     CallAt, HelperAt, fileVars, appVars, bounds, Inv
<1>15. CASE \E e \in Calls : KeepOld(e)
  BY <1>15, HelperFrame DEF KeepOld, CallAt, HelperAt, fileVars, appVars, bounds, Inv
<1>16. CASE \E e \in Calls : OldNotKept(e)
  BY <1>16, HelperFrame DEF OldNotKept, CallAt, HelperAt, fileVars, appVars, bounds,
     Inv
<1>17. CASE \E e \in Calls : PlaceNew(e)
  BY <1>17, HelperFrame DEF PlaceNew, CallAt, HelperAt, fileVars, appVars, bounds, Inv
<1>18. CASE \E e \in Calls : NewNotPlaced(e)
  BY <1>18, HelperFrame DEF NewNotPlaced, CallAt, HelperAt, fileVars, appVars, bounds,
     Inv
<1>19. CASE \E e \in Calls : RestoreUnplaced(e)
  BY <1>19, HelperFrame, Places DEF RestoreUnplaced, PutBack, CallAt, HelperAt,
     fileVars, appVars, bounds, Inv
<1>20. CASE \E e \in Calls : RestoreOld(e)
  BY <1>20, HelperFrame, Places DEF RestoreOld, PutBack, CallAt, HelperAt, fileVars,
     appVars, bounds, Inv
<1>21. CASE \E e \in Calls : NotRestored(e)
  BY <1>21, HelperFrame DEF NotRestored, CallAt, HelperAt, fileVars, appVars, bounds,
     Inv
<1>22. CASE \E e \in Calls : LaunchNew(e)
  BY <1>22, ChildFrame, SpawnFrame DEF fileVars, appVars, bounds, Inv
<1>23. CASE \E e \in Calls : NewNotLaunched(e)
  BY <1>23, HelperFrame DEF NewNotLaunched, CallAt, HelperAt, fileVars, appVars,
     bounds, Inv
<1>24. CASE \E e \in Calls : SeeReady(e)
  BY <1>24, HelperFrame DEF SeeReady, Confirmed, CallAt, HelperAt, fileVars, appVars,
     bounds, Inv
<1>25. CASE \E e \in Calls : SeeExit(e)
  BY <1>25, HelperFrame DEF SeeExit, CallAt, HelperAt, fileVars, appVars, bounds, Inv
<1>26. CASE \E e \in Calls : StartTimeout(e)
  BY <1>26, HelperFrame DEF StartTimeout, CallAt, HelperAt, fileVars, appVars, bounds,
     Inv
<1>27. CASE \E e \in Calls : KillNew(e)
  BY <1>27, HelperFrame, AppFrame DEF KillNew, Gone, CallAt, HelperAt, fileVars,
     appVars, bounds, Inv
<1>28. CASE \E e \in Calls : RemoveNew(e)
  BY <1>28, HelperFrame DEF RemoveNew, CallAt, HelperAt, fileVars, appVars, bounds, Inv
<1>29. CASE \E e \in Calls : NewNotRemoved(e)
  BY <1>29, HelperFrame DEF NewNotRemoved, CallAt, HelperAt, fileVars, appVars, bounds,
     Inv
<1>30. CASE \E e \in Calls : Relaunch(e)
  BY <1>30, HelperFrame, SpawnFrame DEF Relaunch, CallAt, HelperAt, fileVars, appVars,
     bounds, Inv
<1>31. CASE \E e \in Calls : NotRelaunched(e)
  BY <1>31, HelperFrame DEF NotRelaunched, CallAt, HelperAt, fileVars, appVars, bounds,
     Inv
<1>32. CASE \E e \in Calls : RunInstaller(e)
  BY <1>32, HelperFrame DEF RunInstaller, CallAt, HelperAt, fileVars, appVars, bounds,
     Inv
<1>33. CASE \E e \in Calls : StartInstalled(e)
  BY <1>33, HelperFrame, SpawnFrame DEF StartInstalled, CallAt, HelperAt, fileVars,
     appVars, bounds, Inv
<1>34. CASE \E e \in Calls : InstalledNotStarted(e)
  BY <1>34, HelperFrame DEF InstalledNotStarted, CallAt, HelperAt, fileVars, appVars,
     bounds, Inv
<1>35. CASE \E e \in Calls : Damage(e)
  BY <1>35 DEF Damage, CallAt, HelperAt, fileVars, appVars, bounds, Inv
<1>36. CASE \E e \in Calls : HelperLost(e)
  BY <1>36, HelperFrame DEF HelperLost, CallAt, HelperAt, fileVars, appVars, bounds,
     Inv, HelperEnded
<1>37. CASE \E p \in Pids : Leave(p)
  BY <1>37, AppFrame DEF Leave, Gone, CallAt, HelperAt, fileVars, appVars, bounds, Inv
<1>38. CASE \E p \in Pids : Quit(p)
  BY <1>38, AppFrame DEF Quit, Gone, CallAt, HelperAt, fileVars, appVars, bounds, Inv
<1>39. CASE \E p \in Pids : Boot(p)
  BY <1>39, AppFrame DEF Boot, Gone, CallAt, HelperAt, fileVars, appVars, bounds, Inv
<1>40. CASE \E p \in Pids : SetUp(p)
  BY <1>40, AppFrame DEF SetUp, CallAt, HelperAt, fileVars, appVars, bounds, Inv
<1>41. CASE \E p \in Pids : SetUpFails(p)
  BY <1>41, AppFrame DEF SetUpFails, Gone, CallAt, HelperAt, fileVars, appVars, bounds,
     Inv
<1> QED
  BY <1>1, <1>2, <1>3, <1>4, <1>5, <1>6, <1>7, <1>8, <1>9, <1>10, <1>11, <1>12, <1>13,
     <1>14, <1>15, <1>16, <1>17, <1>18, <1>19, <1>20, <1>21, <1>22, <1>23, <1>24,
     <1>25, <1>26, <1>27, <1>28, <1>29, <1>30, <1>31, <1>32, <1>33, <1>34, <1>35,
     <1>36, <1>37, <1>38, <1>39, <1>40, <1>41 DEF Next, CallStep, HelperStep, AppStep

\* A helper that waits for its program ends well only when it sees the ready file.
LEMMA KeptByReady ==
    ASSUME Inv, Next, NEW c \in Calls, helper[c].pc = "confirming", helper'[c].pc = "done"
    PROVE  SeeReady(c)
<1>1. CASE Publish
  BY <1>1 DEF Publish, CallAt, HelperAt, fileVars, appVars, bounds, Inv
<1>2. CASE StartByUser
  BY <1>2, SpawnFrame DEF StartByUser, CallAt, HelperAt, fileVars, appVars, bounds, Inv
<1>3. CASE PowerCut
  BY <1>3, PowerFrame DEF fileVars, appVars, bounds, Inv, HelperEnded
<1>4. CASE \E e \in Calls, p \in Pids : Ask(e, p)
  BY <1>4, AskFrame DEF fileVars, appVars, bounds, Inv
<1>5. CASE \E e \in Calls : UpToDate(e)
  BY <1>5, UpToDateFrame DEF fileVars, appVars, bounds, Inv
<1>6. CASE \E e \in Calls : Select(e)
  BY <1>6, SelectFrame DEF fileVars, appVars, bounds, Inv
<1>7. CASE \E e \in Calls : Refuse(e)
  BY <1>7, CallFrame DEF Refuse, CallAt, HelperAt, fileVars, appVars, bounds, Inv
<1>8. CASE \E e \in Calls : Receive(e)
  BY <1>8, CallFrame DEF Receive, DigestMatches, WellFormed, CallAt, HelperAt,
     fileVars, appVars, bounds, Inv
<1>9. CASE \E e \in Calls : LaunchHelper(e)
  BY <1>9, LaunchFrame, CallFrame, HelperFrame DEF fileVars, appVars, bounds, Inv
<1>10. CASE \E e \in Calls : HelperNotLaunched(e)
  BY <1>10, CallFrame DEF HelperNotLaunched, PlanIsPossible, CallAt, HelperAt,
     fileVars, appVars, bounds, Inv
<1>11. CASE \E e \in Calls : Stop(e)
  BY <1>11, CallFrame, AppFrame DEF Stop, CallAt, HelperAt, fileVars, appVars, bounds,
     Inv
<1>12. CASE \E e \in Calls : ParentExited(e)
  BY <1>12, HelperFrame DEF ParentExited, CallAt, HelperAt, fileVars, appVars, bounds,
     Inv
<1>13. CASE \E e \in Calls : GiveUpWaiting(e)
  BY <1>13, HelperFrame DEF GiveUpWaiting, CallAt, HelperAt, fileVars, appVars, bounds,
     Inv
<1>14. CASE \E e \in Calls : CheckPlan(e)
  BY <1>14, HelperFrame DEF CheckPlan, PlanIsPossible, StillVerified, DigestMatches,
     CallAt, HelperAt, fileVars, appVars, bounds, Inv
<1>15. CASE \E e \in Calls : KeepOld(e)
  BY <1>15, HelperFrame DEF KeepOld, CallAt, HelperAt, fileVars, appVars, bounds, Inv
<1>16. CASE \E e \in Calls : OldNotKept(e)
  BY <1>16, HelperFrame DEF OldNotKept, CallAt, HelperAt, fileVars, appVars, bounds,
     Inv
<1>17. CASE \E e \in Calls : PlaceNew(e)
  BY <1>17, HelperFrame DEF PlaceNew, CallAt, HelperAt, fileVars, appVars, bounds, Inv
<1>18. CASE \E e \in Calls : NewNotPlaced(e)
  BY <1>18, HelperFrame DEF NewNotPlaced, CallAt, HelperAt, fileVars, appVars, bounds,
     Inv
<1>19. CASE \E e \in Calls : RestoreUnplaced(e)
  BY <1>19, HelperFrame DEF RestoreUnplaced, PutBack, CallAt, HelperAt, fileVars,
     appVars, bounds, Inv
<1>20. CASE \E e \in Calls : RestoreOld(e)
  BY <1>20, HelperFrame DEF RestoreOld, PutBack, CallAt, HelperAt, fileVars, appVars,
     bounds, Inv
<1>21. CASE \E e \in Calls : NotRestored(e)
  BY <1>21, HelperFrame DEF NotRestored, CallAt, HelperAt, fileVars, appVars, bounds,
     Inv
<1>22. CASE \E e \in Calls : LaunchNew(e)
  BY <1>22, ChildFrame, SpawnFrame DEF fileVars, appVars, bounds, Inv
<1>23. CASE \E e \in Calls : NewNotLaunched(e)
  BY <1>23, HelperFrame DEF NewNotLaunched, CallAt, HelperAt, fileVars, appVars,
     bounds, Inv
<1>24. CASE \E e \in Calls : SeeReady(e)
  BY <1>24, HelperFrame DEF SeeReady, Confirmed, CallAt, HelperAt, fileVars, appVars,
     bounds, Inv
<1>25. CASE \E e \in Calls : SeeExit(e)
  BY <1>25, HelperFrame DEF SeeExit, CallAt, HelperAt, fileVars, appVars, bounds, Inv
<1>26. CASE \E e \in Calls : StartTimeout(e)
  BY <1>26, HelperFrame DEF StartTimeout, CallAt, HelperAt, fileVars, appVars, bounds,
     Inv
<1>27. CASE \E e \in Calls : KillNew(e)
  BY <1>27, HelperFrame, AppFrame DEF KillNew, Gone, CallAt, HelperAt, fileVars,
     appVars, bounds, Inv
<1>28. CASE \E e \in Calls : RemoveNew(e)
  BY <1>28, HelperFrame DEF RemoveNew, CallAt, HelperAt, fileVars, appVars, bounds, Inv
<1>29. CASE \E e \in Calls : NewNotRemoved(e)
  BY <1>29, HelperFrame DEF NewNotRemoved, CallAt, HelperAt, fileVars, appVars, bounds,
     Inv
<1>30. CASE \E e \in Calls : Relaunch(e)
  BY <1>30, HelperFrame, SpawnFrame DEF Relaunch, CallAt, HelperAt, fileVars, appVars,
     bounds, Inv
<1>31. CASE \E e \in Calls : NotRelaunched(e)
  BY <1>31, HelperFrame DEF NotRelaunched, CallAt, HelperAt, fileVars, appVars, bounds,
     Inv
<1>32. CASE \E e \in Calls : RunInstaller(e)
  BY <1>32, HelperFrame DEF RunInstaller, CallAt, HelperAt, fileVars, appVars, bounds,
     Inv
<1>33. CASE \E e \in Calls : StartInstalled(e)
  BY <1>33, HelperFrame, SpawnFrame DEF StartInstalled, CallAt, HelperAt, fileVars,
     appVars, bounds, Inv
<1>34. CASE \E e \in Calls : InstalledNotStarted(e)
  BY <1>34, HelperFrame DEF InstalledNotStarted, CallAt, HelperAt, fileVars, appVars,
     bounds, Inv
<1>35. CASE \E e \in Calls : Damage(e)
  BY <1>35 DEF Damage, CallAt, HelperAt, fileVars, appVars, bounds, Inv
<1>36. CASE \E e \in Calls : HelperLost(e)
  BY <1>36, HelperFrame DEF HelperLost, CallAt, HelperAt, fileVars, appVars, bounds,
     Inv, HelperEnded
<1>37. CASE \E p \in Pids : Leave(p)
  BY <1>37, AppFrame DEF Leave, Gone, CallAt, HelperAt, fileVars, appVars, bounds, Inv
<1>38. CASE \E p \in Pids : Quit(p)
  BY <1>38, AppFrame DEF Quit, Gone, CallAt, HelperAt, fileVars, appVars, bounds, Inv
<1>39. CASE \E p \in Pids : Boot(p)
  BY <1>39, AppFrame DEF Boot, Gone, CallAt, HelperAt, fileVars, appVars, bounds, Inv
<1>40. CASE \E p \in Pids : SetUp(p)
  BY <1>40, AppFrame DEF SetUp, CallAt, HelperAt, fileVars, appVars, bounds, Inv
<1>41. CASE \E p \in Pids : SetUpFails(p)
  BY <1>41, AppFrame DEF SetUpFails, Gone, CallAt, HelperAt, fileVars, appVars, bounds,
     Inv
<1> QED
  BY <1>1, <1>2, <1>3, <1>4, <1>5, <1>6, <1>7, <1>8, <1>9, <1>10, <1>11, <1>12, <1>13,
     <1>14, <1>15, <1>16, <1>17, <1>18, <1>19, <1>20, <1>21, <1>22, <1>23, <1>24,
     <1>25, <1>26, <1>27, <1>28, <1>29, <1>30, <1>31, <1>32, <1>33, <1>34, <1>35,
     <1>36, <1>37, <1>38, <1>39, <1>40, <1>41 DEF Next, CallStep, HelperStep, AppStep

\* A helper that gives up has put the old program back, unless the rename that does
\* it failed (portable_update.rs:89-100).
THEOREM EntryIsRestoredHolds == Spec => EntryIsRestored
<1>1. ASSUME Inv, [Next]_vars
      PROVE  [\A c \in Calls :
                /\ helper[c].pc # "failed" /\ helper'[c].pc = "failed"
                /\ entry' = Absent /\ vacated = c
                => helper[c].pc \in {"unplacing", "restoring"}]_vars
  <2> SUFFICES ASSUME Next, NEW c \in Calls, helper[c].pc # "failed",
                      helper'[c].pc = "failed", entry' = Absent, vacated = c,
                      helper[c].pc # "unplacing"
               PROVE  helper[c].pc = "restoring"
    BY <1>1
  <2>1. entry = Absent /\ helper[c].pc \notin {"placing", "crashed"}
    BY <1>1, FailsFrom
  <2> QED
    BY <1>1, <2>1 DEF Inv, Files
<1> QED
  BY <1>1, InvHolds, PTL DEF Spec, EntryIsRestored

\* An installation is kept only if the program it started has come to the end of its
\* setup (portable_update.rs:122-143).
THEOREM KeptIsSetUpHolds == Spec => KeptIsSetUp
<1>1. ASSUME Inv, [Next]_vars
      PROVE  [\A c \in Calls :
                helper[c].pc = "confirming" /\ helper'[c].pc = "done" =>
                  app[helper[c].child].state \in {"running", "leaving"}]_vars
  <2> SUFFICES ASSUME Next, NEW c \in Calls, helper[c].pc = "confirming",
                      helper'[c].pc = "done"
               PROVE  app[helper[c].child].state \in {"running", "leaving"}
    BY <1>1
  <2>1. SeeReady(c)
    BY <1>1, KeptByReady
  <2>2. ready[c] = helper[c].child /\ Alive(ready[c])
    BY <2>1 DEF SeeReady, Confirmed
  <2>3. ready[c] # NoPid
    BY <1>1, <2>2 DEF Inv, Processes
  <2> QED
    BY <1>1, <2>2, <2>3 DEF Inv, Processes, Alive
<1> QED
  BY <1>1, InvHolds, PTL DEF Spec, KeptIsSetUp

-----------------------------------------------------------------------------
(* The order of the version texts. *)

\* A text stands for the day and the revision it was made of.
LEMMA PartsOfText ==
    ASSUME NEW d \in Dates, NEW text \in Texts(d)
    PROVE  VersionParts(text) = << d.year, d.month, d.day, d.revision >>
<1>1. /\ d.year \in 0..99 /\ d.day \in 1..31 /\ d.revision \in 0..99 /\ d.month \in 1..12
  BY DEF Dates
<1>2. /\ text.major \in {d.year, 2000 + d.year} /\ text.minor = d.month
      /\ \/ text.patch = 100 * d.day + d.revision /\ text.meta = NoMeta
         \/ text.patch = d.day /\ text.meta = << d.revision >>
         \/ text.patch = d.day /\ text.meta = NoMeta /\ d.revision = 0
  BY DEF Texts
<1> DEFINE major   == IF text.major >= 2000 THEN text.major - 2000 ELSE text.major
           encoded == major < 100 /\ text.patch >= 100
<1>3. major = d.year
  BY <1>1, <1>2
<1>4. encoded <=> text.patch >= 100
  BY <1>1, <1>3
<1>5. CASE text.patch = 100 * d.day + d.revision /\ text.meta = NoMeta
  <2>1. encoded /\ text.patch \div 100 = d.day /\ text.patch % 100 = d.revision
    BY <1>1, <1>4, <1>5
  <2> QED
    BY <1>2, <1>3, <1>5, <2>1 DEF VersionParts
<1>6. CASE text.patch = d.day
  <2>1. ~encoded
    BY <1>1, <1>4, <1>6
  <2>2. << d.revision >> # NoMeta
    BY DEF NoMeta
  <2>3. CASE text.meta = << d.revision >>
    <3>1. text.meta[1] = d.revision
      BY <2>3
    <3> QED
      BY <1>2, <1>3, <1>6, <2>1, <2>2, <2>3, <3>1 DEF VersionParts
  <2>4. CASE text.meta = NoMeta /\ d.revision = 0
    BY <1>2, <1>3, <1>6, <2>1, <2>4 DEF VersionParts
  <2> QED
    BY <1>1, <1>2, <1>6, <2>3, <2>4
<1> QED
  BY <1>2, <1>5, <1>6

\* The order of the texts is the order of the days and revisions, whatever form
\* each of them was published in.
LEMMA NewerIsLater ==
    ASSUME NEW d \in Dates, NEW e \in Dates, NEW t \in Texts(d), NEW u \in Texts(e)
    PROVE  IsNewer(t, u) <=> Earlier(e, d)
<1> DEFINE a == << e.year, e.month, e.day, e.revision >>
           b == << d.year, d.month, d.day, d.revision >>
<1>1. IsNewer(t, u) <=> Below(a, b)
  BY PartsOfText DEF IsNewer
<1>2. /\ a[1] = e.year /\ a[2] = e.month /\ a[3] = e.day /\ a[4] = e.revision
      /\ b[1] = d.year /\ b[2] = d.month /\ b[3] = d.day /\ b[4] = d.revision
  OBVIOUS
<1>3. /\ e.year \in Nat /\ e.month \in Nat /\ e.day \in Nat /\ e.revision \in Nat
      /\ d.year \in Nat /\ d.month \in Nat /\ d.day \in Nat /\ d.revision \in Nat
  BY DEF Dates
<1> HIDE DEF a, b
<1>4. Below(a, b) <=>
        \/ a[1] < b[1]
        \/ a[2] < b[2] /\ a[1] = b[1]
        \/ a[3] < b[3] /\ a[1] = b[1] /\ a[2] = b[2]
        \/ a[4] < b[4] /\ a[1] = b[1] /\ a[2] = b[2] /\ a[3] = b[3]
  <2> DEFINE At(i) == a[i] < b[i] /\ \A j \in 1..(i - 1) : a[j] = b[j]
  <2>1. Below(a, b) <=> At(1) \/ At(2) \/ At(3) \/ At(4)
    <3>1. Below(a, b) <=> \E i \in 1..4 : At(i)
      BY DEF Below
    <3>2. \A i : i \in 1..4 <=> i = 1 \/ i = 2 \/ i = 3 \/ i = 4
      OBVIOUS
    <3> HIDE DEF At
    <3> QED
      BY <3>1, <3>2, Zenon
  <2>2. /\ At(1) <=> a[1] < b[1]
        /\ At(2) <=> a[2] < b[2] /\ a[1] = b[1]
        /\ At(3) <=> a[3] < b[3] /\ a[1] = b[1] /\ a[2] = b[2]
        /\ At(4) <=> a[4] < b[4] /\ a[1] = b[1] /\ a[2] = b[2] /\ a[3] = b[3]
    <3>1. /\ \A j : j \notin 1..(1 - 1)
          /\ \A j : j \in 1..(2 - 1) <=> j = 1
          /\ \A j : j \in 1..(3 - 1) <=> j = 1 \/ j = 2
          /\ \A j : j \in 1..(4 - 1) <=> j = 1 \/ j = 2 \/ j = 3
      OBVIOUS
    <3> QED
      BY <3>1
  <2> HIDE DEF At
  <2> QED
    BY <2>1, <2>2
<1> QED
  BY <1>1, <1>2, <1>3, <1>4 DEF Earlier

\* Releases come out in the order of their texts.
LEMMA NewerIsNumbered ==
    ASSUME NEW v \in Versions, NEW w \in Versions
    PROVE  IsNewer(Tags[v], Tags[w]) <=> v > w
<1>1. IsNewer(Tags[v], Tags[w]) <=> Earlier(Released[w], Released[v])
  BY NewerIsLater, TagsAssumption
<1>2. /\ v \in Nat /\ w \in Nat
      /\ v > w => Earlier(Released[w], Released[v])
      /\ w > v => Earlier(Released[v], Released[w])
  BY UpdateAssumption, TagsAssumption DEF Versions
<1>3. ~(Earlier(Released[w], Released[v]) /\ Earlier(Released[v], Released[w]))
  <2>1. \A x \in Versions : /\ Released[x].year \in Nat /\ Released[x].month \in Nat
                            /\ Released[x].day \in Nat /\ Released[x].revision \in Nat
    BY TagsAssumption DEF Dates
  <2> QED
    BY <2>1 DEF Earlier
<1>4. v = w => ~Earlier(Released[w], Released[v])
  BY <1>3
<1> QED
  BY <1>1, <1>2, <1>3, <1>4

-----------------------------------------------------------------------------
(* What a step does to applications and to calls. *)

\* An application is started, goes on, starts a helper or ends with all the others.
LEMMA AppMoves ==
    ASSUME Inv, Next
    PROVE  \/ app' = app
           \/ \E p \in Pids : \E s \in AppStates : AppTo(p, s)
           \/ \E p \in Pids : \E s \in Calls \union {NoCall} : Spawn(p, s)
           \/ \E c \in Calls : LaunchHelper(c)
           \/ PowerCut
<1>1. CASE Publish \/ StartByUser \/ PowerCut
  BY <1>1 DEF Publish, StartByUser, appVars
<1>2. ASSUME NEW c \in Calls, CallStep(c)
      PROVE  app' = app \/ LaunchHelper(c) \/ \E p \in Pids : AppTo(p, "leaving")
  <2>1. CASE Stop(c)
    BY <2>1 DEF Stop, CallAt, Inv, Processes
  <2> QED
    BY <1>2, <2>1 DEF CallStep, Ask, UpToDate, Select, Refuse, Receive, HelperNotLaunched,
       appVars
<1>3. ASSUME NEW c \in Calls, HelperStep(c)
      PROVE  \/ app' = app
             \/ \E p \in Pids : AppTo(p, "gone")
             \/ \E p \in Pids : \E s \in Calls \union {NoCall} : Spawn(p, s)
  <2>1. CASE KillNew(c)
    BY <2>1, Members DEF KillNew, HelperAt, Gone, Inv, Processes
  <2>2. CASE LaunchNew(c) \/ Relaunch(c) \/ StartInstalled(c)
    BY <2>2 DEF LaunchNew, Relaunch, StartInstalled
  <2>3. CASE ~(KillNew(c) \/ LaunchNew(c) \/ Relaunch(c) \/ StartInstalled(c))
    BY <1>3, <2>3 DEF HelperStep, ParentExited, GiveUpWaiting, CheckPlan, KeepOld,
       OldNotKept, PlaceNew, NewNotPlaced, RestoreUnplaced, RestoreOld, PutBack,
       NotRestored, NewNotLaunched, SeeReady, SeeExit, StartTimeout, RemoveNew,
       NewNotRemoved, NotRelaunched, RunInstaller, InstalledNotStarted, appVars
  <2> QED
    BY <2>1, <2>2, <2>3
<1>4. ASSUME NEW c \in Calls, Damage(c) \/ HelperLost(c) PROVE app' = app
  BY <1>4 DEF Damage, HelperLost, appVars
<1>5. ASSUME NEW p \in Pids, AppStep(p) PROVE \E s \in AppStates : AppTo(p, s)
  BY <1>5 DEF AppStep, Leave, Quit, Boot, SetUp, SetUpFails, Gone, AppStates
<1> QED
  BY <1>1, <1>2, <1>3, <1>4, <1>5 DEF Next, AppStates

\* A program is of the version that was at the entry when it was started.
LEMMA VersionKept ==
    ASSUME Inv, Next, NEW p \in Pids
    PROVE  /\ app[p].state # "none" => app'[p].version = app[p].version
           /\ app'[p].version \in {app[p].version, entry}
<1>1. ASSUME NEW q \in Pids, NEW s, AppTo(q, s) PROVE app'[p].version = app[p].version
  BY <1>1, AppFrame DEF Inv
<1>2. CASE \E q \in Pids : \E s \in Calls \union {NoCall} : Spawn(q, s)
  BY <1>2, SpawnFrame DEF Inv
<1>3. ASSUME NEW c \in Calls, LaunchHelper(c) PROVE app'[p].version = app[p].version
  BY <1>3, LaunchFrame DEF Inv
<1>4. CASE PowerCut
  BY <1>4, PowerFrame DEF Inv
<1> QED
  BY AppMoves, <1>1, <1>2, <1>3, <1>4

\* The states of a call that has found something to install.
Offered == {"downloading", "published", "stopping", "over"}

\* A call keeps its program, and its goal once it has one.
LEMMA CallMoves ==
    ASSUME Inv, Next, NEW c \in Calls
    PROVE  /\ call[c].pc # "idle" => call'[c].pc # "idle" /\ call'[c].pid = call[c].pid
           /\ \/ call'[c].pc \notin Offered \union {"upToDate"}
              \/ /\ call'[c].goal = call[c].goal
                 /\ call[c].pc \in Offered <=> call'[c].pc \in Offered
                 /\ call[c].pc = "upToDate" <=> call'[c].pc = "upToDate"
              \/ UpToDate(c) \/ Select(c)
<1>1. ASSUME NEW d \in Calls, NEW p \in Pids, Ask(d, p)
      PROVE  /\ call[c].pc # "idle" => call'[c] = call[c]
             /\ call'[c] = call[c] \/ call'[c].pc \in {"asking", "refused"}
  BY <1>1, AskFrame DEF Inv
<1>2. ASSUME NEW d \in Calls, UpToDate(d) \/ Select(d)
      PROVE  /\ call'[c].pc = "idle" <=> call[c].pc = "idle"
             /\ call'[c].pid = call[c].pid
             /\ d = c \/ call'[c] = call[c]
  BY <1>2, UpToDateFrame, SelectFrame DEF Inv
<1>3. ASSUME NEW d \in Calls, NEW s,
             \/ Refuse(d) /\ s = "refused"
             \/ Receive(d) /\ s \in {"published", "refused"} /\ CallTo(d, s)
             \/ LaunchHelper(d) /\ s = "stopping"
             \/ HelperNotLaunched(d) /\ s = "refused"
             \/ Stop(d) /\ s = "over"
      PROVE  /\ CallTo(d, s) /\ call[d].pc # "idle"
             /\ s = "refused" \/ (call[d].pc \in Offered /\ s \in Offered)
  BY <1>3 DEF Refuse, Receive, LaunchHelper, HelperNotLaunched, Stop, CallAt, Offered
<1>4. ASSUME NEW d \in Calls,
             \/ Refuse(d) \/ Receive(d) \/ LaunchHelper(d) \/ HelperNotLaunched(d) \/ Stop(d)
      PROVE  /\ call'[c].pid = call[c].pid /\ call'[c].goal = call[c].goal
             /\ call[c].pc # "idle" => call'[c].pc # "idle"
             /\ \/ call'[c] = call[c]
                \/ call'[c].pc = "refused"
                \/ call[c].pc \in Offered /\ call'[c].pc \in Offered
  <2>1. PICK s : /\ CallTo(d, s) /\ call[d].pc # "idle"
                 /\ s = "refused" \/ (call[d].pc \in Offered /\ s \in Offered)
    BY <1>3, <1>4 DEF Receive
  <2> QED
    BY <2>1, CallFrame DEF Inv, Offered
<1>5. CASE call' = call
  BY <1>5
<1>6. \/ call' = call
      \/ \E d \in Calls : \/ \E p \in Pids : Ask(d, p)
                          \/ UpToDate(d) \/ Select(d) \/ Refuse(d) \/ Receive(d)
                          \/ LaunchHelper(d) \/ HelperNotLaunched(d) \/ Stop(d)
  <2>1. ASSUME NEW d \in Calls, HelperStep(d) \/ Damage(d) \/ HelperLost(d)
        PROVE  call' = call
    BY <2>1 DEF HelperStep, ParentExited, GiveUpWaiting, CheckPlan, KeepOld,
       OldNotKept, PlaceNew, NewNotPlaced, RestoreUnplaced, RestoreOld, PutBack,
       NotRestored, LaunchNew, NewNotLaunched, SeeReady, SeeExit, StartTimeout, KillNew,
       RemoveNew, NewNotRemoved, Relaunch, NotRelaunched, RunInstaller, StartInstalled,
       InstalledNotStarted, Damage, HelperLost
  <2>2. ASSUME NEW p \in Pids, AppStep(p) PROVE call' = call
    BY <2>2 DEF AppStep, Leave, Quit, Boot, SetUp, SetUpFails
  <2>3. Publish \/ StartByUser \/ PowerCut => call' = call
    BY DEF Publish, StartByUser, PowerCut
  <2> QED
    BY <2>1, <2>2, <2>3 DEF Next, CallStep
<1>7. /\ "idle" \notin Offered /\ "upToDate" \notin Offered
      /\ "asking" \notin Offered /\ "refused" \notin Offered
  BY DEF Offered
<1> QED
  BY <1>1, <1>2, <1>4, <1>5, <1>6, <1>7

\* What a call found out stays true, since its program keeps its version.
LEMMA OfferPreserved == ASSUME Inv, NewerIsOffered, Next PROVE NewerIsOffered'
<1> SUFFICES ASSUME NEW c \in Calls
             PROVE  /\ call'[c].pc = "upToDate" => call'[c].goal <= app'[call'[c].pid].version
                    /\ call'[c].pc \in Offered => call'[c].goal > app'[call'[c].pid].version
  BY DEF NewerIsOffered, Offered
<1>1. ASSUME call[c].pc # "idle"
      PROVE  /\ call[c].pid \in Pids /\ call'[c].pid = call[c].pid
             /\ app'[call[c].pid].version = app[call[c].pid].version
             /\ app[call[c].pid].version \in Versions
  BY <1>1, CallMoves, VersionKept DEF Inv, Processes, TypeOK, AppRecords
<1>2. release \in Versions
  BY DEF Inv, TypeOK
<1>3. CASE UpToDate(c)
  <2>1. /\ call[c].pc = "asking" /\ call'[c].pc = "upToDate" /\ call'[c].goal = release
        /\ ~IsNewer(Tags[release], Tags[app[call[c].pid].version])
    BY <1>3, UpToDateFrame DEF Inv
  <2>2. ~(release > app[call[c].pid].version)
    BY <2>1, <1>1, <1>2, NewerIsNumbered
  <2>3. release \in Nat /\ app[call[c].pid].version \in Nat
    BY <1>1, <1>2, <2>1 DEF Versions
  <2> QED
    BY <1>1, <2>1, <2>2, <2>3 DEF Offered
<1>4. CASE Select(c)
  <2>1. /\ call[c].pc = "asking" /\ call'[c].pc = "downloading" /\ call'[c].goal = release
        /\ IsNewer(Tags[release], Tags[app[call[c].pid].version])
    BY <1>4, SelectFrame DEF Inv
  <2> QED
    BY <2>1, <1>1, <1>2, NewerIsNumbered
<1>5. CASE /\ call'[c].goal = call[c].goal
           /\ call[c].pc \in Offered <=> call'[c].pc \in Offered
           /\ call[c].pc = "upToDate" <=> call'[c].pc = "upToDate"
  BY <1>1, <1>5 DEF NewerIsOffered, Offered
<1> QED
  BY <1>3, <1>4, <1>5, CallMoves

\* An application is told that it is up to date exactly when nothing later than itself
\* was published, however the releases encode their revisions (VersionParts::parse).
THEOREM NewerIsOfferedHolds == Spec => []NewerIsOffered
<1>1. Init => NewerIsOffered
  BY DEF Init, NewerIsOffered
<1>2. NewerIsOffered /\ UNCHANGED vars => NewerIsOffered'
  BY DEF NewerIsOffered, vars, appVars
<1>3. Inv /\ NewerIsOffered /\ [Next]_vars => NewerIsOffered'
  BY <1>2, OfferPreserved
<1> QED
  BY <1>1, <1>3, InvHolds, PTL DEF Spec

-----------------------------------------------------------------------------
(* What a rollback puts back. *)

\* No call but c has had a helper.
Alone(c) == \A d \in Calls \ {c} : helper[d].pc = "none"

\* The helper has not moved the old program yet, or has put it back.
Unmoved == {"waiting", "checking", "keeping", "relaunching", "rolledBack"}

\* As long as one helper alone has been at work, the program it found at the entry is
\* the first one, and is there or in its rollback file.
Untouched ==
  /\ (\A c \in Calls : helper[c].pc = "none") =>
       entry = 1 /\ \A p \in Pids : app[p].version = 1
  /\ \A c \in Calls : helper[c].pc # "none" /\ Alone(c) =>
       /\ app[call[c].pid].version = 1
       /\ helper[c].pc \in Unmoved => entry = 1
       /\ helper[c].pc \in Kept => backup[c] = 1

\* Without a helper nothing is moved.
LEMMA NoHelperMoves ==
    ASSUME Inv, Next, \A c \in Calls : ~HelperStep(c)
    PROVE  /\ UNCHANGED << entry, backup >>
           /\ \A c \in Calls :
                \/ helper'[c] = helper[c]
                \/ helper[c].pc # "none" /\ helper'[c].pc = "crashed"
                \/ LaunchHelper(c)
<1>1. CASE Publish \/ StartByUser
  BY <1>1 DEF Publish, StartByUser, fileVars
<1>2. CASE PowerCut
  <2>1. \A c \in Calls : helper[c].pc \in HelperEnded => helper'[c] = helper[c]
    BY <1>2 DEF PowerCut
  <2> QED
    BY <1>2, <2>1, PowerFrame DEF Inv, fileVars, HelperEnded
<1>3. ASSUME NEW d \in Calls, CallStep(d), ~LaunchHelper(d)
      PROVE  UNCHANGED << entry, backup, helper >>
  BY <1>3 DEF CallStep, Ask, UpToDate, Select, Refuse, Receive, HelperNotLaunched, Stop,
     fileVars
<1>4. ASSUME NEW d \in Calls, LaunchHelper(d)
      PROVE  /\ UNCHANGED << entry, backup >>
             /\ \A c \in Calls \ {d} : helper'[c] = helper[c]
  BY <1>4, LaunchFrame, HelperFrame DEF Inv, fileVars
<1>5. ASSUME NEW d \in Calls, Damage(d) PROVE UNCHANGED << entry, backup, helper >>
  BY <1>5 DEF Damage
<1>6. ASSUME NEW d \in Calls, HelperLost(d)
      PROVE  /\ UNCHANGED << entry, backup >>
             /\ \A c \in Calls \ {d} : helper'[c] = helper[c]
             /\ helper[d].pc # "none" /\ helper'[d].pc = "crashed"
  BY <1>6, HelperFrame DEF Inv, HelperLost, HelperEnded, fileVars
<1>7. ASSUME NEW p \in Pids, AppStep(p) PROVE UNCHANGED << entry, backup, helper >>
  BY <1>7 DEF AppStep, Leave, Quit, Boot, SetUp, SetUpFails, fileVars
<1> QED
  BY <1>1, <1>2, <1>3, <1>4, <1>5, <1>6, <1>7 DEF Next

\* A helper keeps what it found, and puts it back.
LEMMA HelperKeepsOld ==
    ASSUME Inv, NEW c \in Calls, HelperStep(c)
    PROVE  /\ helper[c].pc # "none" /\ helper'[c].pc # "none"
           /\ \A d \in Calls \ {c} : helper'[d] = helper[d]
           /\ helper'[c].pc \in Unmoved =>
                \/ helper[c].pc \in Unmoved /\ entry' = entry
                \/ helper[c].pc \in Kept /\ entry' = backup[c]
           /\ helper'[c].pc \in Kept =>
                \/ helper[c].pc \in Kept /\ backup'[c] = backup[c]
                \/ helper[c].pc \in Unmoved /\ backup'[c] = entry
<1>1. CASE ParentExited(c)
  BY <1>1, HelperFrame DEF ParentExited, HelperAt, Inv, Unmoved, Kept, fileVars
<1>2. CASE GiveUpWaiting(c) \/ CheckPlan(c)
  BY <1>2, HelperFrame DEF GiveUpWaiting, CheckPlan, HelperAt, Inv, Unmoved, Kept, fileVars
<1>3. CASE KeepOld(c) \/ OldNotKept(c)
  BY <1>3, HelperFrame, Places DEF KeepOld, OldNotKept, HelperAt, Inv, Unmoved, Kept,
     fileVars
<1>4. CASE PlaceNew(c) \/ NewNotPlaced(c)
  BY <1>4, HelperFrame DEF PlaceNew, NewNotPlaced, HelperAt, Inv, Unmoved, Kept, fileVars
<1>5. CASE RestoreUnplaced(c) \/ RestoreOld(c) \/ NotRestored(c)
  BY <1>5, HelperFrame DEF RestoreUnplaced, RestoreOld, PutBack, NotRestored, HelperAt,
     Inv, Unmoved, Kept, fileVars
<1>6. CASE LaunchNew(c)
  BY <1>6, ChildFrame DEF Inv, Unmoved, Kept, fileVars
<1>7. CASE NewNotLaunched(c) \/ SeeReady(c) \/ SeeExit(c) \/ StartTimeout(c) \/ KillNew(c)
  BY <1>7, HelperFrame DEF NewNotLaunched, SeeReady, SeeExit, StartTimeout, KillNew,
     HelperAt, Inv, Unmoved, Kept, fileVars
<1>8. CASE RemoveNew(c) \/ NewNotRemoved(c)
  BY <1>8, HelperFrame DEF RemoveNew, NewNotRemoved, HelperAt, Inv, Unmoved, Kept, fileVars
<1>9. CASE Relaunch(c) \/ NotRelaunched(c)
  BY <1>9, HelperFrame DEF Relaunch, NotRelaunched, HelperAt, Inv, Unmoved, Kept, fileVars
<1>10. CASE RunInstaller(c) \/ StartInstalled(c) \/ InstalledNotStarted(c)
  BY <1>10, HelperFrame DEF RunInstaller, StartInstalled, InstalledNotStarted, HelperAt,
     Inv, Unmoved, Kept, fileVars
<1> QED
  BY <1>1, <1>2, <1>3, <1>4, <1>5, <1>6, <1>7, <1>8, <1>9, <1>10 DEF HelperStep

\* Every step keeps Untouched.
LEMMA UntouchedPreserved == ASSUME Inv, Untouched, Next PROVE Untouched'
<1>1. ASSUME NEW c \in Calls, helper[c].pc # "none"
      PROVE  /\ call[c].pid \in Pids /\ call'[c].pid = call[c].pid
             /\ app'[call[c].pid].version = app[call[c].pid].version
  BY <1>1, CallMoves, VersionKept DEF Inv, Processes
<1>2. CASE \E c \in Calls : HelperStep(c)
  <2>1. PICK c \in Calls : HelperStep(c)
    BY <1>2
  <2>2. /\ helper[c].pc # "none" /\ helper'[c].pc # "none"
        /\ \A d \in Calls \ {c} : helper'[d] = helper[d]
    BY <2>1, HelperKeepsOld
  <2>3. ASSUME NEW d \in Calls, helper'[d].pc # "none", Alone(d)'
        PROVE  d = c /\ Alone(c)
    BY <2>2, <2>3 DEF Alone
  <2>4. ASSUME Alone(c)
        PROVE  /\ app'[call'[c].pid].version = 1
               /\ helper'[c].pc \in Unmoved => entry' = 1
               /\ helper'[c].pc \in Kept => backup'[c] = 1
    <3>1. /\ app[call[c].pid].version = 1
          /\ helper[c].pc \in Unmoved => entry = 1
          /\ helper[c].pc \in Kept => backup[c] = 1
      BY <2>2, <2>4 DEF Untouched
    <3> QED
      BY <1>1, <2>1, <2>2, <3>1, HelperKeepsOld
  <2> QED
    BY <2>2, <2>3, <2>4 DEF Untouched
<1>3. CASE \A c \in Calls : ~HelperStep(c)
  <2>1. /\ UNCHANGED << entry, backup >>
        /\ \A c \in Calls : \/ helper'[c] = helper[c]
                            \/ helper[c].pc # "none" /\ helper'[c].pc = "crashed"
                            \/ LaunchHelper(c)
    BY <1>3, NoHelperMoves
  <2>2. ASSUME NEW c \in Calls, LaunchHelper(c)
        PROVE  /\ helper[c].pc = "none" /\ helper'[c].pc = "waiting"
               /\ \A d \in Calls \ {c} : helper'[d] = helper[d]
               /\ call[c].pid \in Pids /\ call'[c].pid = call[c].pid
    BY <2>2, LaunchFrame, HelperFrame, CallFrame DEF Inv, Processes
  <2>3. ASSUME \A c \in Calls : helper'[c].pc = "none"
        PROVE  entry' = 1 /\ \A p \in Pids : app'[p].version = 1
    <3>1. \A c \in Calls : helper[c].pc = "none"
      BY <2>1, <2>2, <2>3
    <3> QED
      BY <2>1, <3>1, VersionKept DEF Untouched
  <2>4. ASSUME NEW c \in Calls, helper'[c].pc # "none", Alone(c)'
        PROVE  /\ app'[call'[c].pid].version = 1
               /\ helper'[c].pc \in Unmoved => entry' = 1
               /\ helper'[c].pc \in Kept => backup'[c] = 1
    <3>1. Alone(c)
      BY <2>1, <2>2, <2>4 DEF Alone
    <3>2. CASE LaunchHelper(c)
      <4>1. \A d \in Calls : helper[d].pc = "none"
        BY <2>2, <3>1, <3>2 DEF Alone
      <4>2. entry = 1 /\ \A p \in Pids : app[p].version = 1
        BY <4>1 DEF Untouched
      <4>3. "waiting" \notin Kept
        BY DEF Kept
      <4> QED
        BY <2>1, <2>2, <3>2, <4>2, <4>3, VersionKept
    <3>3. CASE ~LaunchHelper(c)
      <4>1. /\ helper[c].pc # "none"
            /\ helper'[c].pc \in {helper[c].pc, "crashed"}
        BY <2>1, <2>4, <3>3
      <4>2. "crashed" \notin Unmoved /\ "crashed" \notin Kept
        BY DEF Unmoved, Kept
      <4> QED
        BY <1>1, <2>1, <3>1, <4>1, <4>2 DEF Untouched
    <3> QED
      BY <3>2, <3>3
  <2> QED
    BY <2>3, <2>4 DEF Untouched
<1> QED
  BY <1>2, <1>3

\* If no other helper interferes, a rollback ends with the version that was running
\* before, whichever step failed (InstallPlan::install, its restores).
THEOREM RollbackIsExactHolds == Spec => []RollbackIsExact
<1>1. Init => Untouched
  <2>1. Init => \A c \in Calls : helper[c].pc = "none"
    BY DEF Init
  <2>2. Init => entry = 1 /\ \A p \in Pids : app[p].version = 1
    BY DEF Init
  <2> QED
    BY <2>1, <2>2 DEF Untouched
<1>2. Untouched /\ UNCHANGED vars => Untouched'
  BY DEF Untouched, Alone, vars, fileVars, appVars
<1>3. Inv /\ Untouched /\ [Next]_vars => Untouched'
  BY <1>2, UntouchedPreserved
<1>4. Untouched => RollbackIsExact
  BY DEF Untouched, RollbackIsExact, Alone, Unmoved
<1> QED
  BY <1>1, <1>3, <1>4, InvHolds, PTL DEF Spec
=============================================================================
