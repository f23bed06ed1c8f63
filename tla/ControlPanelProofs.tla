------------------------- MODULE ControlPanelProofs -------------------------
(* Proofs about ControlPanel for every set of files and bound of faults.   *)
EXTENDS ControlPanel, TLAPS

(* Every function of the audio service, and every step of its task, keeps  *)
(* its types.                                                              *)
LEMMA AudioTypes ==
  ASSUME AudioTypeOK,
         \/ stop \/ play \/ running \/ takeFinished
         \/ suspendTask \/ resumeTask
         \/ runTask
         \/ UNCHANGED audioVars
  PROVE  AudioTypeOK'
<1>1. CASE stop
  BY <1>1 DEF AudioTypeOK, LockFree, stop
<1>2. CASE play
  BY <1>2 DEF AudioTypeOK, LockFree, play
<1>3. CASE running
  BY <1>3 DEF AudioTypeOK, running, audioVars
<1>4. CASE takeFinished
  BY <1>4 DEF AudioTypeOK, takeFinished
<1>5. CASE suspendTask
  BY <1>5 DEF AudioTypeOK, suspendTask
<1>6. CASE resumeTask
  BY <1>6 DEF AudioTypeOK, resumeTask
<1>7. CASE Enters
  BY <1>7 DEF AudioTypeOK, Enters
<1>8. CASE Leaves
  BY <1>8 DEF AudioTypeOK, Leaves
<1>9. CASE Flushes
  BY <1>9 DEF AudioTypeOK, Flushes
<1>10. CASE Ends
  BY <1>10 DEF AudioTypeOK, Ends
<1>11. CASE UNCHANGED audioVars
  BY <1>11 DEF AudioTypeOK, audioVars
<1> QED
  BY <1>1, <1>2, <1>3, <1>4, <1>5, <1>6, <1>7, <1>8, <1>9, <1>10, <1>11 DEF runTask

(* The application calls nothing else of it, but for a power cut.          *)
LEMMA AudioStep == AudioTypeOK /\ [Next]_vars => AudioTypeOK'
<1> SUFFICES ASSUME AudioTypeOK, [Next]_vars PROVE AudioTypeOK'
  OBVIOUS
<1>1. CASE Tick
  BY <1>1, AudioTypes
     DEF Tick, StartTick, AudioCall, KeepGuard, EndGuard, NoRequest, BeginStop,
         endControlPanelNetworkTransfer
<1>2. CASE Fetch
  BY <1>2, AudioTypes
     DEF Fetch, StartFetch, SuspendForFetch, EndFetch, StartEmulator, SuspendForEmulator,
         LeaveEmulator, endControlPanelNetworkTransfer
<1>3. CASE Update
  BY <1>3, AudioTypes
     DEF Update, requestControlUpdateInstall, HaltSounds, SuspendForUpdate, Requested, Refused,
         UpdateEnds, endControlPanelNetworkTransfer
<1>4. CASE Restore
  BY <1>4, AudioTypes
     DEF Restore, StartRestore, SuspendForRestore, RestoreAborted, RestoreRejected,
         RestoreReceived, RemoveReplaced, MoveStaged, RestoreFails, RestoreEnds, EndTransfer,
         endControlPanelNetworkTransfer
<1>5. CASE Upload
  BY <1>5, AudioTypes
     DEF Upload, StartUpload, UploadAborted, UploadRejected, UploadReceived, RemoveBackup,
         StageExisting, StageFails, InstallUpload, InstallFails, UploadEnds
<1>6. CASE Bootstrap
  BY <1>6, AudioTypes
     DEF Bootstrap, StartBootstrap, Downloaded, DownloadFails, InstallDefault, provision
<1>7. CASE AudioTask
  BY <1>7, AudioTypes DEF AudioTask
<1>8. CASE PowerCut
  BY <1>8 DEF PowerCut, AudioTypeOK
<1>9. CASE UNCHANGED vars
  BY <1>9, AudioTypes DEF vars
<1> QED BY <1>1, <1>2, <1>3, <1>4, <1>5, <1>6, <1>7, <1>8, <1>9 DEF Next

-----------------------------------------------------------------------------
LEMMA FaultsAreBounded ==
  ASSUME faults \in 0 .. MaxFaults, Fault
  PROVE  faults' \in 0 .. MaxFaults
<1>1. MaxFaults \in Nat
  BY ControlPanelAssumption
<1> QED BY <1>1 DEF Fault

(* While the audio task is suspended, something will resume it: the end of *)
(* the handler that the application is in, or else the guard of an update, *)
(* or the transfer of a restore.                                           *)
SuspendedForTransfer ==
  suspended => guard \/ transfer \/ app \in {"fetching", "emulator"}

PanelInv == PanelTypeOK /\ suspended \in BOOLEAN /\ SuspendedForTransfer

LEMMA PanelStep == PanelInv /\ [Next]_vars => PanelInv'
<1> SUFFICES ASSUME PanelInv, [Next]_vars PROVE PanelInv'
  OBVIOUS
<1> USE DEF PanelInv, PanelTypeOK, SuspendedForTransfer
<1>1. CASE Tick
  <2>1. CASE StartTick
    BY <2>1 DEF StartTick, audioVars, Places, AudioCalls
  <2>2. CASE AudioCall
    <3>1. suspended' = suspended
      BY <2>2 DEF AudioCall, running, play, stop, takeFinished, audioVars
    <3> QED BY <2>2, <3>1 DEF AudioCall, Goes, Places
  <2>3. CASE KeepGuard
    BY <2>3 DEF KeepGuard, Goes, audioVars, Places
  <2>4. CASE EndGuard
    BY <2>4 DEF EndGuard, Goes, endControlPanelNetworkTransfer, resumeTask, Places
  <2>5. CASE NoRequest
    BY <2>5 DEF NoRequest, Goes, audioVars, Places
  <2>6. CASE BeginStop
    BY <2>6 DEF BeginStop, Goes, stop, Places, AudioCalls
  <2> QED BY <1>1, <2>1, <2>2, <2>3, <2>4, <2>5, <2>6 DEF Tick
<1>2. CASE Fetch
  <2>1. CASE StartFetch
    BY <2>1 DEF StartFetch, Served, beginControlPanelNetworkTransfer, audioVars, Places,
        AudioCalls, Jobs
  <2>2. CASE SuspendForFetch
    BY <2>2 DEF SuspendForFetch, Goes, suspendTask, Places
  <2>3. CASE EndFetch
    BY <2>3 DEF EndFetch, Goes, endControlPanelNetworkTransfer, resumeTask, Places
  <2>4. CASE StartEmulator
    BY <2>4 DEF StartEmulator, beginControlPanelNetworkTransfer, audioVars, Places,
        AudioCalls, Jobs
  <2>5. CASE SuspendForEmulator
    BY <2>5 DEF SuspendForEmulator, Goes, suspendTask, Places
  <2>6. CASE LeaveEmulator
    BY <2>6 DEF LeaveEmulator, Goes, resumeTask, Places
  <2> QED BY <1>2, <2>1, <2>2, <2>3, <2>4, <2>5, <2>6 DEF Fetch
<1>3. CASE Update
  <2>1. CASE requestControlUpdateInstall
    BY <2>1 DEF requestControlUpdateInstall, Served, audioVars, Places, AudioCalls
  <2>2. CASE HaltSounds
    BY <2>2 DEF HaltSounds, beginControlPanelNetworkTransfer, stop, Places, AudioCalls, Jobs
  <2>3. CASE SuspendForUpdate
    BY <2>3 DEF SuspendForUpdate, Goes, suspendTask, Places
  <2>4. CASE Requested
    BY <2>4 DEF Requested, Goes, audioVars, Places
  <2>5. CASE Refused
    BY <2>5 DEF Refused, Goes, endControlPanelNetworkTransfer, audioVars, resumeTask, Places
  <2>6. CASE UpdateEnds
    BY <2>6 DEF UpdateEnds, audioVars, Places
  <2> QED BY <1>3, <2>1, <2>2, <2>3, <2>4, <2>5, <2>6 DEF Update
<1>4. CASE Restore
  <2>1. CASE StartRestore
    BY <2>1 DEF StartRestore, Served, beginControlPanelNetworkTransfer, audioVars, Places,
        AudioCalls, Jobs
  <2>2. CASE SuspendForRestore
    BY <2>2 DEF SuspendForRestore, Goes, suspendTask, Places
  <2>3. CASE RestoreAborted
    BY <2>3 DEF RestoreAborted, Goes, audioVars, Places
  <2>4. CASE RestoreRejected
    BY <2>4 DEF RestoreRejected, Goes, Served, EndTransfer, endControlPanelNetworkTransfer,
        audioVars, resumeTask, Places
  <2>5. CASE RestoreReceived
    BY <2>5 DEF RestoreReceived, Goes, audioVars, Places
  <2>6. CASE RemoveReplaced
    BY <2>6 DEF RemoveReplaced, Goes, audioVars, Places
  <2>7. CASE MoveStaged
    BY <2>7 DEF MoveStaged, Goes, audioVars, Places
  <2>8. CASE RestoreFails
    BY <2>8, FaultsAreBounded DEF RestoreFails, EndTransfer, endControlPanelNetworkTransfer,
        audioVars, resumeTask, Places
  <2>9. CASE RestoreEnds
    BY <2>9 DEF RestoreEnds, Goes, EndTransfer, endControlPanelNetworkTransfer, audioVars,
        resumeTask, Places
  <2> QED BY <1>4, <2>1, <2>2, <2>3, <2>4, <2>5, <2>6, <2>7, <2>8, <2>9 DEF Restore
<1>5. CASE Upload
  <2>1. CASE StartUpload
    BY <2>1 DEF StartUpload, Served, audioVars, Places
  <2>2. CASE UploadAborted
    BY <2>2 DEF UploadAborted, Goes, audioVars, Places
  <2>3. CASE UploadRejected
    BY <2>3 DEF UploadRejected, Goes, audioVars, Places
  <2>4. CASE UploadReceived
    BY <2>4 DEF UploadReceived, Goes, audioVars, Places
  <2>5. CASE RemoveBackup
    BY <2>5, FaultsAreBounded DEF RemoveBackup, Goes, audioVars, Places
  <2>6. CASE StageExisting
    BY <2>6 DEF StageExisting, Goes, audioVars, Places
  <2>7. CASE StageFails
    BY <2>7, FaultsAreBounded DEF StageFails, Goes, audioVars, Places
  <2>8. CASE InstallUpload
    BY <2>8 DEF InstallUpload, Goes, audioVars, Places
  <2>9. CASE InstallFails
    BY <2>9, FaultsAreBounded DEF InstallFails, Goes, audioVars, Places
  <2>10. CASE UploadEnds
    BY <2>10, FaultsAreBounded DEF UploadEnds, Goes, audioVars, Places
  <2> QED BY <1>5, <2>1, <2>2, <2>3, <2>4, <2>5, <2>6, <2>7, <2>8, <2>9, <2>10 DEF Upload
<1>6. CASE Bootstrap
  <2>1. CASE StartBootstrap
    BY <2>1 DEF StartBootstrap, Served, provision, audioVars, panelVars, Places
  <2>2. CASE Downloaded
    BY <2>2 DEF Downloaded, provision, audioVars, panelVars, Places
  <2>3. CASE DownloadFails
    BY <2>3 DEF DownloadFails, provision, audioVars, panelVars, Places
  <2>4. CASE InstallDefault
    BY <2>4 DEF InstallDefault, provision, audioVars, panelVars, Places
  <2> QED BY <1>6, <2>1, <2>2, <2>3, <2>4 DEF Bootstrap
<1>7. CASE AudioTask
  <2>1. suspended' = suspended
    BY <1>7 DEF AudioTask, runTask, Enters, Leaves, Flushes, Ends
  <2> QED BY <1>7, <2>1 DEF AudioTask, panelVars
<1>8. CASE PowerCut
  BY <1>8, FaultsAreBounded DEF PowerCut, Places, Jobs
<1>9. CASE UNCHANGED vars
  BY <1>9 DEF vars, panelVars, audioVars
<1> QED BY <1>1, <1>2, <1>3, <1>4, <1>5, <1>6, <1>7, <1>8, <1>9 DEF Next

-----------------------------------------------------------------------------
(* What the files hold was sent, an upload that is complete is a version   *)
(* that is nowhere else, the place is free before it is installed, and     *)
(* afterwards it is not what is kept as previous.                          *)
Sent(content) == content \in Versions => content \in sent

FileInv ==
  /\ FileTypeOK
  /\ file.staged \in {Absent} \cup Versions
  /\ Sent(file.slot) /\ Sent(file.previous) /\ Sent(file.upload) /\ Sent(file.staged)
  /\ app \in {"finish", "stage", "install"} =>
       file.upload \in Versions /\ file.upload # file.slot /\ file.upload # file.previous
  /\ app = "install" => file.slot \notin Versions
  /\ app = "clean" => kept \in Versions /\ kept # file.previous

LEMMA FileStep == FileInv /\ [Next]_vars => FileInv'
<1> SUFFICES ASSUME FileInv, [Next]_vars PROVE FileInv'
  OBVIOUS
<1> USE DEF FileInv, FileTypeOK, Files, Contents, Sent
<1>1. CASE Tick
  <2>1. CASE StartTick
    BY <2>1, ControlPanelAssumption DEF StartTick, fileVars
  <2>2. CASE AudioCall
    BY <2>2, ControlPanelAssumption DEF AudioCall, Goes, fileVars
  <2>3. CASE KeepGuard
    BY <2>3, ControlPanelAssumption DEF KeepGuard, Goes, fileVars
  <2>4. CASE EndGuard
    BY <2>4, ControlPanelAssumption DEF EndGuard, Goes, fileVars
  <2>5. CASE NoRequest
    BY <2>5, ControlPanelAssumption DEF NoRequest, Goes, fileVars
  <2>6. CASE BeginStop
    BY <2>6, ControlPanelAssumption DEF BeginStop, Goes, fileVars
  <2> QED BY <1>1, <2>1, <2>2, <2>3, <2>4, <2>5, <2>6 DEF Tick
<1>2. CASE Fetch
  <2>1. CASE StartFetch
    BY <2>1, ControlPanelAssumption DEF StartFetch, Served,
        beginControlPanelNetworkTransfer, fileVars
  <2>2. CASE SuspendForFetch
    BY <2>2, ControlPanelAssumption DEF SuspendForFetch, Goes, fileVars
  <2>3. CASE EndFetch
    BY <2>3, ControlPanelAssumption DEF EndFetch, Goes, fileVars
  <2>4. CASE StartEmulator
    BY <2>4, ControlPanelAssumption DEF StartEmulator, beginControlPanelNetworkTransfer,
        fileVars
  <2>5. CASE SuspendForEmulator
    BY <2>5, ControlPanelAssumption DEF SuspendForEmulator, Goes, fileVars
  <2>6. CASE LeaveEmulator
    BY <2>6, ControlPanelAssumption DEF LeaveEmulator, Goes, fileVars
  <2> QED BY <1>2, <2>1, <2>2, <2>3, <2>4, <2>5, <2>6 DEF Fetch
<1>3. CASE Update
  <2>1. CASE requestControlUpdateInstall
    BY <2>1, ControlPanelAssumption DEF requestControlUpdateInstall, Served, fileVars
  <2>2. CASE HaltSounds
    BY <2>2, ControlPanelAssumption DEF HaltSounds, beginControlPanelNetworkTransfer,
        fileVars
  <2>3. CASE SuspendForUpdate
    BY <2>3, ControlPanelAssumption DEF SuspendForUpdate, Goes, fileVars
  <2>4. CASE Requested
    BY <2>4, ControlPanelAssumption DEF Requested, Goes, fileVars
  <2>5. CASE Refused
    BY <2>5, ControlPanelAssumption DEF Refused, Goes, fileVars
  <2>6. CASE UpdateEnds
    BY <2>6, ControlPanelAssumption DEF UpdateEnds, fileVars
  <2> QED BY <1>3, <2>1, <2>2, <2>3, <2>4, <2>5, <2>6 DEF Update
<1>4. CASE Restore
  <2>1. CASE StartRestore
    BY <2>1, ControlPanelAssumption DEF StartRestore, Served,
        beginControlPanelNetworkTransfer, fileVars
  <2>2. CASE SuspendForRestore
    BY <2>2, ControlPanelAssumption DEF SuspendForRestore, Goes
  <2>3. CASE RestoreAborted
    BY <2>3, ControlPanelAssumption DEF RestoreAborted, Goes, fileVars
  <2>4. CASE RestoreRejected
    BY <2>4, ControlPanelAssumption DEF RestoreRejected, Goes, Served
  <2>5. CASE RestoreReceived
    BY <2>5, ControlPanelAssumption DEF RestoreReceived, Goes
  <2>6. CASE RemoveReplaced
    BY <2>6, ControlPanelAssumption DEF RemoveReplaced, Goes
  <2>7. CASE MoveStaged
    BY <2>7, ControlPanelAssumption DEF MoveStaged, Goes
  <2>8. CASE RestoreFails
    BY <2>8, ControlPanelAssumption DEF RestoreFails
  <2>9. CASE RestoreEnds
    BY <2>9, ControlPanelAssumption DEF RestoreEnds, Goes, fileVars
  <2> QED BY <1>4, <2>1, <2>2, <2>3, <2>4, <2>5, <2>6, <2>7, <2>8, <2>9 DEF Restore
<1>5. CASE Upload
  <2>1. CASE StartUpload
    BY <2>1, ControlPanelAssumption DEF StartUpload, Served
  <2>2. CASE UploadAborted
    BY <2>2, ControlPanelAssumption DEF UploadAborted, Goes, fileVars
  <2>3. CASE UploadRejected
    BY <2>3, ControlPanelAssumption DEF UploadRejected, Goes
  <2>4. CASE UploadReceived
    BY <2>4, ControlPanelAssumption DEF UploadReceived, Goes
  <2>5. CASE RemoveBackup
    BY <2>5, ControlPanelAssumption DEF RemoveBackup, Goes
  <2>6. CASE StageExisting
    BY <2>6, ControlPanelAssumption DEF StageExisting, Goes
  <2>7. CASE StageFails
    BY <2>7, ControlPanelAssumption DEF StageFails, Goes
  <2>8. CASE InstallUpload
    BY <2>8, ControlPanelAssumption DEF InstallUpload, Goes
  <2>9. CASE InstallFails
    BY <2>9, ControlPanelAssumption DEF InstallFails, Goes
  <2>10. CASE UploadEnds
    BY <2>10, ControlPanelAssumption DEF UploadEnds, Goes
  <2> QED BY <1>5, <2>1, <2>2, <2>3, <2>4, <2>5, <2>6, <2>7, <2>8, <2>9, <2>10 DEF Upload
<1>6. CASE Bootstrap
  <2>1. CASE StartBootstrap
    <3>1. UNCHANGED <<app, fileVars>>
      BY <2>1 DEF StartBootstrap, provision, fileVars, panelVars
    <3> QED BY <3>1 DEF fileVars
  <2>2. CASE Downloaded
    BY <2>2, ControlPanelAssumption DEF Downloaded, provision, panelVars
  <2>3. CASE DownloadFails
    BY <2>3, ControlPanelAssumption DEF DownloadFails, provision, panelVars
  <2>4. CASE InstallDefault
    BY <2>4, ControlPanelAssumption DEF InstallDefault, provision, panelVars
  <2> QED BY <1>6, <2>1, <2>2, <2>3, <2>4 DEF Bootstrap
<1>7. CASE AudioTask
  BY <1>7 DEF AudioTask, panelVars, fileVars
<1>8. CASE PowerCut
  <2>1. UNCHANGED <<file, kept, sent>> /\ app' = "loop"
    BY <1>8 DEF PowerCut
  <2>2. had_existing' \in BOOLEAN
    BY <1>8 DEF PowerCut
  <2> QED BY <2>1, <2>2
<1>9. CASE UNCHANGED vars
  BY <1>9 DEF vars, panelVars, fileVars
<1> QED BY <1>1, <1>2, <1>3, <1>4, <1>5, <1>6, <1>7, <1>8, <1>9 DEF Next

LEMMA InstalledStep == FileInv /\ [Next]_vars => KeepsInstalled
<1> SUFFICES ASSUME FileInv, [Next]_vars PROVE KeepsInstalled
  OBVIOUS
<1> USE DEF FileInv, FileTypeOK, Files, Contents, KeepsInstalled, Held
<1>1. CASE UNCHANGED <<file, kept>>
  BY <1>1
<1>2. CASE Tick \/ Fetch \/ Update \/ AudioTask \/ PowerCut \/ UNCHANGED vars
  <2>1. UNCHANGED <<file, kept>>
    BY <1>2 DEF Tick, StartTick, AudioCall, KeepGuard, EndGuard, NoRequest, BeginStop, Fetch,
        StartFetch, SuspendForFetch, EndFetch, StartEmulator, SuspendForEmulator, LeaveEmulator,
        Update, requestControlUpdateInstall, HaltSounds, SuspendForUpdate, Requested, Refused,
        UpdateEnds, AudioTask, PowerCut, vars, fileVars
  <2> QED BY <1>1, <2>1
<1>3. CASE Restore
  <2>1. CASE StartRestore
    BY <2>1, ControlPanelAssumption DEF StartRestore, fileVars
  <2>2. CASE SuspendForRestore
    BY <2>2, ControlPanelAssumption DEF SuspendForRestore, Goes
  <2>3. CASE RestoreAborted
    BY <2>3, ControlPanelAssumption DEF RestoreAborted, Goes, fileVars
  <2>4. CASE RestoreRejected
    BY <2>4, ControlPanelAssumption DEF RestoreRejected, Goes
  <2>5. CASE RestoreReceived
    BY <2>5, ControlPanelAssumption DEF RestoreReceived, Goes
  <2>6. CASE RemoveReplaced
    BY <2>6, ControlPanelAssumption DEF RemoveReplaced, Goes
  <2>7. CASE MoveStaged
    BY <2>7, ControlPanelAssumption DEF MoveStaged, Goes
  <2>8. CASE RestoreFails
    BY <2>8, ControlPanelAssumption DEF RestoreFails
  <2>9. CASE RestoreEnds
    BY <2>9, ControlPanelAssumption DEF RestoreEnds, Goes, fileVars
  <2> QED BY <1>3, <2>1, <2>2, <2>3, <2>4, <2>5, <2>6, <2>7, <2>8, <2>9 DEF Restore
<1>4. CASE Upload
  <2>1. CASE StartUpload
    BY <2>1, ControlPanelAssumption DEF StartUpload
  <2>2. CASE UploadAborted
    BY <2>2, ControlPanelAssumption DEF UploadAborted, Goes, fileVars
  <2>3. CASE UploadRejected
    BY <2>3, ControlPanelAssumption DEF UploadRejected, Goes
  <2>4. CASE UploadReceived
    BY <2>4, ControlPanelAssumption DEF UploadReceived, Goes
  <2>5. CASE RemoveBackup
    BY <2>5, ControlPanelAssumption DEF RemoveBackup, Goes
  <2>6. CASE StageExisting
    BY <2>6, ControlPanelAssumption DEF StageExisting, Goes
  <2>7. CASE StageFails
    BY <2>7, ControlPanelAssumption DEF StageFails, Goes
  <2>8. CASE InstallUpload
    BY <2>8, ControlPanelAssumption DEF InstallUpload, Goes
  <2>9. CASE InstallFails
    BY <2>9, ControlPanelAssumption DEF InstallFails, Goes
  <2>10. CASE UploadEnds
    BY <2>10, ControlPanelAssumption DEF UploadEnds, Goes
  <2> QED BY <1>4, <2>1, <2>2, <2>3, <2>4, <2>5, <2>6, <2>7, <2>8, <2>9, <2>10 DEF Upload
<1>5. CASE Bootstrap
  <2>1. CASE StartBootstrap
    BY <2>1, ControlPanelAssumption DEF StartBootstrap, provision
  <2>2. CASE Downloaded
    BY <2>2, ControlPanelAssumption DEF Downloaded, provision
  <2>3. CASE DownloadFails
    BY <2>3, ControlPanelAssumption DEF DownloadFails, provision
  <2>4. CASE InstallDefault
    BY <2>4, ControlPanelAssumption DEF InstallDefault, provision
  <2> QED BY <1>5, <2>1, <2>2, <2>3, <2>4 DEF Bootstrap
<1> QED BY <1>2, <1>3, <1>4, <1>5 DEF Next

-----------------------------------------------------------------------------
IInv == AudioTypeOK /\ PanelInv /\ FileInv

LEMMA InitIInv == Init => IInv
<1> SUFFICES ASSUME Init PROVE IInv
  OBVIOUS
<1>1. AudioTypeOK
  BY DEF Init, AudioInit, AudioTypeOK
<1>2. faults \in 0 .. MaxFaults
  <2>1. MaxFaults \in Nat /\ faults = 0
    BY ControlPanelAssumption DEF Init
  <2> QED BY <2>1
<1>3. PanelInv
  BY <1>2 DEF Init, AudioInit, PanelInv, PanelTypeOK, SuspendedForTransfer, Places, Jobs
<1>4. FileInv
  BY ControlPanelAssumption
     DEF Init, FileInv, FileTypeOK, Files, Contents, Sent
<1> QED BY <1>1, <1>3, <1>4 DEF IInv

LEMMA InductiveIInv == IInv /\ [Next]_vars => IInv'
BY AudioStep, PanelStep, FileStep DEF IInv

LEMMA SpecIInv == Spec => []IInv
<1> QED BY InitIInv, InductiveIInv, PTL DEF Spec

(* Every variable of the panel and of the audio service has its type, and  *)
(* an end of a sound that is reported is that of the last one.             *)
THEOREM PanelTypes == Spec => []TypeOK
<1>1. IInv => TypeOK
  BY DEF IInv, PanelInv, FileInv, TypeOK
<1> QED BY <1>1, SpecIInv, PTL

(* The application waits for the suspended audio task for ever only under  *)
(* the guard of an update or the transfer of a cancelled restore.          *)
THEOREM StuckInUpdateOnly == Spec => []StuckOnlyInUpdate
<1>1. IInv => StuckOnlyInUpdate
  BY DEF IInv, PanelInv, SuspendedForTransfer, StuckOnlyInUpdate, AudioCalls
<1> QED BY <1>1, SpecIInv, PTL

(* Between two handlers the audio task runs, but for the same two cases.   *)
THEOREM SoundsAreBack == Spec => []SoundsComeBack
<1>1. IInv => SoundsComeBack
  BY DEF IInv, PanelInv, SuspendedForTransfer, SoundsComeBack
<1> QED BY <1>1, SpecIInv, PTL

(* The file installed last survives uploads and power cuts, but for the    *)
(* bootstrap task and the first steps of an upload that meets it as the    *)
(* only copy, kept as previous.                                            *)
THEOREM InstalledSurvives == Spec => InstalledFileSurvives
<1>1. IInv /\ [Next]_vars => [KeepsInstalled]_vars
  BY InstalledStep DEF IInv
<1> QED BY <1>1, SpecIInv, PTL DEF Spec, InstalledFileSurvives

-----------------------------------------------------------------------------
(* The sounds as promised by SoundPlayer                                   *)

(* The second half of beginControlPanelNetworkTransfer finds the silence   *)
(* that the first one made.                                                *)
SilentSuspend == app = "suspend" => decoder = "none" /\ ~finished

(* What the application may call where, and what the audio task does.      *)
AudioChange ==
    \/ /\ app' # "suspend"
       /\ \/ stop \/ play \/ running \/ takeFinished \/ resumeTask
          \/ suspendTask /\ app = "suspend"
          \/ UNCHANGED audioVars
    \/ stop
    \/ app' = app /\ (runTask \/ UNCHANGED audioVars)
    \/ PowerCut

LEMMA AudioChanges == [Next]_vars => AudioChange
<1> SUFFICES ASSUME [Next]_vars PROVE AudioChange
  OBVIOUS
<1> USE DEF AudioChange
<1>1. CASE Tick
  BY <1>1
     DEF Tick, StartTick, AudioCall, KeepGuard, EndGuard, NoRequest, BeginStop, Goes,
         endControlPanelNetworkTransfer
<1>2. CASE Fetch
  BY <1>2
     DEF Fetch, StartFetch, SuspendForFetch, EndFetch, StartEmulator, SuspendForEmulator,
         LeaveEmulator, Goes, beginControlPanelNetworkTransfer, endControlPanelNetworkTransfer
<1>3. CASE Update
  BY <1>3
     DEF Update, requestControlUpdateInstall, HaltSounds, SuspendForUpdate, Requested, Refused,
         UpdateEnds, Goes, beginControlPanelNetworkTransfer, endControlPanelNetworkTransfer
<1>4. CASE Restore
  BY <1>4
     DEF Restore, StartRestore, SuspendForRestore, RestoreAborted, RestoreRejected,
         RestoreReceived, RemoveReplaced, MoveStaged, RestoreFails, RestoreEnds, EndTransfer, Goes,
         beginControlPanelNetworkTransfer, endControlPanelNetworkTransfer
<1>5. CASE Upload
  BY <1>5
     DEF Upload, StartUpload, UploadAborted, UploadRejected, UploadReceived, RemoveBackup,
         StageExisting, StageFails, InstallUpload, InstallFails, UploadEnds, Goes
<1>6. CASE Bootstrap
  BY <1>6
     DEF Bootstrap, StartBootstrap, Downloaded, DownloadFails, InstallDefault, provision,
         panelVars
<1>7. CASE AudioTask
  BY <1>7 DEF AudioTask, panelVars
<1>8. CASE PowerCut
  BY <1>8
<1>9. CASE UNCHANGED vars
  BY <1>9 DEF vars, panelVars
<1> QED BY <1>1, <1>2, <1>3, <1>4, <1>5, <1>6, <1>7, <1>8, <1>9 DEF Next

LEMMA SilentSuspendStep == AudioTypeOK /\ SilentSuspend /\ [Next]_vars => SilentSuspend'
<1> SUFFICES ASSUME AudioTypeOK, SilentSuspend, AudioChange PROVE SilentSuspend'
  BY AudioChanges
<1> USE DEF SilentSuspend
<1>1. CASE app' # "suspend"
  BY <1>1
<1>2. CASE stop
  BY <1>2 DEF stop
<1>3. CASE app' = app /\ UNCHANGED audioVars
  BY <1>3 DEF audioVars
<1>4. CASE app' = app /\ runTask
  BY <1>4 DEF runTask, Enters, Leaves, Flushes, Ends, AudioTypeOK
<1>5. CASE PowerCut
  BY <1>5 DEF PowerCut
<1> QED BY <1>1, <1>2, <1>3, <1>4, <1>5 DEF AudioChange

LEMMA PlayerStep ==
  AudioTypeOK /\ AudioTypeOK' /\ SilentSuspend /\ [Next]_vars
    => [Player!Next]_<<decoder = "running", finished, suspended>>
<1> SUFFICES ASSUME AudioTypeOK, AudioTypeOK', SilentSuspend, AudioChange
             PROVE  [Player!Next]_<<decoder = "running", finished, suspended>>
  BY AudioChanges
<1> USE DEF Player!Next
<1>1. CASE stop \/ play
  BY <1>1 DEF stop, play, Player!Play
<1>2. CASE running \/ UNCHANGED audioVars
  BY <1>2 DEF running, audioVars
<1>3. CASE takeFinished
  BY <1>3 DEF takeFinished, Player!Take
<1>4. CASE resumeTask
  BY <1>4 DEF resumeTask, Player!Thaw
<1>5. CASE suspendTask /\ app = "suspend"
  BY <1>5 DEF suspendTask, SilentSuspend, AudioTypeOK, Player!Silence
<1>6. CASE Enters \/ Leaves \/ Flushes
  BY <1>6 DEF Enters, Leaves, Flushes
<1>7. CASE Ends
  BY <1>7 DEF Ends, AudioTypeOK, Player!Finish
<1>8. CASE PowerCut
  BY <1>8 DEF PowerCut, Player!Silence
<1> QED BY <1>1, <1>2, <1>3, <1>4, <1>5, <1>6, <1>7, <1>8 DEF AudioChange, runTask

(* The audio service, with its task, its mutex and its suspension at any   *)
(* point, keeps the promise of SoundPlayer to everyone who plays sounds.   *)
THEOREM SoundsAsPromised == Spec => ImplementsSoundPlayer
<1>1. Init => Player!Init /\ AudioTypeOK /\ SilentSuspend
  BY DEF Init, AudioInit, Player!Init, AudioTypeOK, SilentSuspend
<1>2. AudioTypeOK /\ [Next]_vars => AudioTypeOK'
  BY AudioStep
<1>3. AudioTypeOK /\ SilentSuspend /\ [Next]_vars => SilentSuspend'
  BY SilentSuspendStep
<1>4. AudioTypeOK /\ AudioTypeOK' /\ SilentSuspend /\ [Next]_vars
        => [Player!Next]_<<decoder = "running", finished, suspended>>
  BY PlayerStep
<1> QED BY <1>1, <1>2, <1>3, <1>4, PTL DEF Spec, Player!Spec, ImplementsSoundPlayer
=============================================================================
