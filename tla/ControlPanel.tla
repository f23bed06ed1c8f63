---------------------------- MODULE ControlPanel ----------------------------
(***************************************************************************)
(* The web panel's transfers: downloads, backups, restores and Mini vMac   *)
(* uploads, which keep the application's task in a handler of the panel,   *)
(* the update that goes on while it ticks, and the task that provides the  *)
(* default Mini vMac files.                                                *)
(*                                                                         *)
(* A transfer gives the audio memory to the network: it stops the sound,   *)
(* suspends the audio task and resumes it afterwards. The application is   *)
(* one task, so what it does is a place in the code, app; where it waits   *)
(* for the mutex of the audio service it is at one of AudioCalls.          *)
(*                                                                         *)
(* One of the Mini vMac files stands for all, and every version of it that *)
(* the user sends is another one. LittleFS renames and removes atomically, *)
(* a rename replaces what is there, and either may fail. Of a backup it is *)
(* kept whether it holds a version of that file.                           *)
(***************************************************************************)
EXTENDS AudioService, Naturals

CONSTANTS
    Versions,        \* the files that the user sends
    MaxFaults        \* bound: failed renames and removals, and power cuts

Absent  == "absent"
Default == "default"
Partial == "partial"

ASSUME ControlPanelAssumption ==
    /\ Versions \cap {Absent, Default, Partial} = {}
    /\ MaxFaults \in Nat

VARIABLES
    app,             \* where the application is
    job,             \* what the transfer that it begins is for
    guard,           \* update_network_guard_active_
    began,           \* started_guard
    updating,        \* networkOperationActive()
    transfer,        \* ConfigurationArchive: transfer_active
    file,            \* the Mini vMac file and the files beside it
    had_existing,    \* a local of finish_minivmac_upload
    boot,            \* minivmac_bootstrap_task
    kept,            \* history: the version last installed for the user
    sent,            \* the versions that the user has sent
    faults           \* bound: how many faults there were

panelVars == <<app, job, guard, began, updating, transfer>>
fileVars  == <<file, had_existing, kept, sent>>
vars == <<audioVars, panelVars, fileVars, boot, faults>>

Contents == {Absent, Default, Partial} \cup Versions

Files ==
    [ slot     : Contents,      \* /disk1.dsk
      upload   : Contents,      \* /disk1.dsk.upload
      previous : Contents,      \* /disk1.dsk.previous
      download : Contents,      \* /disk1.dsk.download
      staged   : Contents ]     \* /.maclock-restore/floppies/disk1.dsk

Jobs == {"fetch", "restore", "update", "emulator"}

AudioCalls == {"calls", "halt", "begin"}

Places ==
    {"loop", "guard", "panel", "suspend", "fetching", "emulator", "request"}
      \cup AudioCalls
      \cup {"receiving", "replace", "move", "apply"}
      \cup {"uploading", "finish", "stage", "install", "clean"}

Goes(from, to) == app = from /\ app' = to

Fault == faults < MaxFaults /\ faults' = faults + 1

-----------------------------------------------------------------------------
(* The tick, in the order of MaclockApp::tick: sounds, the end of the      *)
(* update's guard, the panel.                                              *)
StartTick ==
    /\ app = "loop"
    /\ app' \in {"calls", "guard"}
    /\ UNCHANGED <<audioVars, job, guard, began, updating, transfer, fileVars, boot, faults>>

(* On the clock it asks whether a sound is running in every tick.          *)
AudioCall ==
    /\ Goes("calls", "guard")
    /\ running \/ play \/ stop \/ takeFinished
    /\ UNCHANGED <<job, guard, began, updating, transfer, fileVars, boot, faults>>

beginControlPanelNetworkTransfer(for) == app' = "begin" /\ job' = for

(* Mutant of BeginStop: the task is suspended first.                       *)
MutSuspendsFirst ==
    /\ \/ ~suspended /\ Goes("begin", "begin") /\ suspendTask
       \/ suspended /\ Goes("begin", "suspend") /\ stop
    /\ UNCHANGED <<job, guard, began, updating, transfer, fileVars, boot, faults>>

(* Its first half, for each job.                                           *)
BeginStop ==
    /\ Goes("begin", "suspend")
    /\ stop
    /\ UNCHANGED <<job, guard, began, updating, transfer, fileVars, boot, faults>>

endControlPanelNetworkTransfer == resumeTask

KeepGuard ==
    /\ Goes("guard", "panel")
    /\ ~(guard /\ ~updating)
    /\ UNCHANGED <<audioVars, job, guard, began, updating, transfer, fileVars, boot, faults>>

EndGuard ==
    /\ Goes("guard", "panel")
    /\ guard /\ ~updating
    /\ endControlPanelNetworkTransfer
    /\ guard' = FALSE
    /\ UNCHANGED <<job, began, updating, transfer, fileVars, boot, faults>>

(* No request arrives, or the panel is stopped.                            *)
NoRequest ==
    /\ Goes("panel", "loop")
    /\ UNCHANGED <<audioVars, job, guard, began, updating, transfer, fileVars, boot, faults>>

Served == app = "panel" /\ ~updating

-----------------------------------------------------------------------------
(* Export, import of a sound, search                                       *)
StartFetch ==
    /\ Served
    /\ beginControlPanelNetworkTransfer("fetch")
    /\ UNCHANGED <<audioVars, guard, began, updating, transfer, fileVars, boot, faults>>

SuspendForFetch ==
    /\ Goes("suspend", "fetching")
    /\ job = "fetch"
    /\ suspendTask
    /\ UNCHANGED <<job, guard, began, updating, transfer, fileVars, boot, faults>>

EndFetch ==
    /\ Goes("fetching", "loop")
    /\ endControlPanelNetworkTransfer
    /\ UNCHANGED <<job, guard, began, updating, transfer, fileVars, boot, faults>>

(* run_emulator: stop, suspendTask, minivmac, resumeTask.                  *)
StartEmulator ==
    /\ app = "loop"
    /\ beginControlPanelNetworkTransfer("emulator")
    /\ UNCHANGED <<audioVars, guard, began, updating, transfer, fileVars, boot, faults>>

SuspendForEmulator ==
    /\ Goes("suspend", "emulator")
    /\ job = "emulator"
    /\ suspendTask
    /\ UNCHANGED <<job, guard, began, updating, transfer, fileVars, boot, faults>>

LeaveEmulator ==
    /\ Goes("emulator", "loop")
    /\ resumeTask
    /\ UNCHANGED <<job, guard, began, updating, transfer, fileVars, boot, faults>>

-----------------------------------------------------------------------------
(* An update: from the panel, or from the screen or the tick               *)
requestControlUpdateInstall ==
    /\ Served \/ app = "loop"
    /\ app' = "halt"
    /\ UNCHANGED <<audioVars, job, guard, began, updating, transfer, fileVars, boot, faults>>

HaltSounds ==
    /\ app = "halt"
    /\ stop
    /\ began' = ~guard
    /\ IF guard THEN app' = "request" /\ UNCHANGED job
                ELSE beginControlPanelNetworkTransfer("update")
    /\ UNCHANGED <<guard, updating, transfer, fileVars, boot, faults>>

SuspendForUpdate ==
    /\ Goes("suspend", "request")
    /\ job = "update"
    /\ suspendTask
    /\ guard' = TRUE
    /\ UNCHANGED <<job, began, updating, transfer, fileVars, boot, faults>>

(* The worker may not start; it is then found inactive in a later tick.    *)
Requested ==
    /\ Goes("request", "loop")
    /\ updating' \in {TRUE, updating}
    /\ UNCHANGED <<audioVars, job, guard, began, transfer, fileVars, boot, faults>>

Refused ==
    /\ Goes("request", "loop")
    /\ IF began THEN endControlPanelNetworkTransfer /\ guard' = FALSE
                ELSE UNCHANGED <<audioVars, guard>>
    /\ UNCHANGED <<job, began, updating, transfer, fileVars, boot, faults>>

UpdateEnds ==
    /\ updating
    /\ updating' = FALSE
    /\ UNCHANGED <<audioVars, app, job, guard, began, transfer, fileVars, boot, faults>>

-----------------------------------------------------------------------------
(* ConfigurationArchive: a backup is received, checked and installed       *)
StartRestore ==
    /\ Served
    /\ beginControlPanelNetworkTransfer("restore")
    /\ UNCHANGED <<audioVars, guard, began, updating, transfer, fileVars, boot, faults>>

SuspendForRestore ==
    /\ Goes("suspend", "receiving")
    /\ job = "restore"
    /\ suspendTask
    /\ transfer' = TRUE
    /\ file' = [file EXCEPT !.staged = Absent]
    /\ UNCHANGED <<job, guard, began, updating, had_existing, kept, sent, boot, faults>>

(* The connection is lost: the server does not call finishUpload.          *)
RestoreAborted ==
    /\ Goes("receiving", "loop")
    /\ UNCHANGED <<audioVars, job, guard, began, updating, transfer, fileVars, boot, faults>>

(* Mutant of EndTransfer: the audio task is not resumed.                   *)
MutFinishesSilently == transfer' = FALSE /\ UNCHANGED audioVars

(* The end of finishUpload, on each of its ways.                           *)
EndTransfer ==
    /\ transfer' = FALSE
    /\ IF transfer THEN endControlPanelNetworkTransfer ELSE UNCHANGED audioVars

(* The archive is invalid, or nothing was uploaded: the restore of an      *)
(* earlier request may have been cancelled.                                *)
RestoreRejected ==
    /\ Goes("receiving", "loop") \/ (Served /\ app' = "loop")
    /\ EndTransfer
    /\ file' = [file EXCEPT !.staged = Absent]
    /\ UNCHANGED <<job, guard, began, updating, had_existing, kept, sent, boot, faults>>

RestoreReceived ==
    /\ Goes("receiving", "replace")
    /\ \/ file' = [file EXCEPT !.staged = Absent] /\ UNCHANGED sent
       \/ \E version \in Versions \ sent :
              /\ file' = [file EXCEPT !.staged = version]
              /\ sent' = sent \cup {version}
    /\ UNCHANGED <<audioVars, job, guard, began, updating, transfer, had_existing, kept, boot, faults>>

(* replace_restored_files: what is there is removed first. The user has    *)
(* asked for it, so that version need not be kept.                         *)
RemoveReplaced ==
    /\ Goes("replace", "move")
    /\ file' = [file EXCEPT !.slot = Absent]
    /\ kept' = Absent
    /\ UNCHANGED <<audioVars, job, guard, began, updating, transfer, had_existing, sent, boot, faults>>

MoveStaged ==
    /\ Goes("move", "apply")
    /\ IF file.staged = Absent
         THEN UNCHANGED <<file, kept>>
         ELSE /\ file' = [file EXCEPT !.slot = file.staged, !.staged = Absent]
              /\ kept' = file.staged
    /\ UNCHANGED <<audioVars, job, guard, began, updating, transfer, had_existing, sent, boot, faults>>

(* A removal, a rename or a part of the settings fails.                    *)
RestoreFails ==
    /\ app \in {"replace", "move", "apply"}
    /\ app' = "loop"
    /\ Fault
    /\ EndTransfer
    /\ file' = [file EXCEPT !.staged = Absent]
    /\ UNCHANGED <<job, guard, began, updating, had_existing, kept, sent, boot>>

RestoreEnds ==
    /\ Goes("apply", "loop")
    /\ EndTransfer
    /\ UNCHANGED <<job, guard, began, updating, fileVars, boot, faults>>

-----------------------------------------------------------------------------
(* receive_minivmac_upload and finish_minivmac_upload                      *)
StartUpload ==
    /\ Served
    /\ app' = "uploading"
    /\ file' = [file EXCEPT !.upload = Partial]
    /\ UNCHANGED <<audioVars, job, guard, began, updating, transfer, had_existing, kept, sent, boot, faults>>

UploadAborted ==
    /\ Goes("uploading", "loop")
    /\ UNCHANGED <<audioVars, job, guard, began, updating, transfer, fileVars, boot, faults>>

(* The storage is full, or the size is not that of a disk or a ROM.        *)
UploadRejected ==
    /\ Goes("uploading", "loop")
    /\ file' = [file EXCEPT !.upload = Absent]
    /\ UNCHANGED <<audioVars, job, guard, began, updating, transfer, had_existing, kept, sent, boot, faults>>

UploadReceived ==
    /\ Goes("uploading", "finish")
    /\ \E version \in Versions \ sent :
          /\ file' = [file EXCEPT !.upload = version]
          /\ sent' = sent \cup {version}
    /\ UNCHANGED <<audioVars, job, guard, began, updating, transfer, had_existing, kept, boot, faults>>

RemoveBackup ==
    /\ Goes("finish", "stage")
    /\ \/ file' = [file EXCEPT !.previous = Absent] /\ UNCHANGED faults
       \/ file.previous # Absent /\ Fault /\ UNCHANGED file
    /\ UNCHANGED <<audioVars, job, guard, began, updating, transfer, had_existing, kept, sent, boot>>

(* Mutant of StageExisting: the existing file is removed.                  *)
MutExistingRemoved ==
    /\ Goes("stage", "install")
    /\ had_existing' = (file.slot # Absent)
    /\ file' = [file EXCEPT !.slot = Absent]
    /\ UNCHANGED <<audioVars, job, guard, began, updating, transfer, kept, sent, boot, faults>>

StageExisting ==
    /\ Goes("stage", "install")
    /\ had_existing' = (file.slot # Absent)
    /\ file' = IF had_existing' THEN [file EXCEPT !.previous = file.slot, !.slot = Absent] ELSE file
    /\ UNCHANGED <<audioVars, job, guard, began, updating, transfer, kept, sent, boot, faults>>

StageFails ==
    /\ Goes("stage", "loop")
    /\ file.slot # Absent
    /\ Fault
    /\ file' = [file EXCEPT !.upload = Absent]
    /\ UNCHANGED <<audioVars, job, guard, began, updating, transfer, had_existing, kept, sent, boot>>

InstallUpload ==
    /\ Goes("install", "clean")
    /\ file' = [file EXCEPT !.slot = file.upload, !.upload = Absent]
    /\ kept' = file.upload
    /\ UNCHANGED <<audioVars, job, guard, began, updating, transfer, had_existing, sent, boot, faults>>

(* The existing file is put back, unless that fails too.                   *)
InstallFails ==
    /\ Goes("install", "loop")
    /\ Fault
    /\ \/ had_existing
          /\ file' = [file EXCEPT !.upload = Absent, !.slot = file.previous, !.previous = Absent]
       \/ file' = [file EXCEPT !.upload = Absent]
    /\ UNCHANGED <<audioVars, job, guard, began, updating, transfer, had_existing, kept, sent, boot>>

UploadEnds ==
    /\ Goes("clean", "loop")
    /\ \/ had_existing /\ file' = [file EXCEPT !.previous = Absent] /\ UNCHANGED faults
       \/ ~had_existing /\ UNCHANGED <<file, faults>>
       \/ had_existing /\ Fault /\ UNCHANGED file
    /\ UNCHANGED <<audioVars, job, guard, began, updating, transfer, had_existing, kept, sent, boot>>

-----------------------------------------------------------------------------
(* minivmac_bootstrap_task, which is started with the server and once      *)
provision(from, to) ==
    /\ boot = from
    /\ boot' = to
    /\ UNCHANGED <<audioVars, panelVars, had_existing, kept, sent, faults>>

StartBootstrap ==
    /\ Served
    /\ provision("not started", IF file.slot = Absent THEN "downloading" ELSE "ended")
    /\ UNCHANGED file

Downloaded ==
    /\ provision("downloading", "installing")
    /\ file' = [file EXCEPT !.download = Default]

DownloadFails ==
    /\ provision("downloading", "ended")
    /\ file' = [file EXCEPT !.download = Absent]

InstallDefault ==
    /\ provision("installing", "ended")
    /\ file' = [file EXCEPT !.slot = Default, !.download = Absent]

-----------------------------------------------------------------------------
Init ==
    /\ AudioInit
    /\ app = "loop"
    /\ job = "fetch"
    /\ guard = FALSE
    /\ began = FALSE
    /\ updating = FALSE
    /\ transfer = FALSE
    /\ file = [ slot |-> Absent, upload |-> Absent, previous |-> Absent,
                download |-> Absent, staged |-> Absent ]
    /\ had_existing = FALSE
    /\ boot = "not started"
    /\ kept = Absent
    /\ sent = {}
    /\ faults = 0

(* LittleFS keeps the files; everything else starts again.                 *)
PowerCut ==
    /\ Fault
    /\ decoder' = "none"
    /\ finished' = FALSE
    /\ task' = "away"
    /\ suspended' = FALSE
    /\ app' = "loop"
    /\ job' = "fetch"
    /\ guard' = FALSE
    /\ began' = FALSE
    /\ updating' = FALSE
    /\ transfer' = FALSE
    /\ had_existing' = FALSE
    /\ boot' = "not started"
    /\ UNCHANGED <<file, kept, sent>>

Tick == StartTick \/ AudioCall \/ KeepGuard \/ EndGuard \/ NoRequest \/ BeginStop

Fetch ==
    \/ StartFetch \/ SuspendForFetch \/ EndFetch
    \/ StartEmulator \/ SuspendForEmulator \/ LeaveEmulator

Update ==
    \/ requestControlUpdateInstall \/ HaltSounds \/ SuspendForUpdate
    \/ Requested \/ Refused \/ UpdateEnds

Restore ==
    \/ StartRestore \/ SuspendForRestore \/ RestoreAborted \/ RestoreRejected \/ RestoreReceived
    \/ RemoveReplaced \/ MoveStaged \/ RestoreFails \/ RestoreEnds

Upload ==
    \/ StartUpload \/ UploadAborted \/ UploadRejected \/ UploadReceived
    \/ RemoveBackup \/ StageExisting \/ StageFails \/ InstallUpload \/ InstallFails \/ UploadEnds

Bootstrap == StartBootstrap \/ Downloaded \/ DownloadFails \/ InstallDefault

AudioTask == runTask /\ UNCHANGED <<panelVars, fileVars, boot, faults>>

Next == Tick \/ Fetch \/ Update \/ Restore \/ Upload \/ Bootstrap \/ AudioTask \/ PowerCut

Spec == Init /\ [][Next]_vars

-----------------------------------------------------------------------------
(* Properties                                                              *)

PanelTypeOK ==
    /\ app \in Places
    /\ job \in Jobs
    /\ guard \in BOOLEAN /\ began \in BOOLEAN
    /\ updating \in BOOLEAN /\ transfer \in BOOLEAN
    /\ boot \in {"not started", "downloading", "installing", "ended"}
    /\ faults \in 0 .. MaxFaults

FileTypeOK ==
    /\ file \in Files
    /\ had_existing \in BOOLEAN
    /\ kept \in {Absent} \cup Versions
    /\ sent \subseteq Versions

(* The type of every variable; of the audio service it is said also that   *)
(* a sound is not reported to have ended when another one was begun.       *)
TypeOK == AudioTypeOK /\ PanelTypeOK /\ FileTypeOK

(* The application waits for ever when the audio task is suspended inside  *)
(* its mutex. No transfer that ends in its handler, and no visit to the    *)
(* emulator, brings it there: this takes the update, which goes on while   *)
(* the application ticks, or a restore that the client cancelled.          *)
StuckOnlyInUpdate ==
    app \in AudioCalls /\ suspended /\ ~LockFree => guard \/ transfer

(* Whatever way a handler ends, the sounds are back when the application   *)
(* ticks again. As above, an update keeps them away for its time, and a    *)
(* cancelled restore until another request ends a transfer.                *)
SoundsComeBack == app = "loop" /\ suspended => guard \/ transfer

Held(version) == version \in {file.slot, file.previous}

(* A step does not lose the version, or is one of those that may.          *)
KeepsInstalled ==
    kept' = kept /\ kept # Absent /\ Held(kept) /\ ~Held(kept)'
      => \/ boot = "installing" /\ boot' = "ended"
         \/ app \in {"finish", "stage"} /\ file.slot # kept

(* The file installed last is neither lost by uploads that are cancelled,  *)
(* rejected or fail in a rename, nor by a power cut at any point of them:  *)
(* it is in its place or kept as previous. Two things alone may lose it:   *)
(* the bootstrap task, which looked for a file before one was uploaded,    *)
(* and the first steps of the next upload (its removal of the previous     *)
(* file, or its rename over it), when a power cut or a failed rollback had *)
(* left that file as the only copy.                                        *)
InstalledFileSurvives == [][KeepsInstalled]_vars

(* The sounds as the application may take them to behave, though the audio *)
(* task runs, is suspended and is stopped at any point of its work: an end *)
(* is reported of the last sound alone, and when the task is suspended the *)
(* sound before the transfer is neither played on nor reported later.      *)
Player ==
    INSTANCE SoundPlayer WITH
        playing <- decoder = "running", ended <- finished, frozen <- suspended

ImplementsSoundPlayer == Player!Spec

=============================================================================
