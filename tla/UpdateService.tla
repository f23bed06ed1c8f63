--------------------------- MODULE UpdateService ---------------------------
(***************************************************************************)
(* The software update: UpdateService with its worker task on core 0, the  *)
(* application task that ticks it, starts its work and serves the web      *)
(* panel's requests and uploads, and the flash both write to: the two      *)
(* firmware slots, the NVS marker and the asset files of LittleFS.         *)
(*                                                                         *)
(* The application task goes round loop -> (serve -> (upload)) -> sync;    *)
(* the worker takes one step per place where it shares state or where the  *)
(* power may go with a different result.  Power cuts, failed downloads and *)
(* writes, and the requests of the user share the budget MaxEvents.        *)
(*                                                                         *)
(* Abstracted: a release is its number, a file's content is the number of  *)
(* the release that last changed it, a day of 86 400 000 ms is one step.   *)
(* Left out: texts, progress, asset_version, assets_only (wording only),   *)
(* and what NVS keeps that is never read back with an effect (assetTarget, *)
(* otaPending, otaEtag: without a URL the ETag is not sent).               *)
(***************************************************************************)
EXTENDS Integers

CONSTANTS
    MaxRelease,     \* the last release ever published
    Manifest,       \* Manifest[v][p]: content of path p in release v
    UserFiles,      \* the files of protected_user_path() that the user added
    Probe,          \* kAssetProbePath
    Features,       \* what may happen, see AllFeatures
    MaxEvents,      \* bound on power cuts, faults and requests together
    Junk            \* a slot without a valid image

AllFeatures == {"fault", "cut", "refresh", "upload", "short", "truncated", "usb"}

Versions == 1 .. MaxRelease
Paths    == UNION {DOMAIN Manifest[v] : v \in Versions}

ASSUME ManifestAssumption ==
    /\ MaxRelease \in Nat \ {0}
    /\ DOMAIN Manifest = Versions
    /\ \A v \in Versions : \A p \in DOMAIN Manifest[v] : Manifest[v][p] \in 1 .. v
ASSUME UserFilesAssumption == Paths \cap UserFiles = {}
ASSUME FeaturesAssumption  == Features \subseteq AllFeatures /\ MaxEvents \in Nat

VARIABLES
    app,        \* the application task: where it is, update_prompt_allowed, and
                \* (history) whether its last tick left the worker idle all along
    state,      \* UpdateService::State with its UpdateSnapshot
    worker,     \* the worker task: its action and where it is
    work,       \* NVS "assetWork": an asset installation is not finished
    ignored,    \* NVS "otaIgnored" and its copy ignored_version; 0: none
    flash,      \* the firmware slots, the one to boot, its state, the one running
    files,      \* LittleFS: path -> content; that of the user's files is 0
    release,    \* the latest published release; 0: none
    partial,    \* history: assets were never complete, or a refresh began to replace them
    events      \* how much of MaxEvents is used

vars == <<app, state, worker, work, ignored, flash, files, release, partial, events>>

Stages == {"idle", "checking", "upToDate", "available", "downloadingAssets",
           "installingAssets", "downloadingFirmware", "uploadingFirmware",
           "readyToReboot", "error"}
BusyStages == {"checking", "downloadingAssets", "installingAssets",
               "downloadingFirmware", "uploadingFirmware"}

State ==
    [ stage : Stages, busy : BOOLEAN, update_available : BOOLEAN,
      latest : Versions \cup {0}, prompt_pending : BOOLEAN, reboot_required : BOOLEAN,
      check_requested : BOOLEAN, first_check_complete : BOOLEAN,
      install_requested : BOOLEAN, asset_refresh_requested : BOOLEAN,
      pending_verify : BOOLEAN,
      check_due : BOOLEAN,                \* last_check_ms is a day ago
      snoozed : BOOLEAN,                  \* prompt_snoozed_until_ms is ahead
      etag : Versions \cup {0},           \* the release that release_etag names
      urls : Versions \cup {0},           \* the release whose files the URLs name
      manual : {"no", "header", "writing"} ]  \* manual_upload, manual_update_started

Images  == [version : Versions, origin : {"release", "upload"}]
ASSUME JunkAssumption == Junk \notin Images

Actions == {"None", "Check", "Install", "RefreshAssets"}
Steps   == {"start", "fetch", "manifest", "files", "prune", "firmware", "write", "finish", "exit"}
Idle    == [action |-> "None", at |-> "exit"]

(* Mutant of Other: the slot after the running one, without going round.   *)
MutOtherNext(slot) == slot + 1

Other(slot) == 1 - slot
Running     == flash.slots[flash.running].version

(* Requests, faults and power cuts share one budget.                       *)
Uses(n) == events + n <= MaxEvents /\ events' = events + n
Fault   == "fault" \in Features /\ Uses(1)

(* Whether xTaskCreatePinnedToCore finds the memory for the worker.        *)
Creations     == IF "fault" \in Features THEN BOOLEAN ELSE {TRUE}
Cost(created) == IF created THEN 0 ELSE 1

-----------------------------------------------------------------------------
(* Helpers of the code                                                     *)
set_stage(s, stage) == [s EXCEPT !.stage = stage, !.busy = stage \in BusyStages]
(* Mutant of set_error: the service stays busy.                            *)
MutErrorStaysBusy(s) == [s EXCEPT !.stage = "error"]

set_error(s)        == [s EXCEPT !.stage = "error", !.busy = FALSE]

(* Mutant: a worker that has not begun or is about to end is not seen.     *)
MutActiveIfBusy(s, w) == s.busy

networkOperationActive(s, w) == w # Idle \/ s.busy

(* Mutant of needsNetworkCheck: the daily check is forgotten.              *)
MutNeedsNoDaily(s, w, online) ==
    /\ online
    /\ ~networkOperationActive(s, w)
    /\ ~s.reboot_required
    /\ s.check_requested \/ ~s.first_check_complete

needsNetworkCheck(s, w, online) ==
    /\ online
    /\ ~networkOperationActive(s, w)
    /\ ~s.reboot_required
    /\ s.check_requested \/ ~s.first_check_complete \/ s.check_due

needsAssetRefresh(s, w, online) ==
    /\ online
    /\ s.asset_refresh_requested
    /\ ~networkOperationActive(s, w)
    /\ ~s.reboot_required

(* What start_worker leaves, and whether it started the task.              *)
NoStart(s, w) == [state |-> s, worker |-> w, started |-> FALSE]

start_worker(s, w, action, created) ==
    IF networkOperationActive(s, w)
      THEN NoStart(s, w)
      ELSE IF created
        THEN [state |-> s, worker |-> [action |-> action, at |-> "start"], started |-> TRUE]
        ELSE NoStart(set_error(s), w)

CanInstall(s) == s.update_available /\ s.urls # 0

requestInstall(s, w, created) ==
    IF CanInstall(s)
      THEN start_worker(s, w, "Install", created)
      ELSE NoStart(s, w)

requestAssetRefresh(s, w, created) ==
    IF networkOperationActive(s, w) \/ s.reboot_required
      THEN NoStart(s, w)
      ELSE LET r == start_worker(s, w, "RefreshAssets", created)
           IN  IF r.started THEN [r EXCEPT !.state.asset_refresh_requested = FALSE] ELSE r

dismiss(s, ignore) ==
    [s EXCEPT !.prompt_pending = FALSE, !.snoozed = IF ignore THEN @ ELSE TRUE]

-----------------------------------------------------------------------------
(* Restart: UpdateService::begin after a power cut or ESP.restart()        *)

(* The bootloader (external): a new image is started once; if it was not   *)
(* confirmed, or is not valid, the other slot is started.                  *)
Rejected == flash.state = "pending" \/ flash.slots[flash.boot] = Junk
Booted ==
    IF Rejected
      THEN [flash EXCEPT !.boot = Other(@), !.running = Other(flash.boot), !.state = "valid"]
      ELSE [flash EXCEPT !.running = flash.boot,
                         !.state = IF @ = "new" THEN "pending" ELSE @]

Begun(present, marked, pending) ==
    [ stage |-> IF marked THEN "installingAssets" ELSE "idle",
      busy |-> FALSE, update_available |-> FALSE, latest |-> 0,
      prompt_pending |-> FALSE, reboot_required |-> FALSE,
      check_requested |-> TRUE, first_check_complete |-> FALSE,
      install_requested |-> marked, asset_refresh_requested |-> Probe \notin present,
      pending_verify |-> pending, check_due |-> FALSE, snoozed |-> FALSE,
      etag |-> 0, urls |-> 0, manual |-> "no" ]

AtLoop == [at |-> "loop", allowed |-> FALSE, quiet |-> FALSE]

Restart ==
    /\ app' = AtLoop
    /\ flash' = Booted
    /\ worker' = Idle
    /\ state' = Begun(DOMAIN files, work, Booted.state = "pending")
    /\ UNCHANGED <<work, ignored, files, release, partial>>

PowerCut == "cut" \in Features /\ Uses(1) /\ Restart

-----------------------------------------------------------------------------
(* The application task                                                    *)
CheckStarted(r) ==
    IF r.started
      THEN [r EXCEPT !.state.check_requested = FALSE,
                     !.state.first_check_complete = TRUE,
                     !.state.check_due = FALSE]
      ELSE r

(* perform_check's and tick's rule for the prompt                          *)
PromptSet(s, allowed) ==
    [s EXCEPT !.prompt_pending =
        IF ~allowed \/ s.snoozed THEN FALSE
        ELSE (s.update_available /\ s.latest # ignored) \/ @]

(* Place is where the user is: on the clock the prompt and the check are   *)
(* allowed (the check not while the emulator's files are fetched), on the  *)
(* update page the check is.  elapsed: ten seconds of the  *)
(* main loop have passed.  The web panel is served only if nothing else    *)
(* needs the network.                                                      *)
Refreshed(s, w, online, checks, created) ==
    IF checks /\ needsAssetRefresh(s, w, online)
      THEN requestAssetRefresh(s, w, created) ELSE NoStart(s, w)

Checked(s, w, online, checks, created) ==
    IF checks /\ needsNetworkCheck(s, w, online)
      THEN CheckStarted(start_worker(s, w, "Check", created)) ELSE NoStart(s, w)

(* Mutant of Resumed: the request is cleared though no worker started.     *)
MutResumedOnce(s, w, created) ==
    IF s.install_requested /\ ~s.busy /\ CanInstall(s)
      THEN [start_worker(s, w, "Install", created) EXCEPT !.state.install_requested = FALSE]
      ELSE NoStart(s, w)

Resumed(s, w, created) ==
    IF s.install_requested /\ ~s.busy /\ CanInstall(s)
      THEN LET r == start_worker(s, w, "Install", created)
           IN  IF r.started THEN [r EXCEPT !.state.install_requested = FALSE] ELSE r
      ELSE NoStart(s, w)

Tick(place, online, elapsed, created) ==
    LET checks  == place \in {"clock", "page"}
        allowed == place \in {"clock", "fetching"}
    IN  /\ app.at = "loop"
        /\ Uses(Cost(created))
        /\ \E a \in {Refreshed(state, worker, online, checks, created)} :
           \E b \in {Checked([a.state EXCEPT !.pending_verify = @ /\ ~elapsed],
                             a.worker, online, checks, created)} :
           \E c \in {Resumed(b.state, b.worker, created)} :
              /\ state' = PromptSet(c.state, allowed)
              /\ worker' = c.worker
              /\ app' = [at |-> IF /\ online
                                   /\ ~networkOperationActive(c.state, c.worker)
                                   /\ ~needsNetworkCheck(c.state, c.worker, online)
                                  THEN "serve" ELSE "sync",
                         allowed |-> allowed,
                         quiet |-> worker = Idle /\ c.worker = Idle]
        /\ flash' = IF state.pending_verify /\ elapsed
                      THEN [flash EXCEPT !.state = "valid"] ELSE flash
        /\ UNCHANGED <<work, ignored, files, release, partial>>

(* syncUpdatePrompt: the prompt is consumed and the update page opened.    *)
Sync ==
    /\ app.at = "sync"
    /\ app' = AtLoop
    /\ state' = IF app.allowed THEN [state EXCEPT !.prompt_pending = FALSE] ELSE state
    /\ UNCHANGED <<worker, work, ignored, flash, files, release, partial, events>>

(* What the web panel or the update page asks of the service. A request    *)
(* that is refused or already made changes nothing.                        *)
Check ==
    /\ ~state.check_requested
    /\ state' = [state EXCEPT !.check_requested = TRUE]
    /\ Uses(1)
    /\ UNCHANGED <<worker, ignored>>

Install ==
    \E created \in Creations :
        /\ Uses(1 + Cost(created))
        /\ \E r \in {requestInstall(state, worker, created)} \ {NoStart(state, worker)} :
               state' = r.state /\ worker' = r.worker
        /\ UNCHANGED ignored

RefreshAssets ==
    /\ "refresh" \in Features
    /\ \E created \in Creations :
        /\ Uses(1 + Cost(created))
        /\ \E r \in {requestAssetRefresh(state, worker, created)} \ {NoStart(state, worker)} :
               state' = r.state /\ worker' = r.worker
    /\ UNCHANGED ignored

Dismiss ==
    \E ignore \in BOOLEAN :
        /\ Uses(1)
        /\ state' = dismiss(state, ignore)
        /\ ignored' = IF ignore THEN state.latest ELSE ignored
        /\ UNCHANGED worker

(* The update page: LVGL delivers its clicks between two ticks.            *)
Primary ==
    /\ ~state.busy
    /\ state.stage # "readyToReboot"         \* then the button reboots, see Reboot
    /\ IF state.update_available THEN Install ELSE Check

Click ==
    /\ app.at = "loop"
    /\ \/ Primary
       \/ ~state.busy /\ ~state.reboot_required /\ RefreshAssets
       \/ Dismiss
    /\ UNCHANGED <<app, work, flash, files, release, partial>>

(* The web panel: one request per tick, or none.                           *)
Serve ==
    /\ app.at = "serve"
    /\ app' = [app EXCEPT !.at = "sync"]
    /\ \/ UNCHANGED <<state, worker, ignored, events>>
       \/ Check
       \/ Install
       \/ Dismiss
    /\ UNCHANGED <<work, flash, files, release, partial>>

(* reboot() of the web panel and of the update page                        *)
Reboot ==
    /\ state.reboot_required
    /\ \/ app.at = "serve"
       \/ app.at = "loop" /\ ~state.busy /\ state.stage = "readyToReboot"
    /\ Uses(1)
    /\ Restart

-----------------------------------------------------------------------------
(* The upload of a firmware file: the web server reads the whole request   *)
(* in one call of handleClient(), so the application does nothing else     *)
(* until it ends, while the worker's task runs.                            *)

(* No firmware is written in the first ten seconds after the boot of an    *)
(* image that is not confirmed: a download or an upload takes longer.      *)
Confirmed == ~state.pending_verify

beginManualFirmware ==
    /\ "upload" \in Features
    /\ app.at = "serve"
    /\ Uses(1)
    /\ Confirmed
    /\ ~state.busy /\ state.manual = "no"
    /\ app' = [app EXCEPT !.at = "upload"]
    /\ state' = set_stage([state EXCEPT !.manual = "header"], "uploadingFirmware")
    /\ UNCHANGED <<worker, work, ignored, flash, files, release, partial>>

(* Mutant of Emptied: the slot that is not selected, not the one that is   *)
(* not running.                                                            *)
MutEmptiedUnselected == [flash EXCEPT !.slots[Other(flash.boot)] = Junk]

Emptied == [flash EXCEPT !.slots[Other(flash.running)] = Junk]
(* Mutant of Flashed: the new image is not on trial, as without rollback.  *)
MutFlashedForGood(version, origin) ==
    [flash EXCEPT !.slots[Other(flash.running)] = [version |-> version, origin |-> origin],
                  !.boot = Other(flash.running),
                  !.state = "valid"]

(* Mutant of Flashed: the new image is not selected for the next boot.     *)
MutFlashedUnselected(version, origin) ==
    [flash EXCEPT !.slots[Other(flash.running)] = [version |-> version, origin |-> origin]]

Flashed(version, origin) ==
    [flash EXCEPT !.slots[Other(flash.running)] = [version |-> version, origin |-> origin],
                  !.boot = Other(flash.running),
                  !.state = "new"]

(* The header is complete: it is refused, or Update.begin erases the slot. *)
writeManualFirmware ==
    /\ app.at = "upload" /\ state.manual = "header"
    /\ \/ /\ Fault
          /\ state' = set_error([state EXCEPT !.manual = "no"])
          /\ UNCHANGED flash
       \/ /\ state' = [state EXCEPT !.manual = "writing"]
          /\ flash' = Emptied
          /\ UNCHANGED events
    /\ UNCHANGED <<app, worker, work, ignored, files, release, partial>>

(* A write that fails and a client that goes away                          *)
abortManualFirmware ==
    /\ app.at = "upload" /\ state.manual # "no"
    /\ Fault
    /\ app' = [app EXCEPT !.at = "sync"]
    /\ state' = set_error([state EXCEPT !.manual = "no"])
    /\ UNCHANGED <<worker, work, ignored, flash, files, release, partial>>

Ready(s) == [s EXCEPT !.stage = "readyToReboot", !.busy = FALSE, !.reboot_required = TRUE]

(* The request ends. After a refused header nothing is left to do; a file  *)
(* shorter than the header is refused and leaves the upload open.          *)
finishManualFirmware ==
    /\ app.at = "upload"
    /\ \/ /\ state.manual = "no" \/ (state.manual = "header" /\ "short" \in Features)
          /\ UNCHANGED <<state, flash, events>>
       \/ /\ state.manual = "writing"
          /\ \/ /\ Fault                     \* Update.end refuses the image
                /\ state' = set_error([state EXCEPT !.manual = "no"])
                /\ UNCHANGED flash
             \/ /\ \E v \in Versions : flash' = Flashed(v, "upload")
                /\ state' = Ready([state EXCEPT !.manual = "no"])
                /\ UNCHANGED events
    /\ app' = [app EXCEPT !.at = "sync"]
    /\ UNCHANGED <<worker, work, ignored, files, release, partial>>

-----------------------------------------------------------------------------
(* The worker task                                                         *)
At(step)   == worker.action # "None" /\ worker.at = step
Goes(step) == worker' = [worker EXCEPT !.at = step]

(* A step of the worker that fails ends its work with set_error.           *)
Fails == Fault /\ Goes("exit") /\ state' = set_error(state)

WorkerStart ==
    /\ At("start")
    /\ IF worker.action = "Install"
         THEN Goes("manifest") /\ state' = set_stage(state, "downloadingAssets")
         ELSE Goes("fetch") /\ state' = set_stage(state, "checking")
    /\ UNCHANGED <<app, work, ignored, flash, files, release, partial, events>>

(* perform_check with fetch_latest_release: its answer is the release      *)
(* published at the time of the request, 304 if the ETag names it.         *)
CheckedStage(available) == IF available THEN "available" ELSE "upToDate"

NonePublished ==
    /\ release = 0
    /\ state' = [set_stage(state, "upToDate") EXCEPT !.update_available = FALSE,
                                                     !.prompt_pending = FALSE]
    /\ UNCHANGED events

NotModified ==
    /\ release # 0 /\ state.etag = release /\ state.urls # 0
    /\ state' = set_stage(state, CheckedStage(state.update_available))
    /\ UNCHANGED events

(* Mutant of NewRelease: the worker asks about an ignored version.         *)
MutNewReleaseAsked(s) ==
    LET available == Running < release
    IN  [set_stage(s, CheckedStage(available)) EXCEPT
            !.etag = release, !.urls = release, !.latest = release,
            !.update_available = available,
            !.prompt_pending = available]

NewRelease(s) ==
    LET available == Running < release
    IN  [set_stage(s, CheckedStage(available)) EXCEPT
            !.etag = release, !.urls = release, !.latest = release,
            !.update_available = available,
            !.prompt_pending = available /\ release # ignored]

(* A body that arrives incomplete: its ETag is kept, its JSON is refused.  *)
Truncated ==
    /\ "truncated" \in Features /\ Uses(1)
    /\ release # 0 /\ (state.etag # release \/ state.urls = 0)
    /\ state' = set_error([state EXCEPT !.etag = release])
    /\ Goes("exit")

Fetch ==
    /\ At("fetch")
    /\ \/ /\ \/ NonePublished
             \/ NotModified
             \/ /\ release # 0 /\ (state.etag # release \/ state.urls = 0)
                /\ state' = NewRelease(state)
                /\ UNCHANGED events
          /\ Goes(IF worker.action = "Check" THEN "exit" ELSE "manifest")
       \/ Truncated
       \/ Fails
    /\ UNCHANGED <<app, work, ignored, flash, files, release, partial>>

(* Mutant of Marker: nothing is remembered before the assets are complete. *)
MutNoMarker == work

Marker == work \/ worker.action = "Install"

(* The manifest of the release that the URLs name. Only an installation    *)
(* sets the marker, and before it touches a file.                          *)
ReadManifest ==
    /\ At("manifest")
    /\ \/ /\ state.urls = 0
          /\ state' = set_error(state)
          /\ Goes("exit")
          /\ UNCHANGED <<work, events>>
       \/ /\ state.urls # 0
          /\ state' = set_stage(state, "downloadingAssets")
          /\ work' = Marker
          /\ Goes("files")
          /\ UNCHANGED events
       \/ Fails /\ UNCHANGED work
    /\ UNCHANGED <<app, ignored, flash, files, release, partial>>

Installed(p, v) == p \in DOMAIN files /\ files[p] = Manifest[v][p]
Complete(v)     == \A p \in DOMAIN Manifest[v] : Installed(p, v)
Obsolete(v)     == DOMAIN files \ (DOMAIN Manifest[v] \cup UserFiles)

(* install_assets: each changed file is verified in a temporary file and   *)
(* renamed into place.                                                     *)
InstallFile ==
    /\ At("files")
    /\ \/ \E p \in DOMAIN Manifest[state.urls] :
            /\ ~Installed(p, state.urls)
            /\ files' = [q \in DOMAIN files \cup {p} |->
                            IF q = p THEN Manifest[state.urls][p] ELSE files[q]]
            /\ partial' = (partial \/ worker.action = "RefreshAssets")
            /\ UNCHANGED <<state, worker, events>>
       \/ Fails /\ UNCHANGED <<files, partial>>
    /\ UNCHANGED <<app, work, ignored, flash, release>>

(* The whole archive is verified; only an installation prunes.             *)
FilesInstalled ==
    /\ At("files")
    /\ Complete(state.urls)
    /\ Goes(IF worker.action = "Install" THEN "prune" ELSE "finish")
    /\ partial' = FALSE
    /\ UNCHANGED <<app, state, work, ignored, flash, files, release, events>>

Prune ==
    /\ At("prune")
    /\ \E p \in Obsolete(state.urls) :
           files' = [q \in DOMAIN files \ {p} |-> files[q]]
    /\ UNCHANGED <<app, state, worker, work, ignored, flash, release, partial, events>>

Pruned ==
    /\ At("prune")
    /\ Obsolete(state.urls) = {}
    /\ work' = FALSE
    /\ state' = set_stage(state, "downloadingFirmware")
    /\ Goes("firmware")
    /\ UNCHANGED <<app, ignored, flash, files, release, partial, events>>

(* install_firmware: up to Update.begin, to Update.end, and what follows   *)
BeginFirmware ==
    /\ At("firmware")
    /\ Confirmed
    /\ \/ flash' = Emptied /\ Goes("write") /\ UNCHANGED <<state, events>>
       \/ Fails /\ UNCHANGED flash
    /\ UNCHANGED <<app, work, ignored, files, release, partial>>

WriteFirmware ==
    /\ At("write")
    /\ \/ /\ flash' = Flashed(state.urls, "release")
          /\ Goes("finish")
          /\ UNCHANGED <<state, events>>
       \/ Fails /\ UNCHANGED flash
    /\ UNCHANGED <<app, work, ignored, files, release, partial>>

Finish ==
    /\ At("finish")
    /\ state' = Ready(state)
    /\ Goes("exit")
    /\ UNCHANGED <<app, work, ignored, flash, files, release, partial, events>>

WorkerExit ==
    /\ At("exit")
    /\ worker' = Idle
    /\ UNCHANGED <<app, state, work, ignored, flash, files, release, partial, events>>

Worker ==
    \/ WorkerStart \/ Fetch \/ ReadManifest \/ InstallFile \/ FilesInstalled
    \/ Prune \/ Pruned \/ BeginFirmware \/ WriteFirmware \/ Finish \/ WorkerExit

-----------------------------------------------------------------------------
(* The environment: a release is published, a day passes.                  *)
Publish ==
    /\ release + 1 \in Versions
    /\ release' = release + 1
    /\ UNCHANGED <<app, state, worker, work, ignored, flash, files, partial, events>>

(* A day after the last check the next one is due, a day after Later the   *)
(* prompt is allowed again. The prompt's time is compared as a signed      *)
(* 32-bit difference: on some later day it is ahead once more. A day is    *)
(* longer than a round of the loop and the worker's work.                  *)
DayPasses ==
    /\ app.at = "sync" /\ app.quiet /\ worker = Idle
    /\ \E snoozed \in BOOLEAN :
           state' = [state EXCEPT !.check_due = state.first_check_complete, !.snoozed = snoozed]
    /\ UNCHANGED <<app, worker, work, ignored, flash, files, release, partial, events>>

Added == [p \in UserFiles |-> 0]
Shipped == [p \in UserFiles \cup DOMAIN Manifest[1] |->
               IF p \in UserFiles THEN 0 ELSE Manifest[1][p]]

(* A new Maclock runs release 1; flashed over USB it may have no assets.   *)
Init ==
    /\ app = AtLoop
    /\ files \in {Shipped} \cup (IF "usb" \in Features THEN {Added} ELSE {})
    /\ partial = (files = Added)
    /\ state = Begun(DOMAIN files, FALSE, FALSE)
    /\ worker = Idle
    /\ work = FALSE
    /\ ignored = 0
    /\ flash = [ slots |-> [slot \in 0 .. 1 |-> IF slot = 0 THEN [version |-> 1, origin |-> "release"]
                                                        ELSE Junk],
                 boot |-> 0, state |-> "valid", running |-> 0 ]
    /\ release = 0
    /\ events = 0

TickAny ==
    \E place \in {"clock", "fetching", "page", "elsewhere"}, online, elapsed \in BOOLEAN, created \in Creations :
        Tick(place, online, elapsed, created)

Next ==
    \/ TickAny \/ Sync \/ Click \/ Serve \/ Reboot
    \/ beginManualFirmware \/ writeManualFirmware \/ abortManualFirmware \/ finishManualFirmware
    \/ Worker
    \/ Publish \/ DayPasses \/ PowerCut

Spec == Init /\ [][Next]_vars

(* The scheduler runs both tasks, and the user comes back to the clock     *)
(* again and again while Wi-Fi is up.                                      *)
FairSpec ==
    /\ Spec
    /\ WF_vars(Worker) /\ WF_vars(Sync) /\ WF_vars(Serve)
    /\ WF_vars(writeManualFirmware) /\ WF_vars(finishManualFirmware)
    /\ SF_vars(Tick("clock", TRUE, TRUE, TRUE)) /\ SF_vars(DayPasses)

-----------------------------------------------------------------------------
(* Properties                                                              *)

FlashState ==
    [ slots : [0 .. 1 -> Images \cup {Junk}], boot : 0 .. 1,
      state : {"new", "pending", "valid"}, running : 0 .. 1 ]

(* The type of every variable.                                             *)
TypeOK ==
    /\ app \in [at : {"loop", "serve", "upload", "sync"}, allowed : BOOLEAN, quiet : BOOLEAN]
    /\ state \in State
    /\ worker \in [action : Actions, at : Steps]
    /\ work \in BOOLEAN /\ partial \in BOOLEAN
    /\ ignored \in Versions \cup {0} /\ release \in Versions \cup {0}
    /\ flash \in FlashState
    /\ DOMAIN files \subseteq Paths \cup UserFiles
    /\ \A p \in DOMAIN files : files[p] \in Versions \cup {0}
    /\ events \in 0 .. MaxEvents

(* The Update library has one state for the slot it writes: no upload is   *)
(* open while the worker has work, whatever the panel, the page and the    *)
(* tick ask for, and in the moments before and after the worker is busy.   *)
OneFlasher == state.manual # "no" => worker = Idle

(* busy keeps the panel, MQTT, the checks and the next update away: it is  *)
(* set only while someone works who will clear it.                         *)
BusyHasAnOwner == state.busy => worker # Idle \/ app.at = "upload"

(* What the next start runs, and whether it was never started before.      *)
NextImage == Booted.slots[Booted.boot]
Untried   == flash.state = "new" /\ flash.slots[flash.boot] # Junk

(* The releases whose assets are in place, and whether that may change.    *)
CompleteAssets == {v \in Versions : Complete(v)}
Replacing      == work \/ partial

(* Whenever the power is cut, the bootloader finds an image.               *)
AlwaysBoots == NextImage # Junk

(* Assets of two releases are never mixed without the marker that makes    *)
(* the next start go on (a refresh has none, which partial tells).         *)
MixedIsMarked == work \/ partial \/ \E v \in Versions : Complete(v)

(* The new firmware of an update finds its own assets when it is started.  *)
AssetsBeforeFirmware ==
    LET image == flash.slots[flash.boot]
    IN  flash.state = "new" /\ image # Junk /\ ~work /\ ~partial
          => image.origin = "upload" \/ Complete(image.version)

(* "Reboot to finish" is shown only if the reboot starts another image, or *)
(* if a refresh has put the latest release's assets in place.              *)
ReadyIsTrue ==
    state.stage = "readyToReboot" =>
        \/ Booted.running # flash.running
        \/ ~partial /\ state.latest # 0 /\ Complete(state.latest)

(* The page that opens by itself is about a newer release that the user    *)
(* has not chosen to ignore, though the worker sets prompt_pending between *)
(* the tick that decides and the call that consumes it.                    *)
PromptIsDue ==
    app.at = "sync" /\ app.allowed /\ state.prompt_pending =>
        /\ state.update_available /\ state.latest > Running
        /\ state.latest # ignored

(* Files the user added are kept by updates, refreshes and power cuts.     *)
UserFilesKept == UserFiles \subseteq DOMAIN files

(* Once connected, Maclock provides its web panel again and again (a check *)
(* keeps it away for its time).                                            *)
ServesWhenConnected == []<>(app.at = "serve" \/ state.stage = "checking")

(* The ETag of an answer that arrived incomplete is kept, and while the     *)
(* URLs of an older release are known every later check is told that       *)
(* nothing changed. Only a restart, which forgets the URLs, ends this.     *)
Withheld == state.etag = release /\ state.urls \notin {0, release}

(* A newer release is offered in the end, whatever checks fail before; but *)
(* for the check that fails on an incomplete answer, which withholds it.   *)
NewReleaseIsOffered ==
    (release > Running) ~>
        \/ state.update_available /\ state.latest = release
        \/ state.reboot_required \/ release <= Running
        \/ Withheld

(* An asset installation that was interrupted is started again after the   *)
(* next start, though the start may fail, and when no more faults come it  *)
(* is finished, unless another firmware took the release's place.          *)
InterruptedResumes ==
    LET superseded == state.reboot_required \/ release <= Running
    IN  /\ state.install_requested ~> worker.action = "Install" \/ superseded
        /\ (state.install_requested /\ events = MaxEvents) ~> ~work \/ superseded

(* The firmware and its assets as the update promises them (see            *)
(* FirmwareUpdate): whatever the worker, an upload, a refresh and a power  *)
(* cut do in between, a release's image is selected only over its complete *)
(* assets, gets one start to confirm itself, and the assets are touched    *)
(* only while assetWork or (for a refresh) partial is set.                 *)
Update ==
    INSTANCE FirmwareUpdate WITH
        running <- flash.slots[flash.running],
        next    <- NextImage,
        fresh   <- Untried,
        assets  <- CompleteAssets,
        open    <- Replacing

ImplementsFirmwareUpdate == Update!Spec
=============================================================================
