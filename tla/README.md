# Verification of Maclock

TLA+ models of the firmware in this repository (an ESP32-S3 alarm clock in the
shape of a Macintosh), TLC runs that check them on small instances, and
theorems about them that TLAPS checks for every value of the constants.

Source paths below are relative to the repository; `PROJECT.json` gives for
each definition the lines it translates, for each property the change of the
code that would break it ("mutants"), and the list of hazards.

Contents: [1 the system](#1-the-system), [2 the modules](#2-the-modules),
[3 the runs](#3-the-runs), [4 what the runs found](#4-what-the-runs-found),
[5 the proofs](#5-the-proofs), [6 what is not modelled](#6-what-is-not-modelled),
[7 plan](#7-plan), [8 how to run it](#8-how-to-run-it).

## 1 The system

### Who runs when

| Activity | Where | Shares state by |
| --- | --- | --- |
| application task | `MaclockApp::tick`, `src/ui/maclock_state_machine.cpp` | owns the UI, alarms, timer, panel, MQTT |
| web server | `handleClient()` inside the application's tick | plain calls on the application task |
| MQTT client | `loop()` inside the application's tick | one inbound slot |
| LVGL events | inside `lv_timer_handler()`, mostly between two ticks | plain calls on the application task |
| audio task | `AudioService::runTask`, core 0 | mutex `lock_`, flag `finished_` |
| input task | `InputService::runTask` | critical section |
| update worker | `update_worker`, core 0, one per job | mutex of `UpdateService::State`, NVS, LittleFS, the other OTA slot |
| Wi-Fi worker | `wifi_task` | mutex `g_lock`, pause request and acknowledgement, NVS, the Wi-Fi driver |
| bootstrap task | `minivmac_bootstrap_task`, once after a start | LittleFS |

So most of the program is sequential, and its difficulty is the *order inside
one tick* (what is requested before the alarm poll is applied after it), the
*memory between ticks* (`last_state_`, `finished_`, stamps, flags that mirror a
view), and the workers that run beside it.

### Components

For each: state, operations, partners, what is hard, what makes it correct.

**Alarm service** (`alarm_service.cpp`, `alarm_storage.cpp`, editor's save in
`alarm_editor_view.cpp`). State: three alarms, their copy in NVS, the minute
each was last triggered in, one snooze. Operations: `due` (poll), `snooze`,
`dismiss`, `configure`, `upcoming`. Called by the application, written by the
editor and the web panel, driven by the RTC. Hard: calendar scans at the week's
wrap, clocks set back, power cycles between consuming and saving, several
alarms in one minute. Correct when: no alarm of a minute is lost or rings
twice, a one-time alarm that rang stays off, `upcoming` shows what will ring.

**Application loop and UI state machine** (`ui/maclock_state_machine.cpp`,
`maclock_app.cpp`, `ui/control_panel_bindings.cpp`). State: `current_state_`,
`last_state_`, `requested_state_`, the time in the state, active alarm, key
presses, flags of screen saver, preview, portal, prompt. Operations: one tick,
and the requests of keys, panel, MQTT and update service. Hard: priorities
between alarm, timer, prompt and user within one tick; entry work that depends
on `last_state_`; sounds that replace each other. Correct when: an alarm that
rings is heard and can be stopped, start-up cannot hang, the setup portal is
open in its state only.

**Audio service** (`audio_service.cpp`). State: decoder, file, `finished_`,
mutex, the task and whether it is suspended. Hard: a task suspended with its
mutex, the end of an old sound reported to a new owner. Correct when: `finished`
belongs to the last sound played and the application never waits for ever.

**Timer** (`timer_ui.cpp`). State: running, deadline, `finished_pending`. Hard:
32-bit time, a start while the last end is unreported. Correct when: every
timer that ran out is announced once.

**MQTT service** (`mqtt_service.cpp` and the fragments it includes,
`ui/mqtt_notification_view.cpp`). State: connection, retry time and delay,
two message slots, beacon times, last result, dirty flag, do-not-disturb.
Operations: `tick`, `stop`, `configure`, `acknowledgeCurrent`, commands. Hard:
lost connections at any point, redelivery, a view that cannot be asked whether
it is open, the wrap of `millis()`. Correct when: the current message is never
replaced by a newer one, a beacon is shown for its whole time, the broker's
retained status is the real one, the service reconnects.

**Update service** (`update_*.cpp`). State: snapshot and flags under a mutex,
one worker job, NVS marker and ignored version, two firmware slots, asset files.
Operations: `tick`, check, install, refresh, dismiss, upload, reboot. Hard: power
cuts in all phases, a worker beside the application, an upload beside the
worker. Correct when: there is always something to boot, new firmware finds its
assets, interrupted work goes on, nobody waits for a busy flag without owner.

**Wi-Fi service** (`wifi_mode.cpp`). State: settings and snapshot under a mutex,
pause request and acknowledgement, connection deadlines, forecast and NTP times,
portal. Hard: settings written back after a long request, a pause that times
out, the portal's start beside the worker. Correct when: the driver has one
user, what the user saved is kept, time and forecast come again.

**Configuration archive** (`configuration_archive*.cpp`). State: ZIP parser,
staging directories, upload flags, `transfer_active`. Operations: export, receive
and finish an upload. Hard: several replacements that may fail one by one,
settings applied last, an upload that is cancelled. Correct when: the audio task
comes back whatever way a request ends, and a failure leaves what it did not
replace.

**Web control panel** (`control_panel_*.cpp`). State: the server, the progress
queue, uploads in progress, the bootstrap task. Calls the components above
through `ControlPanelEventSink`, inside the application's tick. Hard: uploads
that replace a file in several steps beside a task that writes the same file,
transfers that suspend the audio task. Correct when: the application never waits
for ever, sounds come back, an installed file is not lost.

**RTC and weather, settings store, input, views, board support, emulator glue,
desktop simulator, front end and scripts**: see `PROJECT.json`, with the reason
where one is not modelled.

### Interactions

```
 keys/touch -> input task -> application tick -> UI states -> views
                               |  |   |    |
      RTC -> alarm service <---+  |   |    +--> audio service -> audio task
      timer service <-------------+   +-------> web panel, MQTT (if connected)
      update service <----------------+              |
         |  worker task -> OTA slot, NVS, LittleFS   +-> requests, sounds, settings
         +- keeps panel and MQTT away while it uses the network
      Wi-Fi worker: connection, time, forecast; paused for portal and emulator
```

## 2 The modules

| Module | Models | Checked by | Proofs |
| --- | --- | --- | --- |
| `AlarmClock` | the alarm service's promise to its caller | used by both below | |
| `AlarmService` | `due`, `upcoming`, `snooze`, `dismiss`, `configure`, editor save, NVS, RTC | `alarm_service`, `alarm_one_time` | `AlarmServiceProofs` |
| `MaclockApp` | the whole tick, start-up included; extends `AlarmClock` | `app_*` | `MaclockAppProofs` |
| `MessageQueue` | what the MQTT service promises to the sender of messages | refined by | |
| `MqttService` | connection, commands, slots, panel, status | `mqtt` | `MqttServiceProofs` |
| `FirmwareUpdate` | what the update promises of firmware and assets | refined by | `FirmwareUpdateProofs` |
| `UpdateService` | application, worker, upload, bootloader, flash, files | `update`, `update_upload` | `UpdateServiceProofs` |
| `WifiService` | `wifi_task`, settings and their keys in NVS, portal, pause, restore | `wifi` | `WifiServiceProofs` |
| `SoundPlayer` | what the audio service promises to those who play sounds | used by both below and `MaclockApp` | |
| `AudioService` | playback task, its mutex, play, stop, suspension | through `panel` | |
| `ControlPanel` | the panel's transfers, restores, uploads, bootstrap task; extends `AudioService` | `panel` | `ControlPanelProofs` |

`MC*` modules extend them with the small constants of the runs.

### AlarmClock and AlarmService

`AlarmService` keeps the calendar: a week of `DaysPerWeek` days of
`MinutesPerDay` minutes of `TicksPerMinute` seconds, all constants, so that the
arithmetic of `due()` and `upcoming()` stays and the week becomes small. Hour
and minute of an alarm are one number. `alarms` is `g_alarms`, `stored` the NVS
record, `last_trigger` the stamps; `Due` is `AlarmService::due` with the
application's assignment of `active_alarm_index_`; `upcoming` is an operator
over the state. `Configure` and `SaveEditor` are the two writers of settings,
with the different validation each has. `Reboot` loads the NVS record.
`answer` and `rung` are history.

`AlarmClock` has neither settings nor calendar: some alarms are *pending* in the
present minute, at most one is snoozed, a poll hands one alarm over.
`AlarmService` implements it with `pending <- DueSet(now)` and
`lapsed <- SnoozeLapsed(now)`. `MaclockApp` uses its actions for the alarm part
of its state, so what is checked about the application rests on a contract that
the service is proved to keep (section 5).

### MaclockApp

One tick is five steps in the order of the code: *apply* (inputs, timer,
request, portal), *services* (update prompt, one command of panel or MQTT),
*due* (preview, alarm poll), *timer* (finished timer, chime), *screen* (the
switch over `current_state_`). The audio task ends a sound between any two.
Every state of the switch is an action or a group of them. `age` counts ticks in
a state up to `Timeout`, the age at which each delay of the code has passed.
`Features` switches groups of inputs on, so that each run has the ones it is
about: the *actions* stay those of the code, the *inputs* are fewer.

Interaction with the update service is the flag `prompt`; with Wi-Fi, the flag
`portal`; transfers and updates are `suspended`.

### MessageQueue and MqttService

`state` is the record `MqttService::State`, each function of the code an
operator from record to record, and `tick` composes them in the order of
`MqttService::tick`. Time is `millis()` modulo `Wrap`, one unit per tick,
compared as the code compares it, as a signed difference. What the network does
in a tick is a choice from `Networks`, `"breaking"` being the connection that
breaks after `loop()` so that a publication is lost. `panel` is what the
notification view shows and `retained` what the broker has: both are the other
side of flags in the service. The desktop build's asynchronous `connecting`
flag is left out.

`MessageQueue` is two slots: a new message never replaces the current one,
replaces the waiting one, and the waiting one follows as soon as the current one
is answered.

### FirmwareUpdate and UpdateService

`FirmwareUpdate` knows no worker, slots or bootloader: one image runs, one is the
next start's, and a new one has one start to confirm itself; assets are replaced
while that is on record, and a release is selected when its assets are complete.
`UpdateService` implements it with `next <- NextImage` (what the bootloader would
start now), `fresh <- Untried`, `assets <- CompleteAssets` and `open <- Replacing`,
the last being the NVS marker or, for an asset refresh, which has none, the history
variable `partial`.

The application goes `loop -> (serve -> (upload)) -> sync`; the worker has a place
for every point where it shares state with the application or where a power cut
has another result. `flash` has two slots, the one selected, its state (`new`,
`pending`, `valid`) and the one running; the bootloader (external) is the
operator `Booted`. `files` maps a path to the release that last changed it;
`work` is the NVS marker. A release is a number, `Manifest` its files. `partial`
and `app.quiet` are history. `PowerCut` may happen before every step.

`Tick` is the part of `MaclockApp::tick` that the update service takes part in:
the requests it starts, `UpdateService::tick`, and the condition under which panel
and MQTT are reached. `Confirmed` is an assumption, not code: no firmware is
written within ten seconds after the first start of a new image.

### WifiService

The worker (`wifi_task`) and the application interleave: the worker has a place
(`pc`) for every point between two of which the other task may run, above all
the three requests `geocode`, `forecast` and `ntp`. `mem` is `g_settings`, `nvs`
what Preferences hold, `copy` the local `settings` of a pass. A city stands for
everything looked up for it, so that latitude, longitude, `offset`, `clock` and
`snapshot.forecast` say *of which city* they are. `driver` is the Arduino Wi-Fi
driver, which both tasks use; `answered` is history: `pause()` ended because the
worker waits, not by its timeout.

Preferences are written key by key, as in the code. A save of the application
(`setEnabled`, `setLocation`, `save_setup`, `restoreSettings`) sets `puts`, the keys
it writes, and `wish`, their values; `Put` writes the first of them in the `Order`
of the code. A lookup writes its four keys in places of the worker of their
own (`Stores`). `Restart` may come between any two. `restoreSettings` writes first and
applies then (`RestoreApplied`, or `RestoreWaits` and the worker 2 s later), the other
saves change `mem` first. What backups may hold is the constant `Backups`.

`wish` is also history: what was saved last; after a restart it is what Preferences
hold, so that a save that was cut off counts as far as it came. `torn` is history: a
save met a lookup or a restore that waits, or was cut off, and neither a setup nor a
restore has repaired it since. Saves may meet both at any time; section 4 says what
comes of it.

Of `millis()` it is kept in which half of its range it is (`era`):
`next_connection_attempt` is 0 for "at once" and compared as a signed
difference, so in the second half 0 lies in the future.

### SoundPlayer, AudioService and ControlPanel

`SoundPlayer` has neither task nor mutex: a sound plays, its end is reported once,
none is reported of a sound that was stopped or replaced, and the player is suspended
in silence. `AudioService`, as `ControlPanel` calls it, implements it, and `MaclockApp`,
in which playback is one step, uses its sounds by it.

`AudioService` is the playback task against its mutex `lock_`: it is `away`,
`inside`, or `ending` a sound (75 ms inside). `play`, `stop` and `running` are
enabled when the mutex is free, `suspendTask` and `resumeTask` always, and a
suspended task takes no step, wherever it is. Its functions are actions on its
own variables, which `ControlPanel` joins to the place of the application.

`ControlPanel` has the application at a place of the code, `app`: in the loop,
waiting for the mutex (`AudioCalls`), or inside a handler. Transfers (export,
import, search), the emulator, the update with its guard, and the restore call
`beginControlPanelNetworkTransfer`, whose two steps are two actions. The Mini
vMac file, the files beside it (`.upload`, `.previous`, `.download`, the staged
one of a restore) are the record `file`; each rename or removal is a step, may
fail, and a power cut may follow it. `kept` is history: the version that was
last installed for the user. A stuck application is a state of this model and
not an error of it, so this run does not check deadlock: the hang of section 4
is what `StuckOnlyInUpdate` confines.

## 3 The runs

State counts are distinct states of a complete search.

| Run | Instance | States | Shows |
| --- | --- | --- | --- |
| `alarm_service` | 2 alarms, week of 2 days of 2 minutes of 2 ticks, clock set by 3 either way | 270 648 | types; a one-time alarm that rang is off in memory and NVS until re-enabled; `upcoming` is the next answer of `due`; implements `AlarmClock` |
| `app_menus` | with and without touchscreen; menus, timer, sounds, transfers, overlapping alarms | 1 067 608 | types, and no touch-only state without touchscreen; an alarm's sound never outlives its screen; the portal closes on the ways out of WIFI_SETUP |
| `app_heard` | 2 alarms, 2 minutes, timers and foreign sounds | 44 702 | an alarm on screen gets its sound again until answered; an alarm or timer screen is never silent with no end to wait for |
| `app_boot` | failing, stopped, suspended sounds, remote previews, prompts | 105 598 | start-up reaches the floppy screen or the clock |
| `mqtt` | two instances in one run: 2 beacons and 1 notification with the network up; 1 message with five network behaviours | 103 797 | panel, slots and flags agree; redelivery is dropped; status is fresh over every failure; a beacon gets its whole time, no tick leaves it longer, and it ends; the service reconnects; implements `MessageQueue` |
| `update` | 2 releases, 3 paths and a user's file, 3 events | 122 082 | eleven properties of `UpdateService`, among them that it implements `FirmwareUpdate`, with checks whose answer arrives incomplete |
| `wifi` | 2 cities, 2 backups, a new device or one set up; slow requests; 2 saves, restores, pauses or restarts, and the wrap of `millis()` | 1 369 856 | an answered pause keeps the worker off the driver; what was saved is kept over write-backs and power cuts, but for a torn save; the device reconnects and gets time and weather of its city |
| `panel` | 3 files sent, 2 faults or power cuts | 3 861 536 | where the application can wait for ever; sounds come back; what becomes of an installed file; implements `SoundPlayer` |
| `alarm_one_time`, `app_portal_leak`, `app_preempted`, `update_upload` | small | - | counterexamples, section 4 |

### Properties worth a second look

- `UpcomingIsNextRing` compares two scans of the code that share nothing: the
  set of future polls that would answer, and `upcoming()`. It exempts a clock
  set back before a minute already announced, where they do differ.
- `AlarmSoundCanBeStopped` relates audio task, active alarm and screen at the end
  of each tick: `sound` is set, replaced and stopped at a dozen places.
- `RingingIsHeard` is a leads-to: `takeFinished()` is consumed by several owners,
  and a repeat that misses its report would leave a silent ringing screen.
- `BeaconShownInFull` and `BeaconKeepsItsTime` bound a beacon's time on the screen from
  both sides across hiding and showing and the wrap of `millis()`; `BeaconEnds` adds
  that the tick comes that takes it off.
- `ImplementsFirmwareUpdate`, `AlwaysBoots`, `MixedIsMarked` and `ReadyIsTrue` say
  together that a power cut at any point leaves a device that starts, with files
  that fit or a marker that makes it go on. `AssetsBeforeFirmware` and
  `UserFilesKept` are proved and no longer run.
- `AnnouncementIsHeard` says in every state what `RingingIsHeard` says in the long run:
  while nobody answered, a sound plays or the report that starts it again is under
  way. It is the reason for the liveness, and the part of it that is proved.
- `ImplementsSoundPlayer` takes the task inside its mutex, suspended anywhere, for a
  player that is silent or plays: the end of a sound that was stopped, or that the
  memory was taken from, must not be reported afterwards.
- `SettingsSurvive` relates four copies of the settings: in use, in Preferences, in a
  backup that waits, and the one that a task writes back which read it long ago. The
  user's choice is in Preferences always; that it is in use, and that country and
  coordinates are those of the city, is said of saves that are not torn.
- `Reconnects` and `WeatherFollowsCity` of `WifiService` hold over pauses, restores,
  restarts and a city changed during the forecast of another one; the second not
  after a torn save (section 4).
- `NewReleaseIsOffered` holds over all failing checks but one: an incomplete answer
  whose ETag is kept withholds the release until a restart (`Withheld`, section 4).
- Liveness says that a wait ends, not how long it is. Four waits of this
  firmware end only with half a range of `millis()` or when the user comes back to
  the clock: the MQTT retry time and the snooze of the prompt that lie ahead after
  24.8 days, the connection attempt at 0, and the panel under a check that is due.
  `Reconnects` (twice), `NewReleaseIsOffered` and `ServesWhenConnected` hold over them and
  would not report them; the hazards say so.
- `SoundsComeBack` covers all ways out of the handlers that suspend the
  audio task; its two exceptions are the update, which ends its guard in a later
  tick, and the cancelled restore.
- `InstalledFileSurvives` follows one file through uploads, failed renames and
  removals, failed rollbacks and power cuts, and names the two ways to lose it.
- `OneFlasher` holds although `beginManualFirmware` tests only `busy`, which is
  false in the first and last steps of the worker: the guard is the tick, which
  keeps the panel away while a worker exists (`networkOperationActive`). The
  mutant with `busy` alone breaks it.

### Bounds, and why they are enough

- *Alarms.* Two slots give ties, an alarm due beside a snooze, and an edit of
  the other slot; the code treats the third as the second. A week of four
  minutes has both wraps (day and week), and eight ticks pass a whole week.
  `MaxTime` stops the clock, which is why deadlock is not checked in these runs.
- *Application.* `Timeout = 1` leaves "before" and "after" each delay. One
  minute stamp in `app_menus` means that alarms come due by reconfiguration,
  two stamps in the others let the minute turn. `Separate` keeps two
  announcements apart in runs without "overlap" (section 4, the silent ring).
- *MQTT.* `Wrap = 6` makes the counter wrap within a behaviour and a beacon of
  two ticks long enough to be hidden halfway. The retry delays 1 and 2 have one
  doubling and the maximum. Timeouts and delays stay below half of `Wrap`, as
  those of the code are below 2^31 ms. `StoppedTick` is bounded: nobody stays in
  WIFI_SETUP for 24 days with an overdue beacon on the screen.
- *Update.* `MaxEvents = 3` is shared by requests, faults and power cuts: an
  installation, its interruption and that of the resumption. Two releases with
  one path changed, one dropped, one added distinguish all mixtures of files;
  a third release would repeat what the second does, since a release is
  compared with the one that runs and the one whose files are there.

- *Wi-Fi.* Two cities tell a stale copy from a fresh one, two backups one that
  switches Wi-Fi on from one that switches it off. Two events are a pair
  of any of save, restore, pause and restart (the half range of `millis()` is one
  of them), which is what a race of the two tasks takes, or a save and the power
  cut within it; saves in the portal, the single puts, lost connections,
  failed requests and ends of delays are not bounded.
- *Panel.* Three versions are one installed, one kept as previous and one
  arriving; two faults are a failed rename with its failed rollback, or a power
  cut and what follows it. Uploads, restores, transfers and updates are bounded
  only by the versions. The versions are symmetric.

### Fairness, and why the code justifies it

- `MaclockApp`: `WF(Tick)`, the loop task never stops; `WF(AudioFinishes)`, the
  audio task decodes when not suspended; and eventually nobody sends MQTT sounds
  or previews any more, since a user who plays one every second does keep the
  alarm from its own sound.
- `MqttService`: `WF(Tick)`, one per frame. `Reconnects` assumes a broker that
  answers from some time on, `BeaconEnds` a beacon that is not taken off the
  screen.
- `WifiService`: weak fairness of the worker's task, of the tick and of the steps
  that end by themselves (association, the 2 s of a restore, the wrap); strong
  fairness of connecting and of a due forecast, which the worker comes to again and
  again; and a network that is healthy from some time on. `Settled` excuses a
  device whose user stays in the portal or in Mini vMac.
- `AudioService`, `ControlPanel`: safety only.
- `UpdateService`: weak fairness of the worker, of sync and serve and of the
  upload's steps (the two tasks are scheduled and a request ends), strong
  fairness of the tick on the clock with Wi-Fi up (the user comes back to the
  clock) and of the passing of a day. Nothing is assumed about publications,
  requests, faults or power cuts; these are finitely many by their bound.

## 4 What the runs found

Four disagreements between code and documentation, each with a run whose
counterexample shows it.

1. `alarm_one_time`: `due()` switches off and saves *every* one-time alarm of the
   minute and reports the first. The manual says an alarm turns itself off after
   it has rung; the second never rings.
2. `app_portal_leak`: a timer that finishes in WIFI_SETUP assigns
   `current_state_` after the check that closes the portal. The access point
   stays up outside its state. (`app_menus` leaves this one input out, and
   `PortalCloses` proves that no other way out leaks.)
3. `app_preempted`: an update prompt and an alarm in one tick: the prompt's
   request is applied in the next tick over the ringing screen, and the alarm
   sounds on with no key to stop it. The same happens when the control panel asks for
   a loading screen or a screensaver in that tick (`"remote"` in place of
   `"prompt"`); `SoundStoppable` proves that there is no third way.
4. `update_upload`: an uploaded file shorter than the firmware header leaves
   `manual_upload` and `busy` set; the web panel, MQTT and checks are away until
   the power is cut.

Seen in the models, and kept out of the passing runs by a constant, or excepted
in a property:

- *The silent ring* (`MaclockApp`, Features with "overlap" and two minutes): an
  alarm due in the tick after another one was dismissed finds `current_state_`
  equal to `last_state_`; the entry work is skipped and it rings without a sound.
- *The overlapping save* (`WifiService`, `torn`): `geocode_city()` writes
  back all settings as they were before its request. Wi-Fi switched off in the
  menu during a lookup is on again in memory and off in NVS; a save within the
  2 s of a delayed restore, or in a portal that was opened by a pause that timed
  out, leaves coordinates of one city marked valid beside the name of another.
  What is left is that NVS keeps the user's choice, coordinates excepted:
  `ChoiceIsSaved` has no exception but a save under way.
- *The torn save* (`WifiService`, `torn`): a save writes its keys one by one, in the
  panel the new city before `wifi_coord` becomes false (`wifi_mode.cpp:1101-1104`), in
  the portal likewise (829-835), in a restore the city before its coordinates
  (1181-1200); a lookup writes `wifi_coord = true` before latitude and longitude
  (394-396). A power cut in between leaves a city beside the coordinates of another,
  or of none, marked valid. `begin()` (964-999) takes them over, no later pass looks
  the city up, and time and weather stay those of another place until a location is
  set again or a backup restored. A restore that is cut off also leaves part of the
  backup's settings beside part of the old ones.
- *The withheld release* (`UpdateService`, `Withheld`): the ETag of a release answer is
  kept (`update_release_check.cpp:951-956`) before an incomplete JSON is refused
  (1004-1011). When the URLs of an older release are known, every later check is
  then answered 304 with nothing new, and the release is not offered before a restart.
- *No attempt for 24.8 days* (`WifiService`): with `next_connection_attempt = 0`
  and `millis()` above 2^31 the signed difference is negative until the wrap; an
  outage, a portal or Mini vMac in that time leaves the device offline.
  `Reconnects` holds because the half range ends.
- *The suspended lock* (`ControlPanel`): `suspendTask()` may stop the playback task
  inside `lock_`. On the clock every tick asks `running()`, so an update that is
  begun then stops the application for good, and its guard is never ended; the
  update worker goes on. `StuckOnlyInUpdate` says that no other transfer does it,
  but a cancelled restore.
- *The cancelled restore* (`ControlPanel`): `UPLOAD_FILE_ABORTED` ends neither the
  transfer nor the suspension; sounds are off until another restore is finished or
  rejected, or another transfer ends.
- *The bootstrap over an upload* (`ControlPanel`): BUILD.md says that the default
  files are downloaded "only when those files are absent". The task asks before
  it downloads for minutes, and its rename then replaces a file that was uploaded
  or restored meanwhile.
- *The only copy* (`ControlPanel`): after a power cut between the two renames of an
  upload, or a failed rollback, the file exists as `.previous` only. Nothing puts
  it back, the bootstrap task installs the default, and the next upload removes
  or overwrites it.

Seen while modelling, without a sentence of the documentation to hold against
it, and therefore only in the hazards or named here: the
panel kept away as long as a check is due but not allowed (screen saver,
editors); a marker that stays after an upload of the same version; an update
interrupted in its firmware phase, which has no marker any more; an asset
refresh, which never has one; the prompt that comes within a day after Later
when the worker ends between `tick()` and `consumePrompt()`; a stopped MQTT sound
that silences a ringing alarm; a Save in the touch editor, which cancels the snooze
of a one-time alarm (its second ring) though another slot was edited
(`alarm_editor_view.cpp:788`); one snooze for three alarms; the retry delay of
MQTT, which a successful connection does not reset; of several messages in one
`loop()` only the last is processed; an alarm whose sound cannot be played is not
tried again.

## 5 The proofs

All theorems hold for every value of the constants under the named assumptions
of the modules (well-formed constants, nothing about sizes).

**AlarmServiceProofs.** `TypeCorrect` and `OneTimeSafe` from
`IInv == TypeOK /\ SavedMatches /\ OneTimeStaysOff`. `OneTimeStaysOff` alone is
not inductive: a restart replaces the alarms by the stored ones, so what is
stored must be what is in memory (`SavedMatches`) after every call.
`ServiceImplementsAlarmClock`: every step is a step of `AlarmClock` or leaves its
variables alone; the lemmas are about `DueSet` and `SnoozeLapsed` under each
action (time within the minute keeps the set, stamping empties it).
`UpcomingAgrees` needs no stronger invariant than the types: it is about two scans
of the same state. `Division` and `Quotient` say what `\div` and `%` do for a
divisor that is a constant, `Calendar` and `MinuteStart` take times apart into day
and minute and put them together. `CandidateIsDue`: each moment that `upcoming()`
considers is one at which `due()` answers; `DueHasCandidate`: each later ring has a
candidate that is no later, since one of the next `DaysPerWeek` days has its weekday
(`SameWeekday`). Two such sets have the same first member. `OneTimeLostToAnother` bounds finding 1: what a poll switches
off unheard shares its minute with the alarm that rings, in an earlier slot.

**MaclockAppProofs.** `TypeCorrect` (with: touch-only states are unreachable
without a touchscreen) and `RingingStoppable` from
`IInv == TypeOK /\ OnlyPollRings /\ RingingCanBeStopped`. `OnlyPollRings` is the
strengthening: nothing ever *requests* ALARM_RINGING or TIMER_FINISHED; the first is entered by
the poll alone, which sets the active alarm in the same step, the second by the timer.
`PortalCloses` and `SoundStoppable` turn findings 2 and 3 round: they assume what
those runs leave out, and so show that nothing else breaks the property.
`PortalCloses` assumes `"expiry" \notin Features`; its strengthening
`PortalFollowsScreen` says that BOOT_OPTIONS alone requests WIFI_SETUP and that a
finished timer only waits behind an announcement. `SoundStoppable` assumes neither
`"prompt"` nor `"remote"`; then no request waits in the phases between the commands
and the switch (`SoundHasScreen`), so that the screen that a poll opens is entered.
That the control panel's commands have to be left out as well, and not the prompt
alone, is what the proof asked for: they request a screen in the same phase
(finding 3). `AnnouncementsAreHeard` does the same for the silent ring: it assumes
that no announcement opens in the tick in which the one before was left
(`OpensAgain`), and no `"stop"`, `"transfer"` or `"failure"`, each of which silences a
sound without a report.

Two theorems compose the components. `AppKeepsTheContract`: all steps of the
application are steps of `AlarmClock` or leave its variables alone; it needs
`LapsedIsSnoozed`. `AppPlaysAsPromised`: the sounds of the application are those of
`SoundPlayer`. Both contracts are the ones that `AlarmService` and `AudioService` are
proved to keep, so what is shown of the application rests on services that
behave like the detailed ones.

**MqttServiceProofs.** `TypeCorrect`, `PanelCorrect`, `RedeliveryDropped`,
`StatusFresh`, `ServiceImplementsMessageQueue`, `BeaconInFull`. Each helper of the code has a
lemma with what it does to slots, panel and flags; `tick` is their composition,
and the invariant is shown to hold after each stage of it. It says besides the
types that the record is well formed (panel, slots and a connection agree, the
status is fresh), that nothing waits behind an empty current slot, and where the
last accepted message is found. `BeaconInFull` adds `CreditInv`: the ticks that a
beacon was visible and those it has left, before `beacon_due` or in
`beacon_remaining`, are together at least its timeout, unless it was visible for
that long. Each stage of the tick keeps it or starts with another message
(`SameDisplay`, `NewDisplay`); what the wrap of the counter does is in
`AheadFacts`.
`BeaconInTime` is the other bound. `TimeInv` says of every state what `InTime` says after a
tick, but for the beacon that WIFI_SETUP has kept on the screen beyond its time
(`Overdue`): there no tick runs, and `StoppedTick` bounds how long. `TickInTime` then
follows the beacon through a tick: taken off the screen with what it has left
(`HiddenTime`), shown for what it has kept (`ShownTime`), and gone when its time is
up (`ExpiredTime`).

**UpdateServiceProofs.** All nine safety properties of the run `update`, for any
history of releases and files and any number of requests, faults and power cuts;
`BusyIsOwned` assumes `"short" \notin Features`, which is finding 4. The properties are
not inductive: what the worker has done by the time it is somewhere (`Progress`), who
may write the state (`Owners`, `BusyEnds`), which slots are valid in which state of the
flash (`Slots`), which worker a new image tolerates (`NewImage`), what the stage
"ready" excludes (`ReadyMeans`) and what the prompt stands for at any time
(`PromptMeans`) make `IInv` of them. Tick, click and request of the panel are
covered by one lemma: each is `Requested`, that is, it starts the idle worker or
does not, confirms the running image or does not, and sets or dismisses the prompt
as allowed. The upload, each step of the worker, and `Restart` have a lemma each;
`BootedFacts` says what the bootloader makes of every state of the slots.
`UpdateKeepsItsPromise` is the refinement of `FirmwareUpdate`. `NextMeans` says what the
bootloader would start in each state of the slot that is selected; a step that
touches no slot keeps `NextImage` (`SameFirmware`), one that touches no file keeps the
assets (`SameAssets`). Then each step is one of the promise: a file written or removed
under the marker or by a refresh is `Replace`, the marker's removal `Close`, `end()` of the writer
`Select` or `Upload`, the erased slot of an image that never ran and the confirmation
both `Settle`, and every power cut `Restart`.

**FirmwareUpdateProofs.** `PromiseIsSafe`: the promise implies `FreshFits` and
`NeverMixedUnseen`, for any number of releases. With the refinement this is a second
way to what `AssetsComeFirst` and `MixedIsMarked` say of the code.

**WifiServiceProofs.** `ServiceTypes`, `PauseExcludesWorker` and `SavedSettingsSurvive` for
every set of cities and backups, with slow requests, and with saves that meet a
lookup, a restore or a power cut: nothing is assumed about when they happen. `PauseInv`
says that the request stands while the answer is waited for and while the driver is
lent, which is why the worker's wait cannot end. `SettingsSurvive` is not inductive: it
speaks of the moments at which nobody writes. `SaveInv` says it of all moments, in
three parts. `ChoiceInv`: Preferences have the choice but for the keys still to be
put, and `valid` is put before the coordinates only if these are put too. `UseInv`:
unless a save is torn, the settings in use, a backup that waits and the copy of a lookup
have the choice that was saved last. `PlaceInv`: the same of country and coordinates, but
for the keys that the worker or the application has still to write. A step that changes none of
the copies is `Quiet`; `WorkerSaves` and `UserSaves` go through the others, key by key in
`ValidFirst` and `Backing`.

**ControlPanelProofs.** `PanelTypes`, `StuckInUpdateOnly`, `SoundsAreBack` and
`InstalledSurvives` for any number of versions, faults and power cuts. The first
three rest on `SuspendedForTransfer`, which names who will resume the audio task
wherever the application is: it is inductive, while `SoundsComeBack`, which speaks
of the loop only, is not. For the file, `FileInv` says that a complete upload is a
version that is nowhere else, that its place is free when it is installed, and
that `.previous` is not the kept version when it is removed.
`SoundsAsPromised` is the refinement of `SoundPlayer`. Two facts carry it: a sound that
is `ending` is the one that plays, for whoever stops or replaces it waits for the
mutex; and between the two halves of `beginControlPanelNetworkTransfer` nothing plays
(`SilentSuspend`), because only `stop` leads there and nothing is played before the task
is suspended.

**Left to TLC.** Liveness under fairness, which this prover does not do:
`RingingIsHeard`, `BootCompletes`, `Reconnects` (twice), `BeaconEnds`, `WeatherFollowsCity`,
`ServesWhenConnected`, `NewReleaseIsOffered`, `InterruptedResumes`. Every safety
property and every refinement that a passing run checks is also proved, some under
an assumption on `Features` or `OpensAgain` that the theorem states.

## 6 What is not modelled

- The components with status `not_modelled` in `PROJECT.json`.
- Of the application: brightness and sunrise, rotary focus, drawing, the state
  `SetDateTime`, which nothing requests, and widget input delivered by LVGL
  inside `show()` and `hide()`.
- Of MQTT: discovery, availability and sensor payloads; inbound messages
  overwritten within one `loop()` (they count as not sent).
- Of the update: progress and wording, `assets_only`, checks of ZIP and manifest
  entries (each succeeds or fails), downloads as such, what the update page
  showed when a button was pressed.
- Of the alarm editor: its copy of the alarms is made when the view is entered
  (`alarm_editor_view.cpp:1475-1486`) and written back as a whole; the model takes the
  slots that were not edited from the alarms at the save. The two differ only when
  something else writes an alarm while the editor is open.
- Of Wi-Fi: the scan, the portal's pages and DNS, passwords, the wording of the
  status, the JSON of the two services (each request has an outcome).
- Of the panel and the archive: the ZIP stream and its directory, JSON and its
  validation, the pages, the upload of sounds, clock faces, loading screens and
  screen savers. One Mini vMac file stands for all; the other media that a
  restore replaces go the same way, and their loss is a hazard without a property,
  since the user asked for the replacement and the code promises no more.
- In `MaclockApp` playback is one step; `AudioService` shows the steps inside it, and
  `SoundPlayer` is what both have in common.
- The rest of the lines: the fonts are tables (a third of the program's lines),
  board support writes registers in a fixed order, views and editors place
  widgets, localization is texts, the Mini vMac glue serves an emulator of another
  machine, and the desktop simulator replaces libraries. They keep no state that
  a property of the clock could speak of beyond what the models have, so the
  share of lines that the models stand for stays small.

## 7 Plan

Done: the modules of section 2, their runs and proofs. Left, in order:

1. An abstract specification of the Wi-Fi service, settings, time and forecast
   together: whose city each is of while a request is under way, over torn saves too.
2. The ZIP stream of a restore as a function of its bytes, whatever way they are
   cut into pieces; debouncing and the rotary encoder.

Runs whose finding is settled in the code turn into properties of the passing
run; `torn`, `Withheld` and the exceptions of `ControlPanel` then go.

## 8 How to run it

In this directory: `tlc -config AlarmService.cfg MCAlarmService` checks a run
(`PROJECT.json` pairs modules and configurations), `tlapm AlarmServiceProofs.tla`
checks the proofs of a module. The longest run takes about three minutes with two
workers, the longest proof about five minutes.
