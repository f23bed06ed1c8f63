----------------------------- MODULE MaclockApp -----------------------------
(***************************************************************************)
(* The application loop: MaclockApp::tick() of                             *)
(* src/ui/maclock_state_machine.cpp with the handlers it calls.            *)
(*                                                                         *)
(* One tick runs through four phases in a fixed order:                     *)
(*   apply     inputs, timer, the requested state, the setup portal        *)
(*   services  update prompt, control panel and MQTT commands              *)
(*   due       sound preview, alarm poll                                   *)
(*   timer     finished timer, chime                                       *)
(*   screen    the switch over the current state, then last_state_         *)
(* The audio task finishes sounds between any two phases. The alarm part   *)
(* of the state is AlarmClock, which AlarmService implements.              *)
(*                                                                         *)
(* Times since state_start_ms_ are an age that counts ticks up to Timeout, *)
(* the age at which every delay of the code (1 s, 1.5 s, 15 s) is over;    *)
(* ticks are counted in the states that have a delay (Timed).             *)
(* UiState::SetDateTime is requested nowhere in the code and left out.     *)
(***************************************************************************)
EXTENDS AlarmClock

CONSTANTS
    Timeout,           \* bound: the age at which a state's delay is over
    Touchscreens,      \* whether there may be a touchscreen
    Features           \* what else happens in a run, a subset of AllFeatures

AllFeatures ==
    { "timer",         \* countdown timers are started
      "menu",          \* the user opens menus and the emulator
      "sounds",        \* previews, chimes and MQTT sounds play
      "expiry",        \* a timer expires in WIFI_SETUP
      "overlap",       \* an alarm comes due while another one or a timer is on screen
      "stop",          \* MQTT stops sounds, or do-not-disturb is switched on
      "transfer",      \* uploads and updates stop and suspend the audio task
      "failure",       \* play() may fail
      "remote",        \* the control panel launches screensavers and previews loading screens
      "prompt" }       \* the update worker finds a release

ASSUME MaclockAppAssumption ==
    /\ Alarms \subseteq Nat
    /\ Timeout \in Nat \ {0}
    /\ Touchscreens \subseteq BOOLEAN
    /\ Features \subseteq AllFeatures

Phases == {"apply", "services", "due", "timer", "screen"}

UiState ==
    { "EmptyScreen", "WaitStartupSound", "WaitFloppy1", "WaitFloppy2", "FloppyInserted",
      "BootPlugins", "WaitFloppySound", "Normal", "Calibration", "BootOptions", "Emulator",
      "Diagnostics", "AlarmEditor", "AlarmRinging", "TimerEditor", "TimerFinished", "WifiSetup" }

(* A sound is its owner and, for an alarm, the slot that rings.            *)
NoSound       == <<"none", None>>
Sound(owner)  == <<owner, None>>
AlarmSound(i) == <<"alarm", i>>
Owners == {"none", "startup", "floppy", "chime", "preview", "mqtt", "timer"}
Sounds == {Sound(owner) : owner \in Owners} \cup {AlarmSound(i) : i \in Alarms}

VARIABLES
    phase,             \* where the current tick is
    current,           \* current_state_
    last,              \* last_state_, "None" before the first tick
    requested,         \* requested_state_, "None" when nothing is requested
    age,               \* ticks since state_start_ms_
    active,            \* active_alarm_index_
    timer,             \* timer service: "idle", "running", or "done" (finished_pending)
    sound,             \* what the decoder plays
    finished,          \* AudioService::finished_
    suspended,         \* the audio task is suspended by a network transfer
    touchscreen,       \* touchscreen_available_
    startup_started,   \* startup_sound_started_
    floppy_started,    \* floppy_sound_started_
    portal,            \* the Wi-Fi setup portal is open
    prompt,            \* the update service has a prompt to show
    screensaver,       \* clock_view.screensaver_active
    launch,            \* screensaver_launch_pending_
    preview,           \* control_preview_pending_
    clock_press,       \* clock_press_pending_
    alarm_press,       \* alarm_press_pending_
    dual_handled       \* dual_key_handled_

audioVars  == <<sound, finished, suspended>>
bootVars   == <<touchscreen, startup_started, floppy_started>>
remoteVars == <<prompt, screensaver, launch, preview>>
pressVars  == <<clock_press, alarm_press, dual_handled>>
vars == <<alarmVars, phase, current, last, requested, age, active, timer, audioVars,
          bootVars, portal, remoteVars, pressVars>>

Has(feature) == feature \in Features

-----------------------------------------------------------------------------
(* The audio service as the tick sees it                                   *)
play(s) ==
    /\ \/ sound' = s
       \/ Has("failure") /\ sound' = NoSound
    /\ finished' = FALSE
    /\ UNCHANGED suspended

stop == sound' = NoSound /\ finished' = FALSE /\ UNCHANGED suspended

takeFinished == finished' = FALSE /\ UNCHANGED <<sound, suspended>>

running == sound # NoSound

(* The audio task reaches the end of the sound.                            *)
AudioFinishes ==
    /\ running
    /\ ~suspended
    /\ sound' = NoSound
    /\ finished' = TRUE
    /\ UNCHANGED <<alarmVars, phase, current, last, requested, age, active, timer, suspended,
                   bootVars, portal, remoteVars, pressVars>>

-----------------------------------------------------------------------------
(* A mutant of requestState() that accepts every state.                    *)
MutRequestAnything(state, before) == state

(* requestState() refuses what needs the touchscreen.                      *)
requestState(state, before) ==
    IF ~touchscreen /\ state \in {"Emulator", "Calibration"} THEN before ELSE state

advance_state ==
    [EmptyScreen |-> "WaitStartupSound", WaitStartupSound |-> "WaitFloppy1",
     WaitFloppy1 |-> "WaitFloppy2", WaitFloppy2 |-> "FloppyInserted",
     FloppyInserted |-> "BootPlugins", BootPlugins |-> "WaitFloppySound",
     WaitFloppySound |-> "Normal"]

Polled == {"Normal", "AlarmEditor", "TimerEditor"}
Announcing == {"AlarmRinging", "TimerFinished"}
Timed == {"WaitStartupSound", "WaitFloppy1", "WaitFloppy2", "BootPlugins", "WaitFloppySound"}

-----------------------------------------------------------------------------
MayExpire == timer = "running" /\ (Has("expiry") \/ current' # "WifiSetup")

(* A mutant of ApplyRequest that leaves the portal open.                   *)
MutPortalStaysOpen ==
    /\ phase = "apply"
    /\ phase' = "services"
    /\ current' = IF requested = "None" THEN current ELSE requested
    /\ timer' \in IF MayExpire THEN {"running", "done"} ELSE {timer}
    /\ age' = IF requested # "None" \/ current \notin Timed THEN 0
             ELSE IF age < Timeout THEN age + 1 ELSE age
    /\ requested' = "None"
    /\ answer' = None
    /\ UNCHANGED <<minute, pending, snoozed, lapsed, last, active, audioVars, bootVars, portal,
                   remoteVars, pressVars>>

(* apply: the timer expires, the requested state becomes current, and the  *)
(* portal closes when WIFI_SETUP was left. The answer of the last poll,    *)
(* a local variable of tick(), is gone.                                    *)
ApplyRequest ==
    /\ phase = "apply"
    /\ phase' = "services"
    /\ current' = IF requested = "None" THEN current ELSE requested
    /\ timer' \in IF MayExpire THEN {"running", "done"} ELSE {timer}
    /\ age' = IF requested # "None" \/ current \notin Timed THEN 0
             ELSE IF age < Timeout THEN age + 1 ELSE age
    /\ requested' = "None"
    /\ portal' = (portal /\ ~(last = "WifiSetup" /\ current' # "WifiSetup"))
    /\ answer' = None
    /\ UNCHANGED <<minute, pending, snoozed, lapsed, last, active, audioVars, bootVars,
                   remoteVars, pressVars>>

-----------------------------------------------------------------------------
(* services: at most one command of the control panel or of MQTT, then the *)
(* update prompt. Whether a prompt is allowed was decided before.          *)
prompt_allowed == current = "Normal" /\ ~running /\ ~screensaver

syncUpdatePrompt(state) ==
    IF prompt_allowed /\ prompt THEN "BootOptions" ELSE state

EndServices(state) ==
    /\ phase = "services"
    /\ phase' = "due"
    /\ requested' = syncUpdatePrompt(state)
    /\ prompt' = (prompt /\ ~prompt_allowed)
    /\ UNCHANGED <<current, last, age, active, bootVars, portal, pressVars>>

(* No command arrives; in WIFI_SETUP both services are stopped.            *)
NoCommand ==
    /\ EndServices(requested)
    /\ UNCHANGED <<alarmVars, timer, audioVars, screensaver, launch, preview>>

Command == phase = "services" /\ current # "WifiSetup"

applyControlScreensaver ==
    /\ Command /\ Has("remote")
    /\ current \notin {"AlarmRinging", "TimerFinished", "Emulator"}
    /\ launch' = TRUE
    /\ EndServices(IF current = "Normal" THEN requested ELSE "Normal")
    /\ UNCHANGED <<alarmVars, timer, audioVars, screensaver, preview>>

previewControlLoadingScreen ==
    /\ Command /\ Has("remote")
    /\ current = "Normal"
    /\ EndServices("BootPlugins")
    /\ UNCHANGED <<alarmVars, timer, audioVars, screensaver, launch, preview>>

previewControlSound ==
    /\ Command /\ Has("sounds")
    /\ preview' = TRUE
    /\ EndServices(requested)
    /\ UNCHANGED <<alarmVars, timer, audioVars, screensaver, launch>>

playMqttSound ==
    /\ Command /\ Has("sounds")
    /\ play(Sound("mqtt"))
    /\ EndServices(requested)
    /\ UNCHANGED <<alarmVars, timer, screensaver, launch, preview>>

stopMqttSound ==
    /\ Command /\ Has("stop")
    /\ stop
    /\ EndServices(requested)
    /\ UNCHANGED <<alarmVars, timer, screensaver, launch, preview>>

(* A message on the clock ends the screensaver.                            *)
showMqttMessage ==
    /\ Command /\ Has("sounds")
    /\ current \notin {"AlarmRinging", "TimerFinished", "Emulator"}
    /\ screensaver' = (screensaver /\ current # "Normal")
    /\ EndServices(requested)
    /\ UNCHANGED <<alarmVars, timer, audioVars, launch, preview>>

controlMqttTimer ==
    /\ Command /\ Has("timer")
    /\ Has("overlap") \/ current # "TimerFinished"
    /\ timer' \in {"running", "idle"}
    /\ EndServices(requested)
    /\ UNCHANGED <<alarmVars, audioVars, screensaver, launch, preview>>

(* applyControlAlarm and applyControlConfiguration                         *)
applyControlAlarm ==
    /\ Command /\ Has("overlap")
    /\ Reconfigure
    /\ EndServices(requested)
    /\ UNCHANGED <<timer, audioVars, screensaver, launch, preview>>

SuspendAudio == sound' = NoSound /\ finished' = FALSE /\ suspended' = TRUE

beginControlPanelNetworkTransfer ==
    /\ Command /\ Has("transfer") /\ ~suspended
    /\ SuspendAudio
    /\ preview' \in {preview, FALSE}
    /\ EndServices(requested)
    /\ UNCHANGED <<alarmVars, timer, screensaver, launch>>

endControlPanelNetworkTransfer ==
    /\ suspended
    /\ suspended' = FALSE
    /\ EndServices(requested)
    /\ UNCHANGED <<alarmVars, timer, sound, finished, screensaver, launch, preview>>

Services ==
    \/ NoCommand
    \/ applyControlScreensaver
    \/ previewControlLoadingScreen
    \/ previewControlSound
    \/ playMqttSound
    \/ stopMqttSound
    \/ showMqttMessage
    \/ controlMqttTimer
    \/ applyControlAlarm
    \/ beginControlPanelNetworkTransfer
    \/ endControlPanelNetworkTransfer

-----------------------------------------------------------------------------
(* due: a preview whose 200 ms are over plays, then the alarms are polled  *)
(* in the states that poll, every 250 ms.                                  *)
PlayPreview ==
    /\ phase = "due"
    /\ preview
    /\ preview' = FALSE
    /\ play(Sound("preview"))
    /\ UNCHANGED <<alarmVars, phase, current, last, requested, age, active, timer, bootVars,
                   portal, prompt, screensaver, launch, pressVars>>

AlarmPoll ==
    /\ phase = "due"
    /\ phase' = "timer"
    /\ current \in Polled
    /\ Poll
    /\ IF answer' # None
       THEN active' = answer' /\ current' = "AlarmRinging" /\ age' = 0
       ELSE UNCHANGED <<active, current, age>>
    /\ UNCHANGED <<last, requested, timer, audioVars, bootVars, portal, remoteVars, pressVars>>

NoAlarmPoll ==
    /\ phase = "due"
    /\ phase' = "timer"
    /\ UNCHANGED <<alarmVars, current, last, requested, age, active, timer, audioVars, bootVars,
                   portal, remoteVars, pressVars>>

-----------------------------------------------------------------------------
(* timer: a finished timer is announced unless an announcement is on       *)
(* screen, then the chime of the quarter may play.                         *)
TimerAnnounced ==
    /\ phase = "timer"
    /\ phase' = "screen"
    /\ current \notin Announcing
    /\ timer = "done"
    /\ timer' = "idle"
    /\ current' = "TimerFinished"
    /\ age' = 0
    /\ UNCHANGED <<alarmVars, last, requested, active, audioVars, bootVars, portal, remoteVars,
                   pressVars>>

maybe_start_chime ==
    \/ UNCHANGED audioVars
    \/ Has("sounds") /\ current \in Polled /\ ~running /\ play(Sound("chime"))

TimerNotAnnounced ==
    /\ phase = "timer"
    /\ phase' = "screen"
    /\ current \in Announcing \/ timer # "done"
    /\ maybe_start_chime
    /\ UNCHANGED <<alarmVars, current, last, requested, age, active, timer, bootVars, portal,
                   remoteVars, pressVars>>

-----------------------------------------------------------------------------
(* screen: the switch. Every case ends the tick and records last_state_.   *)
entered == current # last

EndTick(state, request) ==
    /\ phase = "screen"
    /\ phase' = "apply"
    /\ current' = state
    /\ last' = state
    /\ requested' = request

EmptyScreen ==
    /\ current = "EmptyScreen"
    /\ play(Sound("startup"))
    /\ startup_started' = (sound' # NoSound)
    /\ EndTick(current, advance_state[current])
    /\ age' = 0
    /\ UNCHANGED <<alarmVars, active, timer, touchscreen, floppy_started, portal, remoteVars, pressVars>>

WaitStartupSound ==
    /\ current = "WaitStartupSound"
    /\ finished' = (finished /\ ~startup_started)
    /\ IF ~startup_started \/ finished \/ age >= Timeout
       THEN /\ startup_started' = FALSE
            /\ EndTick(current, advance_state[current])
            /\ age' = 0
       ELSE /\ EndTick(current, requested)
            /\ UNCHANGED <<startup_started, age>>
    /\ UNCHANGED <<alarmVars, active, timer, sound, suspended, touchscreen, floppy_started, portal,
                   remoteVars, pressVars>>

(* The floppy may arrive in the tick in which the artwork changes: then    *)
(* the request for the other artwork is applied over FLOPPY_INSERTED.      *)
WaitFloppy1(floppy) ==
    /\ current = "WaitFloppy1"
    /\ LET over == age >= Timeout
       IN /\ EndTick(IF floppy THEN "FloppyInserted" ELSE current,
                     IF over THEN advance_state[current] ELSE requested)
          /\ age' = IF over \/ floppy THEN 0 ELSE age
    /\ UNCHANGED <<alarmVars, active, timer, audioVars, bootVars, portal, remoteVars, pressVars>>

WaitFloppy2(floppy) ==
    /\ current = "WaitFloppy2"
    /\ LET over == age >= Timeout
           shown == IF over THEN "WaitFloppy1" ELSE current
       IN /\ EndTick(shown, IF floppy THEN advance_state[shown] ELSE requested)
          /\ age' = IF over \/ floppy THEN 0 ELSE age
    /\ UNCHANGED <<alarmVars, active, timer, audioVars, bootVars, portal, remoteVars, pressVars>>

FloppyInserted ==
    /\ current = "FloppyInserted"
    /\ floppy_started' = FALSE
    /\ EndTick(current, advance_state[current])
    /\ age' = 0
    /\ UNCHANGED <<alarmVars, active, timer, audioVars, touchscreen, startup_started, portal, remoteVars,
                   pressVars>>

(* A loading project without a sound plays none.                           *)
BootPlugins ==
    /\ current = "BootPlugins"
    /\ IF entered
       THEN \/ /\ play(Sound("floppy"))
               /\ floppy_started' = (sound' # NoSound)
            \/ /\ floppy_started' = FALSE
               /\ UNCHANGED audioVars
       ELSE UNCHANGED <<audioVars, floppy_started>>
    /\ IF age >= Timeout
       THEN EndTick(current, advance_state[current]) /\ age' = 0
       ELSE EndTick(current, requested) /\ UNCHANGED age
    /\ UNCHANGED <<alarmVars, active, timer, touchscreen, startup_started, portal, remoteVars, pressVars>>

(* A mutant of WaitFloppySound that waits for the sound only.              *)
MutNoSoundTimeout ==
    /\ current = "WaitFloppySound"
    /\ takeFinished
    /\ IF ~floppy_started \/ finished
       THEN /\ floppy_started' = FALSE
            /\ EndTick(current, advance_state[current])
            /\ age' = 0
       ELSE /\ EndTick(current, requested)
            /\ UNCHANGED <<floppy_started, age>>
    /\ UNCHANGED <<alarmVars, active, timer, touchscreen, startup_started, portal, remoteVars, pressVars>>

WaitFloppySound ==
    /\ current = "WaitFloppySound"
    /\ takeFinished
    /\ IF ~floppy_started \/ finished \/ age >= Timeout
       THEN /\ floppy_started' = FALSE
            /\ EndTick(current, advance_state[current])
            /\ age' = 0
       ELSE /\ EndTick(current, requested)
            /\ UNCHANGED <<floppy_started, age>>
    /\ UNCHANGED <<alarmVars, active, timer, touchscreen, startup_started, portal, remoteVars, pressVars>>

(* NORMAL. Entering shows the clock, which ends a screensaver, and forgets *)
(* half-made key presses.                                                  *)
saver == screensaver /\ ~entered
Press(pressed, before) == pressed \/ (before /\ ~entered)

NormalState == current = "Normal" /\ phase = "screen"

UnchangedInNormal == UNCHANGED <<alarmVars, active, timer, audioVars, bootVars, portal, prompt, preview>>

ForgetPresses == clock_press' = FALSE /\ alarm_press' = FALSE /\ dual_handled' = FALSE
KeepPresses   == IF entered THEN ForgetPresses ELSE UNCHANGED pressVars

NormalLaunch ==
    /\ NormalState /\ launch
    /\ launch' = FALSE
    /\ screensaver' = TRUE
    /\ KeepPresses
    /\ EndTick(current, requested)
    /\ UNCHANGED age /\ UnchangedInNormal

(* A key, a tap or the touch sensor only ends the screensaver.             *)
NormalScreensaver(activity) ==
    /\ NormalState /\ ~launch /\ saver
    /\ screensaver' = ~activity
    /\ IF activity THEN ForgetPresses ELSE KeepPresses
    /\ EndTick(current, requested)
    /\ UNCHANGED <<age, launch>> /\ UnchangedInNormal

NormalScreensaverStarts ==
    /\ NormalState /\ ~launch /\ ~saver /\ Has("menu")
    /\ screensaver' = TRUE
    /\ KeepPresses
    /\ EndTick(current, requested)
    /\ UNCHANGED <<age, launch>> /\ UnchangedInNormal

(* keys: press edges (none while the night display swallows the press that *)
(* wakes it); down: keys held now; held: both were held for two seconds.   *)
NormalKeys(keys, down, held) ==
    /\ NormalState /\ ~launch /\ ~saver
    /\ screensaver' = FALSE
    /\ LET both    == down = {"clock", "alarm"}
           hold    == both /\ held /\ ~Press(FALSE, dual_handled)
           handled == hold \/ (Press(FALSE, dual_handled) /\ down # {})
           clock   == Press("clock" \in keys, clock_press)
           alarm   == Press("alarm" \in keys, alarm_press)
           menu    == ~handled /\ clock /\ "clock" \notin down
           editor  == ~handled /\ ~menu /\ alarm /\ "alarm" \notin down
       IN /\ dual_handled' = handled
          /\ clock_press' = (clock /\ ~handled /\ ~menu /\ ~editor)
          /\ alarm_press' = (alarm /\ ~handled /\ ~menu /\ ~editor)
          /\ EndTick(current, IF hold \/ menu THEN "BootOptions"
                              ELSE IF editor THEN "AlarmEditor" ELSE requested)
          /\ age' = IF hold \/ menu \/ editor THEN 0 ELSE age
    /\ UNCHANGED launch /\ UnchangedInNormal

Keys == IF Has("menu") THEN SUBSET {"clock", "alarm"} ELSE {{}}

Normal ==
    \/ NormalLaunch
    \/ \E activity \in BOOLEAN : NormalScreensaver(activity)
    \/ NormalScreensaverStarts
    \/ \E keys \in Keys, down \in Keys, held \in BOOLEAN : NormalKeys(keys, down, held)

-----------------------------------------------------------------------------
(* The screens with buttons: a tap is handled by lv_timer_handler() within *)
(* the case. Stay is the case without a tap.                               *)
Stay(state) ==
    /\ current = state
    /\ EndTick(current, requested)
    /\ UNCHANGED <<alarmVars, age, active, timer, audioVars, bootVars, portal, remoteVars,
                   pressVars>>

Goto(state, target) ==
    /\ current = state
    /\ EndTick(current, requestState(target, requested))
    /\ UNCHANGED <<age, active, bootVars, portal, remoteVars, pressVars>>

(* Save, Cancel, the timer page, a sound picked from the list.             *)
AlarmEditor ==
    \/ Stay("AlarmEditor")
    \/ Goto("AlarmEditor", "Normal") /\ Reconfigure /\ UNCHANGED <<timer, audioVars>>
    \/ Goto("AlarmEditor", "Normal") /\ UNCHANGED <<alarmVars, timer, audioVars>>
    \/ Goto("AlarmEditor", "TimerEditor") /\ UNCHANGED <<alarmVars, timer, audioVars>>
    \/ /\ Has("sounds")
       /\ Goto("AlarmEditor", requested)
       /\ play(Sound("preview"))
       /\ UNCHANGED <<alarmVars, timer>>

(* Start, Stop and Back of the timer page.                                 *)
TimerEditor ==
    \/ Stay("TimerEditor")
    \/ /\ Has("timer")
       /\ Goto("TimerEditor", "Normal")
       /\ timer' = "running"
       /\ UNCHANGED <<alarmVars, audioVars>>
    \/ /\ Goto("TimerEditor", requested)
       /\ timer' = "idle"
       /\ UNCHANGED <<alarmVars, audioVars>>
    \/ Goto("TimerEditor", "Normal") /\ UNCHANGED <<alarmVars, timer, audioVars>>

BootTargets == {"EmptyScreen", "Emulator", "Diagnostics", "WifiSetup", "Normal"}

(* Every page's way out, the update page's Install and Refresh, which      *)
(* suspend the audio task, and the clock key, which counts once it was     *)
(* seen up, one tick after entering.                                       *)
BootOptions ==
    \/ Stay("BootOptions")
    \/ \E target \in BootTargets :
          Goto("BootOptions", target) /\ UNCHANGED <<alarmVars, timer, audioVars>>
    \/ /\ Has("transfer") /\ ~suspended
       /\ current = "BootOptions"
       /\ SuspendAudio
       /\ preview' = FALSE
       /\ EndTick(current, requested)
       /\ UNCHANGED <<alarmVars, age, active, timer, bootVars, portal, prompt, screensaver,
                      launch, pressVars>>
    \/ /\ ~entered /\ touchscreen
       /\ Goto("BootOptions", "Calibration")
       /\ UNCHANGED <<alarmVars, timer, audioVars>>

(* run_emulator() resumes the audio task whoever suspended it.             *)
Emulator ==
    /\ current = "Emulator"
    /\ EndTick(current, "BootOptions")
    /\ age' = 0
    /\ IF touchscreen
       THEN sound' = NoSound /\ finished' = FALSE /\ suspended' = FALSE
       ELSE UNCHANGED audioVars
    /\ UNCHANGED <<alarmVars, active, timer, bootVars, portal, remoteVars, pressVars>>

Diagnostics ==
    \/ Stay("Diagnostics")
    \/ Goto("Diagnostics", "BootOptions") /\ UNCHANGED <<alarmVars, timer, audioVars>>

WifiSetup(back) ==
    /\ current = "WifiSetup"
    /\ portal' = (portal \/ entered)
    /\ EndTick(current, IF back THEN "BootOptions" ELSE requested)
    /\ UNCHANGED <<alarmVars, age, active, timer, audioVars, bootVars, remoteVars, pressVars>>

(* The clock key leaves; four good samples finish; bad ones start again.   *)
Calibration ==
    \/ Stay("Calibration")
    \/ Goto("Calibration", "BootOptions") /\ UNCHANGED <<alarmVars, timer, audioVars>>
    \/ ~entered /\ Goto("Calibration", "Normal") /\ UNCHANGED <<alarmVars, timer, audioVars>>

-----------------------------------------------------------------------------
(* ALARM_RINGING. The sound starts on entry and is repeated when the audio *)
(* task reports its end; a key or a button ends the alarm if one is active.*)
Ring == play(AlarmSound(active))

(* A mutant of RingingStays that does not repeat the sound.                *)
MutNoRepeat ==
    /\ current = "AlarmRinging"
    /\ IF entered THEN Ring ELSE takeFinished
    /\ EndTick(current, requested)
    /\ UNCHANGED <<alarmVars, age, active, timer, bootVars, portal, remoteVars, pressVars>>

RingingStays ==
    /\ current = "AlarmRinging"
    /\ \/ entered /\ Ring
       \/ ~entered /\ finished /\ active # None /\ Ring
       \/ ~entered /\ (~finished \/ active = None) /\ takeFinished
    /\ EndTick(current, requested)
    /\ UNCHANGED <<alarmVars, age, active, timer, bootVars, portal, remoteVars, pressVars>>

(* Without an active alarm a key does nothing (RingingStays).              *)
snoozeActiveAlarm ==
    /\ current = "AlarmRinging" /\ active # None
    /\ stop
    /\ Snooze(active)
    /\ active' = None
    /\ EndTick(current, "Normal")
    /\ UNCHANGED <<age, timer, bootVars, portal, remoteVars, pressVars>>

(* Mutant of dismissActiveAlarm: the sound plays on.                       *)
MutDismissPlaysOn ==
    /\ current = "AlarmRinging" /\ active # None
    /\ Dismiss
    /\ active' = None
    /\ EndTick(current, "Normal")
    /\ UNCHANGED <<age, timer, audioVars, bootVars, portal, remoteVars, pressVars>>

dismissActiveAlarm ==
    /\ current = "AlarmRinging" /\ active # None
    /\ stop
    /\ Dismiss
    /\ active' = None
    /\ EndTick(current, "Normal")
    /\ UNCHANGED <<age, timer, bootVars, portal, remoteVars, pressVars>>

AlarmRinging == RingingStays \/ snoozeActiveAlarm \/ dismissActiveAlarm

(* TIMER_FINISHED.                                                         *)
TimerFinishedStays ==
    /\ current = "TimerFinished"
    /\ IF entered \/ finished THEN play(Sound("timer")) ELSE takeFinished
    /\ EndTick(current, requested)
    /\ UNCHANGED <<alarmVars, age, active, timer, bootVars, portal, remoteVars, pressVars>>

dismissTimer ==
    /\ current = "TimerFinished"
    /\ stop
    /\ EndTick(current, "Normal")
    /\ UNCHANGED <<alarmVars, age, active, timer, bootVars, portal, remoteVars, pressVars>>

TimerFinished == TimerFinishedStays \/ dismissTimer

Screen ==
    \/ EmptyScreen
    \/ WaitStartupSound
    \/ \E floppy \in BOOLEAN : WaitFloppy1(floppy) \/ WaitFloppy2(floppy)
    \/ FloppyInserted
    \/ BootPlugins
    \/ WaitFloppySound
    \/ Normal
    \/ AlarmEditor
    \/ AlarmRinging
    \/ TimerEditor
    \/ TimerFinished
    \/ BootOptions
    \/ Emulator
    \/ Diagnostics
    \/ \E back \in BOOLEAN : WifiSetup(back)
    \/ Calibration

-----------------------------------------------------------------------------
(* The environment: the RTC and the update worker.                         *)
Separate ==
    \/ Has("overlap")
    \/ current \notin Announcing /\ (pending' = {} \/ ~lapsed')

ClockTurns ==
    /\ phase = "apply"
    /\ ClockMoves \/ MinuteTurns
    /\ Separate
    /\ UNCHANGED <<phase, current, last, requested, age, active, timer, audioVars, bootVars,
                   portal, remoteVars, pressVars>>

PromptFound ==
    /\ phase = "apply"
    /\ Has("prompt")
    /\ prompt' = TRUE
    /\ UNCHANGED <<alarmVars, phase, current, last, requested, age, active, timer, audioVars,
                   bootVars, portal, screensaver, launch, preview, pressVars>>

(* The clock key held at power-up, or the emulator booted first, opens     *)
(* BOOT_OPTIONS.                                                           *)
Init ==
    /\ AlarmInit
    /\ phase = "apply"
    /\ current = "EmptyScreen" /\ last = "None" /\ age = 0
    /\ requested \in {"None"} \cup {state \in {"BootOptions"} : Has("menu")}
    /\ active = None
    /\ timer = "idle"
    /\ sound = NoSound /\ finished = FALSE /\ suspended = FALSE
    /\ touchscreen \in Touchscreens
    /\ startup_started = FALSE /\ floppy_started = FALSE
    /\ portal = FALSE
    /\ prompt = FALSE /\ screensaver = FALSE /\ launch = FALSE /\ preview = FALSE
    /\ clock_press = FALSE /\ alarm_press = FALSE /\ dual_handled = FALSE

Tick == ApplyRequest \/ Services \/ PlayPreview \/ AlarmPoll \/ NoAlarmPoll
            \/ TimerAnnounced \/ TimerNotAnnounced \/ Screen

Next == Tick \/ AudioFinishes \/ ClockTurns \/ PromptFound

Spec == Init /\ [][Next]_vars

-----------------------------------------------------------------------------
(* Every variable has its type, and nothing that needs the touchscreen is  *)
(* ever requested on a device without one.                                 *)
TouchStates == {"Emulator", "Calibration"}

Reachable == IF touchscreen THEN UiState ELSE UiState \ TouchStates

ScreenTypeOK ==
    /\ phase \in Phases
    /\ touchscreen \in Touchscreens
    /\ current \in Reachable
    /\ last \in Reachable \cup {"None"}
    /\ requested \in Reachable \cup {"None"}
    /\ age \in 0 .. Timeout
    /\ active \in Alarms \cup {None}
    /\ timer \in {"idle", "running", "done"}

SoundTypeOK ==
    /\ sound \in Sounds
    /\ finished \in BOOLEAN /\ suspended \in BOOLEAN
    /\ startup_started \in BOOLEAN /\ floppy_started \in BOOLEAN

FlagTypeOK ==
    /\ portal \in BOOLEAN
    /\ prompt \in BOOLEAN /\ screensaver \in BOOLEAN
    /\ launch \in BOOLEAN /\ preview \in BOOLEAN
    /\ clock_press \in BOOLEAN /\ alarm_press \in BOOLEAN /\ dual_handled \in BOOLEAN

TypeOK == AlarmTypeOK /\ ScreenTypeOK /\ SoundTypeOK /\ FlagTypeOK

(* While ALARM_RINGING is on screen, snoozeActiveAlarm() and               *)
(* dismissActiveAlarm() have an alarm to act on, or the screen is already  *)
(* being left: nobody is caught on a screen whose buttons do nothing.      *)
RingingCanBeStopped ==
    current = "AlarmRinging" =>
        \/ active \in Alarms
        \/ phase = "apply" /\ requested \notin {"None", "AlarmRinging"}

(* The sound of an alarm never outlives its screen: when a tick ends with  *)
(* an alarm playing, that alarm is the active one and ALARM_RINGING is     *)
(* current, so that the keys reach it. Nothing on the way (a chime, a      *)
(* timer, a menu, a preview) may leave the sound behind.                   *)
AlarmSoundCanBeStopped ==
    \A i \in Alarms :
        sound = AlarmSound(i) /\ phase \in {"apply", "services", "due"} =>
            current = "AlarmRinging" /\ active = i

(* An announcement is never silent: once the screen of an alarm or of a    *)
(* timer is entered, a sound plays or its end is about to be reported,     *)
(* which starts it again, until a key requests another screen.             *)
AnnouncementIsHeard ==
    current \in Announcing /\ last = current =>
        running \/ finished \/ (phase = "apply" /\ requested # "None")

(* The setup access point is up only while WIFI_SETUP is active: tick()    *)
(* closes it when it applies a request that leaves WIFI_SETUP.             *)
PortalOnlyInWifiSetup ==
    portal /\ phase = "services" => current = "WifiSetup"

-----------------------------------------------------------------------------
(* tick() runs for ever, and a sound that plays ends unless it is replaced *)
(* again and again: in the end nobody plays other sounds.                  *)
Fairness ==
    /\ WF_vars(Tick)
    /\ WF_vars(AudioFinishes)
    /\ <>[][~playMqttSound /\ ~PlayPreview]_vars

FairSpec == Spec /\ Fairness

(* An alarm that rings is heard: as long as it stays the active alarm, its *)
(* sound is played again and again, whatever replaces it meanwhile.        *)
RingingIsHeard ==
    \A i \in Alarms :
        (current = "AlarmRinging" /\ active = i) ~>
            (active # i \/ (sound = AlarmSound(i) /\ ~suspended))

(* Starting up does not depend on sounds: one that cannot play, is stopped *)
(* or is never decoded delays the boot screens but cannot hold them.       *)
BootCompletes ==
    (current \in {"EmptyScreen", "WaitStartupSound", "FloppyInserted", "BootPlugins",
                  "WaitFloppySound"}) ~>
    (current \in {"WaitFloppy1", "WaitFloppy2", "Normal", "TimerFinished", "BootOptions"})

(* The sounds of this module behave as SoundPlayer says, which is what the *)
(* audio service keeps among its callers (see ControlPanel).               *)
Player ==
    INSTANCE SoundPlayer WITH playing <- running, ended <- finished, frozen <- suspended

PlaysAsPromised == Player!Spec

=============================================================================
