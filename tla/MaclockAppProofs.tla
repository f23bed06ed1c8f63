-------------------------- MODULE MaclockAppProofs --------------------------
(* Proofs about MaclockApp for every set of alarms, features and delays.   *)
EXTENDS MaclockApp, WellFoundedInduction, TLAPS

(* The first of a non-empty set of slots is one of them.                   *)
LEMMA FirstIsMember ==
  ASSUME NEW S \in SUBSET Alarms, S # {}
  PROVE  First(S) \in S
<1> DEFINE less == OpToRel(<, Nat)
<1>1. IsWellFoundedOn(less, Nat)
  BY NatLessThanWellFounded
<1>2. S \subseteq Nat
  BY MaclockAppAssumption
<1>3. PICK i \in S : \A j \in S : ~(<<j, i>> \in less)
  <2> HIDE DEF less
  <2> QED BY <1>1, <1>2, WFMin
<1>4. \A j \in S : i <= j
  <2> SUFFICES ASSUME NEW j \in S PROVE i <= j
    OBVIOUS
  <2>1. ~(j < i)
    <3>1. <<j, i>> \in Nat \X Nat
      BY <1>2
    <3> QED BY <1>3, <3>1, Zenon DEF OpToRel
  <2> QED BY <2>1, <1>2
<1> QED BY <1>4 DEF First

(* Every operation of the alarm service keeps its types, and a poll        *)
(* answers with an alarm or None.                                          *)
LEMMA AlarmTypes ==
  ASSUME AlarmTypeOK,
         \/ Poll
         \/ \E i \in Alarms : Snooze(i)
         \/ Dismiss
         \/ ClockMoves
         \/ MinuteTurns
         \/ Reconfigure
         \/ UNCHANGED alarmVars
         \/ answer' = None /\ UNCHANGED <<minute, pending, snoozed, lapsed>>
  PROVE  AlarmTypeOK'
<1>1. CASE Poll
  <2>1. pending # {} => First(pending) \in Alarms
    BY FirstIsMember DEF AlarmTypeOK
  <2> QED BY <1>1, <2>1 DEF AlarmTypeOK, Poll
<1>2. CASE \E i \in Alarms : Snooze(i)
  BY <1>2 DEF AlarmTypeOK, Snooze
<1>3. CASE Dismiss
  BY <1>3 DEF AlarmTypeOK, Dismiss
<1>4. CASE ClockMoves
  BY <1>4 DEF AlarmTypeOK, ClockMoves
<1>5. CASE MinuteTurns
  BY <1>5 DEF AlarmTypeOK, MinuteTurns
<1>6. CASE Reconfigure
  BY <1>6 DEF AlarmTypeOK, Reconfigure
<1>7. CASE UNCHANGED alarmVars
  BY <1>7 DEF AlarmTypeOK, alarmVars
<1>8. CASE answer' = None /\ UNCHANGED <<minute, pending, snoozed, lapsed>>
  BY <1>8 DEF AlarmTypeOK
<1> QED BY <1>1, <1>2, <1>3, <1>4, <1>5, <1>6, <1>7, <1>8

(* What the audio service is asked to play is a sound.                     *)
LEMMA SoundsAreSounds ==
  /\ NoSound \in Sounds
  /\ \A owner \in Owners : Sound(owner) \in Sounds
  /\ \A i \in Alarms : AlarmSound(i) \in Sounds
BY DEF NoSound, Sound, AlarmSound, Sounds, Owners

LEMMA AudioTypes ==
  ASSUME sound \in Sounds, finished \in BOOLEAN, suspended \in BOOLEAN,
         \/ \E s \in Sounds : play(s)
         \/ stop
         \/ takeFinished
         \/ UNCHANGED audioVars
  PROVE  sound' \in Sounds /\ finished' \in BOOLEAN /\ suspended' \in BOOLEAN
<1>1. CASE \E s \in Sounds : play(s)
  BY <1>1, SoundsAreSounds DEF play
<1>2. CASE stop
  BY <1>2, SoundsAreSounds DEF stop
<1>3. CASE takeFinished
  BY <1>3 DEF takeFinished
<1>4. CASE UNCHANGED audioVars
  BY <1>4 DEF audioVars
<1> QED BY <1>1, <1>2, <1>3, <1>4

(* The inductive invariant: nothing requests ALARM_RINGING or              *)
(* TIMER_FINISHED, so the first is entered by the poll only, with its      *)
(* answer as the active alarm, and the second by the timer only.           *)
OnlyPollRings == requested \notin Announcing

IInv == TypeOK /\ OnlyPollRings /\ RingingCanBeStopped

LEMMA InitIInv == Init => IInv
<1> SUFFICES ASSUME Init PROVE IInv
  OBVIOUS
<1>1. AlarmTypeOK
  BY DEF Init, AlarmInit, AlarmTypeOK
<1>2. SoundTypeOK /\ FlagTypeOK
  BY SoundsAreSounds DEF Init, SoundTypeOK, FlagTypeOK
<1>3. requested \in {"None", "BootOptions"}
  BY DEF Init
<1>4. ScreenTypeOK /\ OnlyPollRings /\ RingingCanBeStopped
  BY <1>3, MaclockAppAssumption
     DEF Init, ScreenTypeOK, OnlyPollRings, Announcing, RingingCanBeStopped, Phases, Reachable,
     UiState,
         TouchStates, None
<1> QED BY <1>1, <1>2, <1>4 DEF IInv, TypeOK

LEMMA ApplyIInv == IInv /\ ApplyRequest => IInv'
<1> SUFFICES ASSUME IInv, ApplyRequest PROVE IInv'
  OBVIOUS
<1>1. AlarmTypeOK'
  BY AlarmTypes DEF IInv, TypeOK, ApplyRequest
<1>2. SoundTypeOK'
  BY AudioTypes DEF IInv, TypeOK, SoundTypeOK, ApplyRequest, audioVars, bootVars
<1>3. ScreenTypeOK' /\ OnlyPollRings' /\ RingingCanBeStopped'
  BY MaclockAppAssumption
     DEF IInv, TypeOK, ScreenTypeOK, OnlyPollRings, Announcing, RingingCanBeStopped, Reachable,
     UiState,
         TouchStates, Phases, ApplyRequest, MayExpire, bootVars
<1>4. FlagTypeOK'
  BY DEF IInv, TypeOK, FlagTypeOK, ApplyRequest, remoteVars, pressVars
<1> QED BY <1>1, <1>2, <1>3, <1>4 DEF IInv, TypeOK

LEMMA ServicesIInv == IInv /\ Services => IInv'
<1> SUFFICES ASSUME IInv, Services PROVE IInv'
  OBVIOUS
<1>1. AlarmTypeOK'
  BY AlarmTypes DEF IInv, TypeOK, Services, NoCommand, applyControlScreensaver,
     previewControlLoadingScreen, previewControlSound, playMqttSound, stopMqttSound,
     showMqttMessage, controlMqttTimer, applyControlAlarm, beginControlPanelNetworkTransfer,
     endControlPanelNetworkTransfer
<1>2. SoundTypeOK'
  BY AudioTypes, SoundsAreSounds DEF IInv, TypeOK, SoundTypeOK, Services, NoCommand,
     applyControlScreensaver, previewControlLoadingScreen, previewControlSound, playMqttSound,
     stopMqttSound, showMqttMessage, controlMqttTimer, applyControlAlarm, SuspendAudio,
     beginControlPanelNetworkTransfer, endControlPanelNetworkTransfer, EndServices, Owners,
     audioVars, bootVars
<1>3. PICK state \in {requested, "Normal", "BootPlugins"} : EndServices(state)
  BY DEF Services, NoCommand, applyControlScreensaver, previewControlLoadingScreen,
     previewControlSound, playMqttSound, stopMqttSound, showMqttMessage, controlMqttTimer,
     applyControlAlarm, beginControlPanelNetworkTransfer, endControlPanelNetworkTransfer
<1>4. timer' \in {timer, "running", "idle"}
  BY DEF Services, NoCommand, applyControlScreensaver, previewControlLoadingScreen,
     previewControlSound, playMqttSound, stopMqttSound, showMqttMessage, controlMqttTimer,
     applyControlAlarm, beginControlPanelNetworkTransfer, endControlPanelNetworkTransfer
<1>5. ScreenTypeOK' /\ OnlyPollRings' /\ RingingCanBeStopped'
  BY <1>3, <1>4 DEF IInv, TypeOK, ScreenTypeOK, OnlyPollRings, Announcing, RingingCanBeStopped,
     Reachable,
     UiState, TouchStates, Phases, EndServices, syncUpdatePrompt, bootVars
<1>6. FlagTypeOK'
  BY DEF IInv, TypeOK, FlagTypeOK, Services, NoCommand, applyControlScreensaver,
     previewControlLoadingScreen, previewControlSound, playMqttSound, stopMqttSound,
     showMqttMessage, controlMqttTimer, applyControlAlarm, beginControlPanelNetworkTransfer,
     endControlPanelNetworkTransfer, EndServices, remoteVars, pressVars
<1> QED BY <1>1, <1>2, <1>5, <1>6 DEF IInv, TypeOK

(* The poll and the timer: the poll's answer becomes the active alarm.     *)
DueAndTimer == PlayPreview \/ AlarmPoll \/ NoAlarmPoll \/ TimerAnnounced \/ TimerNotAnnounced

LEMMA DueAndTimerIInv == IInv /\ DueAndTimer => IInv'
<1> SUFFICES ASSUME IInv, DueAndTimer PROVE IInv'
  OBVIOUS
<1>1. AlarmTypeOK'
  BY AlarmTypes DEF IInv, TypeOK, DueAndTimer, PlayPreview, AlarmPoll, NoAlarmPoll,
     TimerAnnounced, TimerNotAnnounced
<1>2. SoundTypeOK'
  BY AudioTypes, SoundsAreSounds DEF IInv, TypeOK, SoundTypeOK, DueAndTimer, PlayPreview,
     AlarmPoll, NoAlarmPoll, TimerAnnounced, TimerNotAnnounced, maybe_start_chime, Owners,
     audioVars, bootVars
<1>3. ScreenTypeOK' /\ OnlyPollRings' /\ RingingCanBeStopped'
  BY <1>1, MaclockAppAssumption DEF IInv, TypeOK, AlarmTypeOK, ScreenTypeOK, OnlyPollRings,
     Announcing,
     RingingCanBeStopped, Reachable, UiState, TouchStates, Phases, DueAndTimer, PlayPreview,
     AlarmPoll, NoAlarmPoll, TimerAnnounced, TimerNotAnnounced, bootVars
<1>4. FlagTypeOK'
  BY DEF IInv, TypeOK, FlagTypeOK, DueAndTimer, PlayPreview, AlarmPoll, NoAlarmPoll,
     TimerAnnounced, TimerNotAnnounced, remoteVars, pressVars
<1> QED BY <1>1, <1>2, <1>3, <1>4 DEF IInv, TypeOK

(* The start-up screens.                                                   *)
StartUp ==
    \/ EmptyScreen
    \/ WaitStartupSound
    \/ \E floppy \in BOOLEAN : WaitFloppy1(floppy) \/ WaitFloppy2(floppy)
    \/ FloppyInserted
    \/ BootPlugins
    \/ WaitFloppySound

LEMMA StartUpIInv == IInv /\ StartUp => IInv'
<1> SUFFICES ASSUME IInv, StartUp PROVE IInv'
  OBVIOUS
<1>1. AlarmTypeOK'
  BY AlarmTypes DEF IInv, TypeOK, StartUp, EmptyScreen, WaitStartupSound, WaitFloppy1,
     WaitFloppy2, FloppyInserted, BootPlugins, WaitFloppySound
<1>2. SoundTypeOK'
  BY AudioTypes, SoundsAreSounds DEF IInv, TypeOK, SoundTypeOK, StartUp, EmptyScreen,
     WaitStartupSound, WaitFloppy1, WaitFloppy2, FloppyInserted, BootPlugins, WaitFloppySound,
     Owners, audioVars, bootVars
<1>3. ScreenTypeOK' /\ OnlyPollRings' /\ RingingCanBeStopped'
  BY MaclockAppAssumption DEF IInv, TypeOK, ScreenTypeOK, OnlyPollRings, Announcing,
     RingingCanBeStopped,
     Reachable, UiState, TouchStates, Phases, EndTick, advance_state, StartUp, EmptyScreen,
     WaitStartupSound, WaitFloppy1, WaitFloppy2, FloppyInserted, BootPlugins, WaitFloppySound,
     bootVars
<1>4. FlagTypeOK'
  BY DEF IInv, TypeOK, FlagTypeOK, StartUp, EmptyScreen, WaitStartupSound, WaitFloppy1,
     WaitFloppy2, FloppyInserted, BootPlugins, WaitFloppySound, remoteVars, pressVars
<1> QED BY <1>1, <1>2, <1>3, <1>4 DEF IInv, TypeOK

(* What the cases of NORMAL have in common.                                *)
NormalStep ==
    /\ NormalState /\ UnchangedInNormal
    /\ age' \in {0, age}
    /\ \E state \in {requested, "BootOptions", "AlarmEditor"} : EndTick(current, state)

LEMMA NormalKeysFacts ==
  ASSUME NEW keys, NEW down, NEW held, NormalKeys(keys, down, held)
  PROVE  /\ NormalStep
         /\ screensaver' \in BOOLEAN /\ launch' = launch
         /\ clock_press' \in BOOLEAN /\ alarm_press' \in BOOLEAN /\ dual_handled' \in BOOLEAN
<1>1. NormalStep
  BY DEF NormalKeys, NormalStep, NormalState
<1>2. screensaver' = FALSE /\ launch' = launch
  BY DEF NormalKeys
<1>3. clock_press' \in BOOLEAN
  BY Zenon DEF NormalKeys
<1>4. alarm_press' \in BOOLEAN
  BY Zenon DEF NormalKeys
<1>5. dual_handled' \in BOOLEAN
  BY Zenon DEF NormalKeys
<1> QED BY <1>1, <1>2, <1>3, <1>4, <1>5

LEMMA NormalFacts ==
  ASSUME Normal, FlagTypeOK
  PROVE  /\ NormalStep
         /\ screensaver' \in BOOLEAN /\ launch' \in BOOLEAN
         /\ clock_press' \in BOOLEAN /\ alarm_press' \in BOOLEAN /\ dual_handled' \in BOOLEAN
<1>1. CASE NormalLaunch
  BY <1>1 DEF NormalLaunch, NormalStep, NormalState, FlagTypeOK, KeepPresses, ForgetPresses,
     pressVars
<1>2. CASE \E activity \in BOOLEAN : NormalScreensaver(activity)
  BY <1>2 DEF NormalScreensaver, NormalStep, NormalState, FlagTypeOK, KeepPresses,
     ForgetPresses, pressVars
<1>3. CASE NormalScreensaverStarts
  BY <1>3 DEF NormalScreensaverStarts, NormalStep, NormalState, FlagTypeOK, KeepPresses,
     ForgetPresses, pressVars
<1>4. CASE \E keys \in Keys, down \in Keys, held \in BOOLEAN : NormalKeys(keys, down, held)
  BY <1>4, NormalKeysFacts DEF FlagTypeOK
<1> QED BY <1>1, <1>2, <1>3, <1>4 DEF Normal

LEMMA NormalIInv == IInv /\ Normal => IInv'
<1> SUFFICES ASSUME IInv, Normal PROVE IInv'
  OBVIOUS
<1>0. NormalStep
  BY NormalFacts DEF IInv, TypeOK
<1>1. AlarmTypeOK'
  BY <1>0, AlarmTypes DEF IInv, TypeOK, NormalStep, UnchangedInNormal
<1>2. SoundTypeOK'
  BY <1>0, AudioTypes
     DEF IInv, TypeOK, SoundTypeOK, NormalStep, UnchangedInNormal, audioVars, bootVars
<1>3. ScreenTypeOK' /\ OnlyPollRings' /\ RingingCanBeStopped'
  BY <1>0, MaclockAppAssumption DEF IInv, TypeOK, ScreenTypeOK, OnlyPollRings, Announcing,
     RingingCanBeStopped, Reachable, UiState, TouchStates, Phases, EndTick, NormalStep,
     NormalState, UnchangedInNormal, bootVars
<1>4. FlagTypeOK'
  BY <1>0, NormalFacts DEF IInv, TypeOK, FlagTypeOK, NormalStep, UnchangedInNormal
<1> QED BY <1>1, <1>2, <1>3, <1>4 DEF IInv, TypeOK

(* The screens whose buttons lead to other screens.                        *)
Menus ==
    \/ AlarmEditor
    \/ TimerEditor
    \/ BootOptions
    \/ Emulator
    \/ Diagnostics
    \/ \E back \in BOOLEAN : WifiSetup(back)
    \/ Calibration

LEMMA MenusIInv == IInv /\ Menus => IInv'
<1> SUFFICES ASSUME IInv, Menus PROVE IInv'
  OBVIOUS
<1>1. AlarmTypeOK'
  BY AlarmTypes DEF IInv, TypeOK, Menus, AlarmEditor, TimerEditor, BootOptions, Emulator,
     Diagnostics, WifiSetup, Calibration, Stay
<1>2. SoundTypeOK'
  BY AudioTypes, SoundsAreSounds DEF IInv, TypeOK, SoundTypeOK, Menus, AlarmEditor, TimerEditor,
     BootOptions, Emulator, Diagnostics, WifiSetup, Calibration, Stay, Goto, SuspendAudio,
     Owners, audioVars, bootVars
<1>3. /\ current # "AlarmRinging" /\ age' \in {0, age} /\ UNCHANGED <<active, touchscreen>>
      /\ timer' \in {timer, "idle", "running"}
      /\ \E target \in BootTargets \cup {"BootOptions", "TimerEditor", "Calibration", requested} :
            EndTick(current, requestState(target, requested))
  BY DEF Menus, AlarmEditor, TimerEditor, BootOptions, Emulator, Diagnostics, WifiSetup,
     Calibration, Stay, Goto, requestState, BootTargets, bootVars
<1>4. ScreenTypeOK' /\ OnlyPollRings' /\ RingingCanBeStopped'
  BY <1>3, MaclockAppAssumption DEF IInv, TypeOK, ScreenTypeOK, OnlyPollRings, Announcing,
     RingingCanBeStopped, Reachable, UiState, TouchStates, Phases, EndTick, BootTargets,
     requestState
<1>5. FlagTypeOK'
  <2>1. CASE \E back \in BOOLEAN : WifiSetup(back)
    BY <2>1 DEF IInv, TypeOK, FlagTypeOK, WifiSetup, remoteVars, pressVars
  <2>2. CASE BootOptions
    BY <2>2 DEF IInv, TypeOK, FlagTypeOK, BootOptions, Stay, Goto, remoteVars, pressVars
  <2>3. CASE AlarmEditor \/ TimerEditor \/ Emulator \/ Diagnostics \/ Calibration
    BY <2>3 DEF IInv, TypeOK, FlagTypeOK, AlarmEditor, TimerEditor, Emulator, Diagnostics,
       Calibration, Stay, Goto, remoteVars, pressVars
  <2> QED BY <2>1, <2>2, <2>3 DEF Menus
<1> QED BY <1>1, <1>2, <1>4, <1>5 DEF IInv, TypeOK

(* The announcements. On the ringing screen the active alarm is an alarm,  *)
(* so that what is played, snoozed or dismissed exists.                    *)
LEMMA AnnouncementsIInv == IInv /\ (AlarmRinging \/ TimerFinished) => IInv'
<1> SUFFICES ASSUME IInv, AlarmRinging \/ TimerFinished PROVE IInv'
  OBVIOUS
<1>1. phase = "screen"
  BY DEF AlarmRinging, RingingStays, snoozeActiveAlarm, dismissActiveAlarm, TimerFinished,
     TimerFinishedStays, dismissTimer, EndTick
<1>2. AlarmRinging => active \in Alarms
  BY <1>1 DEF IInv, RingingCanBeStopped, AlarmRinging, RingingStays, snoozeActiveAlarm,
     dismissActiveAlarm
<1>3. AlarmTypeOK'
  BY <1>2, AlarmTypes DEF IInv, TypeOK, AlarmRinging, RingingStays, snoozeActiveAlarm,
     dismissActiveAlarm, TimerFinished, TimerFinishedStays, dismissTimer
<1>4. SoundTypeOK'
  BY <1>2, AudioTypes, SoundsAreSounds DEF IInv, TypeOK, SoundTypeOK, Ring, AlarmRinging,
     RingingStays, snoozeActiveAlarm, dismissActiveAlarm, TimerFinished, TimerFinishedStays,
     dismissTimer, Owners, bootVars
<1>5. ScreenTypeOK' /\ OnlyPollRings' /\ RingingCanBeStopped'
  BY <1>2 DEF IInv, TypeOK, ScreenTypeOK, OnlyPollRings, Announcing, RingingCanBeStopped,
     Reachable,
     UiState, TouchStates, Phases, EndTick, AlarmRinging, RingingStays, snoozeActiveAlarm,
     dismissActiveAlarm, TimerFinished, TimerFinishedStays, dismissTimer, bootVars
<1>6. FlagTypeOK'
  BY DEF IInv, TypeOK, FlagTypeOK, AlarmRinging, RingingStays, snoozeActiveAlarm,
     dismissActiveAlarm, TimerFinished, TimerFinishedStays, dismissTimer, remoteVars, pressVars
<1> QED BY <1>3, <1>4, <1>5, <1>6 DEF IInv, TypeOK

(* The audio task, the RTC and the update worker.                          *)
LEMMA EnvironmentIInv == IInv /\ (AudioFinishes \/ ClockTurns \/ PromptFound) => IInv'
<1> SUFFICES ASSUME IInv, AudioFinishes \/ ClockTurns \/ PromptFound PROVE IInv'
  OBVIOUS
<1>1. AlarmTypeOK'
  BY AlarmTypes DEF IInv, TypeOK, AudioFinishes, ClockTurns, PromptFound
<1>2. SoundTypeOK'
  BY SoundsAreSounds DEF IInv, TypeOK, SoundTypeOK, AudioFinishes, ClockTurns, PromptFound,
     audioVars, bootVars
<1>3. ScreenTypeOK' /\ OnlyPollRings' /\ RingingCanBeStopped'
  BY DEF IInv, TypeOK, ScreenTypeOK, OnlyPollRings, Announcing, RingingCanBeStopped, Reachable,
     AudioFinishes, ClockTurns, PromptFound, bootVars
<1>4. FlagTypeOK'
  BY DEF IInv, TypeOK, FlagTypeOK, AudioFinishes, ClockTurns, PromptFound, remoteVars, pressVars
<1> QED BY <1>1, <1>2, <1>3, <1>4 DEF IInv, TypeOK

LEMMA NextIInv == IInv /\ [Next]_vars => IInv'
<1> SUFFICES ASSUME IInv, [Next]_vars PROVE IInv'
  OBVIOUS
<1>1. CASE ApplyRequest
  BY <1>1, ApplyIInv
<1>2. CASE Services
  BY <1>2, ServicesIInv
<1>3. CASE DueAndTimer
  BY <1>3, DueAndTimerIInv
<1>4. CASE Screen
  BY <1>4, StartUpIInv, NormalIInv, MenusIInv, AnnouncementsIInv DEF Screen, StartUp, Menus
<1>5. CASE AudioFinishes \/ ClockTurns \/ PromptFound
  BY <1>5, EnvironmentIInv
<1>6. CASE UNCHANGED vars
  BY <1>6, AlarmTypes
     DEF IInv, TypeOK, ScreenTypeOK, SoundTypeOK, FlagTypeOK, OnlyPollRings, Announcing,
     RingingCanBeStopped,
         Reachable, vars, audioVars, bootVars, remoteVars, pressVars
<1> QED BY <1>1, <1>2, <1>3, <1>4, <1>5, <1>6 DEF Next, Tick, DueAndTimer

LEMMA Inductive == Spec => []IInv
<1> QED BY InitIInv, NextIInv, PTL DEF Spec

(* The types of all variables; on a device without a touchscreen, EMULATOR *)
(* and CALIBRATION are neither current nor requested.                      *)
THEOREM TypeCorrect == Spec => []TypeOK
<1>1. IInv => TypeOK
  BY DEF IInv
<1> QED BY <1>1, Inductive, PTL

(* snoozeActiveAlarm() and dismissActiveAlarm() always have an alarm to    *)
(* act on while ALARM_RINGING is on screen, in every combination of        *)
(* features and for any number of alarms.                                  *)
THEOREM RingingStoppable == Spec => []RingingCanBeStopped
<1>1. IInv => RingingCanBeStopped
  BY DEF IInv
<1> QED BY <1>1, Inductive, PTL

-----------------------------------------------------------------------------
(* What a case of the switch does to the screen: the state stays or a boot *)
(* screen replaces another, only BOOT_OPTIONS requests WIFI_SETUP, and the *)
(* portal opens nowhere but in WIFI_SETUP.                                 *)
ScreenMoves ==
    /\ \E state, request :
          /\ EndTick(state, request)
          /\ \/ state = current
             \/ /\ current \in {"WaitFloppy1", "WaitFloppy2"}
                /\ state \in {"FloppyInserted", "WaitFloppy1"}
          /\ request = "WifiSetup" => current = "BootOptions" \/ requested = "WifiSetup"
    /\ portal' => portal \/ current = "WifiSetup"
    /\ timer' = "done" => timer = "done"

LEMMA SwitchMoves == IInv /\ Screen => ScreenMoves
<1> SUFFICES ASSUME IInv, Screen PROVE ScreenMoves
  OBVIOUS
<1>1. CASE StartUp
  BY <1>1 DEF StartUp, EmptyScreen, WaitStartupSound, WaitFloppy1, WaitFloppy2, FloppyInserted,
     BootPlugins, WaitFloppySound, ScreenMoves, advance_state
<1>2. CASE Normal
  <2>1. NormalStep
    BY <1>2, NormalFacts DEF IInv, TypeOK
  <2> QED BY <2>1 DEF NormalStep, NormalState, UnchangedInNormal, ScreenMoves
<1>3. CASE Menus
  BY <1>3 DEF Menus, AlarmEditor, TimerEditor, BootOptions, Emulator, Diagnostics, WifiSetup,
     Calibration, Stay, Goto, requestState, ScreenMoves
<1>4. CASE AlarmRinging \/ TimerFinished
  BY <1>4 DEF AlarmRinging, RingingStays, snoozeActiveAlarm, dismissActiveAlarm, TimerFinished,
     TimerFinishedStays, dismissTimer, ScreenMoves
<1> QED BY <1>1, <1>2, <1>3, <1>4 DEF Screen, StartUp, Menus

(* When no timer expires in WIFI_SETUP, the portal is open on that screen  *)
(* and until the tick that leaves it; BOOT_OPTIONS alone leads there, and  *)
(* no finished timer waits there to take the screen.                       *)
PortalFollowsScreen ==
    /\ portal => IF phase = "apply" THEN last = "WifiSetup" ELSE current = "WifiSetup"
    /\ requested = "WifiSetup" => phase = "apply" /\ current = "BootOptions"
    /\ timer = "done" => IF phase \in {"apply", "screen"} THEN current \in Announcing
                         ELSE current # "WifiSetup"

LEMMA NextPortal ==
  ASSUME "expiry" \notin Features
  PROVE  IInv /\ PortalFollowsScreen /\ [Next]_vars => PortalFollowsScreen'
<1> SUFFICES ASSUME IInv, PortalFollowsScreen, [Next]_vars PROVE PortalFollowsScreen'
  OBVIOUS
<1>1. CASE ApplyRequest
  BY <1>1 DEF ApplyRequest, MayExpire, Has, PortalFollowsScreen, Announcing
<1>2. CASE Services
  <2>1. PICK state \in {requested, "Normal", "BootPlugins"} : EndServices(state)
    BY <1>2 DEF Services, NoCommand, applyControlScreensaver, previewControlLoadingScreen,
       previewControlSound, playMqttSound, stopMqttSound, showMqttMessage, controlMqttTimer,
       applyControlAlarm, beginControlPanelNetworkTransfer, endControlPanelNetworkTransfer
  <2>2. timer' \in {timer, "running", "idle"}
    BY <1>2 DEF Services, NoCommand, applyControlScreensaver, previewControlLoadingScreen,
       previewControlSound, playMqttSound, stopMqttSound, showMqttMessage, controlMqttTimer,
       applyControlAlarm, beginControlPanelNetworkTransfer, endControlPanelNetworkTransfer
  <2> QED BY <2>1, <2>2 DEF EndServices, syncUpdatePrompt, PortalFollowsScreen
<1>3. CASE PlayPreview
  BY <1>3 DEF PlayPreview, PortalFollowsScreen
<1>4. CASE AlarmPoll \/ NoAlarmPoll
  BY <1>4 DEF AlarmPoll, NoAlarmPoll, PortalFollowsScreen, Polled
<1>5. CASE TimerAnnounced \/ TimerNotAnnounced
  BY <1>5 DEF TimerAnnounced, TimerNotAnnounced, PortalFollowsScreen, Announcing
<1>6. CASE Screen
  <2>1. PICK state, request :
          /\ EndTick(state, request)
          /\ \/ state = current
             \/ /\ current \in {"WaitFloppy1", "WaitFloppy2"}
                /\ state \in {"FloppyInserted", "WaitFloppy1"}
          /\ request = "WifiSetup" => current = "BootOptions" \/ requested = "WifiSetup"
    BY <1>6, SwitchMoves DEF ScreenMoves
  <2>2. /\ portal' => portal \/ current = "WifiSetup"
        /\ timer' = "done" => timer = "done"
    BY <1>6, SwitchMoves DEF ScreenMoves
  <2> QED BY <2>1, <2>2 DEF EndTick, PortalFollowsScreen, Announcing
<1>7. CASE AudioFinishes \/ ClockTurns \/ PromptFound
  BY <1>7 DEF AudioFinishes, ClockTurns, PromptFound, PortalFollowsScreen
<1>8. CASE UNCHANGED vars
  BY <1>8 DEF vars, PortalFollowsScreen
<1> QED BY <1>1, <1>2, <1>3, <1>4, <1>5, <1>6, <1>7, <1>8 DEF Next, Tick

(* The setup access point is up only while WIFI_SETUP is active, with any  *)
(* features but a timer that expires there: tick() closes it when a        *)
(* request takes the screen, and nothing but a timer takes it otherwise.   *)
THEOREM PortalCloses ==
  ASSUME "expiry" \notin Features
  PROVE  Spec => []PortalOnlyInWifiSetup
<1>1. Init => PortalFollowsScreen
  BY DEF Init, PortalFollowsScreen
<1>2. PortalFollowsScreen => PortalOnlyInWifiSetup
  BY DEF PortalFollowsScreen, PortalOnlyInWifiSetup
<1> QED BY <1>1, <1>2, NextPortal, Inductive, PTL DEF Spec

-----------------------------------------------------------------------------
(* When nothing but a key requests another screen while an alarm may be    *)
(* polled (no release is found, no control panel asks for screens), no     *)
(* request waits behind the poll, and the sound of an alarm has its screen.*)
SoundHasScreen ==
    /\ ~prompt
    /\ phase # "apply" => requested = "None"
    /\ \A i \in Alarms :
          sound = AlarmSound(i) => current = "AlarmRinging" /\ active = i /\ requested = "None"

LEMMA AlarmSoundsDiffer ==
  /\ \A i \in Alarms : NoSound # AlarmSound(i)
  /\ \A owner \in Owners, i \in Alarms : Sound(owner) # AlarmSound(i)
  /\ \A i, j : AlarmSound(i) = AlarmSound(j) => i = j
BY DEF NoSound, Sound, AlarmSound, Owners

(* Off the ringing screen the switch starts no alarm sound.                *)
Quiet == sound' = sound \/ sound' = NoSound \/ \E owner \in Owners : sound' = Sound(owner)

LEMMA NextSound ==
  ASSUME "prompt" \notin Features, "remote" \notin Features
  PROVE  IInv /\ SoundHasScreen /\ [Next]_vars => SoundHasScreen'
<1> SUFFICES ASSUME IInv, SoundHasScreen, [Next]_vars PROVE SoundHasScreen'
  OBVIOUS
<1> USE AlarmSoundsDiffer
<1>1. CASE ApplyRequest
  BY <1>1 DEF ApplyRequest, SoundHasScreen, audioVars, remoteVars
<1>2. CASE Services
  <2>1. EndServices(requested)
    BY <1>2 DEF Services, NoCommand, applyControlScreensaver, previewControlLoadingScreen,
       previewControlSound, playMqttSound, stopMqttSound, showMqttMessage, controlMqttTimer,
       applyControlAlarm, beginControlPanelNetworkTransfer, endControlPanelNetworkTransfer, Has
  <2>2. Quiet
    BY <1>2 DEF Services, NoCommand, applyControlScreensaver, previewControlLoadingScreen,
       previewControlSound, playMqttSound, stopMqttSound, showMqttMessage, controlMqttTimer,
       applyControlAlarm, beginControlPanelNetworkTransfer, endControlPanelNetworkTransfer,
       SuspendAudio, play, stop, audioVars, Quiet, Owners
  <2> QED BY <2>1, <2>2 DEF EndServices, syncUpdatePrompt, SoundHasScreen, Quiet
<1>3. CASE DueAndTimer
  <2>1. /\ Quiet
        /\ requested' = requested /\ phase # "apply" /\ prompt' = prompt
    BY <1>3 DEF DueAndTimer, PlayPreview, AlarmPoll, NoAlarmPoll, TimerAnnounced,
       TimerNotAnnounced, maybe_start_chime, play, audioVars, remoteVars, Quiet, Owners
  <2>2. current = "AlarmRinging" => UNCHANGED <<current, active>>
    BY <1>3 DEF DueAndTimer, PlayPreview, AlarmPoll, NoAlarmPoll, TimerAnnounced,
       TimerNotAnnounced, Polled, Announcing
  <2> QED BY <2>1, <2>2 DEF SoundHasScreen, Quiet
<1>4. CASE Screen
  <2>1. phase' = "apply" /\ ~prompt' /\ requested = "None"
    <3>1. phase = "screen" /\ phase' = "apply"
      BY <1>4, SwitchMoves DEF ScreenMoves, EndTick
    <3>2. prompt' = prompt
      BY <1>4, NormalFacts DEF IInv, TypeOK, Screen, NormalStep, UnchangedInNormal, EmptyScreen,
         WaitStartupSound, WaitFloppy1, WaitFloppy2, FloppyInserted, BootPlugins,
         WaitFloppySound, AlarmEditor, TimerEditor, BootOptions, Emulator, Diagnostics,
         WifiSetup, Calibration, Stay, Goto, AlarmRinging, RingingStays, snoozeActiveAlarm,
         dismissActiveAlarm, TimerFinished, TimerFinishedStays, dismissTimer, remoteVars
    <3> QED BY <3>1, <3>2 DEF SoundHasScreen
  <2>2. CASE AlarmRinging
    <3>1. phase = "screen" /\ active \in Alarms
      BY <2>2 DEF IInv, RingingCanBeStopped, AlarmRinging, RingingStays, snoozeActiveAlarm,
         dismissActiveAlarm, EndTick
    <3>2. CASE RingingStays
      <4>1. sound' \in {sound, NoSound, AlarmSound(active)}
        BY <3>2 DEF RingingStays, Ring, play, takeFinished
      <4>2. current' = "AlarmRinging" /\ active' = active /\ requested' = requested
        BY <3>2 DEF RingingStays, EndTick
      <4> QED BY <2>1, <3>1, <4>1, <4>2 DEF SoundHasScreen
    <3>3. CASE snoozeActiveAlarm \/ dismissActiveAlarm
      <4>1. sound' = NoSound
        BY <3>3 DEF snoozeActiveAlarm, dismissActiveAlarm, stop
      <4> QED BY <2>1, <4>1 DEF SoundHasScreen
    <3> QED BY <2>2, <3>2, <3>3 DEF AlarmRinging
  <2>3. CASE current # "AlarmRinging"
    <3>1. CASE Normal
      <4>1. sound' = sound
        BY <3>1, NormalFacts DEF IInv, TypeOK, NormalStep, UnchangedInNormal, audioVars
      <4> QED BY <2>1, <2>3, <4>1 DEF SoundHasScreen
    <3>2. CASE ~Normal
      <4>1. Quiet
        BY <1>4, <2>3, <3>2 DEF Screen, EmptyScreen, WaitStartupSound, WaitFloppy1, WaitFloppy2,
           FloppyInserted, BootPlugins, WaitFloppySound, AlarmEditor, TimerEditor, BootOptions,
           Emulator, Diagnostics, WifiSetup, Calibration, Stay, Goto, AlarmRinging, RingingStays,
           snoozeActiveAlarm, dismissActiveAlarm, TimerFinished, TimerFinishedStays,
           dismissTimer, SuspendAudio, play, stop, takeFinished, audioVars, Quiet, Owners
      <4> QED BY <2>1, <2>3, <4>1 DEF SoundHasScreen, Quiet
    <3> QED BY <3>1, <3>2
  <2>4. current = "AlarmRinging" => AlarmRinging
    BY <1>4 DEF Screen, EmptyScreen, WaitStartupSound, WaitFloppy1, WaitFloppy2, FloppyInserted,
       BootPlugins, WaitFloppySound, Normal, NormalLaunch, NormalScreensaver,
       NormalScreensaverStarts, NormalKeys, NormalState, AlarmEditor, TimerEditor, BootOptions,
       Emulator, Diagnostics, WifiSetup, Calibration, Stay, Goto, TimerFinished,
       TimerFinishedStays, dismissTimer
  <2> QED BY <2>2, <2>3, <2>4
<1>5. CASE AudioFinishes \/ ClockTurns \/ PromptFound
  BY <1>5 DEF AudioFinishes, ClockTurns, PromptFound, Has, SoundHasScreen, audioVars, remoteVars
<1>6. CASE UNCHANGED vars
  BY <1>6 DEF vars, audioVars, remoteVars, SoundHasScreen
<1> QED BY <1>1, <1>2, <1>3, <1>4, <1>5, <1>6 DEF Next, Tick, DueAndTimer

(* The sound of an alarm is heard only while the keys reach that alarm,    *)
(* unless the update prompt or the control panel asks for a screen in the  *)
(* tick that polls the alarm.                                              *)
THEOREM SoundStoppable ==
  ASSUME "prompt" \notin Features, "remote" \notin Features
  PROVE  Spec => []AlarmSoundCanBeStopped
<1>1. Init => SoundHasScreen
  BY AlarmSoundsDiffer DEF Init, SoundHasScreen
<1>2. SoundHasScreen => AlarmSoundCanBeStopped
  BY DEF SoundHasScreen, AlarmSoundCanBeStopped
<1> QED BY <1>1, <1>2, NextSound, Inductive, PTL DEF Spec
-----------------------------------------------------------------------------
(* A lapsed snooze has an alarm to ring: the tick forgets the answer of    *)
(* the last poll, which is a step of the clock only while this holds.      *)
LapsedIsSnoozed == lapsed => snoozed # None

(* What each part of the tick does to the alarm service.                   *)
LEMMA AlarmSteps ==
  ASSUME IInv, LapsedIsSnoozed, [Next]_vars
  PROVE  [AlarmNext]_alarmVars
<1>1. CASE ApplyRequest
  BY <1>1 DEF ApplyRequest, LapsedIsSnoozed, AlarmNext, ClockMoves, IInv, TypeOK, AlarmTypeOK
<1>2. CASE Services
  BY <1>2 DEF Services, NoCommand, applyControlScreensaver, previewControlLoadingScreen,
     previewControlSound, playMqttSound, stopMqttSound, showMqttMessage, controlMqttTimer,
     applyControlAlarm, beginControlPanelNetworkTransfer, endControlPanelNetworkTransfer,
     AlarmNext
<1>3. CASE DueAndTimer
  BY <1>3 DEF DueAndTimer, PlayPreview, AlarmPoll, NoAlarmPoll, TimerAnnounced,
     TimerNotAnnounced, AlarmNext
<1>4. CASE StartUp
  BY <1>4 DEF StartUp, EmptyScreen, WaitStartupSound, WaitFloppy1, WaitFloppy2,
     FloppyInserted, BootPlugins, WaitFloppySound
<1>5. CASE Normal
  BY <1>5, NormalFacts DEF IInv, TypeOK, NormalStep, UnchangedInNormal
<1>6. CASE Menus
  BY <1>6 DEF Menus, AlarmEditor, TimerEditor, BootOptions, Emulator, Diagnostics, WifiSetup,
     Calibration, Stay, Goto, AlarmNext
<1>7. CASE AlarmRinging
  <2>1. active \in Alarms \/ UNCHANGED alarmVars
    BY <1>7 DEF IInv, RingingCanBeStopped, AlarmRinging, RingingStays, snoozeActiveAlarm,
       dismissActiveAlarm, EndTick
  <2> QED BY <1>7, <2>1 DEF AlarmRinging, RingingStays, snoozeActiveAlarm, dismissActiveAlarm,
     AlarmNext
<1>8. CASE TimerFinished
  BY <1>8 DEF TimerFinished, TimerFinishedStays, dismissTimer
<1>9. CASE AudioFinishes \/ ClockTurns \/ PromptFound
  BY <1>9 DEF AudioFinishes, ClockTurns, PromptFound, AlarmNext
<1>10. CASE UNCHANGED vars
  BY <1>10 DEF vars
<1> QED BY <1>1, <1>2, <1>3, <1>4, <1>5, <1>6, <1>7, <1>8, <1>9, <1>10
   DEF Next, Tick, DueAndTimer, Screen, StartUp, Menus

LEMMA KeepsLapsedIsSnoozed ==
  ASSUME LapsedIsSnoozed, [AlarmNext]_alarmVars
  PROVE  LapsedIsSnoozed'
BY DEF LapsedIsSnoozed, AlarmNext, alarmVars, Poll, Snooze, Dismiss, ClockMoves, MinuteTurns,
   Reconfigure, Restart

(* The application uses the alarm service as AlarmClock promises it: the   *)
(* alarm part of every behaviour is a behaviour of AlarmClock, with each   *)
(* snooze that of an alarm. AlarmService implements the same module, so    *)
(* the two fit together.                                                   *)
THEOREM AppKeepsTheContract == Spec => AlarmSpec
<1>1. Init => AlarmInit /\ LapsedIsSnoozed
  BY DEF Init, AlarmInit, LapsedIsSnoozed
<1>2. IInv /\ LapsedIsSnoozed /\ [Next]_vars => [AlarmNext]_alarmVars /\ LapsedIsSnoozed'
  BY AlarmSteps, KeepsLapsedIsSnoozed
<1> QED BY <1>1, <1>2, Inductive, PTL DEF Spec, AlarmSpec

-----------------------------------------------------------------------------
(* An announcement that opens in the tick that began on the same screen is *)
(* not entered: an alarm polled right after another one was dismissed.     *)
OpensAgain == \E screen \in Announcing : current # screen /\ current' = screen /\ last = screen

LEMMA NextHeard ==
  ASSUME "stop" \notin Features, "transfer" \notin Features, "failure" \notin Features
  PROVE  IInv /\ AnnouncementIsHeard /\ [Next]_vars /\ [~OpensAgain]_vars => AnnouncementIsHeard'
<1> SUFFICES ASSUME IInv, AnnouncementIsHeard, [Next]_vars, [~OpensAgain]_vars
             PROVE  AnnouncementIsHeard'
  OBVIOUS
<1> USE AlarmSoundsDiffer DEF AnnouncementIsHeard, running
<1>0. /\ current' \in Announcing /\ current' # current => last # current'
  BY DEF OpensAgain, vars
<1>1. CASE ApplyRequest
  BY <1>1, <1>0 DEF ApplyRequest, audioVars, IInv, OnlyPollRings
<1>2. CASE Services
  <2>1. UNCHANGED <<current, last>> /\ phase = "services" /\ phase' = "due"
    BY <1>2 DEF Services, NoCommand, applyControlScreensaver, previewControlLoadingScreen,
       previewControlSound, playMqttSound, stopMqttSound, showMqttMessage, controlMqttTimer,
       applyControlAlarm, beginControlPanelNetworkTransfer, endControlPanelNetworkTransfer,
       EndServices
  <2>2. UNCHANGED <<sound, finished>> \/ sound' # NoSound
    BY <1>2 DEF Services, NoCommand, applyControlScreensaver, previewControlLoadingScreen,
       previewControlSound, playMqttSound, stopMqttSound, showMqttMessage, controlMqttTimer,
       applyControlAlarm, beginControlPanelNetworkTransfer, endControlPanelNetworkTransfer,
       Has, play, audioVars, Sound, NoSound
  <2> QED BY <2>1, <2>2
<1>3. CASE DueAndTimer
  <2>1. UNCHANGED <<sound, finished>> \/ sound' # NoSound
    BY <1>3 DEF DueAndTimer, PlayPreview, AlarmPoll, NoAlarmPoll, TimerAnnounced,
       TimerNotAnnounced, maybe_start_chime, Has, play, audioVars, Sound, NoSound
  <2>2. last' = last /\ phase # "apply"
    BY <1>3 DEF DueAndTimer, PlayPreview, AlarmPoll, NoAlarmPoll, TimerAnnounced,
       TimerNotAnnounced
  <2> QED BY <2>1, <2>2, <1>0
<1>4. CASE Screen
  <2>1. CASE AlarmRinging
    <3>1. phase = "screen" /\ active \in Alarms /\ active # None
      BY <2>1, MaclockAppAssumption DEF IInv, RingingCanBeStopped, AlarmRinging, RingingStays,
         snoozeActiveAlarm, dismissActiveAlarm, EndTick, None
    <3> QED BY <2>1, <3>1 DEF AlarmRinging, RingingStays, snoozeActiveAlarm,
       dismissActiveAlarm, EndTick, Ring, play, takeFinished, Has, Announcing, entered
  <2>2. CASE TimerFinished
    BY <2>2 DEF TimerFinished, TimerFinishedStays, dismissTimer, EndTick, play, takeFinished,
       Has, Sound, NoSound, Announcing, entered
  <2>3. CASE StartUp
    BY <2>3 DEF StartUp, EmptyScreen, WaitStartupSound, WaitFloppy1,
       WaitFloppy2, FloppyInserted, BootPlugins, WaitFloppySound, EndTick, Announcing
  <2>4. CASE Normal
    BY <2>4, NormalFacts DEF IInv, TypeOK, NormalStep, NormalState, EndTick, Announcing
  <2>5. CASE Menus
    BY <2>5 DEF Menus, AlarmEditor, TimerEditor, BootOptions, Emulator, Diagnostics, WifiSetup,
       Calibration, Stay, Goto, EndTick, Announcing
  <2> QED BY <1>4, <2>1, <2>2, <2>3, <2>4, <2>5 DEF Screen, StartUp, Menus
<1>5. CASE AudioFinishes \/ ClockTurns \/ PromptFound
  BY <1>5 DEF AudioFinishes, ClockTurns, PromptFound, audioVars
<1>6. CASE UNCHANGED vars
  BY <1>6 DEF vars, audioVars
<1> QED BY <1>1, <1>2, <1>3, <1>4, <1>5, <1>6 DEF Next, Tick, DueAndTimer

(* Nothing but MQTT's stop, a transfer or a sound that cannot be played    *)
(* silences an announcement, except that one opens in the tick that began  *)
(* on the same screen (the silent ring): chimes, previews, MQTT sounds,    *)
(* other timers, menus and requests of the panel do not.                   *)
THEOREM AnnouncementsAreHeard ==
  ASSUME "stop" \notin Features, "transfer" \notin Features, "failure" \notin Features
  PROVE  Spec /\ [][~OpensAgain]_vars => []AnnouncementIsHeard
<1>1. Init => AnnouncementIsHeard
  BY DEF Init, AnnouncementIsHeard, Announcing
<1> QED BY <1>1, NextHeard, Inductive, PTL DEF Spec

-----------------------------------------------------------------------------
(* What a step may do to the sounds                                        *)
SoundStep ==
    \/ UNCHANGED audioVars
    \/ finished' = FALSE /\ suspended' = suspended
    \/ sound' = NoSound /\ finished' = FALSE /\ suspended' \in BOOLEAN
    \/ suspended' = FALSE /\ UNCHANGED <<sound, finished>>
    \/ AudioFinishes

LEMMA SoundSteps ==
  ASSUME IInv, [Next]_vars
  PROVE  SoundStep
<1> USE DEF SoundStep, audioVars
<1>1. CASE ApplyRequest
  BY <1>1 DEF ApplyRequest
<1>2. CASE Services
  BY <1>2 DEF Services, NoCommand, applyControlScreensaver, previewControlLoadingScreen,
     previewControlSound, playMqttSound, stopMqttSound, showMqttMessage, controlMqttTimer,
     applyControlAlarm, beginControlPanelNetworkTransfer, endControlPanelNetworkTransfer,
     SuspendAudio, play, stop
<1>3. CASE DueAndTimer
  BY <1>3 DEF DueAndTimer, PlayPreview, AlarmPoll, NoAlarmPoll, TimerAnnounced,
     TimerNotAnnounced, maybe_start_chime, play
<1>4. CASE StartUp
  <2>1. finished \in BOOLEAN
    BY DEF IInv, TypeOK, SoundTypeOK
  <2> QED BY <1>4, <2>1 DEF StartUp, EmptyScreen, WaitStartupSound, WaitFloppy1, WaitFloppy2,
     FloppyInserted, BootPlugins, WaitFloppySound, play, takeFinished
<1>5. CASE Normal
  BY <1>5, NormalFacts DEF IInv, TypeOK, NormalStep, UnchangedInNormal
<1>6. CASE Menus
  BY <1>6 DEF Menus, AlarmEditor, TimerEditor, BootOptions, Emulator, Diagnostics, WifiSetup,
     Calibration, Stay, Goto, SuspendAudio, play
<1>7. CASE AlarmRinging
  BY <1>7 DEF AlarmRinging, RingingStays, Ring, snoozeActiveAlarm, dismissActiveAlarm, play, stop,
     takeFinished
<1>8. CASE TimerFinished
  BY <1>8 DEF TimerFinished, TimerFinishedStays, dismissTimer, play, stop, takeFinished
<1>9. CASE AudioFinishes \/ ClockTurns \/ PromptFound
  BY <1>9 DEF ClockTurns, PromptFound
<1>10. CASE UNCHANGED vars
  BY <1>10 DEF vars
<1> QED BY <1>1, <1>2, <1>3, <1>4, <1>5, <1>6, <1>7, <1>8, <1>9, <1>10
   DEF Next, Tick, DueAndTimer, Screen, StartUp, Menus

LEMMA PlayerStep ==
  ASSUME SoundStep
  PROVE  [Player!Next]_<<running, finished, suspended>>
<1> USE DEF Player!Next, running
<1>1. CASE UNCHANGED audioVars
  BY <1>1 DEF audioVars
<1>2. CASE finished' = FALSE /\ suspended' = suspended
  BY <1>2 DEF Player!Play
<1>3. CASE sound' = NoSound /\ finished' = FALSE /\ suspended' \in BOOLEAN
  BY <1>3 DEF Player!Silence
<1>4. CASE suspended' = FALSE /\ UNCHANGED <<sound, finished>>
  BY <1>4 DEF Player!Thaw
<1>5. CASE AudioFinishes
  BY <1>5 DEF AudioFinishes, Player!Finish
<1> QED BY <1>1, <1>2, <1>3, <1>4, <1>5 DEF SoundStep

(* The application uses its sounds as SoundPlayer allows, and takes of the *)
(* player's own steps the end of a sound that plays and is not suspended.  *)
(* The audio service keeps the same promise (SoundsAsPromised), so that    *)
(* the two fit together.                                                   *)
THEOREM AppPlaysAsPromised == Spec => PlaysAsPromised
<1>1. Init => Player!Init
  BY DEF Init, Player!Init, running
<1>2. IInv /\ [Next]_vars => [Player!Next]_<<running, finished, suspended>>
  BY SoundSteps, PlayerStep
<1> QED BY <1>1, <1>2, Inductive, PTL DEF Spec, Player!Spec, PlaysAsPromised
=============================================================================
