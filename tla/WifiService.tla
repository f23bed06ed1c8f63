---------------------------- MODULE WifiService -----------------------------
(***************************************************************************)
(* The Wi-Fi service (src/wifi_mode.cpp): its worker task, which connects, *)
(* looks the city up, fetches the forecast and sets the time, against the  *)
(* application, which saves settings, restores backups, opens the setup    *)
(* portal and lends the driver to the emulator.                            *)
(*                                                                         *)
(* The two tasks share the settings and the snapshot, guarded by g_lock    *)
(* for one assignment at a time, and the volatile flags of pause(). The    *)
(* worker reads its settings once per loop and works on that copy, so each *)
(* request is a state between two steps in which the application runs.     *)
(*                                                                         *)
(* Preferences are written one key after the other, and the power may be   *)
(* cut between any two of these writes.                                    *)
(*                                                                         *)
(* A city stands for everything that is looked up for it: its country, its *)
(* latitude and longitude, its UTC offset and its forecast. Of the network *)
(* name it is kept whether there is one. Passwords are left out, and of    *)
(* the status texts it is kept whether they begin with "Online", which is  *)
(* what the other services ask.                                            *)
(*                                                                         *)
(* A delay ends at any time after it began. Of millis() it is kept in      *)
(* which half of its range it is (era), for a next_connection_attempt of   *)
(* zero stands for an attempt at once and is compared as a signed number.  *)
(***************************************************************************)
EXTENDS Naturals

CONSTANTS
    Cities,        \* the cities that may be configured
    Home,          \* those that a device may have been set up for
    Backups,       \* the settings that backups hold
    Slow,          \* whether a request may outlast the 15 s of pause()
    MaxEvents      \* bound: saves outside the portal, restores, pauses, restarts
                   \* and half ranges of millis() in a run

None == "none"

ASSUME WifiServiceAssumption ==
    /\ Cities # {} /\ None \notin Cities /\ Home \subseteq Cities
    /\ Slow \in BOOLEAN
    /\ MaxEvents \in Nat

Places == Cities \cup {None}

Settings ==
    [ enabled   : BOOLEAN,
      network   : BOOLEAN,       \* there is an ssid
      city      : Places,        \* the name of the city
      country   : Places,        \* the city that the country belongs to
      valid     : BOOLEAN,       \* coordinates_valid
      latitude  : Places,        \* the cities that these belong to
      longitude : Places,
      offset    : Places ]       \* the city that utc_offset_seconds belongs to

Fresh ==
    [ enabled |-> FALSE, network |-> FALSE, city |-> None, country |-> None,
      valid |-> FALSE, latitude |-> None, longitude |-> None, offset |-> None ]

(* The settings after all has been looked up, or before.                   *)
Complete(enabled, city, valid) ==
    LET known == IF valid THEN city ELSE None
    IN  [ enabled |-> enabled, network |-> TRUE, city |-> city, country |-> city,
          valid |-> valid, latitude |-> known, longitude |-> known, offset |-> known ]

(* backupSettings on a device that was set up.                             *)
ASSUME BackupsAssumption ==
    Backups \subseteq {Complete(enabled, city, valid) :
                        enabled \in BOOLEAN, city \in Cities, valid \in BOOLEAN}

Configured(s) == s.network /\ s.city # None

(* What a save leaves to remember: the user's choice.                      *)
Choice(s) == [Fresh EXCEPT !.enabled = s.enabled, !.network = s.network,
                              !.city = s.city, !.country = s.country]

(* The city where the coordinates are, and the one that a lookup finds: a  *)
(* name with another city's country is that of another place or of none.   *)
Where(s) == IF s.latitude = s.longitude THEN s.latitude ELSE None
Found(s) == IF s.country \in {s.city, None} THEN s.city ELSE None

VARIABLES
    pc,            \* where wifi_task is, "none" before startTask
    copy,          \* settings of the current pass of wifi_task
    loop,          \* its locals: connection_pending, station_was_connected, forecast_updated
    due,           \* g_last_forecast_ms and g_last_ntp_ms are 0 or long ago
    asap,          \* next_connection_attempt is 0
    era,           \* 0, 1, 2: millis() is below 2^31, above it, has wrapped
    mem,           \* g_settings
    nvs,           \* the settings in Preferences
    snapshot,      \* g_snapshot
    sync,          \* g_pending_local_epoch: the city of its offset, None when not pending
    clock,         \* the city whose offset the RTC was last set with
    flags,         \* pause_requested, pause_acknowledged, portal_active
    restore,       \* g_pending_restore with restore_pending, and whether it is due
    driver,        \* the Arduino Wi-Fi driver
    app,           \* what the application does
    seen,          \* service_wifi.connected of the current tick
    answered,      \* history: pause() ended because the worker had stopped
    puts,          \* the keys that the application has still to write to Preferences
    wish,          \* what it writes: history of what was saved last
    torn,          \* history: a save met a lookup or a restore, or was cut off
    events         \* bound: how many events there were

workerVars == <<pc, copy, loop, due, asap>>
dataVars   == <<mem, nvs, sync, restore>>
saveVars   == <<puts, wish>>
appVars    == <<app, seen, clock, answered, events, puts, wish, torn>>
vars == <<workerVars, dataVars, snapshot, flags, driver, era, appVars>>

Requests == {"geocode", "forecast", "ntp"}

Pcs == {"none", "restore", "apply", "pause", "waiting", "leaving", "settings", "station",
        "latitude", "longitude", "country", "located", "offset", "refreshed",
        "online", "store"} \cup Requests

(* Where the worker writes the coordinates of a city key by key.           *)
Stores == {"store", "latitude", "longitude", "country"}

Apps == {"ticking", "restoring", "delaying", "for_portal", "for_emulator", "scanning", "portal",
         "emulator"}

Locals    == [pending : BOOLEAN, was_connected : BOOLEAN, updated : BOOLEAN]
Stamps    == [forecast : BOOLEAN, ntp : BOOLEAN]
Snapshots == [enabled : BOOLEAN, connected : BOOLEAN, online : BOOLEAN, forecast : Places]
Flags     == [pause : BOOLEAN, acknowledged : BOOLEAN, portal : BOOLEAN]
Restores  == [state : {"none", "waiting", "due"}, settings : Settings]

AllDue == [forecast |-> TRUE, ntp |-> TRUE]

(* The keys in the order in which every save writes those that it writes.  *)
Order == <<"enabled", "network", "city", "country", "valid", "latitude", "longitude", "offset">>
Keys == {Order[i] : i \in 1 .. 8}

(* A backup is in Preferences, or is about to be, and is not in use yet.   *)
Restoring == app \in {"restoring", "delaying"} \/ restore.state # "none"

NoRestore == [state |-> "none", settings |-> Fresh]

-----------------------------------------------------------------------------
(* The worker: one pass of wifi_task after the other                       *)
Goes(place) == pc' = place

(* The settings are a local of the loop's body.                            *)
NextPass == pc' = "restore" /\ copy' = Fresh

Paused == flags.pause \/ flags.portal

(* disconnect_wifi                                                         *)
disconnect_wifi ==
    /\ driver' = "off"
    /\ snapshot' = [snapshot EXCEPT !.connected = FALSE]

Disconnected(text) ==
    /\ driver' = "off"
    /\ snapshot' = [snapshot EXCEPT !.connected = FALSE, !.online = text]

set_status(s) == [s EXCEPT !.online = FALSE]

(* What apply_backup_settings leaves in g_settings and g_snapshot.         *)
Applied(s) ==
    /\ mem' = s
    /\ snapshot' = [enabled |-> s.enabled, connected |-> FALSE, online |-> FALSE,
                      forecast |-> None]

NothingPending ==
    /\ pc = "restore"
    /\ restore.state # "due"
    /\ Goes("pause")
    /\ UNCHANGED <<copy, loop, due, asap, dataVars, snapshot, flags, driver, era, appVars>>

(* The pending settings are copied, then the flag is cleared and they are  *)
(* applied.                                                                *)
TakeRestore ==
    /\ pc = "restore"
    /\ restore.state = "due"
    /\ copy' = restore.settings
    /\ Goes("apply")
    /\ UNCHANGED <<loop, due, asap, dataVars, snapshot, flags, driver, era, appVars>>

apply_backup_settings ==
    /\ pc = "apply"
    /\ restore' = NoRestore
    /\ Applied(copy)
    /\ due' = AllDue
    /\ driver' = "off"
    /\ asap' = TRUE
    /\ loop' = [loop EXCEPT !.pending = FALSE, !.was_connected = FALSE]
    /\ Goes("pause")
    /\ copy' = Fresh
    /\ UNCHANGED <<nvs, sync, flags, era, appVars>>

NotPaused ==
    /\ pc = "pause"
    /\ ~Paused
    /\ Goes("settings")
    /\ UNCHANGED <<copy, loop, due, asap, dataVars, snapshot, flags, driver, era, appVars>>

Acknowledge ==
    /\ pc = "pause"
    /\ Paused
    /\ disconnect_wifi
    /\ flags' = [flags EXCEPT !.acknowledged = TRUE]
    /\ Goes("waiting")
    /\ UNCHANGED <<copy, loop, due, asap, dataVars, era, appVars>>

(* Mutant of WaitEnds: pause_requested is not looked at.                 *)
MutWaitsForPortalOnly ==
    /\ pc = "waiting"
    /\ ~flags.portal
    /\ Goes("leaving")
    /\ UNCHANGED <<copy, loop, due, asap, dataVars, snapshot, flags, driver, era, appVars>>

(* The flags are tested every 100 ms; a pause that begins after the last   *)
(* test and before the acknowledgement is withdrawn is not noticed.        *)
WaitEnds ==
    /\ pc = "waiting"
    /\ ~Paused
    /\ Goes("leaving")
    /\ UNCHANGED <<copy, loop, due, asap, dataVars, snapshot, flags, driver, era, appVars>>

WithdrawAcknowledgement ==
    /\ pc = "leaving"
    /\ flags' = [flags EXCEPT !.acknowledged = FALSE]
    /\ asap' = TRUE
    /\ loop' = [loop EXCEPT !.pending = FALSE, !.was_connected = FALSE]
    /\ Goes("settings")
    /\ UNCHANGED <<copy, due, dataVars, snapshot, driver, era, appVars>>

(* Wi-Fi is disabled, or setup is required.                                *)
NothingToDo ==
    /\ pc = "settings"
    /\ ~(mem.enabled /\ Configured(mem))
    /\ Disconnected(FALSE)
    /\ NextPass
    /\ UNCHANGED <<loop, due, asap, dataVars, flags, era, appVars>>

(* Mutant of settings_snapshot: setup counts as done when there is an ssid. *)
MutWithoutCity ==
    /\ pc = "settings"
    /\ copy' = mem
    /\ mem.enabled /\ mem.network
    /\ torn' = (torn \/ (Restoring /\ ~mem.valid))
    /\ Goes("station")
    /\ UNCHANGED <<loop, due, asap, dataVars, snapshot, flags, driver, era, app, seen,
                   clock, answered, events, saveVars>>

settings_snapshot ==
    /\ pc = "settings"
    /\ copy' = mem
    /\ mem.enabled /\ Configured(mem)
    /\ torn' = (torn \/ (Restoring /\ ~mem.valid))
    /\ Goes("station")
    /\ UNCHANGED <<loop, due, asap, dataVars, snapshot, flags, driver, era, app, seen,
                   clock, answered, events, saveVars>>

-----------------------------------------------------------------------------
(* The station: connecting, waiting and trying again                       *)

(* The signed difference of millis() and next_connection_attempt is        *)
(* negative: for some time after a failure, and for zero in the second     *)
(* half of the range.                                                      *)
AttemptAhead == IF asap THEN era = 1 ELSE TRUE

(* It is not negative.                                                     *)
AttemptDue == asap => era # 1

Offline == pc = "station" /\ driver # "connected"

StillConnecting ==
    /\ Offline
    /\ loop.pending
    /\ loop' = [loop EXCEPT !.was_connected = FALSE]
    /\ NextPass
    /\ UNCHANGED <<due, asap, dataVars, snapshot, flags, driver, era, appVars>>

ConnectionDeadline ==
    /\ Offline
    /\ loop.pending
    /\ loop' = [loop EXCEPT !.was_connected = FALSE, !.pending = FALSE]
    /\ Disconnected(FALSE)
    /\ asap' = FALSE
    /\ NextPass
    /\ UNCHANGED <<due, dataVars, flags, era, appVars>>

WaitForAttempt ==
    /\ Offline
    /\ ~loop.pending
    /\ AttemptAhead
    /\ loop' = [loop EXCEPT !.was_connected = FALSE]
    /\ NextPass
    /\ UNCHANGED <<due, asap, dataVars, snapshot, flags, driver, era, appVars>>

begin_station_connection ==
    /\ Offline
    /\ ~loop.pending
    /\ AttemptDue
    /\ loop' = [loop EXCEPT !.was_connected = FALSE, !.pending = TRUE]
    /\ snapshot' = set_status(snapshot)
    /\ driver' = "station"
    /\ NextPass
    /\ UNCHANGED <<due, asap, dataVars, flags, era, appVars>>

(* The first pass of a connection makes forecast and time due. Coordinates *)
(* that are not valid are looked up before anything else.                  *)
Connected ==
    /\ pc = "station"
    /\ driver = "connected"
    /\ asap' = TRUE
    /\ due' = IF loop.was_connected THEN due ELSE AllDue
    /\ loop' = [pending |-> FALSE, was_connected |-> TRUE, updated |-> FALSE]
    /\ snapshot' = [snapshot EXCEPT !.connected = TRUE, !.online = @ /\ copy.valid]
    /\ Goes(IF copy.valid THEN "located" ELSE "geocode")
    /\ UNCHANGED <<copy, dataVars, flags, driver, era, appVars>>

GeocodeFails ==
    /\ pc = "geocode"
    /\ snapshot' = set_status(snapshot)
    /\ NextPass
    /\ UNCHANGED <<loop, due, asap, dataVars, flags, driver, era, appVars>>

(* All settings are written back, as they were when this pass began, and   *)
(* then the coordinates and the country to Preferences.                    *)
geocode_city ==
    /\ pc = "geocode"
    /\ copy' = [copy EXCEPT !.valid = TRUE, !.country = IF @ = None THEN copy.city ELSE @,
                           !.latitude = Found(copy), !.longitude = Found(copy)]
    /\ mem' = copy'
    /\ Goes("store")
    /\ UNCHANGED <<loop, due, asap, nvs, sync, restore, snapshot, flags, driver, era, appVars>>

Stored(s) ==
    CASE pc = "store"     -> [s EXCEPT !.valid = TRUE]
      [] pc = "latitude"  -> [s EXCEPT !.latitude = copy.latitude]
      [] pc = "longitude" -> [s EXCEPT !.longitude = copy.longitude]
      [] pc = "country"   -> [s EXCEPT !.country = copy.country]

AfterStore ==
    CASE pc = "store" -> "latitude" [] pc = "latitude" -> "longitude"
      [] pc = "longitude" -> "country" [] pc = "country" -> "located"

StoreCoordinates ==
    /\ pc \in Stores
    /\ nvs' = Stored(nvs)
    /\ Goes(AfterStore)
    /\ UNCHANGED <<copy, loop, due, asap, mem, sync, restore, snapshot, flags, driver,
                   era, appVars>>

Interrupted ==
    /\ pc \in {"located", "refreshed"}
    /\ Paused
    /\ NextPass
    /\ loop' = [loop EXCEPT !.updated = FALSE]
    /\ UNCHANGED <<due, asap, dataVars, snapshot, flags, driver, era, appVars>>

StartForecast ==
    /\ pc = "located"
    /\ ~Paused
    /\ snapshot' = set_status(snapshot)
    /\ Goes("forecast")
    /\ UNCHANGED <<copy, loop, due, asap, dataVars, flags, driver, era, appVars>>

KeepForecast ==
    /\ pc = "located"
    /\ ~Paused
    /\ ~due.forecast
    /\ Goes("refreshed")
    /\ UNCHANGED <<copy, loop, due, asap, dataVars, snapshot, flags, driver, era, appVars>>

(* Only the offset is written back.                                        *)
fetch_forecast ==
    /\ pc = "forecast"
    /\ mem' = [mem EXCEPT !.offset = Where(copy)]
    /\ snapshot' = [snapshot EXCEPT !.forecast = Where(copy)]
    /\ Goes("offset")
    /\ UNCHANGED <<copy, loop, due, asap, nvs, sync, restore, flags, driver, era, appVars>>

(* After g_lock is released, Preferences and the stamp follow, and the     *)
(* settings are read again.                                                *)
ForecastStored ==
    /\ pc = "offset"
    /\ nvs' = [nvs EXCEPT !.offset = Where(copy)]
    /\ due' = [due EXCEPT !.forecast = FALSE]
    /\ loop' = [loop EXCEPT !.updated = TRUE]
    /\ copy' = mem
    /\ Goes("refreshed")
    /\ UNCHANGED <<asap, mem, sync, restore, snapshot, flags, driver, era, appVars>>

ForecastFails ==
    /\ pc = "forecast"
    /\ snapshot' = set_status(snapshot)
    /\ copy' = mem
    /\ Goes("refreshed")
    /\ UNCHANGED <<loop, due, asap, dataVars, flags, driver, era, appVars>>

StartTimeSync ==
    /\ pc = "refreshed"
    /\ ~Paused
    /\ snapshot' = set_status(snapshot)
    /\ Goes("ntp")
    /\ UNCHANGED <<copy, loop, due, asap, dataVars, flags, driver, era, appVars>>

(* Mutant of KeepTime: a new forecast does not ask for the time.         *)
MutForgetsUpdate ==
    /\ pc = "refreshed"
    /\ ~Paused
    /\ ~due.ntp
    /\ Goes("online")
    /\ UNCHANGED <<copy, loop, due, asap, dataVars, snapshot, flags, driver, era, appVars>>

KeepTime ==
    /\ pc = "refreshed"
    /\ ~Paused
    /\ ~due.ntp /\ ~loop.updated
    /\ Goes("online")
    /\ UNCHANGED <<copy, loop, due, asap, dataVars, snapshot, flags, driver, era, appVars>>

synchronize_time ==
    /\ pc = "ntp"
    /\ sync' = copy.offset
    /\ due' = [due EXCEPT !.ntp = FALSE]
    /\ Goes("online")
    /\ UNCHANGED <<copy, loop, asap, mem, nvs, restore, snapshot, flags, driver, era, appVars>>

TimeFails ==
    /\ pc = "ntp"
    /\ Goes("online")
    /\ UNCHANGED <<copy, loop, due, asap, dataVars, snapshot, flags, driver, era, appVars>>

(* Every text that ends a pass begins with "Online".                       *)
PassEnds ==
    /\ pc = "online"
    /\ snapshot' = [snapshot EXCEPT !.connected = TRUE, !.online = TRUE]
    /\ NextPass
    /\ loop' = [loop EXCEPT !.updated = FALSE]
    /\ UNCHANGED <<due, asap, dataVars, flags, driver, era, appVars>>

Worker ==
    \/ NothingPending \/ TakeRestore \/ apply_backup_settings
    \/ NotPaused \/ Acknowledge \/ WaitEnds \/ WithdrawAcknowledgement
    \/ NothingToDo \/ settings_snapshot
    \/ StillConnecting \/ ConnectionDeadline \/ WaitForAttempt \/ begin_station_connection
    \/ Connected \/ GeocodeFails \/ geocode_city \/ StoreCoordinates \/ Interrupted
    \/ StartForecast \/ KeepForecast \/ fetch_forecast \/ ForecastStored \/ ForecastFails
    \/ StartTimeSync \/ KeepTime \/ synchronize_time \/ TimeFails \/ PassEnds

-----------------------------------------------------------------------------
(* Access points and time                                                  *)
Event == events < MaxEvents /\ events' = events + 1

Associates ==
    /\ driver = "station"
    /\ app # "scanning" \/ ~answered
    /\ driver' = "connected"
    /\ UNCHANGED <<workerVars, dataVars, snapshot, flags, era, appVars>>

ConnectionLost ==
    /\ driver = "connected"
    /\ driver' = "station"
    /\ UNCHANGED <<workerVars, dataVars, snapshot, flags, era, appVars>>

RestoreTime ==
    /\ restore.state = "waiting"
    /\ restore' = [restore EXCEPT !.state = "due"]
    /\ UNCHANGED <<workerVars, mem, nvs, sync, snapshot, flags, driver, era, appVars>>

(* 24.8 days.                                                              *)
HalfRange ==
    /\ \/ era = 0 /\ Event
       \/ era = 1 /\ UNCHANGED events
    /\ era' = era + 1
    /\ UNCHANGED <<workerVars, dataVars, snapshot, flags, driver, app, seen, clock,
                   answered, saveVars, torn>>

-----------------------------------------------------------------------------
(* The application                                                         *)
Ready(place) == app = place /\ puts = {}

startTask ==
    /\ Ready("ticking")
    /\ pc = "none"
    /\ Goes("restore")
    /\ UNCHANGED <<copy, loop, due, asap, dataVars, snapshot, flags, driver, era, appVars>>

(* What a tick asks first: whether the other services have a network, and  *)
(* whether the time was received.                                          *)
Tick ==
    /\ Ready("ticking") \/ Ready("portal")
    /\ seen' = (app = "ticking" /\ snapshot.enabled /\ snapshot.connected /\ snapshot.online)
    /\ clock' = IF sync = None THEN clock ELSE sync
    /\ sync' = None
    /\ UNCHANGED <<workerVars, mem, nvs, restore, snapshot, flags, driver, era, app,
                   answered, events, saveVars, torn>>

(* A save changes the settings in use and then writes its keys one by one; *)
(* a restore does so the other way round, and may wait 2 s in between.     *)
(*                                                                         *)
(* The worker has an idea of its own of the settings: it may be about to   *)
(* write back the city that it read, or to apply a backup. A save that     *)
(* meets either is torn, as is one that is cut off by a restart.           *)
LookingUp ==
    \/ pc \in {"station", "geocode"} /\ ~copy.valid
    \/ pc \in Stores

Meets == LookingUp \/ restore.state # "none"

Writing == puts # {} \/ pc \in Stores

First(key) == \E i \in 1 .. 8 : Order[i] = key /\ \A j \in 1 .. i - 1 : Order[j] \notin puts

Put ==
    /\ \E key \in puts :
        /\ First(key)
        /\ nvs' = [nvs EXCEPT ![key] = wish[key]]
        /\ puts' = puts \ {key}
    /\ UNCHANGED <<workerVars, mem, sync, restore, snapshot, flags, driver, era, app,
                   seen, clock, answered, events, wish, torn>>

(* From the device's own menu.                                             *)
setEnabled ==
    /\ Ready("ticking")
    /\ Event
    /\ \E enabled \in BOOLEAN :
        /\ mem' = [mem EXCEPT !.enabled = enabled]
        /\ wish' = [wish EXCEPT !.enabled = enabled]
        /\ snapshot' = [snapshot EXCEPT !.enabled = enabled, !.online = FALSE]
    /\ seen' = FALSE
    /\ puts' = {"enabled"}
    /\ torn' = (torn \/ Meets)
    /\ UNCHANGED <<workerVars, nvs, sync, restore, flags, driver, era, app, clock,
                   answered>>

(* From the control panel, which is served in a tick that saw a network.   *)
(* It handles one request in a tick.                                       *)
PanelRequest ==
    /\ Ready("ticking")
    /\ seen
    /\ seen' = FALSE
    /\ Event

(* With the country; without one, the lookup fills it in.                  *)
MovedTo(city, s) == [s EXCEPT !.city = city, !.country = city, !.valid = FALSE]

(* Mutant of setLocation: Preferences keep the old coordinates.            *)
MutKeepsCoordinates ==
    /\ PanelRequest
    /\ \E city \in Cities : mem' = MovedTo(city, mem) /\ wish' = MovedTo(city, wish)
    /\ puts' = {"city", "country"}
    /\ torn' = (torn \/ Meets)
    /\ snapshot' = [snapshot EXCEPT !.online = FALSE, !.forecast = None]
    /\ due' = AllDue
    /\ UNCHANGED <<pc, copy, loop, asap, nvs, sync, restore, flags, driver, era, app,
                   clock, answered>>

setLocation ==
    /\ PanelRequest
    /\ \E city \in Cities : mem' = MovedTo(city, mem) /\ wish' = MovedTo(city, wish)
    /\ puts' = {"city", "country", "valid"}
    /\ torn' = (torn \/ Meets)
    /\ snapshot' = [snapshot EXCEPT !.online = FALSE, !.forecast = None]
    /\ due' = AllDue
    /\ UNCHANGED <<pc, copy, loop, asap, nvs, sync, restore, flags, driver, era, app,
                   clock, answered>>

(* A backup with another network name waits, as one that differs in        *)
(* enabled does.                                                           *)
restoreSettings ==
    /\ PanelRequest
    /\ wish' \in Backups
    /\ puts' = Keys
    /\ app' \in {"delaying"} \cup (IF wish'.enabled = mem.enabled THEN {"restoring"} ELSE {})
    /\ torn' = Meets
    /\ UNCHANGED <<workerVars, dataVars, snapshot, flags, driver, era, clock, answered>>

RestoreWaits ==
    /\ Ready("delaying")
    /\ restore' = [state |-> "waiting", settings |-> wish]
    /\ wish' = Choice(wish)
    /\ app' = "ticking"
    /\ UNCHANGED <<workerVars, mem, nvs, sync, snapshot, flags, driver, era, seen, clock,
                   answered, events, puts, torn>>

RestoreApplied ==
    /\ Ready("restoring")
    /\ Applied(wish)
    /\ wish' = Choice(wish)
    /\ due' = AllDue
    /\ app' = "ticking"
    /\ UNCHANGED <<pc, copy, loop, asap, nvs, sync, restore, flags, driver, era, seen,
                   clock, answered, events, puts, torn>>

(* pause() begins: for the setup portal, or for Mini vMac. Without a       *)
(* worker there is nothing to wait for.                                    *)
pause ==
    /\ Ready("ticking")
    /\ Event
    /\ seen' = FALSE
    /\ app' \in {"for_portal", "for_emulator"}
    /\ flags' = IF pc = "none" THEN flags ELSE [flags EXCEPT !.pause = TRUE]
    /\ UNCHANGED <<workerVars, dataVars, snapshot, driver, era, clock, answered, saveVars,
                   torn>>

PauseReturns ==
    /\ app \in {"for_portal", "for_emulator"}
    /\ \/ pc = "none"
       \/ flags.acknowledged
       \/ Slow /\ pc \in Requests
    /\ answered' = (flags.acknowledged /\ pc = "waiting")
    /\ \/ app = "for_portal" /\ app' = "scanning" /\ driver' = "station"
       \/ app = "for_emulator" /\ app' = "emulator" /\ UNCHANGED driver
    /\ UNCHANGED <<workerVars, dataVars, snapshot, flags, era, seen, clock, events,
                   saveVars, torn>>

(* The networks are scanned and the access point is started, or is not.    *)
startPortal ==
    /\ app = "scanning"
    /\ driver' \in {"ap", "off"}
    /\ flags' = [flags EXCEPT !.portal = TRUE]
    /\ snapshot' = [snapshot EXCEPT !.connected = FALSE, !.online = FALSE]
    /\ app' = "portal"
    /\ UNCHANGED <<workerVars, dataVars, era, seen, clock, answered, events, saveVars,
                   torn>>

SetUp(s, city) == [MovedTo(city, s) EXCEPT !.enabled = TRUE, !.network = TRUE]

save_setup ==
    /\ Ready("portal")
    /\ driver = "ap"
    /\ \E city \in Cities : mem' = SetUp(mem, city) /\ wish' = SetUp(wish, city)
    /\ puts' = {"enabled", "network", "city", "country", "valid"}
    /\ torn' = Meets
    /\ snapshot' = [snapshot EXCEPT !.enabled = TRUE, !.online = FALSE, !.forecast = None]
    /\ UNCHANGED <<workerVars, nvs, sync, restore, flags, driver, era, app, seen, clock,
                   answered, events>>

(* softAPdisconnect ends the access point if there still is one.           *)
stopPortal ==
    /\ Ready("portal")
    /\ driver' = IF driver = "ap" THEN "off" ELSE driver
    /\ flags' = [flags EXCEPT !.portal = FALSE, !.pause = FALSE]
    /\ app' = "ticking"
    /\ answered' = FALSE
    /\ UNCHANGED <<workerVars, dataVars, snapshot, era, seen, clock, events, saveVars,
                   torn>>

(* Mutant of resume: the pause is not ended.                             *)
MutResumeForgets ==
    /\ app = "emulator"
    /\ app' = "ticking"
    /\ answered' = FALSE
    /\ UNCHANGED <<workerVars, dataVars, snapshot, flags, driver, era, seen, clock,
                   events, saveVars, torn>>

resume ==
    /\ app = "emulator"
    /\ flags' = [flags EXCEPT !.pause = FALSE]
    /\ app' = "ticking"
    /\ answered' = FALSE
    /\ UNCHANGED <<workerVars, dataVars, snapshot, driver, era, seen, clock, events,
                   saveVars, torn>>

Application ==
    \/ startTask \/ Tick \/ Put \/ setEnabled \/ setLocation
    \/ restoreSettings \/ RestoreWaits \/ RestoreApplied
    \/ pause \/ PauseReturns \/ startPortal \/ save_setup \/ stopPortal \/ resume

-----------------------------------------------------------------------------
(* begin(): after a restart the service knows what NVS holds.              *)
FirstPass == [pending |-> FALSE, was_connected |-> FALSE, updated |-> FALSE]

Begun(s) == [enabled |-> s.enabled, connected |-> FALSE, online |-> FALSE, forecast |-> None]

(* A device that is new, or one that was set up and has its time.          *)
Init ==
    /\ nvs \in {Fresh} \cup {Complete(TRUE, city, TRUE) : city \in Home}
    /\ mem = nvs
    /\ clock = nvs.city
    /\ events = 0
    /\ puts = {}
    /\ wish = Choice(nvs)
    /\ torn = FALSE
    /\ pc = "none"
    /\ copy = Fresh
    /\ loop = FirstPass
    /\ due = AllDue
    /\ asap = TRUE
    /\ era = 0
    /\ snapshot = Begun(nvs)
    /\ sync = None
    /\ flags = [pause |-> FALSE, acknowledged |-> FALSE, portal |-> FALSE]
    /\ restore = NoRestore
    /\ driver = "off"
    /\ app = "ticking"
    /\ seen = FALSE
    /\ answered = FALSE

(* The power may be cut in the middle of a save.                           *)
Restart ==
    /\ Event
    /\ puts' = {}
    /\ wish' = Choice(nvs)
    /\ torn' = (torn \/ Writing)
    /\ mem' = nvs
    /\ pc' = "none"
    /\ copy' = Fresh
    /\ loop' = FirstPass
    /\ due' = AllDue
    /\ asap' = TRUE
    /\ era' = 0
    /\ snapshot' = Begun(nvs)
    /\ sync' = None
    /\ flags' = [pause |-> FALSE, acknowledged |-> FALSE, portal |-> FALSE]
    /\ restore' = NoRestore
    /\ driver' = "off"
    /\ app' = "ticking"
    /\ seen' = FALSE
    /\ answered' = FALSE
    /\ UNCHANGED <<nvs, clock>>

Next == Worker \/ Associates \/ ConnectionLost \/ RestoreTime \/ HalfRange \/ Application \/ Restart

Spec == Init /\ [][Next]_vars

(* The network lets the station down.                                      *)
Unhealthy ==
    \/ ConnectionLost \/ (ConnectionDeadline /\ driver = "station")
    \/ GeocodeFails \/ ForecastFails \/ TimeFails

(* The tasks run, delays end, and the network and the services are healthy *)
(* from some time on. The user may stay in the portal and in Mini vMac.    *)
FairSpec ==
    /\ Spec
    /\ WF_vars(Worker) /\ WF_vars(Tick) /\ WF_vars(startTask \/ PauseReturns \/ startPortal)
    /\ WF_vars(Put \/ RestoreWaits \/ RestoreApplied)
    /\ WF_vars(Associates) /\ WF_vars(RestoreTime) /\ WF_vars(HalfRange /\ era = 1)
    /\ SF_vars(ConnectionDeadline \/ begin_station_connection \/ StartForecast)
    /\ <>[][~Unhealthy]_vars

-----------------------------------------------------------------------------
(* Properties                                                              *)

(* The service's state is well formed, and what the worker connects and    *)
(* looks up with are settings that name a network and a city.              *)
TypeOK ==
    /\ pc \in Pcs
    /\ copy \in Settings
    /\ loop \in Locals
    /\ due \in Stamps
    /\ asap \in BOOLEAN
    /\ era \in 0 .. 2
    /\ mem \in Settings
    /\ nvs \in Settings
    /\ snapshot \in Snapshots
    /\ sync \in Places
    /\ clock \in Places
    /\ flags \in Flags
    /\ restore \in Restores
    /\ driver \in {"off", "station", "connected", "ap"}
    /\ app \in Apps
    /\ seen \in BOOLEAN
    /\ answered \in BOOLEAN
    /\ puts \subseteq Keys
    /\ wish \in Settings
    /\ torn \in BOOLEAN
    /\ pc \in {"station", "geocode"} \cup Stores => copy.enabled /\ Configured(copy)
    /\ events \in 0 .. MaxEvents

UsesDriver == app \in {"scanning", "portal", "emulator"}

(* "The station worker remains the only normal-path owner of Arduino Wi-Fi *)
(* APIs": when pause() ended because the worker had stopped, the worker    *)
(* stays stopped until the portal is closed or the emulator left, whatever *)
(* else clears a flag meanwhile. It does not say so of a pause() that ran  *)
(* into its timeout or took an acknowledgement about to be withdrawn.      *)
AnsweredPauseExcludesWorker == UsesDriver /\ answered => pc = "waiting"

(* What the user saved stays saved, though the worker reads, changes and   *)
(* writes back all settings on its own time. Preferences hold the Wi-Fi    *)
(* switch, the network and the city of the last save, always. And unless a *)
(* save was torn, they are what the service goes by (a backup may still    *)
(* wait for its delay), and country and coordinates are those of the city. *)
(* A setup or a restore that is not torn repairs one that was.             *)
ChoiceIsSaved ==
    puts = {} =>
        nvs.enabled = wish.enabled /\ nvs.network = wish.network /\ nvs.city = wish.city

ChoiceIsUsed ==
    ~torn /\ puts = {} /\ ~Restoring =>
        mem.enabled = nvs.enabled /\ mem.network = nvs.network /\ mem.city = nvs.city

CoordinatesAreOfCity ==
    ~torn /\ ~Writing =>
        /\ nvs.country = nvs.city
        /\ nvs.valid => nvs.latitude = nvs.city /\ nvs.longitude = nvs.city

SettingsSurvive == ChoiceIsSaved /\ ChoiceIsUsed /\ CoordinatesAreOfCity

Settled ==
    /\ app = "ticking" /\ puts = {} /\ pc # "none"
    /\ mem.enabled /\ Configured(mem)

(* A device that is left alone with Wi-Fi configured connects in the end,  *)
(* also after the portal, the emulator, a restore and half a range of      *)
(* millis().                                                               *)
Reconnects == []<>(~Settled \/ (driver = "connected" /\ snapshot.connected))

(* The clock and the forecast follow the saved city in the end, also when  *)
(* it was changed while the forecast of another city was under way.        *)
WeatherFollowsCity ==
    []<>(~Settled \/ torn \/ (snapshot.forecast = nvs.city /\ clock = nvs.city))

=============================================================================
