-------------------------- MODULE WifiServiceProofs --------------------------
(* Proofs about WifiService for every set of cities and of backups and     *)
(* every bound of events.                                                  *)
EXTENDS WifiService, TLAPS

(* A pause that was asked for with a worker is requested as long as it is  *)
(* waited for; after one that was answered the worker waits, and stays so, *)
(* because the request stands until the application gives the driver back. *)
PauseInv ==
  /\ app \in {"for_portal", "for_emulator"} => flags.pause \/ pc = "none"
  /\ UsesDriver /\ answered => pc = "waiting" /\ flags.pause

LEMMA PauseStep ==
  ASSUME PauseInv, flags \in Flags, [Next]_vars
  PROVE  PauseInv'
<1> USE DEF PauseInv, UsesDriver, Flags
<1>1. CASE Worker
  <2>1. CASE NothingPending
    BY <2>1 DEF NothingPending, Goes, dataVars, appVars
  <2>2. CASE TakeRestore
    BY <2>2 DEF TakeRestore, Goes, dataVars, appVars
  <2>3. CASE apply_backup_settings
    BY <2>3 DEF apply_backup_settings, Goes, appVars
  <2>4. CASE NotPaused
    BY <2>4 DEF NotPaused, Goes, Paused, dataVars, appVars
  <2>5. CASE Acknowledge
    BY <2>5 DEF Acknowledge, Goes, disconnect_wifi, Paused, dataVars, appVars
  <2>6. CASE WaitEnds
    BY <2>6 DEF WaitEnds, Goes, Paused, dataVars, appVars
  <2>7. CASE WithdrawAcknowledgement
    BY <2>7 DEF WithdrawAcknowledgement, Goes, dataVars, appVars
  <2>8. CASE NothingToDo
    BY <2>8 DEF NothingToDo, NextPass, dataVars, appVars
  <2>9. CASE settings_snapshot
    BY <2>9 DEF settings_snapshot, Goes, dataVars, saveVars
  <2>10. CASE StillConnecting
    BY <2>10 DEF StillConnecting, NextPass, Offline, dataVars, appVars
  <2>11. CASE ConnectionDeadline
    BY <2>11 DEF ConnectionDeadline, NextPass, Offline, dataVars, appVars
  <2>12. CASE WaitForAttempt
    BY <2>12 DEF WaitForAttempt, NextPass, Offline, dataVars, appVars
  <2>13. CASE begin_station_connection
    BY <2>13 DEF begin_station_connection, NextPass, Offline, dataVars, appVars
  <2>14. CASE Connected
    BY <2>14 DEF Connected, Goes, dataVars, appVars
  <2>15. CASE GeocodeFails
    BY <2>15 DEF GeocodeFails, NextPass, dataVars, appVars
  <2>16. CASE geocode_city
    BY <2>16 DEF geocode_city, Goes, appVars
  <2>17. CASE StoreCoordinates
    BY <2>17 DEF StoreCoordinates, Goes, AfterStore, Stores, appVars
  <2>18. CASE Interrupted
    BY <2>18 DEF Interrupted, NextPass, Paused, dataVars, appVars
  <2>19. CASE StartForecast
    BY <2>19 DEF StartForecast, Goes, Paused, dataVars, appVars
  <2>20. CASE KeepForecast
    BY <2>20 DEF KeepForecast, Goes, Paused, dataVars, appVars
  <2>21. CASE fetch_forecast
    BY <2>21 DEF fetch_forecast, Goes, appVars
  <2>22. CASE ForecastStored
    BY <2>22 DEF ForecastStored, Goes, appVars
  <2>23. CASE ForecastFails
    BY <2>23 DEF ForecastFails, Goes, dataVars, appVars
  <2>24. CASE StartTimeSync
    BY <2>24 DEF StartTimeSync, Goes, Paused, dataVars, appVars
  <2>25. CASE KeepTime
    BY <2>25 DEF KeepTime, Goes, Paused, dataVars, appVars
  <2>26. CASE synchronize_time
    BY <2>26 DEF synchronize_time, Goes, appVars
  <2>27. CASE TimeFails
    BY <2>27 DEF TimeFails, Goes, dataVars, appVars
  <2>28. CASE PassEnds
    BY <2>28 DEF PassEnds, NextPass, dataVars, appVars
    <2> QED BY <1>1, <2>1, <2>2, <2>3, <2>4, <2>5, <2>6, <2>7, <2>8, <2>9, <2>10, <2>11,
      <2>12, <2>13, <2>14, <2>15, <2>16, <2>17, <2>18, <2>19, <2>20, <2>21, <2>22, <2>23,
      <2>24, <2>25, <2>26, <2>27, <2>28 DEF Worker
<1>2. CASE Application
  <2>1. CASE startTask
    BY <2>1 DEF startTask, Goes, Ready, dataVars, appVars
  <2>2. CASE Tick
    BY <2>2 DEF Tick, Ready, workerVars, saveVars
  <2>3. CASE Put
    BY <2>3 DEF Put, workerVars
  <2>4. CASE setEnabled
    BY <2>4 DEF setEnabled, Event, Ready, workerVars
  <2>5. CASE setLocation
    BY <2>5 DEF setLocation, PanelRequest, Event, Ready
  <2>6. CASE restoreSettings
    BY <2>6 DEF restoreSettings, PanelRequest, Event, Ready, workerVars, dataVars
  <2>7. CASE RestoreWaits
    BY <2>7 DEF RestoreWaits, Ready, workerVars
  <2>8. CASE RestoreApplied
    BY <2>8 DEF RestoreApplied, Ready
  <2>9. CASE pause
    BY <2>9 DEF pause, Event, Ready, workerVars, dataVars, saveVars
  <2>10. CASE PauseReturns
    BY <2>10 DEF PauseReturns, workerVars, dataVars, saveVars
  <2>11. CASE startPortal
    BY <2>11 DEF startPortal, workerVars, dataVars, saveVars
  <2>12. CASE save_setup
    BY <2>12 DEF save_setup, Ready, workerVars
  <2>13. CASE stopPortal
    BY <2>13 DEF stopPortal, Ready, workerVars, dataVars, saveVars
  <2>14. CASE resume
    BY <2>14 DEF resume, workerVars, dataVars, saveVars
    <2> QED BY <1>2, <2>1, <2>2, <2>3, <2>4, <2>5, <2>6, <2>7, <2>8, <2>9, <2>10, <2>11,
      <2>12, <2>13, <2>14 DEF Application
<1>3. CASE Associates
  BY <1>3 DEF Associates, workerVars, dataVars, appVars
<1>4. CASE ConnectionLost
  BY <1>4 DEF ConnectionLost, workerVars, dataVars, appVars
<1>5. CASE RestoreTime
  BY <1>5 DEF RestoreTime, workerVars, appVars
<1>6. CASE HalfRange
  BY <1>6 DEF HalfRange, Event, workerVars, dataVars, saveVars
<1>7. CASE Restart
  BY <1>7 DEF Restart, Event
<1>8. CASE UNCHANGED vars
  BY <1>8 DEF vars, workerVars, dataVars, appVars
<1> QED BY <1>1, <1>2, <1>3, <1>4, <1>5, <1>6, <1>7, <1>8 DEF Next

-----------------------------------------------------------------------------
LEMMA EventsAreBounded ==
  ASSUME events \in 0 .. MaxEvents, Event
  PROVE  events' \in 0 .. MaxEvents
<1>1. MaxEvents \in Nat
  BY WifiServiceAssumption
<1> QED BY <1>1 DEF Event

LEMMA FreshSettings == None \in Places /\ Fresh \in Settings
BY DEF Places, Fresh, Settings

LEMMA KeyNames ==
  Keys = {"enabled", "network", "city", "country", "valid", "latitude", "longitude", "offset"}
<1>1. \A i \in 1 .. 8 : i = 1 \/ i = 2 \/ i = 3 \/ i = 4 \/ i = 5 \/ i = 6 \/ i = 7 \/ i = 8
  OBVIOUS
<1>2. \A key : key \in Keys <=>
        \E i \in 1 .. 8 : Order[i] = key
  BY DEF Keys
<1>3. /\ Order[1] = "enabled" /\ Order[2] = "network" /\ Order[3] = "city" /\ Order[4] = "country"
      /\ Order[5] = "valid" /\ Order[6] = "latitude" /\ Order[7] = "longitude" /\ Order[8] = "offset"
  BY DEF Order
<1> QED BY <1>1, <1>2, <1>3

LEMMA CompleteSettings ==
  ASSUME NEW enabled \in BOOLEAN, NEW city \in Cities, NEW valid \in BOOLEAN
  PROVE  LET s == Complete(enabled, city, valid)
         IN  /\ s \in Settings
             /\ s.country = s.city
             /\ s.valid => s.latitude = s.city /\ s.longitude = s.city
BY DEF Complete, Settings, Places

LEMMA BackupTypes ==
  ASSUME NEW backup \in Backups
  PROVE  /\ backup \in Settings
         /\ backup.country = backup.city
         /\ backup.valid => backup.latitude = backup.city /\ backup.longitude = backup.city
<1>1. PICK enabled \in BOOLEAN, city \in Cities, valid \in BOOLEAN :
        backup = Complete(enabled, city, valid)
  BY BackupsAssumption
<1> QED BY <1>1, CompleteSettings

LEMMA ChoiceTypes ==
  ASSUME NEW s \in Settings
  PROVE  /\ Choice(s) \in Settings
         /\ Choice(s).enabled = s.enabled
         /\ Choice(s).network = s.network
         /\ Choice(s).city = s.city
         /\ Choice(s).country = s.country
BY DEF Choice, Fresh, Settings, Places

LEMMA MovedTypes ==
  ASSUME NEW s \in Settings, NEW city \in Cities
  PROVE  /\ MovedTo(city, s) \in Settings
         /\ MovedTo(city, s).enabled = s.enabled
         /\ MovedTo(city, s).network = s.network
         /\ MovedTo(city, s).city = city
         /\ MovedTo(city, s).country = city
         /\ ~MovedTo(city, s).valid
BY DEF MovedTo, Settings, Places

LEMMA SetUpTypes ==
  ASSUME NEW s \in Settings, NEW city \in Cities
  PROVE  /\ SetUp(s, city) \in Settings
         /\ SetUp(s, city).enabled = TRUE
         /\ SetUp(s, city).network = TRUE
         /\ SetUp(s, city).city = city
         /\ SetUp(s, city).country = city
         /\ ~SetUp(s, city).valid
BY DEF SetUp, MovedTo, Settings, Places

LEMMA WhereTypes ==
  ASSUME NEW s \in Settings
  PROVE  Where(s) \in Places
BY FreshSettings DEF Where, Settings

(* What a lookup leaves.                                                   *)
LEMMA LocatedTypes ==
  ASSUME NEW s \in Settings
  PROVE  LET t == [s EXCEPT !.valid = TRUE, !.country = IF @ = None THEN s.city ELSE @,
                           !.latitude = Found(s), !.longitude = Found(s)]
         IN  /\ t \in Settings
             /\ t.enabled = s.enabled /\ t.network = s.network /\ t.city = s.city
             /\ s.country = s.city =>
                  t.country = s.city /\ t.latitude = s.city /\ t.longitude = s.city
<1>1. Found(s) \in Places /\ (s.country = s.city => Found(s) = s.city)
  BY FreshSettings DEF Found, Settings
<1>2. s.city \in Places
  BY DEF Settings
<1> QED BY <1>1, <1>2 DEF Settings

(* One key is written, all others stay.                                    *)
LEMMA PutTypes ==
  ASSUME NEW s \in Settings, NEW t \in Settings, NEW key \in Keys
  PROVE  [s EXCEPT ![key] = t[key]] \in Settings
<1> DEFINE r == [s EXCEPT ![key] = t[key]]
<1>1. CASE key = "enabled"
  BY <1>1 DEF Settings
<1>2. CASE key = "network"
  BY <1>2 DEF Settings
<1>3. CASE key = "city"
  BY <1>3 DEF Settings
<1>4. CASE key = "country"
  BY <1>4 DEF Settings
<1>5. CASE key = "valid"
  BY <1>5 DEF Settings
<1>6. CASE key = "latitude"
  BY <1>6 DEF Settings
<1>7. CASE key = "longitude"
  BY <1>7 DEF Settings
<1>8. CASE key = "offset"
  BY <1>8 DEF Settings
<1> QED BY <1>1, <1>2, <1>3, <1>4, <1>5, <1>6, <1>7, <1>8, KeyNames

LEMMA StoredTypes ==
  ASSUME pc \in Stores, nvs \in Settings, copy \in Settings
  PROVE  Stored(nvs) \in Settings
BY DEF Stores, Stored, Settings

(* The types of the state, without the place where the worker's copy has   *)
(* to be configured.                                                       *)
TypeInv ==
  /\ pc \in Pcs
  /\ copy \in Settings
  /\ loop \in Locals
  /\ due \in Stamps
  /\ asap \in BOOLEAN
  /\ era \in 0 .. 2
  /\ mem \in Settings
  /\ nvs \in Settings
  /\ snapshot \in Snapshots
  /\ sync \in Places
  /\ clock \in Places
  /\ flags \in Flags
  /\ restore \in Restores
  /\ driver \in {"off", "station", "connected", "ap"}
  /\ app \in Apps
  /\ seen \in BOOLEAN
  /\ answered \in BOOLEAN
  /\ puts \subseteq Keys
  /\ wish \in Settings
  /\ torn \in BOOLEAN
  /\ events \in 0 .. MaxEvents

LEMMA TypeStep ==
  ASSUME TypeInv, [Next]_vars
  PROVE  TypeInv'
<1>1. CASE Worker
  <2>1. CASE NothingPending
    <3>1. pc' \in Pcs
      BY <2>1 DEF TypeInv, NothingPending, Goes, Pcs, Requests
    <3> QED BY <2>1, <3>1 DEF TypeInv, NothingPending, dataVars, appVars
  <2>2. CASE TakeRestore
    <3>1. pc' \in Pcs
      BY <2>2 DEF TypeInv, TakeRestore, Goes, Pcs, Requests
    <3>2. copy' \in Settings
      BY <2>2 DEF TypeInv, TakeRestore, Settings, Places, Restores
    <3> QED BY <2>2, <3>1, <3>2 DEF TypeInv, TakeRestore, dataVars, appVars
  <2>3. CASE apply_backup_settings
    <3>1. pc' \in Pcs
      BY <2>3 DEF TypeInv, apply_backup_settings, Goes, Pcs, Requests
    <3>2. copy' \in Settings
      BY <2>3, FreshSettings DEF TypeInv, apply_backup_settings, Settings, Places
    <3>3. loop' \in Locals
      BY <2>3 DEF TypeInv, apply_backup_settings, Locals
    <3>4. due' \in Stamps
      BY <2>3 DEF TypeInv, apply_backup_settings, AllDue, Stamps
    <3>5. asap' \in BOOLEAN
      BY <2>3 DEF TypeInv, apply_backup_settings
    <3>6. mem' \in Settings
      BY <2>3 DEF TypeInv, apply_backup_settings, Applied, Settings, Places
    <3>7. restore' \in Restores
      BY <2>3, FreshSettings DEF TypeInv, apply_backup_settings, NoRestore, Restores
    <3>8. snapshot' \in Snapshots
      BY <2>3 DEF TypeInv, apply_backup_settings, Applied, Snapshots, Places, Settings
    <3>9. driver' \in {"off", "station", "connected", "ap"}
      BY <2>3 DEF TypeInv, apply_backup_settings
      <3> QED BY <2>3, <3>1, <3>2, <3>3, <3>4, <3>5, <3>6, <3>7, <3>8, <3>9 DEF TypeInv,
      apply_backup_settings, appVars
  <2>4. CASE NotPaused
    <3>1. pc' \in Pcs
      BY <2>4 DEF TypeInv, NotPaused, Goes, Pcs, Requests
    <3> QED BY <2>4, <3>1 DEF TypeInv, NotPaused, dataVars, appVars
  <2>5. CASE Acknowledge
    <3>1. pc' \in Pcs
      BY <2>5 DEF TypeInv, Acknowledge, Goes, Pcs, Requests
    <3>2. snapshot' \in Snapshots
      BY <2>5 DEF TypeInv, Acknowledge, disconnect_wifi, Snapshots, Places, Settings
    <3>3. flags' \in Flags
      BY <2>5 DEF TypeInv, Acknowledge, Flags
    <3>4. driver' \in {"off", "station", "connected", "ap"}
      BY <2>5 DEF TypeInv, Acknowledge, disconnect_wifi
    <3> QED BY <2>5, <3>1, <3>2, <3>3, <3>4 DEF TypeInv, Acknowledge, dataVars, appVars
  <2>6. CASE WaitEnds
    <3>1. pc' \in Pcs
      BY <2>6 DEF TypeInv, WaitEnds, Goes, Pcs, Requests
    <3> QED BY <2>6, <3>1 DEF TypeInv, WaitEnds, dataVars, appVars
  <2>7. CASE WithdrawAcknowledgement
    <3>1. pc' \in Pcs
      BY <2>7 DEF TypeInv, WithdrawAcknowledgement, Goes, Pcs, Requests
    <3>2. loop' \in Locals
      BY <2>7 DEF TypeInv, WithdrawAcknowledgement, Locals
    <3>3. asap' \in BOOLEAN
      BY <2>7 DEF TypeInv, WithdrawAcknowledgement
    <3>4. flags' \in Flags
      BY <2>7 DEF TypeInv, WithdrawAcknowledgement, Flags
      <3> QED BY <2>7, <3>1, <3>2, <3>3, <3>4 DEF TypeInv, WithdrawAcknowledgement, dataVars,
      appVars
  <2>8. CASE NothingToDo
    <3>1. pc' \in Pcs
      BY <2>8 DEF TypeInv, NothingToDo, NextPass, Pcs, Requests
    <3>2. copy' \in Settings
      BY <2>8, FreshSettings DEF TypeInv, NothingToDo, NextPass, Settings, Places
    <3>3. snapshot' \in Snapshots
      BY <2>8 DEF TypeInv, NothingToDo, Disconnected, Snapshots, Places, Settings
    <3>4. driver' \in {"off", "station", "connected", "ap"}
      BY <2>8 DEF TypeInv, NothingToDo, Disconnected
    <3> QED BY <2>8, <3>1, <3>2, <3>3, <3>4 DEF TypeInv, NothingToDo, dataVars, appVars
  <2>9. CASE settings_snapshot
    <3>1. pc' \in Pcs
      BY <2>9 DEF TypeInv, settings_snapshot, Goes, Pcs, Requests
    <3>2. copy' \in Settings
      BY <2>9 DEF TypeInv, settings_snapshot, Settings, Places
    <3>3. torn' \in BOOLEAN
      BY <2>9 DEF TypeInv, settings_snapshot, Meets, LookingUp, Writing
    <3> QED BY <2>9, <3>1, <3>2, <3>3 DEF TypeInv, settings_snapshot, dataVars, saveVars
  <2>10. CASE StillConnecting
    <3>1. pc' \in Pcs
      BY <2>10 DEF TypeInv, StillConnecting, NextPass, Pcs, Requests
    <3>2. copy' \in Settings
      BY <2>10, FreshSettings DEF TypeInv, StillConnecting, NextPass, Settings, Places
    <3>3. loop' \in Locals
      BY <2>10 DEF TypeInv, StillConnecting, Locals
    <3> QED BY <2>10, <3>1, <3>2, <3>3 DEF TypeInv, StillConnecting, dataVars, appVars
  <2>11. CASE ConnectionDeadline
    <3>1. pc' \in Pcs
      BY <2>11 DEF TypeInv, ConnectionDeadline, NextPass, Pcs, Requests
    <3>2. copy' \in Settings
      BY <2>11, FreshSettings DEF TypeInv, ConnectionDeadline, NextPass, Settings, Places
    <3>3. loop' \in Locals
      BY <2>11 DEF TypeInv, ConnectionDeadline, Locals
    <3>4. asap' \in BOOLEAN
      BY <2>11 DEF TypeInv, ConnectionDeadline
    <3>5. snapshot' \in Snapshots
      BY <2>11 DEF TypeInv, ConnectionDeadline, Disconnected, Snapshots, Places, Settings
    <3>6. driver' \in {"off", "station", "connected", "ap"}
      BY <2>11 DEF TypeInv, ConnectionDeadline, Disconnected
      <3> QED BY <2>11, <3>1, <3>2, <3>3, <3>4, <3>5, <3>6 DEF TypeInv, ConnectionDeadline,
      dataVars, appVars
  <2>12. CASE WaitForAttempt
    <3>1. pc' \in Pcs
      BY <2>12 DEF TypeInv, WaitForAttempt, NextPass, Pcs, Requests
    <3>2. copy' \in Settings
      BY <2>12, FreshSettings DEF TypeInv, WaitForAttempt, NextPass, Settings, Places
    <3>3. loop' \in Locals
      BY <2>12 DEF TypeInv, WaitForAttempt, Locals
    <3> QED BY <2>12, <3>1, <3>2, <3>3 DEF TypeInv, WaitForAttempt, dataVars, appVars
  <2>13. CASE begin_station_connection
    <3>1. pc' \in Pcs
      BY <2>13 DEF TypeInv, begin_station_connection, NextPass, Pcs, Requests
    <3>2. copy' \in Settings
          BY <2>13, FreshSettings DEF TypeInv, begin_station_connection, NextPass, Settings,
        Places
    <3>3. loop' \in Locals
      BY <2>13 DEF TypeInv, begin_station_connection, Locals
    <3>4. snapshot' \in Snapshots
      BY <2>13 DEF TypeInv, begin_station_connection, set_status, Snapshots, Places, Settings
    <3>5. driver' \in {"off", "station", "connected", "ap"}
      BY <2>13 DEF TypeInv, begin_station_connection
      <3> QED BY <2>13, <3>1, <3>2, <3>3, <3>4, <3>5 DEF TypeInv, begin_station_connection,
      dataVars, appVars
  <2>14. CASE Connected
    <3>1. pc' \in Pcs
      BY <2>14 DEF TypeInv, Connected, Goes, Pcs, Requests
    <3>2. loop' \in Locals
      BY <2>14 DEF TypeInv, Connected, Locals
    <3>3. due' \in Stamps
      BY <2>14 DEF TypeInv, Connected, AllDue, Stamps
    <3>4. asap' \in BOOLEAN
      BY <2>14 DEF TypeInv, Connected
    <3>5. snapshot' \in Snapshots
      BY <2>14 DEF TypeInv, Connected, Snapshots, Places, Settings
    <3> QED BY <2>14, <3>1, <3>2, <3>3, <3>4, <3>5 DEF TypeInv, Connected, dataVars, appVars
  <2>15. CASE GeocodeFails
    <3>1. pc' \in Pcs
      BY <2>15 DEF TypeInv, GeocodeFails, NextPass, Pcs, Requests
    <3>2. copy' \in Settings
      BY <2>15, FreshSettings DEF TypeInv, GeocodeFails, NextPass, Settings, Places
    <3>3. snapshot' \in Snapshots
      BY <2>15 DEF TypeInv, GeocodeFails, set_status, Snapshots, Places, Settings
    <3> QED BY <2>15, <3>1, <3>2, <3>3 DEF TypeInv, GeocodeFails, dataVars, appVars
  <2>16. CASE geocode_city
    <3>1. pc' \in Pcs
      BY <2>16 DEF TypeInv, geocode_city, Goes, Pcs, Requests
    <3>2. copy' \in Settings
      BY <2>16, LocatedTypes DEF TypeInv, geocode_city, Settings, Places
    <3>3. mem' \in Settings
      BY <2>16, LocatedTypes DEF TypeInv, geocode_city, Settings, Places
    <3> QED BY <2>16, <3>1, <3>2, <3>3 DEF TypeInv, geocode_city, appVars
  <2>17. CASE StoreCoordinates
    <3>1. pc' \in Pcs
      BY <2>17 DEF TypeInv, StoreCoordinates, Goes, AfterStore, Pcs, Requests, Stores
    <3>2. nvs' \in Settings
      BY <2>17, StoredTypes DEF TypeInv, StoreCoordinates, Settings, Places
    <3> QED BY <2>17, <3>1, <3>2 DEF TypeInv, StoreCoordinates, appVars
  <2>18. CASE Interrupted
    <3>1. pc' \in Pcs
      BY <2>18 DEF TypeInv, Interrupted, NextPass, Pcs, Requests
    <3>2. copy' \in Settings
      BY <2>18, FreshSettings DEF TypeInv, Interrupted, NextPass, Settings, Places
    <3>3. loop' \in Locals
      BY <2>18 DEF TypeInv, Interrupted, Locals
    <3> QED BY <2>18, <3>1, <3>2, <3>3 DEF TypeInv, Interrupted, dataVars, appVars
  <2>19. CASE StartForecast
    <3>1. pc' \in Pcs
      BY <2>19 DEF TypeInv, StartForecast, Goes, Pcs, Requests
    <3>2. snapshot' \in Snapshots
      BY <2>19 DEF TypeInv, StartForecast, set_status, Snapshots, Places, Settings
    <3> QED BY <2>19, <3>1, <3>2 DEF TypeInv, StartForecast, dataVars, appVars
  <2>20. CASE KeepForecast
    <3>1. pc' \in Pcs
      BY <2>20 DEF TypeInv, KeepForecast, Goes, Pcs, Requests
    <3> QED BY <2>20, <3>1 DEF TypeInv, KeepForecast, dataVars, appVars
  <2>21. CASE fetch_forecast
    <3>1. pc' \in Pcs
      BY <2>21 DEF TypeInv, fetch_forecast, Goes, Pcs, Requests
    <3>2. mem' \in Settings
      BY <2>21, WhereTypes DEF TypeInv, fetch_forecast, Settings, Places
    <3>3. snapshot' \in Snapshots
      BY <2>21, WhereTypes DEF TypeInv, fetch_forecast, Snapshots, Places, Settings
    <3> QED BY <2>21, <3>1, <3>2, <3>3 DEF TypeInv, fetch_forecast, appVars
  <2>22. CASE ForecastStored
    <3>1. pc' \in Pcs
      BY <2>22 DEF TypeInv, ForecastStored, Goes, Pcs, Requests
    <3>2. copy' \in Settings
      BY <2>22 DEF TypeInv, ForecastStored, Settings, Places
    <3>3. loop' \in Locals
      BY <2>22 DEF TypeInv, ForecastStored, Locals
    <3>4. due' \in Stamps
      BY <2>22 DEF TypeInv, ForecastStored, Stamps
    <3>5. nvs' \in Settings
      BY <2>22, WhereTypes DEF TypeInv, ForecastStored, Settings, Places
    <3> QED BY <2>22, <3>1, <3>2, <3>3, <3>4, <3>5 DEF TypeInv, ForecastStored, appVars
  <2>23. CASE ForecastFails
    <3>1. pc' \in Pcs
      BY <2>23 DEF TypeInv, ForecastFails, Goes, Pcs, Requests
    <3>2. copy' \in Settings
      BY <2>23 DEF TypeInv, ForecastFails, Settings, Places
    <3>3. snapshot' \in Snapshots
      BY <2>23 DEF TypeInv, ForecastFails, set_status, Snapshots, Places, Settings
    <3> QED BY <2>23, <3>1, <3>2, <3>3 DEF TypeInv, ForecastFails, dataVars, appVars
  <2>24. CASE StartTimeSync
    <3>1. pc' \in Pcs
      BY <2>24 DEF TypeInv, StartTimeSync, Goes, Pcs, Requests
    <3>2. snapshot' \in Snapshots
      BY <2>24 DEF TypeInv, StartTimeSync, set_status, Snapshots, Places, Settings
    <3> QED BY <2>24, <3>1, <3>2 DEF TypeInv, StartTimeSync, dataVars, appVars
  <2>25. CASE KeepTime
    <3>1. pc' \in Pcs
      BY <2>25 DEF TypeInv, KeepTime, Goes, Pcs, Requests
    <3> QED BY <2>25, <3>1 DEF TypeInv, KeepTime, dataVars, appVars
  <2>26. CASE synchronize_time
    <3>1. pc' \in Pcs
      BY <2>26 DEF TypeInv, synchronize_time, Goes, Pcs, Requests
    <3>2. due' \in Stamps
      BY <2>26 DEF TypeInv, synchronize_time, Stamps
    <3>3. sync' \in Places
      BY <2>26 DEF TypeInv, synchronize_time, Places, Settings
    <3> QED BY <2>26, <3>1, <3>2, <3>3 DEF TypeInv, synchronize_time, appVars
  <2>27. CASE TimeFails
    <3>1. pc' \in Pcs
      BY <2>27 DEF TypeInv, TimeFails, Goes, Pcs, Requests
    <3> QED BY <2>27, <3>1 DEF TypeInv, TimeFails, dataVars, appVars
  <2>28. CASE PassEnds
    <3>1. pc' \in Pcs
      BY <2>28 DEF TypeInv, PassEnds, NextPass, Pcs, Requests
    <3>2. copy' \in Settings
      BY <2>28, FreshSettings DEF TypeInv, PassEnds, NextPass, Settings, Places
    <3>3. loop' \in Locals
      BY <2>28 DEF TypeInv, PassEnds, Locals
    <3>4. snapshot' \in Snapshots
      BY <2>28 DEF TypeInv, PassEnds, Snapshots, Places, Settings
    <3> QED BY <2>28, <3>1, <3>2, <3>3, <3>4 DEF TypeInv, PassEnds, dataVars, appVars
    <2> QED BY <1>1, <2>1, <2>2, <2>3, <2>4, <2>5, <2>6, <2>7, <2>8, <2>9, <2>10, <2>11,
      <2>12, <2>13, <2>14, <2>15, <2>16, <2>17, <2>18, <2>19, <2>20, <2>21, <2>22, <2>23,
      <2>24, <2>25, <2>26, <2>27, <2>28 DEF Worker
<1>2. CASE Application
  <2>1. CASE startTask
    <3>1. pc' \in Pcs
      BY <2>1 DEF TypeInv, startTask, Goes, Pcs, Requests
    <3> QED BY <2>1, <3>1 DEF TypeInv, startTask, dataVars, appVars
  <2>2. CASE Tick
    <3>1. sync' \in Places
      BY <2>2 DEF TypeInv, Tick, Places, Settings
    <3>2. seen' \in BOOLEAN
      BY <2>2 DEF TypeInv, Tick
    <3>3. clock' \in Places
      BY <2>2 DEF TypeInv, Tick, Places, Settings
    <3> QED BY <2>2, <3>1, <3>2, <3>3 DEF TypeInv, Tick, workerVars, saveVars
  <2>3. CASE Put
    <3>1. nvs' \in Settings
      BY <2>3, PutTypes DEF TypeInv, Put, Settings, Places
    <3>2. puts' \subseteq Keys
      BY <2>3, KeyNames DEF TypeInv, Put
    <3> QED BY <2>3, <3>1, <3>2 DEF TypeInv, Put, workerVars
  <2>4. CASE setEnabled
    <3>1. mem' \in Settings
      BY <2>4 DEF TypeInv, setEnabled, Settings, Places
    <3>2. snapshot' \in Snapshots
      BY <2>4 DEF TypeInv, setEnabled, Snapshots, Places, Settings
    <3>3. seen' \in BOOLEAN
      BY <2>4 DEF TypeInv, setEnabled
    <3>4. events' \in 0 .. MaxEvents
      BY <2>4, EventsAreBounded DEF TypeInv, setEnabled
    <3>5. puts' \subseteq Keys
      BY <2>4, KeyNames DEF TypeInv, setEnabled
    <3>6. wish' \in Settings
      BY <2>4 DEF TypeInv, setEnabled, Settings, Places
    <3>7. torn' \in BOOLEAN
      BY <2>4 DEF TypeInv, setEnabled, Meets, LookingUp, Writing
      <3> QED BY <2>4, <3>1, <3>2, <3>3, <3>4, <3>5, <3>6, <3>7 DEF TypeInv, setEnabled,
      workerVars
  <2>5. CASE setLocation
    <3>1. due' \in Stamps
      BY <2>5 DEF TypeInv, setLocation, AllDue, Stamps
    <3>2. mem' \in Settings
      BY <2>5, MovedTypes DEF TypeInv, setLocation, Settings, Places
    <3>3. snapshot' \in Snapshots
      BY <2>5 DEF TypeInv, setLocation, Snapshots, Places, Settings
    <3>4. seen' \in BOOLEAN
      BY <2>5 DEF TypeInv, setLocation, PanelRequest
    <3>5. events' \in 0 .. MaxEvents
      BY <2>5, EventsAreBounded DEF TypeInv, setLocation, PanelRequest
    <3>6. puts' \subseteq Keys
      BY <2>5, KeyNames DEF TypeInv, setLocation
    <3>7. wish' \in Settings
      BY <2>5, MovedTypes DEF TypeInv, setLocation, Settings, Places
    <3>8. torn' \in BOOLEAN
      BY <2>5 DEF TypeInv, setLocation, Meets, LookingUp, Writing
    <3> QED BY <2>5, <3>1, <3>2, <3>3, <3>4, <3>5, <3>6, <3>7, <3>8 DEF TypeInv, setLocation
  <2>6. CASE restoreSettings
    <3>1. app' \in Apps
      BY <2>6 DEF TypeInv, restoreSettings, Ready, Apps
    <3>2. seen' \in BOOLEAN
      BY <2>6 DEF TypeInv, restoreSettings, PanelRequest
    <3>3. events' \in 0 .. MaxEvents
      BY <2>6, EventsAreBounded DEF TypeInv, restoreSettings, PanelRequest
    <3>4. puts' \subseteq Keys
      BY <2>6, KeyNames DEF TypeInv, restoreSettings
    <3>5. wish' \in Settings
      BY <2>6, BackupTypes DEF TypeInv, restoreSettings, Settings, Places
    <3>6. torn' \in BOOLEAN
      BY <2>6 DEF TypeInv, restoreSettings, Meets, LookingUp, Writing
      <3> QED BY <2>6, <3>1, <3>2, <3>3, <3>4, <3>5, <3>6 DEF TypeInv, restoreSettings,
      workerVars, dataVars
  <2>7. CASE RestoreWaits
    <3>1. restore' \in Restores
      BY <2>7 DEF TypeInv, RestoreWaits, Restores
    <3>2. app' \in Apps
      BY <2>7 DEF TypeInv, RestoreWaits, Ready, Apps
    <3>3. wish' \in Settings
      BY <2>7, ChoiceTypes DEF TypeInv, RestoreWaits, Settings, Places
    <3> QED BY <2>7, <3>1, <3>2, <3>3 DEF TypeInv, RestoreWaits, workerVars
  <2>8. CASE RestoreApplied
    <3>1. due' \in Stamps
      BY <2>8 DEF TypeInv, RestoreApplied, AllDue, Stamps
    <3>2. mem' \in Settings
      BY <2>8 DEF TypeInv, RestoreApplied, Applied, Settings, Places
    <3>3. snapshot' \in Snapshots
      BY <2>8 DEF TypeInv, RestoreApplied, Applied, Snapshots, Places, Settings
    <3>4. app' \in Apps
      BY <2>8 DEF TypeInv, RestoreApplied, Ready, Apps
    <3>5. wish' \in Settings
      BY <2>8, ChoiceTypes DEF TypeInv, RestoreApplied, Settings, Places
    <3> QED BY <2>8, <3>1, <3>2, <3>3, <3>4, <3>5 DEF TypeInv, RestoreApplied
  <2>9. CASE pause
    <3>1. flags' \in Flags
      BY <2>9 DEF TypeInv, pause, Flags
    <3>2. app' \in Apps
      BY <2>9 DEF TypeInv, pause, Ready, Apps
    <3>3. seen' \in BOOLEAN
      BY <2>9 DEF TypeInv, pause
    <3>4. events' \in 0 .. MaxEvents
      BY <2>9, EventsAreBounded DEF TypeInv, pause
    <3> QED BY <2>9, <3>1, <3>2, <3>3, <3>4 DEF TypeInv, pause, workerVars, dataVars, saveVars
  <2>10. CASE PauseReturns
    <3>1. driver' \in {"off", "station", "connected", "ap"}
      BY <2>10 DEF TypeInv, PauseReturns
    <3>2. app' \in Apps
      BY <2>10 DEF TypeInv, PauseReturns, Apps
    <3>3. answered' \in BOOLEAN
      BY <2>10 DEF TypeInv, PauseReturns
      <3> QED BY <2>10, <3>1, <3>2, <3>3 DEF TypeInv, PauseReturns, workerVars, dataVars,
      saveVars
  <2>11. CASE startPortal
    <3>1. snapshot' \in Snapshots
      BY <2>11 DEF TypeInv, startPortal, Snapshots, Places, Settings
    <3>2. flags' \in Flags
      BY <2>11 DEF TypeInv, startPortal, Flags
    <3>3. driver' \in {"off", "station", "connected", "ap"}
      BY <2>11 DEF TypeInv, startPortal
    <3>4. app' \in Apps
      BY <2>11 DEF TypeInv, startPortal, Apps
      <3> QED BY <2>11, <3>1, <3>2, <3>3, <3>4 DEF TypeInv, startPortal, workerVars, dataVars,
      saveVars
  <2>12. CASE save_setup
    <3>1. mem' \in Settings
      BY <2>12, SetUpTypes DEF TypeInv, save_setup
    <3>2. snapshot' \in Snapshots
      BY <2>12 DEF TypeInv, save_setup, Snapshots, Places, Settings
    <3>3. puts' \subseteq Keys
      BY <2>12, KeyNames DEF TypeInv, save_setup
    <3>4. wish' \in Settings
      BY <2>12, SetUpTypes DEF TypeInv, save_setup
    <3>5. torn' \in BOOLEAN
      BY <2>12 DEF TypeInv, save_setup, Meets, LookingUp, Writing
    <3> QED BY <2>12, <3>1, <3>2, <3>3, <3>4, <3>5 DEF TypeInv, save_setup, workerVars
  <2>13. CASE stopPortal
    <3>1. flags' \in Flags
      BY <2>13 DEF TypeInv, stopPortal, Flags
    <3>2. driver' \in {"off", "station", "connected", "ap"}
      BY <2>13 DEF TypeInv, stopPortal
    <3>3. app' \in Apps
      BY <2>13 DEF TypeInv, stopPortal, Ready, Apps
    <3>4. answered' \in BOOLEAN
      BY <2>13 DEF TypeInv, stopPortal
      <3> QED BY <2>13, <3>1, <3>2, <3>3, <3>4 DEF TypeInv, stopPortal, workerVars, dataVars,
      saveVars
  <2>14. CASE resume
    <3>1. flags' \in Flags
      BY <2>14 DEF TypeInv, resume, Flags
    <3>2. app' \in Apps
      BY <2>14 DEF TypeInv, resume, Apps
    <3>3. answered' \in BOOLEAN
      BY <2>14 DEF TypeInv, resume
    <3> QED BY <2>14, <3>1, <3>2, <3>3 DEF TypeInv, resume, workerVars, dataVars, saveVars
    <2> QED BY <1>2, <2>1, <2>2, <2>3, <2>4, <2>5, <2>6, <2>7, <2>8, <2>9, <2>10, <2>11,
      <2>12, <2>13, <2>14 DEF Application
<1>3. CASE Associates
  <2>1. driver' \in {"off", "station", "connected", "ap"}
    BY <1>3 DEF TypeInv, Associates
  <2> QED BY <1>3, <2>1 DEF TypeInv, Associates, workerVars, dataVars, appVars
<1>4. CASE ConnectionLost
  <2>1. driver' \in {"off", "station", "connected", "ap"}
    BY <1>4 DEF TypeInv, ConnectionLost
  <2> QED BY <1>4, <2>1 DEF TypeInv, ConnectionLost, workerVars, dataVars, appVars
<1>5. CASE RestoreTime
  <2>1. restore' \in Restores
    BY <1>5 DEF TypeInv, RestoreTime, Restores
  <2> QED BY <1>5, <2>1 DEF TypeInv, RestoreTime, workerVars, appVars
<1>6. CASE HalfRange
  <2>1. era' \in 0 .. 2
    BY <1>6 DEF TypeInv, HalfRange
  <2>2. events' \in 0 .. MaxEvents
    BY <1>6, EventsAreBounded DEF TypeInv, HalfRange
  <2> QED BY <1>6, <2>1, <2>2 DEF TypeInv, HalfRange, workerVars, dataVars, saveVars
<1>7. CASE Restart
  <2>1. pc' \in Pcs
    BY <1>7 DEF TypeInv, Restart, Pcs, Requests
  <2>2. copy' \in Settings
    BY <1>7, FreshSettings DEF TypeInv, Restart, Settings, Places
  <2>3. loop' \in Locals
    BY <1>7 DEF TypeInv, Restart, FirstPass, Locals
  <2>4. due' \in Stamps
    BY <1>7 DEF TypeInv, Restart, AllDue, Stamps
  <2>5. asap' \in BOOLEAN
    BY <1>7 DEF TypeInv, Restart
  <2>6. mem' \in Settings
    BY <1>7 DEF TypeInv, Restart, Settings, Places
  <2>7. sync' \in Places
    BY <1>7 DEF TypeInv, Restart, Places, Settings
  <2>8. restore' \in Restores
    BY <1>7, FreshSettings DEF TypeInv, Restart, NoRestore, Restores
  <2>9. snapshot' \in Snapshots
    BY <1>7 DEF TypeInv, Restart, Begun, Snapshots, Places, Settings
  <2>10. flags' \in Flags
    BY <1>7 DEF TypeInv, Restart, Flags
  <2>11. driver' \in {"off", "station", "connected", "ap"}
    BY <1>7 DEF TypeInv, Restart
  <2>12. era' \in 0 .. 2
    BY <1>7 DEF TypeInv, Restart
  <2>13. app' \in Apps
    BY <1>7 DEF TypeInv, Restart, Apps
  <2>14. seen' \in BOOLEAN
    BY <1>7 DEF TypeInv, Restart
  <2>15. answered' \in BOOLEAN
    BY <1>7 DEF TypeInv, Restart
  <2>16. events' \in 0 .. MaxEvents
    BY <1>7, EventsAreBounded DEF TypeInv, Restart
  <2>17. puts' \subseteq Keys
    BY <1>7, KeyNames DEF TypeInv, Restart
  <2>18. wish' \in Settings
    BY <1>7, ChoiceTypes DEF TypeInv, Restart, Settings, Places
  <2>19. torn' \in BOOLEAN
    BY <1>7 DEF TypeInv, Restart, Meets, LookingUp, Writing
    <2> QED BY <1>7, <2>1, <2>2, <2>3, <2>4, <2>5, <2>6, <2>7, <2>8, <2>9, <2>10, <2>11,
      <2>12, <2>13, <2>14, <2>15, <2>16, <2>17, <2>18, <2>19 DEF TypeInv, Restart
<1>8. CASE UNCHANGED vars
  BY <1>8 DEF TypeInv, vars, workerVars, dataVars, appVars
<1> QED BY <1>1, <1>2, <1>3, <1>4, <1>5, <1>6, <1>7, <1>8 DEF Next

-----------------------------------------------------------------------------
(* What the worker connects and looks up with names a network and a city.  *)
NamedInv ==
  pc \in {"station", "geocode"} \cup Stores => copy.enabled /\ Configured(copy)

(* The steps by which the worker gets there and goes on.                   *)
LEMMA NamedSteps ==
  ASSUME [Next]_vars
  PROVE  \/ settings_snapshot \/ Connected \/ geocode_city \/ StoreCoordinates
         \/ pc' \notin {"station", "geocode"} \cup Stores
         \/ UNCHANGED <<pc, copy>>
<1>1. CASE Worker
  BY <1>1 DEF Worker, NothingPending, TakeRestore, apply_backup_settings, NotPaused, Acknowledge,
     WaitEnds, WithdrawAcknowledgement, NothingToDo, StillConnecting, ConnectionDeadline,
     WaitForAttempt, begin_station_connection, GeocodeFails, Interrupted, StartForecast,
     KeepForecast, fetch_forecast, ForecastStored, ForecastFails, StartTimeSync, KeepTime,
     synchronize_time, TimeFails, PassEnds, Goes, NextPass, Stores
<1>2. CASE Application
  BY <1>2 DEF Application, startTask, Goes, Stores, Tick, Put, setEnabled, setLocation,
     restoreSettings, RestoreWaits, RestoreApplied, pause, PauseReturns, startPortal, save_setup,
     stopPortal, resume, workerVars
<1>3. CASE Associates \/ ConnectionLost \/ RestoreTime \/ HalfRange
  BY <1>3 DEF Associates, ConnectionLost, RestoreTime, HalfRange, workerVars
<1>4. CASE Restart
  BY <1>4 DEF Restart, Stores
<1>5. CASE UNCHANGED vars
  BY <1>5 DEF vars, workerVars
<1> QED BY <1>1, <1>2, <1>3, <1>4, <1>5 DEF Next

LEMMA NamedStep ==
  ASSUME TypeInv, NamedInv, [Next]_vars
  PROVE  NamedInv'
<1>1. CASE settings_snapshot
  BY <1>1 DEF settings_snapshot, NamedInv, Configured
<1>2. CASE Connected
  BY <1>2 DEF Connected, Goes, NamedInv, Configured, Stores
<1>3. CASE geocode_city
  <2>1. /\ copy'.enabled = copy.enabled /\ copy'.network = copy.network /\ copy'.city = copy.city
        /\ pc = "geocode"
    BY <1>3, LocatedTypes DEF geocode_city, TypeInv
  <2> QED BY <2>1 DEF NamedInv, Configured
<1>4. CASE StoreCoordinates
  BY <1>4 DEF StoreCoordinates, NamedInv, Configured
<1>5. CASE pc' \notin {"station", "geocode"} \cup Stores
  BY <1>5 DEF NamedInv
<1>6. CASE UNCHANGED <<pc, copy>>
  BY <1>6 DEF NamedInv, Configured
<1> QED BY <1>1, <1>2, <1>3, <1>4, <1>5, <1>6, NamedSteps

-----------------------------------------------------------------------------
(* The settings that were saved. A backup is being written:                *)
Backing == app \in {"restoring", "delaying"}

(* Preferences hold what was chosen, but for the keys still to be written; *)
(* a backup that is being written brings the country and the coordinates   *)
(* of its city.                                                            *)
ChoiceInv ==
  /\ "enabled" \notin puts => nvs.enabled = wish.enabled
  /\ "network" \notin puts => nvs.network = wish.network
  /\ "city" \notin puts => nvs.city = wish.city
  /\ "country" \in puts => wish.country = wish.city
  /\ Backing =>
       /\ wish.country = wish.city
       /\ wish.valid => wish.latitude = wish.city /\ wish.longitude = wish.city
  /\ "latitude" \in puts \/ "longitude" \in puts => Backing
  /\ "valid" \in puts => ~wish.valid \/ {"latitude", "longitude"} \subseteq puts
  /\ pc = "apply" => restore.state # "none"
  /\ pc = "geocode" => ~copy.valid

(* The settings that are in use, looked up, or waiting to be applied are   *)
(* those that were saved last.                                             *)
Agrees(s) ==
  /\ s.enabled = wish.enabled
  /\ s.network = wish.network
  /\ s.city = wish.city
  /\ s.country = wish.city

UseInv ==
  ~torn =>
    /\ ~Restoring => Agrees(mem)
    /\ restore.state # "none" => Agrees(restore.settings) /\ ~Backing
    /\ pc = "apply" => Agrees(copy)
    /\ LookingUp => ~Restoring /\ Agrees(copy)
    /\ pc \in Stores => copy.latitude = wish.city /\ copy.longitude = wish.city

(* Country and coordinates are those of the city, but for the keys that    *)
(* the worker or the application has still to write.                       *)
PlaceInv ==
  ~torn =>
    /\ "country" \notin puts => nvs.country = wish.city
    /\ "valid" \notin puts /\ nvs.valid =>
         /\ "latitude" \in puts \/ "longitude" \in puts => wish.valid
         /\ pc # "latitude" /\ "latitude" \notin puts => nvs.latitude = wish.city
         /\ pc \notin {"latitude", "longitude"} /\ "longitude" \notin puts =>
              nvs.longitude = wish.city

SaveInv == ChoiceInv /\ UseInv /\ PlaceInv

(* What a step may do without touching any of these.                       *)
Quiet ==
  /\ UNCHANGED <<mem, nvs, restore, puts, wish, torn>>
  /\ Backing' = Backing
  /\ LookingUp' => LookingUp /\ copy' = copy
  /\ pc' = "geocode" => ~copy'.valid \/ (pc' = pc /\ copy' = copy)
  /\ pc \in Stores \/ pc' \in Stores \cup {"apply"} => pc' = pc /\ copy' = copy

LEMMA QuietStep ==
  ASSUME SaveInv, Quiet
  PROVE  SaveInv'
<1>1. ChoiceInv'
  BY DEF SaveInv, Quiet, ChoiceInv
<1>2. Restoring' = Restoring
  BY DEF Quiet, Backing, Restoring
<1>3. LookingUp' => LookingUp /\ copy' = copy
  BY DEF Quiet
<1>4. UseInv'
  BY <1>2, <1>3 DEF SaveInv, Quiet, UseInv, Agrees
<1>5. PlaceInv'
  BY DEF SaveInv, Quiet, PlaceInv, Stores
<1> QED BY <1>1, <1>4, <1>5 DEF SaveInv

LEMMA QuietSteps ==
  ASSUME TypeInv, [Next]_vars
  PROVE  \/ TakeRestore \/ apply_backup_settings \/ settings_snapshot \/ geocode_city
         \/ StoreCoordinates \/ fetch_forecast \/ ForecastStored \/ RestoreTime
         \/ Put \/ setEnabled \/ setLocation \/ restoreSettings \/ RestoreWaits
         \/ RestoreApplied \/ save_setup \/ Restart
         \/ Quiet
<1> USE DEF Quiet, Stores, LookingUp
<1>1. CASE NothingPending \/ NotPaused \/ Acknowledge \/ WaitEnds \/ WithdrawAcknowledgement
  BY <1>1 DEF NothingPending, NotPaused, Acknowledge, WaitEnds, WithdrawAcknowledgement, Goes,
     Backing, dataVars, appVars
<1>2. CASE NothingToDo \/ StillConnecting \/ ConnectionDeadline \/ WaitForAttempt
           \/ begin_station_connection \/ Connected
  BY <1>2 DEF NothingToDo, StillConnecting, ConnectionDeadline, WaitForAttempt,
     begin_station_connection, Connected, Offline, Goes, NextPass, Backing, dataVars, appVars
<1>3. CASE GeocodeFails \/ Interrupted \/ StartForecast \/ KeepForecast \/ ForecastFails
           \/ StartTimeSync \/ KeepTime \/ synchronize_time \/ TimeFails \/ PassEnds
  BY <1>3 DEF GeocodeFails, Interrupted, StartForecast, KeepForecast, ForecastFails,
     StartTimeSync,
     KeepTime, synchronize_time, TimeFails, PassEnds, Goes, NextPass, Backing, dataVars, appVars
<1>4. CASE startTask \/ Tick
  BY <1>4 DEF startTask, Tick, Goes, Backing, workerVars, dataVars, saveVars, appVars
<1>5. CASE pause \/ PauseReturns \/ startPortal \/ stopPortal \/ resume
  BY <1>5 DEF pause, PauseReturns, startPortal, stopPortal, resume, Ready, Backing, workerVars,
     dataVars, saveVars
<1>6. CASE Associates \/ ConnectionLost \/ HalfRange \/ UNCHANGED vars
  BY <1>6 DEF Associates, ConnectionLost, HalfRange, vars, Backing, workerVars, dataVars,
     saveVars,
     appVars
<1> QED BY <1>1, <1>2, <1>3, <1>4, <1>5, <1>6 DEF Next, Worker, Application

LEMMA WorkerSaves ==
  ASSUME TypeInv, SaveInv,
         \/ TakeRestore \/ apply_backup_settings \/ settings_snapshot \/ geocode_city
         \/ StoreCoordinates \/ fetch_forecast \/ ForecastStored \/ RestoreTime
  PROVE  SaveInv'
<1> USE DEF SaveInv, LookingUp, Stores
<1>1. CASE TakeRestore
  <2>1. /\ pc' = "apply" /\ copy' = restore.settings /\ restore.state = "due"
        /\ UNCHANGED <<mem, nvs, restore, app, puts, wish, torn>>
    BY <1>1 DEF TakeRestore, Goes, dataVars, appVars
  <2>2. ChoiceInv'
    BY <2>1 DEF ChoiceInv, Backing
  <2>3. UseInv'
    BY <2>1 DEF UseInv, Agrees, Restoring, Backing
  <2>4. PlaceInv'
    BY <1>1, <2>1 DEF PlaceInv, TakeRestore
  <2> QED BY <2>2, <2>3, <2>4
<1>2. CASE apply_backup_settings
  <2>1. /\ pc = "apply" /\ pc' = "pause" /\ mem' = copy /\ restore'.state = "none"
        /\ UNCHANGED <<nvs, app, puts, wish, torn>>
    BY <1>2 DEF apply_backup_settings, Goes, Applied, NoRestore, appVars
  <2>2. ChoiceInv'
    BY <2>1 DEF ChoiceInv, Backing
  <2>3. UseInv'
    BY <2>1 DEF UseInv, Agrees, Restoring, Backing
  <2>4. PlaceInv'
    BY <2>1 DEF PlaceInv
  <2> QED BY <2>2, <2>3, <2>4
<1>3. CASE settings_snapshot
  <2>1. /\ pc = "settings" /\ pc' = "station" /\ copy' = mem
        /\ torn' = (torn \/ (Restoring /\ ~mem.valid))
        /\ UNCHANGED <<mem, nvs, restore, app, puts, wish>>
    BY <1>3 DEF settings_snapshot, Goes, dataVars, saveVars
  <2>2. ChoiceInv'
    BY <2>1 DEF ChoiceInv, Backing
  <2>3. UseInv'
    BY <2>1 DEF UseInv, Agrees, Restoring, Backing
  <2>4. PlaceInv'
    BY <2>1 DEF PlaceInv
  <2> QED BY <2>2, <2>3, <2>4
<1>4. CASE geocode_city
  <2>1. /\ pc = "geocode" /\ pc' = "store" /\ mem' = copy'
        /\ UNCHANGED <<nvs, restore, app, puts, wish, torn>>
    BY <1>4 DEF geocode_city, Goes, appVars
  <2>2. /\ copy'.enabled = copy.enabled /\ copy'.network = copy.network /\ copy'.city = copy.city
        /\ copy.country = copy.city =>
             /\ copy'.country = copy.city
             /\ copy'.latitude = copy.city /\ copy'.longitude = copy.city
    BY <1>4, LocatedTypes DEF geocode_city, TypeInv
  <2>3. ChoiceInv'
    BY <2>1 DEF ChoiceInv, Backing
  <2>4. UseInv'
    BY <2>1, <2>2 DEF UseInv, ChoiceInv, Agrees, Restoring, Backing
  <2>5. PlaceInv'
    BY <2>1 DEF PlaceInv
  <2> QED BY <2>3, <2>4, <2>5
<1>5. CASE StoreCoordinates
  <2>1. /\ pc \in Stores /\ pc' = AfterStore /\ nvs' = Stored(nvs)
        /\ UNCHANGED <<copy, mem, restore, app, puts, wish, torn>>
    BY <1>5 DEF StoreCoordinates, Goes, appVars
  <2>2. nvs'.enabled = nvs.enabled /\ nvs'.network = nvs.network /\ nvs'.city = nvs.city
    BY <2>1 DEF TypeInv, Settings, Stored
  <2>3. pc' \in {"latitude", "longitude", "country", "located"}
    BY <2>1 DEF AfterStore
  <2>4. ChoiceInv'
    BY <2>1, <2>2, <2>3 DEF ChoiceInv, Backing
  <2>5. UseInv'
    BY <2>1, <2>3 DEF UseInv, Agrees, Restoring, Backing
  <2>6. PlaceInv'
    <3>1. CASE pc = "store"
      <4>1. pc' = "latitude" /\ nvs' = [nvs EXCEPT !.valid = TRUE]
        BY <2>1, <3>1 DEF AfterStore, Stored
      <4> QED BY <2>1, <3>1, <4>1 DEF PlaceInv, UseInv, ChoiceInv, Restoring, Backing, TypeInv,
         Settings
    <3>2. CASE pc = "latitude"
      <4>1. pc' = "longitude" /\ nvs' = [nvs EXCEPT !.latitude = copy.latitude]
        BY <2>1, <3>2 DEF AfterStore, Stored
      <4> QED BY <2>1, <3>2, <4>1 DEF PlaceInv, UseInv, TypeInv, Settings
    <3>3. CASE pc = "longitude"
      <4>1. pc' = "country" /\ nvs' = [nvs EXCEPT !.longitude = copy.longitude]
        BY <2>1, <3>3 DEF AfterStore, Stored
      <4> QED BY <2>1, <3>3, <4>1 DEF PlaceInv, UseInv, TypeInv, Settings
    <3>4. CASE pc = "country"
      <4>1. pc' = "located" /\ nvs' = [nvs EXCEPT !.country = copy.country]
        BY <2>1, <3>4 DEF AfterStore, Stored
      <4> QED BY <2>1, <3>4, <4>1 DEF PlaceInv, UseInv, Agrees, TypeInv, Settings
    <3> QED BY <2>1, <3>1, <3>2, <3>3, <3>4
  <2> QED BY <2>4, <2>5, <2>6
<1>6. CASE fetch_forecast
  <2>1. /\ pc = "forecast" /\ pc' = "offset"
        /\ mem'.enabled = mem.enabled /\ mem'.network = mem.network
        /\ mem'.city = mem.city /\ mem'.country = mem.country
        /\ UNCHANGED <<nvs, restore, app, puts, wish, torn>>
    BY <1>6 DEF fetch_forecast, Goes, appVars, TypeInv, Settings
  <2>2. ChoiceInv'
    BY <2>1 DEF ChoiceInv, Backing
  <2>3. UseInv'
    BY <2>1 DEF UseInv, Agrees, Restoring, Backing
  <2>4. PlaceInv'
    BY <2>1 DEF PlaceInv
  <2> QED BY <2>2, <2>3, <2>4
<1>7. CASE ForecastStored
  <2>1. /\ pc = "offset" /\ pc' = "refreshed"
        /\ nvs'.enabled = nvs.enabled /\ nvs'.network = nvs.network /\ nvs'.city = nvs.city
        /\ nvs'.country = nvs.country /\ nvs'.valid = nvs.valid
        /\ nvs'.latitude = nvs.latitude /\ nvs'.longitude = nvs.longitude
        /\ UNCHANGED <<mem, restore, app, puts, wish, torn>>
    BY <1>7 DEF ForecastStored, Goes, appVars, TypeInv, Settings
  <2>2. ChoiceInv'
    BY <2>1 DEF ChoiceInv, Backing
  <2>3. UseInv'
    BY <2>1 DEF UseInv, Agrees, Restoring, Backing
  <2>4. PlaceInv'
    BY <2>1 DEF PlaceInv
  <2> QED BY <2>2, <2>3, <2>4
<1>8. CASE RestoreTime
  <2>1. /\ restore.state # "none" /\ restore'.state # "none"
        /\ restore'.settings = restore.settings
        /\ UNCHANGED <<pc, copy, mem, nvs, app, puts, wish, torn>>
    BY <1>8 DEF RestoreTime, workerVars, appVars, TypeInv, Restores
  <2>2. ChoiceInv'
    BY <2>1 DEF ChoiceInv, Backing
  <2>3. UseInv'
    BY <2>1 DEF UseInv, Agrees, Restoring, Backing
  <2>4. PlaceInv'
    BY <2>1 DEF PlaceInv
  <2> QED BY <2>2, <2>3, <2>4
<1> QED BY <1>1, <1>2, <1>3, <1>4, <1>5, <1>6, <1>7, <1>8

(* The coordinates are written after wifi_coord.                           *)
LEMMA ValidFirst ==
  ASSUME NEW key \in {"latitude", "longitude"}, First(key)
  PROVE  "valid" \notin puts
<1>1. PICK i \in 1 .. 8 : Order[i] = key /\ \A j \in 1 .. i - 1 : Order[j] \notin puts
  BY DEF First
<1>2. i = 6 \/ i = 7
  BY <1>1 DEF Order
<1>3. 5 \in 1 .. i - 1 /\ Order[5] = "valid"
  BY <1>2 DEF Order
<1> QED BY <1>1, <1>3

LEMMA UserSaves ==
  ASSUME TypeInv, SaveInv,
         \/ Put \/ setEnabled \/ setLocation \/ restoreSettings \/ RestoreWaits
         \/ RestoreApplied \/ save_setup \/ Restart
  PROVE  SaveInv'
<1> USE DEF SaveInv
<1>1. CASE Put
  <2>1. PICK key \in puts :
          First(key) /\ nvs' = [nvs EXCEPT ![key] = wish[key]] /\ puts' = puts \ {key}
    BY <1>1 DEF Put
  <2>2. UNCHANGED <<pc, copy, mem, restore, app, wish, torn>>
    BY <1>1 DEF Put, workerVars
  <2>3. \A k \in Keys : nvs'[k] = IF k = key THEN wish[k] ELSE nvs[k]
    BY <2>1, KeyNames DEF TypeInv, Settings
  <2>4. /\ nvs'.enabled = IF key = "enabled" THEN wish.enabled ELSE nvs.enabled
        /\ nvs'.network = IF key = "network" THEN wish.network ELSE nvs.network
        /\ nvs'.city = IF key = "city" THEN wish.city ELSE nvs.city
        /\ nvs'.country = IF key = "country" THEN wish.country ELSE nvs.country
        /\ nvs'.valid = IF key = "valid" THEN wish.valid ELSE nvs.valid
        /\ nvs'.latitude = IF key = "latitude" THEN wish.latitude ELSE nvs.latitude
        /\ nvs'.longitude = IF key = "longitude" THEN wish.longitude ELSE nvs.longitude
    BY <2>3, KeyNames
  <2>5. ChoiceInv'
    <3>1. key \in {"latitude", "longitude"} => "valid" \notin puts
      BY <2>1, ValidFirst
    <3> QED BY <2>1, <2>2, <2>4, <3>1 DEF ChoiceInv, Backing
  <2>6. UseInv'
    BY <2>2 DEF UseInv, Agrees, Restoring, Backing, LookingUp
  <2>7. PlaceInv'
    <3>1. CASE key = "valid"
      BY <2>1, <2>2, <2>4, <3>1 DEF PlaceInv, ChoiceInv, Backing
    <3>2. CASE key = "latitude"
      BY <2>1, <2>2, <2>4, <3>2 DEF PlaceInv, ChoiceInv, Backing
    <3>3. CASE key = "longitude"
      BY <2>1, <2>2, <2>4, <3>3 DEF PlaceInv, ChoiceInv, Backing
    <3>4. CASE key \notin {"valid", "latitude", "longitude"}
      BY <2>1, <2>2, <2>4, <3>4 DEF PlaceInv, ChoiceInv, Backing
    <3> QED BY <3>1, <3>2, <3>3, <3>4
  <2> QED BY <2>5, <2>6, <2>7
<1>2. CASE setEnabled
  <2>1. PICK enabled \in BOOLEAN :
          mem' = [mem EXCEPT !.enabled = enabled] /\ wish' = [wish EXCEPT !.enabled = enabled]
    BY <1>2 DEF setEnabled
  <2>2. /\ app = "ticking" /\ puts = {} /\ puts' = {"enabled"}
        /\ torn' = (torn \/ LookingUp \/ restore.state # "none")
        /\ UNCHANGED <<pc, copy, nvs, restore, app>>
    BY <1>2 DEF setEnabled, Ready, Meets, workerVars
  <2>3. /\ mem'.enabled = wish'.enabled
        /\ mem'.network = mem.network /\ mem'.city = mem.city /\ mem'.country = mem.country
        /\ wish'.network = wish.network /\ wish'.city = wish.city
        /\ wish'.country = wish.country /\ wish'.valid = wish.valid
    BY <2>1 DEF TypeInv, Settings
  <2>4. ChoiceInv'
    BY <2>2, <2>3 DEF ChoiceInv, Backing
  <2>5. UseInv'
    BY <2>2, <2>3 DEF UseInv, ChoiceInv, Agrees, Restoring, LookingUp, Stores
  <2>6. PlaceInv'
    BY <2>2, <2>3 DEF PlaceInv
  <2> QED BY <2>4, <2>5, <2>6
<1>3. CASE setLocation
  <2>1. PICK city \in Cities : mem' = MovedTo(city, mem) /\ wish' = MovedTo(city, wish)
    BY <1>3 DEF setLocation
  <2>2. /\ app = "ticking" /\ puts = {} /\ puts' = {"city", "country", "valid"}
        /\ torn' = (torn \/ LookingUp \/ restore.state # "none")
        /\ UNCHANGED <<pc, copy, nvs, restore, app>>
    BY <1>3 DEF setLocation, PanelRequest, Ready, Meets
  <2>3. /\ mem'.enabled = mem.enabled /\ mem'.network = mem.network
        /\ wish'.enabled = wish.enabled /\ wish'.network = wish.network
        /\ mem'.city = city /\ mem'.country = city /\ wish'.city = city /\ wish'.country = city
        /\ ~wish'.valid
    BY <2>1, MovedTypes DEF TypeInv
  <2>4. ChoiceInv'
    BY <2>2, <2>3 DEF ChoiceInv, Backing
  <2>5. UseInv'
    BY <2>2, <2>3 DEF UseInv, ChoiceInv, Agrees, Restoring, LookingUp, Stores
  <2>6. PlaceInv'
    BY <2>2 DEF PlaceInv
  <2> QED BY <2>4, <2>5, <2>6
<1>4. CASE restoreSettings
  <2>1. /\ wish' \in Backups /\ puts' = Keys /\ app' \in {"restoring", "delaying"}
        /\ torn' = (LookingUp \/ restore.state # "none")
        /\ UNCHANGED <<pc, copy, mem, nvs, restore>>
    BY <1>4 DEF restoreSettings, Meets, workerVars, dataVars
  <2>2. /\ wish'.country = wish'.city
        /\ wish'.valid => wish'.latitude = wish'.city /\ wish'.longitude = wish'.city
    BY <2>1, BackupTypes
  <2>3. ChoiceInv'
    BY <2>1, <2>2, KeyNames DEF ChoiceInv, Backing
  <2>4. UseInv'
    BY <2>1 DEF UseInv, ChoiceInv, Agrees, Restoring, Backing, LookingUp, Stores
  <2>5. PlaceInv'
    BY <2>1, KeyNames DEF PlaceInv
  <2> QED BY <2>3, <2>4, <2>5
<1>5. CASE RestoreWaits
  <2>1. /\ app = "delaying" /\ app' = "ticking" /\ puts = {}
        /\ restore' = [state |-> "waiting", settings |-> wish]
        /\ UNCHANGED <<pc, copy, mem, nvs, puts, torn>>
    BY <1>5 DEF RestoreWaits, Ready, workerVars
  <2>2. /\ wish'.enabled = wish.enabled /\ wish'.network = wish.network
        /\ wish'.city = wish.city /\ wish'.country = wish.country
    BY <1>5, ChoiceTypes DEF RestoreWaits, TypeInv
  <2>3. ChoiceInv'
    BY <2>1, <2>2 DEF ChoiceInv, Backing
  <2>4. UseInv'
    BY <2>1, <2>2 DEF UseInv, ChoiceInv, Agrees, Restoring, Backing, LookingUp, Stores
  <2>5. PlaceInv'
    BY <2>1, <2>2 DEF PlaceInv
  <2> QED BY <2>3, <2>4, <2>5
<1>6. CASE RestoreApplied
  <2>1. /\ app = "restoring" /\ app' = "ticking" /\ puts = {} /\ mem' = wish
        /\ UNCHANGED <<pc, copy, nvs, restore, puts, torn>>
    BY <1>6 DEF RestoreApplied, Applied, Ready
  <2>2. /\ wish'.enabled = wish.enabled /\ wish'.network = wish.network
        /\ wish'.city = wish.city /\ wish'.country = wish.country
    BY <1>6, ChoiceTypes DEF RestoreApplied, TypeInv
  <2>3. ChoiceInv'
    BY <2>1, <2>2 DEF ChoiceInv, Backing
  <2>4. UseInv'
    BY <2>1, <2>2 DEF UseInv, ChoiceInv, Agrees, Restoring, Backing, LookingUp, Stores
  <2>5. PlaceInv'
    BY <2>1, <2>2 DEF PlaceInv
  <2> QED BY <2>3, <2>4, <2>5
<1>7. CASE save_setup
  <2>1. PICK city \in Cities : mem' = SetUp(mem, city) /\ wish' = SetUp(wish, city)
    BY <1>7 DEF save_setup
  <2>2. /\ app = "portal" /\ puts' = {"enabled", "network", "city", "country", "valid"}
        /\ torn' = (LookingUp \/ restore.state # "none")
        /\ UNCHANGED <<pc, copy, nvs, restore, app>>
    BY <1>7 DEF save_setup, Ready, Meets, workerVars
  <2>3. /\ mem'.enabled = wish'.enabled /\ mem'.network = wish'.network
        /\ mem'.city = city /\ mem'.country = city /\ wish'.city = city /\ wish'.country = city
        /\ ~wish'.valid
    BY <2>1, SetUpTypes DEF TypeInv
  <2>4. ChoiceInv'
    BY <2>2, <2>3 DEF ChoiceInv, Backing
  <2>5. UseInv'
    BY <2>2, <2>3 DEF UseInv, ChoiceInv, Agrees, Restoring, LookingUp, Stores
  <2>6. PlaceInv'
    BY <2>2 DEF PlaceInv
  <2> QED BY <2>4, <2>5, <2>6
<1>8. CASE Restart
  <2>1. /\ pc' = "none" /\ app' = "ticking" /\ restore'.state = "none" /\ puts' = {}
        /\ mem' = nvs /\ nvs' = nvs
        /\ torn' = (torn \/ puts # {} \/ pc \in Stores)
    BY <1>8 DEF Restart, NoRestore, Writing
  <2>2. /\ wish'.enabled = nvs.enabled /\ wish'.network = nvs.network
        /\ wish'.city = nvs.city /\ wish'.country = nvs.country
    BY <1>8, ChoiceTypes DEF Restart, TypeInv
  <2>3. ChoiceInv'
    BY <2>1, <2>2 DEF ChoiceInv, Backing
  <2>4. UseInv'
    BY <2>1, <2>2 DEF UseInv, ChoiceInv, PlaceInv, Agrees, Restoring, Backing, LookingUp, Stores
  <2>5. PlaceInv'
    BY <2>1, <2>2 DEF PlaceInv, ChoiceInv, Stores
  <2> QED BY <2>3, <2>4, <2>5
<1> QED BY <1>1, <1>2, <1>3, <1>4, <1>5, <1>6, <1>7, <1>8

-----------------------------------------------------------------------------
IInv == TypeInv /\ NamedInv /\ PauseInv /\ SaveInv

LEMMA InitIInv == Init => IInv
<1> SUFFICES ASSUME Init PROVE IInv
  OBVIOUS
<1>1. /\ nvs \in Settings
      /\ nvs.country = nvs.city
      /\ nvs.valid => nvs.latitude = nvs.city /\ nvs.longitude = nvs.city
  <2>1. CASE nvs = Fresh
    BY <2>1, FreshSettings DEF Fresh
  <2>2. CASE nvs # Fresh
    <3>1. PICK city \in Home : nvs = Complete(TRUE, city, TRUE)
      BY <2>2 DEF Init
    <3>2. city \in Cities
      BY WifiServiceAssumption
    <3> QED BY <3>1, <3>2, CompleteSettings
  <2> QED BY <2>1, <2>2
<1>2. TypeInv
  <2>1. pc \in Pcs /\ app \in Apps
    BY DEF Init, Pcs, Requests, Apps
  <2>2. loop \in Locals /\ due \in Stamps /\ flags \in Flags
    BY DEF Init, FirstPass, AllDue, Locals, Stamps, Flags
  <2>3. snapshot \in Snapshots
    BY <1>1, FreshSettings DEF Init, Begun, Snapshots, Settings
  <2>4. restore \in Restores /\ copy \in Settings
    BY FreshSettings DEF Init, NoRestore, Restores
  <2>5. clock \in Places /\ sync \in Places
    BY <1>1, FreshSettings DEF Init, Settings
  <2>6. events \in 0 .. MaxEvents /\ era \in 0 .. 2
    <3>1. MaxEvents \in Nat
      BY WifiServiceAssumption
    <3> QED BY <3>1 DEF Init
  <2>7. asap \in BOOLEAN /\ seen \in BOOLEAN /\ answered \in BOOLEAN /\ torn \in BOOLEAN
    BY DEF Init
  <2>8. wish \in Settings /\ puts \subseteq Keys
    BY <1>1, ChoiceTypes DEF Init
  <2> QED BY <1>1, <2>1, <2>2, <2>3, <2>4, <2>5, <2>6, <2>7, <2>8 DEF Init, TypeInv
<1>3. NamedInv
  BY DEF Init, NamedInv, Stores
<1>4. PauseInv
  BY DEF Init, PauseInv, UsesDriver
<1>5. /\ pc = "none" /\ app = "ticking" /\ restore.state = "none" /\ puts = {} /\ mem = nvs
      /\ wish.enabled = nvs.enabled /\ wish.network = nvs.network
      /\ wish.city = nvs.city /\ wish.country = nvs.country
  BY <1>1, ChoiceTypes DEF Init, NoRestore
<1>6. ChoiceInv
  BY <1>5 DEF ChoiceInv, Backing
<1>7. UseInv
  BY <1>1, <1>5 DEF UseInv, Agrees, LookingUp, Stores
<1>8. PlaceInv
  BY <1>1, <1>5 DEF PlaceInv
<1> QED BY <1>2, <1>3, <1>4, <1>6, <1>7, <1>8 DEF IInv, SaveInv

LEMMA InductiveIInv == IInv /\ [Next]_vars => IInv'
<1> SUFFICES ASSUME IInv, [Next]_vars PROVE IInv'
  OBVIOUS
<1>1. flags \in Flags
  BY DEF IInv, TypeInv
<1>2. TypeInv' /\ NamedInv' /\ PauseInv'
  BY <1>1, TypeStep, NamedStep, PauseStep DEF IInv
<1>3. SaveInv'
  BY QuietSteps, QuietStep, WorkerSaves, UserSaves DEF IInv
<1> QED BY <1>2, <1>3 DEF IInv

LEMMA SpecIInv == Spec => []IInv
<1>1. Init => IInv
  BY InitIInv
<1> QED BY <1>1, InductiveIInv, PTL DEF Spec

(* The state of the service is well formed, and what the worker connects   *)
(* and looks up with names a network and a city.                           *)
THEOREM ServiceTypes == Spec => []TypeOK
<1>1. IInv => TypeOK
  BY DEF IInv, TypeInv, NamedInv, TypeOK
<1> QED BY <1>1, SpecIInv, PTL

(* The worker that answered a pause stays off the Wi-Fi driver until the   *)
(* application gives it back.                                              *)
THEOREM PauseExcludesWorker == Spec => []AnsweredPauseExcludesWorker
<1>1. IInv => AnsweredPauseExcludesWorker
  BY DEF IInv, PauseInv, AnsweredPauseExcludesWorker
<1> QED BY <1>1, SpecIInv, PTL

(* What the user chose is what Preferences hold, at whatever key the power *)
(* was cut and whatever the worker wrote back. A save that no lookup, no   *)
(* waiting backup and no power cut interfered with is also what is in use, *)
(* with the country and the coordinates of its city.                       *)
THEOREM SavedSettingsSurvive == Spec => []SettingsSurvive
<1>1. IInv => SettingsSurvive
  <2> SUFFICES ASSUME IInv PROVE SettingsSurvive
    OBVIOUS
  <2>1. ChoiceIsSaved
    BY DEF IInv, SaveInv, ChoiceInv, ChoiceIsSaved
  <2>2. ChoiceIsUsed
    BY DEF IInv, SaveInv, ChoiceInv, UseInv, Agrees, ChoiceIsUsed
  <2>3. CoordinatesAreOfCity
    BY DEF IInv, SaveInv, ChoiceInv, PlaceInv, CoordinatesAreOfCity, Writing, Stores
  <2> QED BY <2>1, <2>2, <2>3 DEF SettingsSurvive
<1> QED BY <1>1, SpecIInv, PTL
==============================================================================
