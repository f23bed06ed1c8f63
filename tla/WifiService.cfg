SPECIFICATION FairSpec
CONSTANTS
    Cities = {"p", "q"}
    Home = {"p"}
    Backups <- MCBackups
    Slow = TRUE
    MaxEvents = 2
INVARIANTS TypeOK AnsweredPauseExcludesWorker SettingsSurvive
PROPERTIES Reconnects WeatherFollowsCity
