---------------------------- MODULE AlarmService ----------------------------
(***************************************************************************)
(* The alarm service (src/alarm_service.cpp), its storage                  *)
(* (src/alarm_storage.cpp) and the two editors that write its settings:    *)
(* the touch editor's Save button and the control panel's configure().     *)
(*                                                                         *)
(* Time is counted in ticks of the RTC. A minute has TicksPerMinute ticks, *)
(* a day MinutesPerDay minutes and a week DaysPerWeek days, so that the    *)
(* calendar arithmetic of due() and upcoming() is kept while a week stays  *)
(* small. Hour and minute of an alarm are one number, the minute of day.   *)
(***************************************************************************)
EXTENDS Integers, FiniteSets

CONSTANTS
    Alarms,            \* the alarm slots
    TicksPerMinute, MinutesPerDay, DaysPerWeek,
    SnoozeTicks,       \* kAlarmSnoozeSeconds
    Offered,           \* the settings that users and the control panel send
    MaxTime,           \* bound: the RTC stops here
    Adjustments        \* by how many ticks the RTC may be set, forward or back

Minutes  == 0 .. MinutesPerDay - 1
Weekdays == 0 .. DaysPerWeek - 1

AlarmSettings ==
    [enabled : BOOLEAN, one_time : BOOLEAN, minute : Minutes, weekdays : SUBSET Weekdays]

ASSUME AlarmServiceAssumption ==
    /\ Alarms \subseteq Nat /\ IsFiniteSet(Alarms)
    /\ TicksPerMinute \in Nat \ {0}
    /\ MinutesPerDay \in Nat \ {0}
    /\ DaysPerWeek \in Nat \ {0}
    /\ SnoozeTicks \in Nat \ {0}
    /\ MaxTime \in Nat
    /\ Adjustments \subseteq Int

None  == -1            \* no alarm
Never == -1            \* UINT32_MAX, which is no minute stamp

VARIABLES
    now,               \* the RTC, in ticks
    alarms,            \* g_alarms
    stored,            \* the alarms_v1 record in NVS
    last_trigger,      \* g_last_trigger_minute
    snooze_alarm,      \* g_snooze_alarm
    snooze_at,         \* g_snooze_at
    active,            \* the application's active_alarm_index_
    answer,            \* what due() returned, None after any other call
    rung               \* history: one-time alarms announced since they were armed

vars == <<now, alarms, stored, last_trigger, snooze_alarm, snooze_at, active, answer, rung>>

-----------------------------------------------------------------------------
(* Calendar                                                                *)
MinuteStamp(t) == t \div TicksPerMinute
MinuteOfDay(t) == MinuteStamp(t) % MinutesPerDay
Day(t)         == MinuteStamp(t) \div MinutesPerDay
Weekday(t)     == Day(t) % DaysPerWeek
TimeOf(day, minute) == (day * MinutesPerDay + minute) * TicksPerMinute

First(S) == CHOOSE i \in S : \A j \in S : i <= j

\* Mutant: the validity test of a record is dropped.
MutAcceptAnything(s) == TRUE

alarm_config_is_valid(s) == s \in AlarmSettings

Defaults ==
    [i \in Alarms |-> [enabled |-> FALSE, one_time |-> FALSE,
                       minute |-> i % MinutesPerDay, weekdays |-> Weekdays]]

-----------------------------------------------------------------------------
(* due()                                                                   *)
ScheduledAt(i, t) ==
    /\ alarms[i].enabled
    /\ alarms[i].minute = MinuteOfDay(t)
    /\ alarms[i].one_time \/ Weekday(t) \in alarms[i].weekdays
    /\ last_trigger[i] # MinuteStamp(t)

DueSet(t) == {i \in Alarms : ScheduledAt(i, t)}

SnoozeLapsed(t) == snooze_alarm # None /\ t >= snooze_at

Silence(S) == [i \in Alarms |-> IF i \in S /\ alarms[i].one_time
                                THEN [alarms[i] EXCEPT !.enabled = FALSE]
                                ELSE alarms[i]]

\* Mutant: only the announced alarm is stamped.
MutStampFirstOnly(due) ==
    [i \in Alarms |-> IF due # {} /\ i = First(due) THEN MinuteStamp(now) ELSE last_trigger[i]]

Stamped(due) ==
    [i \in Alarms |-> IF i \in due THEN MinuteStamp(now) ELSE last_trigger[i]]

\* Mutant: due() does not save what it switched off.
MutNotSaved(due) == stored

Saved(due) == IF \E i \in due : alarms[i].one_time THEN Silence(due) ELSE stored

DueSnoozed ==
    /\ SnoozeLapsed(now)
    /\ answer' = snooze_alarm
    /\ active' = snooze_alarm
    /\ snooze_alarm' = None
    /\ snooze_at' = 0
    /\ UNCHANGED <<now, alarms, stored, last_trigger, rung>>

DueScheduled ==
    /\ ~SnoozeLapsed(now)
    /\ LET due == DueSet(now)
       IN /\ last_trigger' = Stamped(due)
          /\ alarms' = Silence(due)
          /\ stored' = Saved(due)
          /\ answer' = IF due = {} THEN None ELSE First(due)
          /\ active' = IF due = {} THEN active ELSE First(due)
          /\ rung' = rung \cup {i \in due : i = First(due) /\ alarms[i].one_time}
    /\ UNCHANGED <<now, snooze_alarm, snooze_at>>

Due == DueSnoozed \/ DueScheduled

-----------------------------------------------------------------------------
(* upcoming(): a pure scan of the next week                                *)
\* Mutant: the scan stops a day before the same weekday comes again.
MutSixDays(i) ==
    {t \in {TimeOf(Day(now) + offset, alarms[i].minute) : offset \in 0 .. DaysPerWeek - 1} :
        /\ alarms[i].enabled
        /\ t > now
        /\ alarms[i].one_time \/ Weekday(t) \in alarms[i].weekdays}

Candidates(i) ==
    {t \in {TimeOf(Day(now) + offset, alarms[i].minute) : offset \in 0 .. DaysPerWeek} :
        /\ alarms[i].enabled
        /\ t > now
        /\ alarms[i].one_time \/ Weekday(t) \in alarms[i].weekdays}

NoUpcoming == [time |-> 0, alarm |-> None]

upcoming ==
    LET snoozes == IF snooze_alarm # None /\ snooze_at > now THEN {snooze_at} ELSE {}
        times   == snoozes \cup UNION {Candidates(i) : i \in Alarms}
        best    == First(times)
    IN  IF times = {} THEN NoUpcoming
        ELSE [time  |-> best,
              alarm |-> IF best \in snoozes THEN snooze_alarm
                        ELSE First({i \in Alarms : best \in Candidates(i)})]

-----------------------------------------------------------------------------
(* snooze() and dismiss(), called for the alarm the application rings      *)
SnoozeActive ==
    /\ active # None
    /\ snooze_alarm' = active
    /\ snooze_at' = now + SnoozeTicks
    /\ active' = None
    /\ answer' = None
    /\ UNCHANGED <<now, alarms, stored, last_trigger, rung>>

DismissActive ==
    /\ active # None
    /\ snooze_alarm' = None
    /\ snooze_at' = 0
    /\ active' = None
    /\ answer' = None
    /\ UNCHANGED <<now, alarms, stored, last_trigger, rung>>

(* configure(): one slot, from the control panel or a restored archive     *)
Configure(i, s) ==
    /\ alarm_config_is_valid(s)
    /\ alarms' = [alarms EXCEPT ![i] = s]
    /\ stored' = [alarms EXCEPT ![i] = s]
    /\ last_trigger' = [last_trigger EXCEPT ![i] = Never]
    /\ snooze_alarm' = IF snooze_alarm = i /\ ~s.enabled THEN None ELSE snooze_alarm
    /\ rung' = IF s.enabled THEN rung \ {i} ELSE rung
    /\ answer' = None
    /\ UNCHANGED <<now, snooze_at, active>>

(* The Save button writes every slot back and leaves the trigger stamps.   *)
SaveEvent(edited) ==
    /\ alarms' = edited
    /\ stored' = edited
    /\ LET cancelled == snooze_alarm # None /\ ~edited[snooze_alarm].enabled
       IN /\ snooze_alarm' = IF cancelled THEN None ELSE snooze_alarm
          /\ snooze_at' = IF cancelled THEN 0 ELSE snooze_at
    /\ rung' = {i \in rung : ~edited[i].enabled}
    /\ answer' = None
    /\ UNCHANGED <<now, last_trigger, active>>

(* The touch editor works on a copy taken when its screen is entered; each *)
(* Save carries one edited slot, the others as the copy has them.          *)
SaveEditor(i, s) ==
    /\ alarm_config_is_valid(s)
    /\ SaveEvent([alarms EXCEPT ![i] = s])

(* alarm_storage_begin() after a power cycle                               *)
Reboot ==
    /\ alarms' = IF \A i \in Alarms : alarm_config_is_valid(stored[i])
                 THEN stored ELSE Defaults
    /\ last_trigger' = [i \in Alarms |-> Never]
    /\ snooze_alarm' = None
    /\ snooze_at' = 0
    /\ active' = None
    /\ answer' = None
    /\ UNCHANGED <<now, stored, rung>>

(* The RTC runs, and is set by the date editor, NTP or the control panel.  *)
SetClock(t) ==
    /\ t \in 0 .. MaxTime
    /\ now' = t
    /\ answer' = None
    /\ UNCHANGED <<alarms, stored, last_trigger, snooze_alarm, snooze_at, active, rung>>

Tick == SetClock(now + 1)
AdjustRtc(d) == SetClock(now + d)

-----------------------------------------------------------------------------
Init ==
    /\ now = 0
    /\ alarms = Defaults
    /\ stored = Defaults
    /\ last_trigger = [i \in Alarms |-> Never]
    /\ snooze_alarm = None
    /\ snooze_at = 0
    /\ active = None
    /\ answer = None
    /\ rung = {}

Next ==
    \/ Due
    \/ SnoozeActive
    \/ DismissActive
    \/ \E i \in Alarms, s \in Offered : Configure(i, s) \/ SaveEditor(i, s)
    \/ Reboot
    \/ Tick
    \/ \E d \in Adjustments : AdjustRtc(d)

Spec == Init /\ [][Next]_vars

-----------------------------------------------------------------------------
(* Types of the service's state; last_trigger holds a minute stamp.        *)
TypeOK ==
    /\ now \in Nat
    /\ alarms \in [Alarms -> AlarmSettings]
    /\ stored \in [Alarms -> AlarmSettings]
    /\ last_trigger \in [Alarms -> Int]
    /\ snooze_alarm \in Alarms \cup {None}
    /\ snooze_at \in Nat
    /\ active \in Alarms \cup {None}
    /\ answer \in Alarms \cup {None}
    /\ rung \subseteq Alarms

(* A one-time alarm that has rung is off in memory and in NVS, whatever    *)
(* restarts, clock changes and edits of other slots follow: it cannot ring *)
(* again from its schedule until the user enables it again.                *)
OneTimeStaysOff ==
    \A i \in rung : ~alarms[i].enabled /\ ~stored[i].enabled

(* upcoming() (home screen, alarm page, control panel) agrees with due():  *)
(* when nothing is due now, the first moment at which a poll would return  *)
(* an alarm, and that alarm, are the ones upcoming() shows. Not so after   *)
(* the RTC was set back before a minute in which an alarm was announced:   *)
(* due() skips that minute, upcoming() does not. Nothing rings after the   *)
(* moments looked at unless something rings before their end.              *)
DueAt(t) == IF SnoozeLapsed(t) THEN snooze_alarm
            ELSE IF DueSet(t) = {} THEN None ELSE First(DueSet(t))

Week == (DaysPerWeek + 1) * MinutesPerDay * TicksPerMinute

UpcomingIsNextRing ==
    DueAt(now) = None /\ (\A i \in Alarms : last_trigger[i] <= MinuteStamp(now)) =>
        LET rings == {t \in now + 1 .. now + Week + snooze_at : DueAt(t) # None}
        IN  upcoming = IF rings = {} THEN NoUpcoming
                       ELSE [time |-> First(rings), alarm |-> DueAt(First(rings))]

(* manual.md: "A one-time alarm turns itself off after it has rung."       *)
(* due() switches off every one-time alarm of the minute but returns one.  *)
OneTimeOffOnlyAfterRung ==
    [][\A i \in Alarms :
          (Due /\ alarms[i].enabled /\ ~alarms'[i].enabled) => answer' = i]_vars

(* Those it switches off unheard share their minute with the alarm that    *)
(* rings, a slot before theirs: the sentence holds for every other minute. *)
OneTimeLostOnlyToAnother ==
    [][\A i \in Alarms :
          (Due /\ alarms[i].enabled /\ ~alarms'[i].enabled) =>
              \/ answer' = i
              \/ answer' < i /\ {answer', i} \subseteq DueSet(now)]_vars

(* What the service promises its caller.                                   *)
AC == INSTANCE AlarmClock WITH
        Stamps <- Int,
        minute <- MinuteStamp(now),
        pending <- DueSet(now),
        snoozed <- snooze_alarm,
        lapsed  <- SnoozeLapsed(now)

ImplementsAlarmClock == AC!AlarmSpec
=============================================================================
