------------------------- MODULE AlarmServiceProofs -------------------------
(* Proofs about AlarmService for every set of slots, calendar and snooze.  *)
EXTENDS AlarmService, WellFoundedInduction, TLAPS

(* The stamp arithmetic stays in the integers.                             *)
LEMMA StampIsInt == ASSUME NEW t \in Nat PROVE MinuteStamp(t) \in Int
  BY AlarmServiceAssumption DEF MinuteStamp

(* The first of a non-empty set of numbers is its least member.            *)
LEMMA FirstIsLeast ==
  ASSUME NEW S \in SUBSET Nat, S # {}
  PROVE  First(S) \in S /\ \A j \in S : First(S) <= j
<1> DEFINE less == OpToRel(<, Nat)
<1>1. IsWellFoundedOn(less, Nat)
  BY NatLessThanWellFounded
<1>2. PICK i \in S : \A j \in S : ~(<<j, i>> \in less)
  <2> HIDE DEF less
  <2> QED BY <1>1, WFMin
<1>3. \A j \in S : i <= j
  <2> SUFFICES ASSUME NEW j \in S PROVE i <= j
    OBVIOUS
  <2>1. ~(j < i)
    <3>1. <<j, i>> \in Nat \X Nat
      OBVIOUS
    <3> QED BY <1>2, <3>1, Zenon DEF OpToRel
  <2> QED BY <2>1
<1> QED BY <1>3 DEF First

LEMMA FirstIsMember ==
  ASSUME NEW S \in SUBSET Alarms, S # {}
  PROVE  First(S) \in S
<1>1. S \in SUBSET Nat
  BY AlarmServiceAssumption
<1> QED BY <1>1, FirstIsLeast

(* What due() switches off keeps its type and, without a one-time alarm in *)
(* the set, nothing changes.                                               *)
LEMMA SilenceProperties ==
  ASSUME alarms \in [Alarms -> AlarmSettings], NEW S \in SUBSET Alarms
  PROVE  /\ Silence(S) \in [Alarms -> AlarmSettings]
         /\ \A i \in Alarms : Silence(S)[i].enabled => alarms[i].enabled
         /\ \A i \in S : alarms[i].one_time => ~Silence(S)[i].enabled
         /\ (\A i \in S : ~alarms[i].one_time) => Silence(S) = alarms
<1>1. \A i \in Alarms : alarms[i] \in AlarmSettings
  OBVIOUS
<1>2. \A s \in AlarmSettings :
        /\ [s EXCEPT !.enabled = FALSE] \in AlarmSettings
        /\ ~[s EXCEPT !.enabled = FALSE].enabled
  BY DEF AlarmSettings
<1>3. Silence(S) \in [Alarms -> AlarmSettings]
  BY <1>1, <1>2 DEF Silence
<1>4. \A i \in Alarms : Silence(S)[i].enabled => alarms[i].enabled
  BY <1>1, <1>2 DEF Silence
<1>5. \A i \in S : alarms[i].one_time => ~Silence(S)[i].enabled
  BY <1>1, <1>2 DEF Silence
<1>6. ASSUME \A i \in S : ~alarms[i].one_time
      PROVE  Silence(S) = alarms
  BY <1>6 DEF Silence
<1> QED BY <1>3, <1>4, <1>5, <1>6

(* The inductive invariant: NVS always holds the settings in memory, so a  *)
(* restart brings back exactly what due() and the editors left.            *)
SavedMatches == stored = alarms

IInv == TypeOK /\ SavedMatches /\ OneTimeStaysOff

LEMMA InitIInv == Init => IInv
<1> SUFFICES ASSUME Init PROVE IInv
  OBVIOUS
<1>1. Defaults \in [Alarms -> AlarmSettings]
  <2>1. \A i \in Alarms : i % MinutesPerDay \in Minutes
    BY AlarmServiceAssumption DEF Minutes
  <2> QED BY <2>1 DEF Defaults, AlarmSettings, Weekdays
<1>2. TypeOK
  BY <1>1 DEF Init, TypeOK, Never, None
<1> QED BY <1>2 DEF Init, IInv, SavedMatches, OneTimeStaysOff

LEMMA NextIInv == IInv /\ [Next]_vars => IInv'
<1> SUFFICES ASSUME IInv, [Next]_vars PROVE IInv'
  OBVIOUS
<1> USE DEF IInv, SavedMatches
<1>1. CASE DueSnoozed
  BY <1>1 DEF DueSnoozed, TypeOK, OneTimeStaysOff, None, SnoozeLapsed
<1>2. CASE DueScheduled
  <2> DEFINE due == DueSet(now)
  <2>1. due \in SUBSET Alarms
    BY DEF DueSet
  <2>2. MinuteStamp(now) \in Int
    BY StampIsInt DEF TypeOK
  <2>3. due # {} => First(due) \in due
    BY <2>1, FirstIsMember
  <2>4. /\ last_trigger' = [i \in Alarms |-> IF i \in due THEN MinuteStamp(now)
                                              ELSE last_trigger[i]]
        /\ alarms' = Silence(due)
        /\ stored' = IF \E i \in due : alarms[i].one_time THEN Silence(due) ELSE stored
        /\ answer' = IF due = {} THEN None ELSE First(due)
        /\ active' = IF due = {} THEN active ELSE First(due)
        /\ rung' = rung \cup {i \in due : i = First(due) /\ alarms[i].one_time}
        /\ UNCHANGED <<now, snooze_alarm, snooze_at>>
    BY <1>2 DEF DueScheduled, Stamped, Saved
  <2> HIDE DEF due
  <2>5. /\ Silence(due) \in [Alarms -> AlarmSettings]
        /\ \A i \in Alarms : Silence(due)[i].enabled => alarms[i].enabled
        /\ \A i \in due : alarms[i].one_time => ~Silence(due)[i].enabled
        /\ (\A i \in due : ~alarms[i].one_time) => Silence(due) = alarms
    BY <2>1, SilenceProperties DEF TypeOK
  <2>6. stored' = alarms'
    BY <2>4, <2>5
  <2>7. TypeOK'
    <3>1. last_trigger' \in [Alarms -> Int]
      BY <2>2, <2>4 DEF TypeOK
    <3>2. answer' \in Alarms \cup {None} /\ active' \in Alarms \cup {None}
      BY <2>1, <2>3, <2>4 DEF TypeOK
    <3>3. rung' \subseteq Alarms
      BY <2>1, <2>4 DEF TypeOK
    <3> QED BY <2>4, <2>5, <2>6, <3>1, <3>2, <3>3 DEF TypeOK
  <2>8. OneTimeStaysOff'
    <3> SUFFICES ASSUME NEW i \in rung' PROVE ~alarms'[i].enabled
      BY <2>6 DEF OneTimeStaysOff
    <3>1. CASE i \in rung
      BY <3>1, <2>4, <2>5 DEF OneTimeStaysOff, TypeOK
    <3>2. CASE i \in due /\ alarms[i].one_time
      BY <3>2, <2>4, <2>5
    <3> QED BY <3>1, <3>2, <2>4
  <2> QED BY <2>6, <2>7, <2>8
<1>3. CASE SnoozeActive
  BY <1>3, AlarmServiceAssumption DEF SnoozeActive, TypeOK, OneTimeStaysOff
<1>4. CASE DismissActive
  BY <1>4 DEF DismissActive, TypeOK, OneTimeStaysOff
<1>5. ASSUME NEW i \in Alarms, NEW s \in Offered, Configure(i, s)
      PROVE  IInv'
  <2>1. s \in AlarmSettings
    BY <1>5 DEF Configure, alarm_config_is_valid
  <2>2. TypeOK'
    BY <1>5, <2>1 DEF Configure, TypeOK, Never, None
  <2>3. OneTimeStaysOff'
    BY <1>5, <2>1 DEF Configure, TypeOK, OneTimeStaysOff
  <2> QED BY <1>5, <2>2, <2>3 DEF Configure
<1>6. ASSUME NEW i \in Alarms, NEW s \in Offered, SaveEditor(i, s)
      PROVE  IInv'
  <2>1. s \in AlarmSettings
    BY <1>6 DEF SaveEditor, alarm_config_is_valid
  <2>2. TypeOK'
    BY <1>6, <2>1 DEF SaveEditor, SaveEvent, TypeOK, None
  <2>3. OneTimeStaysOff'
    BY <1>6, <2>1 DEF SaveEditor, SaveEvent, TypeOK, OneTimeStaysOff
  <2> QED BY <1>6, <2>2, <2>3 DEF SaveEditor, SaveEvent
<1>7. CASE Reboot
  <2>1. alarms' = stored
    BY <1>7 DEF Reboot, alarm_config_is_valid, TypeOK
  <2> QED BY <1>7, <2>1 DEF Reboot, TypeOK, OneTimeStaysOff, Never, None
<1>8. ASSUME NEW t, SetClock(t) PROVE IInv'
  BY <1>8, AlarmServiceAssumption DEF SetClock, TypeOK, OneTimeStaysOff
<1>9. CASE UNCHANGED vars
  BY <1>9 DEF vars, TypeOK, OneTimeStaysOff
<1> QED
  BY <1>1, <1>2, <1>3, <1>4, <1>5, <1>6, <1>7, <1>8, <1>9 DEF Next, Due, Tick, AdjustRtc

(* The state of the service is always well formed.                         *)
THEOREM TypeCorrect == Spec => []TypeOK
<1>1. IInv => TypeOK
  BY DEF IInv
<1> QED BY <1>1, InitIInv, NextIInv, PTL DEF Spec

(* A one-time alarm that rang stays off in memory and in NVS until the     *)
(* user enables it again, across restarts and clock changes.               *)
THEOREM OneTimeSafe == Spec => []OneTimeStaysOff
<1>1. IInv => OneTimeStaysOff
  BY DEF IInv
<1> QED BY <1>1, InitIInv, NextIInv, PTL DEF Spec

-----------------------------------------------------------------------------
(* A poll that switches an alarm off answers with it or with one before it *)
(* that is due in the same minute.                                         *)
LEMMA SwitchedOffIsDue ==
  ASSUME TypeOK, Due, NEW i \in Alarms, alarms[i].enabled, ~alarms'[i].enabled
  PROVE  \/ answer' = i
         \/ answer' < i /\ {answer', i} \subseteq DueSet(now)
<1>1. DueScheduled
  BY DEF Due, DueSnoozed
<1>2. i \in DueSet(now)
  BY <1>1 DEF DueScheduled, Silence
<1>3. answer' = First(DueSet(now))
  BY <1>1, <1>2 DEF DueScheduled
<1>4. DueSet(now) \in SUBSET Nat
  BY AlarmServiceAssumption DEF DueSet
<1>5. answer' \in DueSet(now) /\ answer' <= i
  BY <1>2, <1>3, <1>4, FirstIsLeast
<1> QED BY <1>2, <1>4, <1>5

(* The manual's sentence about one-time alarms fails in minutes with two   *)
(* due alarms and in no other (OneTimeOffOnlyAfterRung, which the run      *)
(* alarm_one_time refutes).                                                *)
THEOREM OneTimeLostToAnother == Spec => OneTimeLostOnlyToAnother
<1>1. IInv /\ [Next]_vars =>
        [\A i \in Alarms :
            (Due /\ alarms[i].enabled /\ ~alarms'[i].enabled) =>
                \/ answer' = i
                \/ answer' < i /\ {answer', i} \subseteq DueSet(now)]_vars
  BY SwitchedOffIsDue DEF IInv
<1> QED BY <1>1, InitIInv, NextIInv, PTL DEF Spec, OneTimeLostOnlyToAnother
-----------------------------------------------------------------------------
(* Refinement                                                              *)
LEMMA InitRefines == Init => AC!AlarmInit
<1> SUFFICES ASSUME Init PROVE AC!AlarmInit
  OBVIOUS
<1>1. MinuteStamp(now) \in Int
  BY StampIsInt DEF Init
<1>2. DueSet(now) \in SUBSET Alarms
  BY DEF DueSet
<1> QED BY <1>1, <1>2 DEF Init, AC!AlarmInit, AC!None, None, SnoozeLapsed

(* A poll of the schedule leaves nothing to announce in that minute.       *)
LEMMA ScheduleConsumed ==
  ASSUME TypeOK, DueScheduled
  PROVE  DueSet(now)' = {}
<1> SUFFICES ASSUME NEW i \in Alarms, ScheduledAt(i, now)' PROVE FALSE
  BY DEF DueSet
<1>1. now' = now
  BY DEF DueScheduled
<1>2. CASE i \in DueSet(now)
  BY <1>1, <1>2 DEF DueScheduled, Stamped, ScheduledAt
<1>3. CASE i \notin DueSet(now)
  <2>1. alarms'[i] = alarms[i] /\ last_trigger'[i] = last_trigger[i]
    BY <1>3 DEF DueScheduled, Stamped, Silence
  <2> QED BY <1>1, <1>3, <2>1 DEF DueSet, ScheduledAt
<1> QED BY <1>2, <1>3

LEMMA NextRefines == TypeOK /\ [Next]_vars => [AC!AlarmNext]_(AC!alarmVars)
<1> SUFFICES ASSUME TypeOK, [Next]_vars PROVE AC!AlarmNext \/ UNCHANGED AC!alarmVars
  OBVIOUS
<1>a. DueSet(now) \in SUBSET Alarms /\ DueSet(now)' \in SUBSET Alarms
  BY DEF DueSet
<1>n. AC!None = None
  BY DEF AC!None, None
<1>f. \A S : AC!First(S) = First(S)
  BY DEF AC!First, First
<1>1. CASE DueSnoozed
  <2>1. UNCHANGED <<MinuteStamp(now), DueSet(now)>>
    BY <1>1 DEF DueSnoozed, DueSet, ScheduledAt, MinuteStamp, MinuteOfDay, Weekday, Day
  <2>2. SnoozeLapsed(now) /\ ~SnoozeLapsed(now)'
    BY <1>1 DEF DueSnoozed, SnoozeLapsed
  <2>3. AC!Poll
    BY <1>1, <2>1, <2>2, <1>n DEF DueSnoozed, AC!Poll
  <2> QED BY <2>3 DEF AC!AlarmNext
<1>2. CASE DueScheduled
  <2>1. UNCHANGED <<MinuteStamp(now), SnoozeLapsed(now)>> /\ ~SnoozeLapsed(now)
    BY <1>2 DEF DueScheduled, MinuteStamp, SnoozeLapsed
  <2>2. DueSet(now)' = {}
    BY <1>2, ScheduleConsumed
  <2>3. answer' = IF DueSet(now) = {} THEN None ELSE First(DueSet(now))
    BY <1>2 DEF DueScheduled
  <2>4. UNCHANGED snooze_alarm
    BY <1>2 DEF DueScheduled
  <2>5. AC!Poll
    BY <2>1, <2>2, <2>3, <2>4, <1>n, <1>f DEF AC!Poll
  <2> QED BY <2>5 DEF AC!AlarmNext
<1>3. CASE SnoozeActive
  <2>1. UNCHANGED <<MinuteStamp(now), DueSet(now)>>
    BY <1>3 DEF SnoozeActive, DueSet, ScheduledAt, MinuteStamp, MinuteOfDay, Weekday, Day
  <2>2. ~SnoozeLapsed(now)'
    BY <1>3, AlarmServiceAssumption DEF SnoozeActive, SnoozeLapsed, TypeOK
  <2>3. active \in Alarms /\ AC!Snooze(active)
    BY <1>3, <2>1, <2>2, <1>n DEF SnoozeActive, AC!Snooze, TypeOK
  <2> QED BY <2>3 DEF AC!AlarmNext
<1>4. CASE DismissActive
  <2>1. UNCHANGED <<MinuteStamp(now), DueSet(now)>>
    BY <1>4 DEF DismissActive, DueSet, ScheduledAt, MinuteStamp, MinuteOfDay, Weekday, Day
  <2>2. AC!Dismiss
    BY <1>4, <2>1, <1>n DEF DismissActive, AC!Dismiss, SnoozeLapsed
  <2> QED BY <2>2 DEF AC!AlarmNext
<1>5. ASSUME NEW i \in Alarms, NEW s \in Offered, Configure(i, s)
      PROVE  AC!Reconfigure
  <2>1. UNCHANGED MinuteStamp(now)
    BY <1>5 DEF Configure, MinuteStamp
  <2>2. \/ UNCHANGED <<snooze_alarm, SnoozeLapsed(now)>>
        \/ snooze_alarm' = None /\ ~SnoozeLapsed(now)'
    BY <1>5 DEF Configure, SnoozeLapsed
  <2> QED BY <1>5, <1>a, <1>n, <2>1, <2>2 DEF Configure, AC!Reconfigure
<1>6. ASSUME NEW i \in Alarms, NEW s \in Offered, SaveEditor(i, s)
      PROVE  AC!Reconfigure
  <2>1. UNCHANGED MinuteStamp(now)
    BY <1>6 DEF SaveEditor, SaveEvent, MinuteStamp
  <2>2. \/ UNCHANGED <<snooze_alarm, SnoozeLapsed(now)>>
        \/ snooze_alarm' = None /\ ~SnoozeLapsed(now)'
    BY <1>6 DEF SaveEditor, SaveEvent, SnoozeLapsed
  <2> QED BY <1>6, <1>a, <1>n, <2>1, <2>2 DEF SaveEditor, SaveEvent, AC!Reconfigure
<1>7. CASE Reboot
  <2>1. AC!Restart
    BY <1>7, <1>a, <1>n DEF Reboot, AC!Restart, SnoozeLapsed, MinuteStamp
  <2> QED BY <2>1 DEF AC!AlarmNext
<1>8. ASSUME NEW t, SetClock(t) PROVE AC!ClockMoves \/ AC!MinuteTurns
  <2>1. SnoozeLapsed(now)' \in {FALSE, snooze_alarm # None}
    BY <1>8 DEF SetClock, SnoozeLapsed
  <2>2. CASE MinuteStamp(now)' = MinuteStamp(now)
    <3>1. DueSet(now)' = DueSet(now)
      BY <1>8, <2>2 DEF SetClock, DueSet, ScheduledAt, MinuteOfDay, Weekday, Day
    <3> QED BY <1>8, <2>1, <2>2, <3>1, <1>n DEF SetClock, AC!ClockMoves
  <2>3. CASE MinuteStamp(now)' # MinuteStamp(now)
    <3>1. MinuteStamp(now)' \in Int
      BY <1>8, StampIsInt DEF SetClock
    <3> QED BY <1>8, <2>1, <2>3, <3>1, <1>a, <1>n DEF SetClock, AC!MinuteTurns
  <2> QED BY <2>2, <2>3
<1>9. CASE UNCHANGED vars
  BY <1>9 DEF vars, AC!alarmVars, DueSet, ScheduledAt, SnoozeLapsed,
              MinuteStamp, MinuteOfDay, Weekday, Day
<1> QED
  BY <1>1, <1>2, <1>3, <1>4, <1>5, <1>6, <1>7, <1>8, <1>9
     DEF Next, Due, Tick, AdjustRtc, AC!AlarmNext

(* The service, with its table, calendar and storage, behaves as the       *)
(* alarm clock the application relies on.                                  *)
THEOREM ServiceImplementsAlarmClock == Spec => ImplementsAlarmClock
<1> QED
  BY InitRefines, NextRefines, TypeCorrect, PTL DEF Spec, ImplementsAlarmClock, AC!AlarmSpec

-----------------------------------------------------------------------------
(* upcoming() and due(). The calendar first: what division by a constant   *)
(* that is not zero returns.                                               *)
LEMMA Division ==
  ASSUME NEW a \in Nat, NEW b \in Nat \ {0}
  PROVE  /\ a \div b \in Nat
         /\ a % b \in 0 .. b - 1
         /\ a = b * (a \div b) + (a % b)
<1>1. a \div b \in Int /\ a % b \in Int
  OBVIOUS
<1>2. a = b * (a \div b) + (a % b)
  BY SMTT(20)
<1>3. a % b >= 0 /\ a % b < b
  BY SMTT(20)
<1>4. a \div b >= 0
  BY SMTT(20)
<1> QED BY <1>1, <1>2, <1>3, <1>4

LEMMA QuotientUnique ==
  ASSUME NEW b \in Nat \ {0}, NEW q \in Int, NEW p \in Int, NEW r \in 0 .. b - 1, NEW s \in 0 .. b - 1,
         b * q + r = b * p + s
  PROVE  q = p /\ r = s
<1>1. b * (q - p) = s - r
  OBVIOUS
<1>2. ~(q - p >= 1)
  BY <1>1, SMTT(20)
<1>3. ~(q - p <= -1)
  BY <1>1, SMTT(20)
<1> QED BY <1>2, <1>3

LEMMA Quotient ==
  ASSUME NEW b \in Nat \ {0}, NEW q \in Nat, NEW r \in 0 .. b - 1
  PROVE  (b * q + r) \div b = q /\ (b * q + r) % b = r
<1>1. b * q \in Nat
  BY SMTT(20)
<1>2. b * q + r \in Nat
  BY <1>1
<1> DEFINE a == b * q + r
<1>3. a \div b \in Nat /\ a % b \in 0 .. b - 1 /\ a = b * (a \div b) + (a % b)
  BY <1>2, Division
<1> HIDE DEF a
<1>4. a = b * q + r
  BY DEF a
<1>5. a \div b = q /\ a % b = r
  BY <1>3, <1>4, QuotientUnique
<1> QED BY <1>5 DEF a

LEMMA QuotientMonotone ==
  ASSUME NEW b \in Nat \ {0}, NEW x \in Nat, NEW y \in Nat, x <= y
  PROVE  x \div b <= y \div b
<1> DEFINE p == x \div b  q == y \div b
<1>1. /\ p \in Nat /\ x % b \in 0 .. b - 1 /\ x = b * p + (x % b)
      /\ q \in Nat /\ y % b \in 0 .. b - 1 /\ y = b * q + (y % b)
  BY Division
<1> HIDE DEF p, q
<1>2. ~(p >= q + 1)
  <2> SUFFICES ASSUME p >= q + 1 PROVE FALSE
    OBVIOUS
  <2>1. b * p >= b * (q + 1)
    BY <1>1, SMTT(20)
  <2> QED BY <1>1, <2>1
<1> QED BY <1>1, <1>2 DEF p, q

(* The start of a minute lies in that minute.                              *)
LEMMA Calendar ==
  ASSUME NEW day \in Nat, NEW minute \in Minutes
  PROVE  /\ TimeOf(day, minute) \in Nat
         /\ MinuteStamp(TimeOf(day, minute)) = day * MinutesPerDay + minute
         /\ MinuteOfDay(TimeOf(day, minute)) = minute
         /\ Day(TimeOf(day, minute)) = day
<1> DEFINE stamp == MinutesPerDay * day + minute
<1>1. /\ TicksPerMinute \in Nat \ {0} /\ MinutesPerDay \in Nat \ {0}
      /\ minute \in 0 .. MinutesPerDay - 1
  BY AlarmServiceAssumption DEF Minutes
<1>2. stamp \in Nat
  BY <1>1, SMTT(20)
<1>3. stamp \div MinutesPerDay = day /\ stamp % MinutesPerDay = minute
  BY <1>1, Quotient
<1>4. day * MinutesPerDay + minute = stamp
  BY <1>1, SMTT(20)
<1> HIDE DEF stamp
<1>5. TimeOf(day, minute) = TicksPerMinute * stamp + 0
  BY <1>1, <1>2, <1>4, SMTT(20) DEF TimeOf
<1>6. TimeOf(day, minute) \in Nat
  BY <1>1, <1>2, <1>5, SMTT(20)
<1>7. MinuteStamp(TimeOf(day, minute)) = stamp
  <2>1. 0 \in 0 .. TicksPerMinute - 1
    BY <1>1
  <2> QED BY <1>1, <1>2, <1>5, <2>1, Quotient DEF MinuteStamp
<1> QED BY <1>3, <1>4, <1>6, <1>7 DEF MinuteOfDay, Day

(* Every moment lies in the minute that its day and minute of day name.    *)
LEMMA MinuteStart ==
  ASSUME NEW t \in Nat
  PROVE  /\ MinuteStamp(t) \in Nat /\ Day(t) \in Nat /\ MinuteOfDay(t) \in Minutes
         /\ MinuteStamp(t) = Day(t) * MinutesPerDay + MinuteOfDay(t)
         /\ TimeOf(Day(t), MinuteOfDay(t)) = TicksPerMinute * MinuteStamp(t)
         /\ TicksPerMinute * MinuteStamp(t) <= t
         /\ t < TicksPerMinute * (MinuteStamp(t) + 1)
<1>1. TicksPerMinute \in Nat \ {0} /\ MinutesPerDay \in Nat \ {0}
  BY AlarmServiceAssumption
<1>2. /\ MinuteStamp(t) \in Nat
      /\ t % TicksPerMinute \in 0 .. TicksPerMinute - 1
      /\ t = TicksPerMinute * MinuteStamp(t) + (t % TicksPerMinute)
  BY <1>1, Division DEF MinuteStamp
<1>3. /\ Day(t) \in Nat /\ MinuteOfDay(t) \in Minutes
      /\ MinuteStamp(t) = MinutesPerDay * Day(t) + MinuteOfDay(t)
  BY <1>1, <1>2, Division DEF Day, MinuteOfDay, Minutes
<1>4. TicksPerMinute * MinuteStamp(t) \in Nat
  BY <1>1, <1>2, SMTT(20)
<1>5. TicksPerMinute * (MinuteStamp(t) + 1) = TicksPerMinute * MinuteStamp(t) + TicksPerMinute
  BY <1>1, <1>2, SMTT(20)
<1>6. /\ TicksPerMinute * MinuteStamp(t) <= t
      /\ t < TicksPerMinute * (MinuteStamp(t) + 1)
  BY <1>1, <1>2, <1>4, <1>5
<1>7. MinuteStamp(t) = Day(t) * MinutesPerDay + MinuteOfDay(t)
  BY <1>1, <1>3, SMTT(20) DEF Minutes
<1>8. TimeOf(Day(t), MinuteOfDay(t)) = TicksPerMinute * MinuteStamp(t)
  BY <1>1, <1>2, <1>7, SMTT(20) DEF TimeOf
<1> QED BY <1>2, <1>3, <1>6, <1>7, <1>8

(* A moment is after another one's minute when its own minute is later.    *)
LEMMA LaterMinute ==
  ASSUME NEW s \in Nat, NEW t \in Nat
  PROVE  MinuteStamp(s) < MinuteStamp(t) => s < TicksPerMinute * MinuteStamp(t)
<1> SUFFICES ASSUME MinuteStamp(s) < MinuteStamp(t) PROVE s < TicksPerMinute * MinuteStamp(t)
  OBVIOUS
<1>1. TicksPerMinute \in Nat \ {0}
  BY AlarmServiceAssumption
<1>2. MinuteStamp(s) \in Nat /\ MinuteStamp(t) \in Nat /\ s < TicksPerMinute * (MinuteStamp(s) + 1)
  BY MinuteStart
<1>3. TicksPerMinute * (MinuteStamp(s) + 1) <= TicksPerMinute * MinuteStamp(t)
  BY <1>1, <1>2, SMTT(20)
<1>4. TicksPerMinute * (MinuteStamp(s) + 1) \in Nat /\ TicksPerMinute * MinuteStamp(t) \in Nat
  BY <1>1, <1>2, SMTT(20)
<1> QED BY <1>2, <1>3, <1>4

(* Among the next days of a week one has the weekday of any later day.     *)
LEMMA SameWeekday ==
  ASSUME NEW d \in Nat, NEW e \in Nat, d < e
  PROVE  \E offset \in 1 .. DaysPerWeek :
            d + offset <= e /\ (d + offset) % DaysPerWeek = e % DaysPerWeek
<1> DEFINE n == e - d - 1
           q == n \div DaysPerWeek
           r == n % DaysPerWeek
           x == d + 1 + r
           p == x \div DaysPerWeek
           w == x % DaysPerWeek
<1>1. DaysPerWeek \in Nat \ {0} /\ n \in Nat
  BY AlarmServiceAssumption
<1>2. q \in Nat /\ r \in 0 .. DaysPerWeek - 1 /\ n = DaysPerWeek * q + r
  BY <1>1, Division
<1>3. x \in Nat
  BY <1>1, <1>2
<1>4. p \in Nat /\ w \in 0 .. DaysPerWeek - 1 /\ x = DaysPerWeek * p + w
  BY <1>1, <1>3, Division
<1> HIDE DEF q, r, p, w
<1>5. DaysPerWeek * q \in Nat
  BY <1>1, <1>2, SMTT(20)
<1>6. e = x + DaysPerWeek * q
  BY <1>1, <1>2, <1>5
<1>7. e = DaysPerWeek * (p + q) + w
  <2>1. DaysPerWeek * (p + q) = DaysPerWeek * p + DaysPerWeek * q
    BY <1>1, <1>2, <1>4, SMTT(20)
  <2>2. DaysPerWeek * p \in Nat
    BY <1>1, <1>4, SMTT(20)
  <2> QED BY <1>4, <1>5, <1>6, <2>1, <2>2
<1>8. e % DaysPerWeek = w
  <2>1. p + q \in Nat
    BY <1>2, <1>4
  <2> QED BY <1>1, <1>4, <1>7, <2>1, Quotient
<1>9. r + 1 \in 1 .. DaysPerWeek /\ d + (r + 1) <= e /\ d + (r + 1) = x
  BY <1>1, <1>2, <1>3, <1>5, <1>6
<1> QED BY <1>8, <1>9 DEF w

(* The settings by which alarm i rings in the minute of t.                 *)
Matches(i, t) ==
    /\ alarms[i].enabled
    /\ alarms[i].minute = MinuteOfDay(t)
    /\ alarms[i].one_time \/ Weekday(t) \in alarms[i].weekdays

(* Nothing is due now and no stamp lies ahead of the clock.                *)
Settled ==
    /\ TypeOK
    /\ DueAt(now) = None
    /\ \A i \in Alarms : last_trigger[i] <= MinuteStamp(now)

LEMMA NothingDue == Settled => ~SnoozeLapsed(now) /\ DueSet(now) = {}
<1> SUFFICES ASSUME Settled PROVE ~SnoozeLapsed(now) /\ DueSet(now) = {}
  OBVIOUS
<1>1. \A i \in Alarms : i # None
  BY AlarmServiceAssumption DEF None
<1>2. ~SnoozeLapsed(now)
  BY <1>1 DEF Settled, DueAt, SnoozeLapsed, TypeOK
<1>3. DueSet(now) # {} => First(DueSet(now)) \in Alarms
  <2>1. DueSet(now) \in SUBSET Nat /\ DueSet(now) \subseteq Alarms
    BY AlarmServiceAssumption DEF DueSet
  <2> QED BY <2>1, FirstIsLeast
<1> QED BY <1>1, <1>2, <1>3 DEF Settled, DueAt

(* Later, due() finds what matches in the minutes after the current one.   *)
LEMMA DueLater ==
  ASSUME Settled, NEW t \in Nat, t > now, NEW i \in Alarms
  PROVE  i \in DueSet(t) <=> MinuteStamp(now) < MinuteStamp(t) /\ Matches(i, t)
<1>1. now \in Nat /\ last_trigger[i] \in Int /\ last_trigger[i] <= MinuteStamp(now)
  BY DEF Settled, TypeOK
<1>2. MinuteStamp(now) \in Nat /\ MinuteStamp(t) \in Nat
  BY <1>1, MinuteStart
<1>3. MinuteStamp(now) <= MinuteStamp(t)
  BY <1>1, QuotientMonotone, AlarmServiceAssumption DEF MinuteStamp
<1>4. MinuteStamp(t) = MinuteStamp(now) => DueSet(t) = DueSet(now)
  BY DEF DueSet, ScheduledAt, MinuteOfDay, Weekday, Day
<1>5. MinuteStamp(t) = MinuteStamp(now) => i \notin DueSet(t)
  BY <1>4, NothingDue
<1>6. MinuteStamp(now) < MinuteStamp(t) => last_trigger[i] # MinuteStamp(t)
  BY <1>1, <1>2
<1> QED BY <1>2, <1>3, <1>5, <1>6 DEF DueSet, ScheduledAt, Matches

(* What upcoming() considers is due when its time comes, within a week.    *)
LEMMA CandidateIsDue ==
  ASSUME Settled, NEW i \in Alarms, NEW c \in Candidates(i)
  PROVE  c \in Nat /\ now < c /\ c <= now + Week /\ i \in DueSet(c)
<1>1. /\ now \in Nat /\ alarms[i] \in AlarmSettings
      /\ TicksPerMinute \in Nat \ {0} /\ MinutesPerDay \in Nat \ {0} /\ DaysPerWeek \in Nat \ {0}
  BY AlarmServiceAssumption DEF Settled, TypeOK
<1>2. alarms[i].minute \in Minutes
  BY <1>1 DEF AlarmSettings
<1> DEFINE m == alarms[i].minute
<1>3. PICK offset \in 0 .. DaysPerWeek :
        /\ c = TimeOf(Day(now) + offset, m)
        /\ alarms[i].enabled /\ c > now
        /\ alarms[i].one_time \/ Weekday(c) \in alarms[i].weekdays
  BY DEF Candidates
<1>4. Day(now) \in Nat /\ MinuteStamp(now) \in Nat
  BY <1>1, MinuteStart
<1>5. Day(now) + offset \in Nat
  BY <1>1, <1>4
<1>6. c \in Nat /\ MinuteOfDay(c) = m
  BY <1>2, <1>3, <1>5, Calendar
<1>7. Matches(i, c)
  BY <1>3, <1>6 DEF Matches
<1>8. MinuteStamp(now) < MinuteStamp(c)
  <2>1. c = TicksPerMinute * MinuteStamp(c)
    <3>1. Day(c) = Day(now) + offset
      BY <1>2, <1>3, <1>5, Calendar
    <3> QED BY <1>3, <1>6, <3>1, MinuteStart
  <2>2. MinuteStamp(c) \in Nat /\ TicksPerMinute * MinuteStamp(now) <= now
    BY <1>1, <1>6, MinuteStart
  <2>3. now < TicksPerMinute * (MinuteStamp(now) + 1)
    BY <1>1, MinuteStart
  <2>4. ~(MinuteStamp(c) <= MinuteStamp(now))
    <3> SUFFICES ASSUME MinuteStamp(c) <= MinuteStamp(now) PROVE FALSE
      OBVIOUS
    <3>1. TicksPerMinute * MinuteStamp(c) <= TicksPerMinute * MinuteStamp(now)
      BY <1>1, <1>4, <2>2, SMTT(20)
    <3>2. TicksPerMinute * MinuteStamp(c) \in Nat /\ TicksPerMinute * MinuteStamp(now) \in Nat
      BY <1>1, <1>4, <2>2, SMTT(20)
    <3> QED BY <1>1, <1>3, <1>6, <2>1, <2>2, <3>1, <3>2
  <2> QED BY <1>4, <2>2, <2>4
<1>9. i \in DueSet(c)
  BY <1>3, <1>6, <1>7, <1>8, DueLater
<1>10. c <= now + Week
  <2> DEFINE d == Day(now)
             n == MinuteOfDay(now)
  <2>1. /\ d \in Nat /\ n \in 0 .. MinutesPerDay - 1 /\ m \in 0 .. MinutesPerDay - 1
        /\ (d * MinutesPerDay + n) * TicksPerMinute <= now
    BY <1>1, <1>2, MinuteStart DEF Minutes, TimeOf
  <2> HIDE DEF d, n, m
  <2>2. (d + offset) * MinutesPerDay + m <= (d * MinutesPerDay + n) + (DaysPerWeek + 1) * MinutesPerDay
    <3>1. (d + offset) * MinutesPerDay = d * MinutesPerDay + offset * MinutesPerDay
      BY <1>1, <2>1, SMTT(20)
    <3>2. (DaysPerWeek + 1) * MinutesPerDay = DaysPerWeek * MinutesPerDay + MinutesPerDay
      BY <1>1, SMTT(20)
    <3>3. offset * MinutesPerDay <= DaysPerWeek * MinutesPerDay
      BY <1>1, SMTT(20)
    <3>4. /\ d * MinutesPerDay \in Nat /\ offset * MinutesPerDay \in Nat
          /\ DaysPerWeek * MinutesPerDay \in Nat
      BY <1>1, <2>1, SMTT(20)
    <3> QED BY <1>1, <2>1, <3>1, <3>2, <3>3, <3>4
  <2> DEFINE a == (d + offset) * MinutesPerDay + m
             b == d * MinutesPerDay + n
             w == (DaysPerWeek + 1) * MinutesPerDay
  <2>3. a \in Nat /\ b \in Nat /\ w \in Nat
    BY <1>1, <2>1, SMTT(20)
  <2>4. a <= b + w /\ b * TicksPerMinute <= now /\ c = a * TicksPerMinute
        /\ Week = w * TicksPerMinute
    BY <1>3, <2>1, <2>2 DEF d, m, TimeOf, Week
  <2> HIDE DEF a, b, w
  <2>5. a * TicksPerMinute <= b * TicksPerMinute + w * TicksPerMinute
    BY <1>1, <2>3, <2>4, SMTT(20)
  <2>6. b * TicksPerMinute \in Nat /\ w * TicksPerMinute \in Nat
    BY <1>1, <2>3, SMTT(20)
  <2> QED BY <1>1, <1>6, <2>4, <2>5, <2>6
<1> QED BY <1>3, <1>6, <1>9, <1>10

(* What is due later has a candidate that is no later.                     *)
LEMMA DueHasCandidate ==
  ASSUME Settled, NEW t \in Nat, t > now, NEW i \in DueSet(t)
  PROVE  \E c \in Candidates(i) : c <= t
<1>1. /\ now \in Nat /\ i \in Alarms /\ alarms[i] \in AlarmSettings
      /\ TicksPerMinute \in Nat \ {0} /\ MinutesPerDay \in Nat \ {0} /\ DaysPerWeek \in Nat \ {0}
  BY AlarmServiceAssumption DEF Settled, TypeOK, DueSet
<1> DEFINE m == alarms[i].minute
           d == Day(now)
           e == Day(t)
<1>2. MinuteStamp(now) < MinuteStamp(t) /\ Matches(i, t)
  BY <1>1, DueLater
<1>3. m \in Minutes /\ m = MinuteOfDay(t) /\ d \in Nat /\ e \in Nat
  BY <1>1, <1>2, MinuteStart DEF Matches
<1>4. d <= e
  <2>1. MinuteStamp(now) \in Nat /\ MinuteStamp(t) \in Nat
    BY <1>1, MinuteStart
  <2> QED BY <1>1, <1>2, <2>1, QuotientMonotone DEF Day
<1>5. PICK offset \in 0 .. DaysPerWeek :
        /\ d + offset <= e /\ (d + offset) % DaysPerWeek = e % DaysPerWeek
        /\ offset = 0 => d = e
  <2>1. CASE d = e
    <3>1. 0 \in 0 .. DaysPerWeek /\ d + 0 = e
      BY <1>1, <1>3, <2>1
    <3> QED BY <1>3, <2>1, <3>1
  <2>2. CASE d < e
    <3>1. PICK offset \in 1 .. DaysPerWeek :
            d + offset <= e /\ (d + offset) % DaysPerWeek = e % DaysPerWeek
      BY <1>3, <2>2, SameWeekday
    <3>2. offset \in 0 .. DaysPerWeek /\ offset # 0
      BY <1>1
    <3> QED BY <3>1, <3>2
  <2> QED BY <1>3, <1>4, <2>1, <2>2
<1> DEFINE c == TimeOf(d + offset, m)
<1>6. d + offset \in Nat
  BY <1>1, <1>3
<1>7. /\ c \in Nat /\ Day(c) = d + offset /\ MinuteOfDay(c) = m
      /\ MinuteStamp(c) = (d + offset) * MinutesPerDay + m
  BY <1>3, <1>6, Calendar
<1>8. c = TicksPerMinute * MinuteStamp(c)
  BY <1>7, MinuteStart
<1>9. MinuteStamp(c) <= MinuteStamp(t)
  <2>1. MinuteStamp(t) = e * MinutesPerDay + m
    BY <1>3, MinuteStart
  <2>2. (d + offset) * MinutesPerDay <= e * MinutesPerDay
    BY <1>1, <1>3, <1>5, <1>6, SMTT(20)
  <2>3. (d + offset) * MinutesPerDay \in Nat /\ e * MinutesPerDay \in Nat
    BY <1>1, <1>3, <1>6, SMTT(20)
  <2> QED BY <1>3, <1>7, <2>1, <2>2, <2>3 DEF Minutes
<1>10. c <= t
  <2>1. /\ MinuteStamp(c) \in Nat /\ MinuteStamp(t) \in Nat
        /\ TicksPerMinute * MinuteStamp(t) <= t
    BY <1>7, MinuteStart
  <2>2. TicksPerMinute * MinuteStamp(c) <= TicksPerMinute * MinuteStamp(t)
    BY <1>1, <1>9, <2>1, SMTT(20)
  <2>3. TicksPerMinute * MinuteStamp(t) \in Nat
    BY <1>1, <2>1, SMTT(20)
  <2> HIDE DEF c
  <2> QED BY <1>7, <1>8, <2>1, <2>2, <2>3
<1>11. c > now
  <2>1. MinuteStamp(now) < MinuteStamp(c)
    <3>1. CASE offset = 0
      <4>1. MinuteStamp(t) = e * MinutesPerDay + m
        BY <1>3, MinuteStart
      <4>2. d + offset = e
        BY <1>3, <1>5, <3>1
      <4> QED BY <1>2, <1>7, <4>1, <4>2
    <3>2. CASE offset # 0
      <4>1. /\ MinuteStamp(now) = d * MinutesPerDay + MinuteOfDay(now)
            /\ MinuteOfDay(now) \in 0 .. MinutesPerDay - 1
        BY <1>1, MinuteStart DEF Minutes
      <4>2. (d + offset) * MinutesPerDay >= (d + 1) * MinutesPerDay
        BY <1>1, <1>3, <3>2, SMTT(20)
      <4>3. (d + 1) * MinutesPerDay = d * MinutesPerDay + MinutesPerDay
        BY <1>1, <1>3, SMTT(20)
      <4>4. d * MinutesPerDay \in Nat /\ (d + offset) * MinutesPerDay \in Nat
        BY <1>1, <1>3, <1>6, SMTT(20)
      <4> QED BY <1>1, <1>3, <1>7, <4>1, <4>2, <4>3, <4>4 DEF Minutes
    <3> QED BY <3>1, <3>2
  <2> QED BY <1>1, <1>7, <1>8, <2>1, LaterMinute
<1>12. alarms[i].one_time \/ Weekday(c) \in alarms[i].weekdays
  <2>1. Weekday(c) = Weekday(t)
    BY <1>5, <1>7 DEF Weekday
  <2> QED BY <1>2, <2>1 DEF Matches
<1>13. c \in Candidates(i)
  BY <1>2, <1>11, <1>12 DEF Candidates, Matches
<1> QED BY <1>10, <1>13

(* The moments that upcoming() chooses from.                               *)
Snoozes == IF snooze_alarm # None /\ snooze_at > now THEN {snooze_at} ELSE {}
Times   == Snoozes \cup UNION {Candidates(i) : i \in Alarms}
Rings   == {t \in now + 1 .. now + Week + snooze_at : DueAt(t) # None}

LEMMA Agreement == Settled => UpcomingIsNextRing
<1> SUFFICES ASSUME Settled PROVE UpcomingIsNextRing
  OBVIOUS
<1>1. /\ now \in Nat /\ snooze_at \in Nat /\ snooze_alarm \in Alarms \cup {None}
      /\ Alarms \subseteq Nat
  BY AlarmServiceAssumption DEF Settled, TypeOK
<1>2. \A i \in Alarms : i # None
  BY <1>1 DEF None
<1>3. ~SnoozeLapsed(now)
  BY NothingDue
<1>4. Week \in Nat
  <2>1. TicksPerMinute \in Nat /\ MinutesPerDay \in Nat /\ DaysPerWeek \in Nat
    BY AlarmServiceAssumption
  <2>2. (DaysPerWeek + 1) * MinutesPerDay \in Nat
    BY <2>1, SMTT(20)
  <2> QED BY <2>1, <2>2, SMTT(20) DEF Week
<1>5. \A t \in Nat : DueSet(t) \in SUBSET Nat /\ DueSet(t) \subseteq Alarms
  BY <1>1 DEF DueSet
<1>6. \A t \in Nat : DueSet(t) # {} => First(DueSet(t)) \in Alarms
  BY <1>5, FirstIsLeast
<1>7. \A t \in Nat : DueAt(t) # None <=> SnoozeLapsed(t) \/ DueSet(t) # {}
  BY <1>1, <1>2, <1>6 DEF DueAt, SnoozeLapsed
<1>8. \A t \in Nat : t > now /\ SnoozeLapsed(t) => snooze_at \in Snoozes /\ snooze_at <= t
  BY <1>1, <1>3 DEF SnoozeLapsed, Snoozes
<1>9. Times \subseteq Rings
  <2>1. ASSUME NEW s \in Snoozes PROVE s \in Rings
    <3>1. s = snooze_at /\ snooze_alarm # None /\ snooze_at > now
      BY DEF Snoozes
    <3>2. SnoozeLapsed(s)
      BY <1>1, <3>1 DEF SnoozeLapsed
    <3>3. DueAt(s) # None
      BY <1>1, <1>7, <3>1, <3>2
    <3>4. s \in now + 1 .. now + Week + snooze_at
      BY <1>1, <1>4, <3>1
    <3> QED BY <3>3, <3>4 DEF Rings
  <2>2. ASSUME NEW i \in Alarms, NEW c \in Candidates(i) PROVE c \in Rings
    <3>1. c \in Nat /\ now < c /\ c <= now + Week /\ i \in DueSet(c)
      BY CandidateIsDue
    <3>2. DueAt(c) # None
      BY <1>7, <3>1
    <3>3. c \in now + 1 .. now + Week + snooze_at
      BY <1>1, <1>4, <3>1
    <3> QED BY <3>2, <3>3 DEF Rings
  <2> QED BY <2>1, <2>2 DEF Times
<1>10. \A t \in Rings : t \in Nat /\ t > now
  BY <1>1, <1>4 DEF Rings
<1>11. \A t \in Rings : \E s \in Times : s <= t
  <2> SUFFICES ASSUME NEW t \in Rings PROVE \E s \in Times : s <= t
    OBVIOUS
  <2>1. t \in Nat /\ t > now
    BY <1>10
  <2>2. CASE SnoozeLapsed(t)
    BY <1>8, <2>1, <2>2 DEF Times
  <2>3. CASE DueSet(t) # {}
    <3>1. PICK i \in DueSet(t) : TRUE
      BY <2>3
    <3>2. i \in Alarms
      BY DEF DueSet
    <3>3. \E c \in Candidates(i) : c <= t
      BY <2>1, DueHasCandidate
    <3> QED BY <3>2, <3>3 DEF Times
  <2>4. DueAt(t) # None
    BY DEF Rings
  <2> QED BY <1>7, <2>1, <2>2, <2>3, <2>4
<1>12. CASE Times = {}
  <2>1. Rings = {}
    BY <1>11, <1>12
  <2>2. upcoming = NoUpcoming
    BY <1>12 DEF upcoming, Times, Snoozes
  <2> QED BY <2>1, <2>2 DEF UpcomingIsNextRing, Rings
<1>13. CASE Times # {}
  <2> DEFINE best == First(Times)
  <2>1. Rings \in SUBSET Nat /\ Times \in SUBSET Nat /\ Rings # {}
    BY <1>9, <1>10, <1>13
  <2>2. best \in Times /\ \A j \in Times : best <= j
    BY <1>13, <2>1, FirstIsLeast
  <2>3. First(Rings) \in Rings /\ \A j \in Rings : First(Rings) <= j
    BY <2>1, FirstIsLeast
  <2>4. First(Rings) = best
    <3>1. First(Rings) <= best
      BY <1>9, <2>2, <2>3
    <3>2. PICK s \in Times : s <= First(Rings)
      BY <1>11, <2>3
    <3>3. best <= s
      BY <2>2
    <3>4. best \in Nat /\ s \in Nat /\ First(Rings) \in Nat
      BY <2>1, <2>2, <2>3
    <3> HIDE DEF best
    <3> QED BY <3>1, <3>2, <3>3, <3>4
  <2>5. best \in Nat /\ best > now
    BY <1>9, <1>10, <2>2
  <2> DEFINE named == IF best \in Snoozes THEN snooze_alarm
                      ELSE First({i \in Alarms : best \in Candidates(i)})
  <2>6. upcoming = [time |-> best, alarm |-> named]
    BY <1>13 DEF upcoming, Times, Snoozes
  <2> HIDE DEF best
  <2>7. CASE best \in Snoozes
    <3>1. SnoozeLapsed(best)
      BY <1>1, <2>7 DEF Snoozes, SnoozeLapsed
    <3>2. DueAt(best) = named
      BY <2>7, <3>1 DEF DueAt
    <3> QED BY <2>1, <2>4, <2>6, <3>2 DEF UpcomingIsNextRing, Rings
  <2>8. CASE best \notin Snoozes
    <3>1. ~SnoozeLapsed(best)
      <4> SUFFICES ASSUME SnoozeLapsed(best) PROVE FALSE
        OBVIOUS
      <4>1. snooze_at \in Snoozes /\ snooze_at <= best
        BY <1>8, <2>5
      <4>2. best <= snooze_at
        BY <2>2, <4>1 DEF Times
      <4>3. best = snooze_at
        BY <1>1, <2>5, <4>1, <4>2
      <4> QED BY <2>8, <4>1, <4>3
    <3>2. ASSUME NEW i \in Alarms PROVE i \in DueSet(best) <=> best \in Candidates(i)
      <4>1. best \in Candidates(i) => i \in DueSet(best)
        BY CandidateIsDue
      <4>2. ASSUME i \in DueSet(best) PROVE best \in Candidates(i)
        <5>1. PICK c \in Candidates(i) : c <= best
          BY <2>5, <4>2, DueHasCandidate
        <5>2. best <= c /\ c \in Nat
          BY <2>1, <2>2 DEF Times
        <5>3. c = best
          BY <2>5, <5>1, <5>2
        <5> QED BY <5>3
      <4> QED BY <4>1, <4>2
    <3>3. DueSet(best) = {i \in Alarms : best \in Candidates(i)}
      BY <1>5, <2>5, <3>2
    <3>4. DueSet(best) # {}
      BY <1>7, <2>2, <2>5, <1>9, <3>1 DEF Rings
    <3>5. DueAt(best) = named
      BY <2>8, <3>1, <3>3, <3>4 DEF DueAt
    <3> QED BY <2>1, <2>4, <2>6, <3>5 DEF UpcomingIsNextRing, Rings
  <2> QED BY <2>7, <2>8
<1> QED BY <1>12, <1>13

(* upcoming() shows the moment at which due() answers next, and the alarm  *)
(* that it answers: for every calendar, any number of alarms, whatever was *)
(* snoozed, edited or restarted before. The scan of one week is enough     *)
(* since each later ring has the weekday of an earlier candidate.          *)
THEOREM UpcomingAgrees == Spec => []UpcomingIsNextRing
<1>1. TypeOK => UpcomingIsNextRing
  BY Agreement DEF Settled, UpcomingIsNextRing
<1> QED BY <1>1, TypeCorrect, PTL
=============================================================================
