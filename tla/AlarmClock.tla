----------------------------- MODULE AlarmClock -----------------------------
(***************************************************************************)
(* What the alarm service promises to the application, without settings,   *)
(* calendar or storage: some alarms are pending in the current minute, at  *)
(* most one alarm is snoozed, and a poll hands one alarm to the caller.    *)
(*                                                                         *)
(* AlarmService implements this module; MaclockApp uses it as the alarm    *)
(* part of the application.                                                *)
(***************************************************************************)
EXTENDS Integers

CONSTANTS
    Alarms,          \* the alarm slots, kAlarmCount of them
    Stamps           \* the minute stamps the clock can show

None == -1           \* "no alarm", as in the code

VARIABLES
    minute,          \* the minute stamp the clock shows
    pending,         \* alarms whose minute is now and which a poll has not consumed
    snoozed,         \* the snoozed alarm, or None
    lapsed,          \* the snooze delay is over
    answer           \* what the last poll returned; None after any other call

alarmVars == <<minute, pending, snoozed, lapsed, answer>>

First(S) == CHOOSE i \in S : \A j \in S : i <= j

AlarmTypeOK ==
    /\ minute \in Stamps
    /\ pending \subseteq Alarms
    /\ snoozed \in Alarms \cup {None}
    /\ lapsed \in BOOLEAN
    /\ answer \in Alarms \cup {None}

AlarmInit ==
    /\ minute \in Stamps
    /\ pending \in SUBSET Alarms
    /\ snoozed = None
    /\ lapsed = FALSE
    /\ answer = None
-----------------------------------------------------------------------------
(* A lapsed snooze is answered first and leaves the schedule for the next  *)
(* poll; otherwise every pending alarm is consumed and the first answered. *)
Poll ==
    \/ /\ lapsed
       /\ answer' = snoozed
       /\ snoozed' = None
       /\ lapsed' = FALSE
       /\ UNCHANGED <<minute, pending>>
    \/ /\ ~lapsed
       /\ answer' = IF pending = {} THEN None ELSE First(pending)
       /\ pending' = {}
       /\ UNCHANGED <<minute, snoozed, lapsed>>

(* There is one snooze slot: a second snooze replaces the first.           *)
Snooze(i) ==
    /\ snoozed' = i
    /\ lapsed' = FALSE
    /\ answer' = None
    /\ UNCHANGED <<minute, pending>>

Dismiss ==
    /\ snoozed' = None
    /\ lapsed' = FALSE
    /\ answer' = None
    /\ UNCHANGED <<minute, pending>>

(* Time passes, or is set, within the minute: the schedule is not re-read. *)
ClockMoves ==
    /\ lapsed' \in {FALSE, snoozed # None}
    /\ answer' = None
    /\ UNCHANGED <<minute, pending, snoozed>>

(* Another minute starts; any alarm may be scheduled in it.                *)
MinuteTurns ==
    /\ minute' \in Stamps \ {minute}
    /\ pending' \in SUBSET Alarms
    /\ lapsed' \in {FALSE, snoozed # None}
    /\ answer' = None
    /\ UNCHANGED snoozed

(* New settings: the schedule changes and a snooze may be cancelled.       *)
Reconfigure ==
    /\ pending' \in SUBSET Alarms
    /\ \/ UNCHANGED <<snoozed, lapsed>>
       \/ snoozed' = None /\ lapsed' = FALSE
    /\ answer' = None
    /\ UNCHANGED minute

(* A restart forgets the snooze and what was already announced.            *)
Restart ==
    /\ pending' \in SUBSET Alarms
    /\ snoozed' = None
    /\ lapsed' = FALSE
    /\ answer' = None
    /\ UNCHANGED minute

AlarmNext ==
    \/ Poll
    \/ \E i \in Alarms : Snooze(i)
    \/ Dismiss
    \/ ClockMoves
    \/ MinuteTurns
    \/ Reconfigure
    \/ Restart

AlarmSpec == AlarmInit /\ [][AlarmNext]_alarmVars
=============================================================================
