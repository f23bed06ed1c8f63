--------------------------- MODULE MCAlarmService ---------------------------
(* Two alarm slots, weeks of two days of two minutes.                      *)
EXTENDS AlarmService

Setting(e, o, m, w) == [enabled |-> e, one_time |-> o, minute |-> m, weekdays |-> w]

MCOffered ==
    { Setting(TRUE,  TRUE,  1, {0, 1}),     \* one-time
      Setting(TRUE,  FALSE, 1, {1}),        \* weekly
      Setting(TRUE,  FALSE, 0, {0, 1}),     \* daily
      Setting(FALSE, TRUE,  1, {0, 1}),     \* switched off
      Setting(TRUE,  FALSE, 7, {0}) }       \* rejected: no such minute

MCAdjustments     == {-3, 3}
=============================================================================
