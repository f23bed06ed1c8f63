---------------------------- MODULE MqttService -----------------------------
(***************************************************************************)
(* The MQTT service (src/mqtt_service.cpp and the files it includes): the  *)
(* connection to the broker with its retries, the commands the broker      *)
(* sends, and the beacons and notifications shown one at a time.           *)
(*                                                                         *)
(* The state is a record with the fields of MqttService::State, and each   *)
(* function of the code an operator from that record to the next one; a    *)
(* tick composes them in the order of MqttService::tick.                   *)
(*                                                                         *)
(* Time is millis(), modulo Wrap, one unit per tick. The firmware's client *)
(* connects synchronously, so the connecting flag of the desktop build is  *)
(* left out, and so are the topics and payloads that are only published:   *)
(* discovery, availability and the sensors of the status.                  *)
(*                                                                         *)
(* mqtt_message_received keeps one message: of those that arrive in one    *)
(* loop() the last one counts, and one that arrives while the connection   *)
(* breaks is handled after the next connection, where it is one more that  *)
(* the broker may have sent. A tick therefore takes at most one command.   *)
(***************************************************************************)
EXTENDS Integers

CONSTANTS
    Messages,        \* the valid beacons and notifications that are sent
    Invalid,         \* the ids that set_last records for rejected ones
    Networks,        \* what may become of the network in a tick, some of AllNetworks
    Wrap,            \* millis() counts modulo Wrap, 2^32 in the code
    RetryInitial,    \* kMqttInitialRetryMs
    RetryMaximum     \* kMqttMaximumRetryMs

AllNetworks ==
    { "off",         \* Wi-Fi is down, or lent to an update or a weather request
      "refused",     \* the broker does not accept a connection
      "lost",        \* the connection breaks, and loop() sees it
      "breaking",    \* it breaks after loop(): what is published does not arrive
      "up" }

NoId == ""
NoMessage == [id |-> NoId, kind |-> "none", timeout |-> 0]

Half == Wrap \div 2

ASSUME MqttServiceAssumption ==
    /\ \A m \in Messages :
          /\ m = [id |-> m.id, kind |-> m.kind, timeout |-> m.timeout]
          /\ m.kind \in {"beacon", "notification"}
          /\ m.id # NoId
          /\ m.timeout \in Nat
          /\ m.kind = "beacon" => m.timeout > 0
          /\ m.timeout < Half
    /\ Networks \subseteq AllNetworks
    /\ Wrap \in Nat \ {0}
    /\ RetryInitial \in Nat \ {0}
    /\ RetryMaximum \in Nat
    /\ RetryInitial <= RetryMaximum /\ RetryMaximum < Half

VARIABLES
    now,             \* millis() of the last tick
    enabled,         \* settings.enabled, in NVS
    state,           \* MqttService::State
    seen,            \* history: for how long the current message was on the screen
    accepted         \* history: the id of the last accepted message, NoId after a rejection

vars == <<now, enabled, state, seen, accepted>>

Ids   == {m.id : m \in Messages}
Times == 0 .. Wrap - 1

(* The control commands are records like the messages, told apart by kind. *)
Control(kind) == [id |-> NoId, kind |-> kind, timeout |-> 0]
Commands ==
    Messages
      \cup {Control(kind) : kind \in {"none", "dismiss", "dndOn", "dndOff"}}
      \cup {[id |-> i, kind |-> "invalid", timeout |-> 0] : i \in Invalid}

Results == {"none", "rejected", "superseded", "dismissed", "acknowledged", "auto_acknowledged"}

(* The part of the published status that is modelled. Of a status that is  *)
(* not the present one it is only kept that it is old.                     *)
Statuses ==
    [ state : {"idle", "queued", "beacon", "notification"},
      id : Ids \cup {NoId}, pending_id : Ids \cup {NoId},
      last_id : Ids \cup Invalid \cup {NoId}, last_result : Results,
      do_not_disturb : BOOLEAN ]

OldStatus == [state |-> "old"]

State ==
    [ current : Messages \cup {NoMessage},     \* current and has_current
      pending : Messages \cup {NoMessage},     \* pending and has_pending
      current_visible : BOOLEAN,
      beacon_due : Times,
      beacon_remaining : 0 .. Half,
      last_id : Ids \cup Invalid \cup {NoId},
      last_result : Results,
      status_dirty : BOOLEAN,
      do_not_disturb : BOOLEAN,                \* in NVS
      connected : BOOLEAN,
      next_retry : Times,                      \* 0: at once
      retry_delay : Nat,
      panel : Messages \cup {NoMessage},       \* what mqtt_notification_view shows
      retained : Statuses \cup {OldStatus} ]   \* the status topic's retained message

-----------------------------------------------------------------------------
(* Times: the signed 32-bit differences of the code.                       *)
Reached(t, due) == (t - due) % Wrap < Half

(* Mutant of Left: the difference is taken as an unsigned number.          *)
MutLeftUnsigned(t, due) == (due - t) % Wrap

Left(t, due) ==
    LET ahead == (due - t) % Wrap
    IN  IF ahead \in 1 .. Half - 1 THEN ahead ELSE 1

has_current(s) == s.current # NoMessage
has_pending(s) == s.pending # NoMessage
IsBeacon(s)    == s.current.kind = "beacon"

-----------------------------------------------------------------------------
(* The two message slots                                                   *)
(* Mutant of set_last: the status is not due for publication.              *)
MutSetLastClean(s, id, result) == [s EXCEPT !.last_id = id, !.last_result = result]

set_last(s, id, result) ==
    [s EXCEPT !.last_id = id, !.last_result = result, !.status_dirty = TRUE]

duplicate_id(s, id) == id # NoId /\ id \in {s.current.id, s.pending.id, s.last_id}

queue_message(s, m) ==
    IF duplicate_id(s, m.id)
      THEN [s EXCEPT !.status_dirty = TRUE]
      ELSE [(IF has_pending(s) THEN set_last(s, s.pending.id, "superseded") ELSE s)
               EXCEPT !.pending = m, !.status_dirty = TRUE]

(* Mutant of promote_pending: a current message does not keep its place.   *)
MutPromoteAnyway(s) ==
    IF ~has_pending(s)
      THEN s
      ELSE [s EXCEPT !.current = s.pending,
                     !.pending = NoMessage,
                     !.current_visible = FALSE,
                     !.beacon_remaining = s.pending.timeout,
                     !.status_dirty = TRUE]

promote_pending(s) ==
    IF has_current(s) \/ ~has_pending(s)
      THEN s
      ELSE [s EXCEPT !.current = s.pending,
                     !.pending = NoMessage,
                     !.current_visible = FALSE,
                     !.beacon_remaining = s.pending.timeout,
                     !.status_dirty = TRUE]

hideMqttMessage(s) == [s EXCEPT !.panel = NoMessage]
showMqttMessage(s) == [s EXCEPT !.panel = s.current]

(* Mutants of finish_current: the panel stays; the id is not recorded.     *)
MutPanelStays(s, result) ==
    IF ~has_current(s)
      THEN s
      ELSE [set_last(s, s.current.id, result)
               EXCEPT !.current = NoMessage,
                      !.current_visible = FALSE,
                      !.beacon_due = 0,
                      !.beacon_remaining = 0]

MutNotRecorded(s, result) ==
    IF ~has_current(s)
      THEN s
      ELSE [(IF s.current_visible THEN hideMqttMessage(s) ELSE s)
               EXCEPT !.current = NoMessage,
                      !.current_visible = FALSE,
                      !.beacon_due = 0,
                      !.beacon_remaining = 0,
                      !.status_dirty = TRUE]

finish_current(s, result) ==
    IF ~has_current(s)
      THEN s
      ELSE [set_last(IF s.current_visible THEN hideMqttMessage(s) ELSE s, s.current.id, result)
               EXCEPT !.current = NoMessage,
                      !.current_visible = FALSE,
                      !.beacon_due = 0,
                      !.beacon_remaining = 0]

-----------------------------------------------------------------------------
(* A command from the broker. Those that reach other services are left to  *)
(* MaclockApp: here they count as no command, or as a rejected one (a      *)
(* sound that do-not-disturb blocks, a screensaver that is not there).     *)
process_inbound(s, command) ==
    CASE command \in Messages -> queue_message(s, command)
      [] command.kind = "invalid" -> set_last(s, command.id, "rejected")
      [] command.kind = "dismiss" -> promote_pending(finish_current(s, "dismissed"))
      [] command.kind \in {"dndOn", "dndOff"} ->
            [s EXCEPT !.do_not_disturb = (command.kind = "dndOn"), !.status_dirty = TRUE]
      [] OTHER -> s

-----------------------------------------------------------------------------
(* The connection. A status that is published arrives if `sent`.           *)
Later(t, delay) == (t + delay) % Wrap

Doubled(delay) == IF 2 * delay < RetryMaximum THEN 2 * delay ELSE RetryMaximum

Snapshot(s) ==
    [ state |-> IF ~has_current(s) THEN IF has_pending(s) THEN "queued" ELSE "idle"
                ELSE IF s.current_visible THEN s.current.kind ELSE "queued",
      id |-> s.current.id, pending_id |-> s.pending.id,
      last_id |-> s.last_id, last_result |-> s.last_result,
      do_not_disturb |-> s.do_not_disturb ]

publish_status(s, sent) ==
    IF s.connected /\ sent
      THEN [s EXCEPT !.status_dirty = FALSE, !.retained = Snapshot(s)]
      ELSE s

Aged(s) == IF s.retained = Snapshot(s) THEN s ELSE [s EXCEPT !.retained = OldStatus]

stop(s) == [s EXCEPT !.connected = FALSE]

connected_client(s, sent) ==
    publish_status([s EXCEPT !.connected = TRUE, !.status_dirty = TRUE], sent)

(* Mutant of MayConnect: only the first attempt is made.                   *)
MutNoRetry(s, t) == ~s.connected /\ s.next_retry = 0

MayConnect(s, t) == ~s.connected /\ (s.next_retry = 0 \/ Reached(t, s.next_retry))

connect_client(s, t, broker, sent) ==
    IF broker
      THEN connected_client(s, sent)
      ELSE [s EXCEPT !.next_retry = Later(t, s.retry_delay),
                     !.retry_delay = Doubled(s.retry_delay)]

Lost(s, t) == [s EXCEPT !.connected = FALSE, !.next_retry = Later(t, s.retry_delay)]

-----------------------------------------------------------------------------
(* tick, part by part                                                      *)
Connected(s, t, network) ==
    IF MayConnect(s, t) THEN connect_client(s, t, network # "refused", network = "up") ELSE s

Served(s, t, network, command) ==
    IF ~s.connected THEN s
    ELSE IF network \in {"up", "breaking"} THEN process_inbound(s, command)
    ELSE Lost(s, t)

Networked(s, t, network, command) ==
    IF enabled /\ network # "off"
      THEN Served(Connected(s, t, network), t, network, command)
      ELSE stop(s)

Hidden(s, t, allowed) ==
    IF ~(has_current(s) /\ s.current_visible /\ ~allowed)
      THEN s
      ELSE [hideMqttMessage(s) EXCEPT
               !.beacon_remaining = IF IsBeacon(s) THEN Left(t, s.beacon_due) ELSE @,
               !.current_visible = FALSE,
               !.status_dirty = TRUE]

(* Mutant of Shown: a visible message is shown again at every tick.        *)
MutShownAgain(s, t, allowed) ==
    IF ~(has_current(s) /\ allowed)
      THEN s
      ELSE LET remaining == IF s.beacon_remaining = 0 THEN s.current.timeout
                                                      ELSE s.beacon_remaining
           IN  [showMqttMessage(s) EXCEPT
                  !.beacon_remaining = IF IsBeacon(s) THEN remaining ELSE @,
                  !.beacon_due = IF IsBeacon(s) THEN Later(t, remaining) ELSE @,
                  !.current_visible = TRUE,
                  !.status_dirty = TRUE]

Shown(s, t, allowed) ==
    IF ~(has_current(s) /\ ~s.current_visible /\ allowed)
      THEN s
      ELSE LET remaining == IF s.beacon_remaining = 0 THEN s.current.timeout
                                                      ELSE s.beacon_remaining
           IN  [showMqttMessage(s) EXCEPT
                  !.beacon_remaining = IF IsBeacon(s) THEN remaining ELSE @,
                  !.beacon_due = IF IsBeacon(s) THEN Later(t, remaining) ELSE @,
                  !.current_visible = TRUE,
                  !.status_dirty = TRUE]

(* Mutant of Expired: a hidden beacon expires too.                         *)
MutExpiredHidden(s, t) ==
    IF has_current(s) /\ IsBeacon(s) /\ Reached(t, s.beacon_due)
      THEN promote_pending(finish_current(s, "auto_acknowledged"))
      ELSE s

Expired(s, t) ==
    IF has_current(s) /\ s.current_visible /\ IsBeacon(s) /\ Reached(t, s.beacon_due)
      THEN promote_pending(finish_current(s, "auto_acknowledged"))
      ELSE s

Reported(s, sent) == IF s.status_dirty THEN publish_status(s, sent) ELSE s

-----------------------------------------------------------------------------
(* History                                                                 *)
LongestTimeout == Half

Watched ==
    seen' = IF state'.current # state.current \/ ~has_current(state) THEN 0
            ELSE IF state.current_visible /\ seen < LongestTimeout THEN seen + 1
            ELSE seen

Accepts(s, command) == command \in Messages /\ ~duplicate_id(s, command.id)

Remembered(handled, command) ==
    accepted' = IF ~handled THEN accepted
                ELSE IF command.kind = "invalid" THEN NoId
                ELSE IF Accepts(state, command) THEN command.id
                ELSE accepted

-----------------------------------------------------------------------------
(* One tick of the service in any state of the application but WIFI_SETUP, *)
(* one step after the other as in the code. Whether the screen is free is  *)
(* decided before the command that may switch do-not-disturb arrives.      *)
tick(network, command, allowed) ==
    \E t \in {Later(now, 1)}, free \in {allowed /\ ~state.do_not_disturb} :
    \E networked \in {Networked(state, t, network, command)} :
    \E promoted \in {promote_pending(networked)} :
    \E hidden \in {Hidden(promoted, t, free)} :
    \E shown \in {Shown(hidden, t, free)} :
    \E expired \in {Expired(shown, t)} :
        /\ now' = t
        /\ state' = Aged(Reported(expired, network = "up"))
        /\ Watched
        /\ Remembered(networked.connected, command)
        /\ UNCHANGED enabled

Arriving(network) ==
    IF network \in {"up", "breaking"} THEN Commands ELSE {Control("none")}

Tick ==
    \E network \in Networks, allowed \in BOOLEAN :
        \E command \in Arriving(network) : tick(network, command, allowed)

(* In WIFI_SETUP the service is stopped at every tick. Bound: nobody stays *)
(* there for Half, 24 days, while a beacon on the screen is overdue.       *)
StoppedTick ==
    /\ now' = Later(now, 1)
    /\ state.current_visible /\ IsBeacon(state) => now' # Later(state.beacon_due, Half - 1)
    /\ state' = stop(state)
    /\ Watched
    /\ UNCHANGED <<enabled, accepted>>

(* OK on the panel; a beacon has no OK button.                             *)
acknowledgeCurrent ==
    /\ state.panel.kind = "notification"
    /\ state.current.kind = "notification"
    /\ \E sent \in BOOLEAN :
          state' = Aged(publish_status(promote_pending(finish_current(state, "acknowledged")), sent))
    /\ Watched
    /\ UNCHANGED <<now, enabled, accepted>>

(* The control panel saves the MQTT settings.                              *)
configure ==
    /\ enabled' \in BOOLEAN
    /\ state' = [stop(state) EXCEPT !.next_retry = 0, !.retry_delay = RetryInitial]
    /\ UNCHANGED <<now, seen, accepted>>

Initial(do_not_disturb, retained) ==
    [ current |-> NoMessage, pending |-> NoMessage, current_visible |-> FALSE,
      beacon_due |-> 0, beacon_remaining |-> 0,
      last_id |-> NoId, last_result |-> "none", status_dirty |-> TRUE,
      do_not_disturb |-> do_not_disturb,
      connected |-> FALSE, next_retry |-> 0, retry_delay |-> RetryInitial,
      panel |-> NoMessage, retained |-> retained ]

(* The reboot command, or a power cycle: begin() reads what is in NVS.     *)
begin ==
    /\ now' = 0
    /\ state' = Initial(state.do_not_disturb, OldStatus)
    /\ seen' = 0
    /\ accepted' = NoId
    /\ UNCHANGED enabled

Init ==
    /\ now = 0
    /\ enabled \in BOOLEAN
    /\ \E dnd \in BOOLEAN : state = Initial(dnd, OldStatus)
    /\ seen = 0
    /\ accepted = NoId

Next ==
    \/ Tick
    \/ StoppedTick
    \/ acknowledgeCurrent
    \/ configure
    \/ begin

Spec == Init /\ [][Next]_vars

(* The application loop calls the service again and again.                 *)
FairSpec == Spec /\ WF_vars(Tick)

-----------------------------------------------------------------------------
(* Properties                                                              *)

(* The service's state is well formed.                                     *)
TypeOK ==
    /\ now \in Times
    /\ enabled \in BOOLEAN
    /\ state \in State
    /\ seen \in 0 .. Half
    /\ accepted \in Ids \cup {NoId}

(* The panel on the screen is the current message's, and there is none     *)
(* without one: finish_current, the hiding and the showing in tick() and   *)
(* the flag current_visible keep pace with the view they cannot ask.       *)
PanelShowsCurrent ==
    state.panel = IF state.current_visible THEN state.current ELSE NoMessage

(* A message that arrives again right after it was accepted, as one may    *)
(* that the broker did not see acknowledged, is recognised by duplicate_id *)
(* wherever the first one has got to, unless a rejection was recorded.     *)
RedeliveryIsDropped == accepted # NoId => duplicate_id(state, accepted)

(* While the service is connected and owes no status, the broker has the   *)
(* present one: no change of the slots or of do-not-disturb forgets the    *)
(* status_dirty flag, over reconnections and failed publications too.      *)
StatusIsFresh ==
    state.connected /\ ~state.status_dirty => state.retained = Snapshot(state)

(* A beacon is acknowledged automatically only after it was on the screen  *)
(* for its whole timeout, however often an alarm, a timer or do-not-disturb*)
(* took it off the screen in between.                                      *)
BeaconShownInFull ==
    [][ /\ has_current(state) /\ state'.current # state.current
        /\ <<state'.last_id, state'.last_result>> = <<state.current.id, "auto_acknowledged">>
        => /\ state.current_visible
           /\ seen + 1 >= state.current.timeout ]_vars

(* The other bound: a tick leaves no beacon on the screen whose time is up *)
(* or that has more of it than it was given, and none is taken off it with *)
(* more than that, across the wrap of millis() and the hours that pass on  *)
(* the screen of WIFI_SETUP.                                               *)
InTime ==
    has_current(state) /\ IsBeacon(state) =>
        IF state.current_visible
          THEN (state.beacon_due - now) % Wrap \in 1 .. state.current.timeout
          ELSE state.beacon_remaining \in 0 .. state.current.timeout

BeaconKeepsItsTime == [][InTime' \/ ~Tick]_vars

(* The slots behave as MessageQueue says: the current message is never     *)
(* replaced by a newer one and the one that waits follows it at once.      *)
Queue == INSTANCE MessageQueue WITH
    current <- state.current, waiting <- state.pending, visible <- state.current_visible

ImplementsMessageQueue == Queue!QueueSpec

(* When from some time on every attempt to connect succeeds and no         *)
(* connection breaks, the service, if it is enabled, gets connected and    *)
(* stays so: the signed comparison with next_retry may make it wait for    *)
(* half a range of millis(), but not for ever.                             *)
BrokerAnswers ==
    enabled /\ (state.connected \/ MayConnect(state, now')) => state'.connected
Reconnects == <>[][BrokerAnswers]_vars => <>[](enabled => state.connected)

(* A beacon that is not taken off the screen leaves it by itself.          *)
LeftOnScreen ==
    state.current_visible /\ state'.current = state.current => state'.current_visible
BeaconEnds ==
    <>[][LeftOnScreen]_vars => []<>~(state.current_visible /\ IsBeacon(state))
=============================================================================
