------------------------- MODULE MqttServiceProofs --------------------------
(* Proofs about MqttService for every set of messages and every width of   *)
(* the millisecond counter.                                                *)
EXTENDS MqttService, TLAPS

(* What holds of the service's record between any two calls of the code,   *)
(* within a tick too.                                                      *)
Panel(s) ==
    /\ s.current_visible => has_current(s)
    /\ s.panel = IF s.current_visible THEN s.current ELSE NoMessage

Fresh(s) == s.connected /\ ~s.status_dirty => s.retained = Snapshot(s)

Good(s) == s \in State /\ Panel(s) /\ Fresh(s)

(* Where duplicate_id finds the last accepted message.                     *)
Known(s, id) ==
    id # NoId => id = IF has_pending(s) THEN s.pending.id
                      ELSE IF has_current(s) THEN s.current.id
                      ELSE s.last_id

-----------------------------------------------------------------------------
(* Times and messages                                                      *)
LEMMA HalfFacts == Wrap \in Nat \ {0} /\ Half \in Nat /\ 1 < Half /\ Half <= Wrap
BY MqttServiceAssumption DEF Half

LEMMA LaterType ==
  ASSUME NEW t \in Times, NEW delay \in Nat
  PROVE  Later(t, delay) \in Times
BY HalfFacts DEF Later, Times

LEMMA LeftType ==
  ASSUME NEW t \in Times, NEW due \in Times
  PROVE  Left(t, due) \in 0 .. Half
BY HalfFacts DEF Left, Times

LEMMA MessageFacts ==
  ASSUME NEW m \in Messages
  PROVE  /\ m.id \in Ids /\ m.id # NoId
         /\ m.kind \in {"beacon", "notification"}
         /\ m.timeout \in 0 .. Half
         /\ m # NoMessage
<1>1. m.id \in Ids /\ m.id # NoId /\ m.kind \in {"beacon", "notification"}
  BY MqttServiceAssumption DEF Ids
<1>2. m.timeout \in Nat /\ m.timeout < Half
  BY MqttServiceAssumption
<1>3. m # NoMessage
  BY <1>1 DEF NoMessage
<1> QED BY <1>1, <1>2, <1>3, HalfFacts

LEMMA SlotFacts ==
  ASSUME NEW m \in Messages \cup {NoMessage}
  PROVE  /\ m.id \in Ids \cup {NoId}
         /\ m.timeout \in 0 .. Half
         /\ m # NoMessage => m \in Messages /\ m.kind \in {"beacon", "notification"} /\ m.id # NoId
<1>1. CASE m \in Messages
  BY <1>1, MessageFacts
<1>2. CASE m = NoMessage
  BY <1>2, HalfFacts DEF NoMessage
<1> QED BY <1>1, <1>2

LEMMA SnapshotType ==
  ASSUME NEW s \in State
  PROVE  Snapshot(s) \in Statuses
<1>1. s.current \in Messages \cup {NoMessage} /\ s.pending \in Messages \cup {NoMessage}
  BY DEF State
<1>2. s.current.id \in Ids \cup {NoId} /\ s.pending.id \in Ids \cup {NoId}
  BY <1>1, SlotFacts
<1>3. has_current(s) => s.current.kind \in {"beacon", "notification"}
  BY <1>1, SlotFacts DEF has_current
<1>4. /\ s.last_id \in Ids \cup Invalid \cup {NoId}
      /\ s.last_result \in Results
      /\ s.do_not_disturb \in BOOLEAN
  BY DEF State
<1> QED BY <1>2, <1>3, <1>4 DEF Snapshot, Statuses

-----------------------------------------------------------------------------
(* Every call of the code keeps the record good, and every call but the    *)
(* ones that record a result of their own keeps the last accepted message  *)
(* known.                                                                  *)
LEMMA SetLast ==
  ASSUME NEW s, Good(s), NEW id \in Ids \cup Invalid \cup {NoId}, NEW result \in Results
  PROVE  Good(set_last(s, id, result))
BY DEF Good, Panel, Fresh, State, set_last, has_current

LEMMA QueueMessage ==
  ASSUME NEW s, Good(s), NEW m \in Messages
  PROVE  Good(queue_message(s, m))
<1>1. CASE duplicate_id(s, m.id)
  BY <1>1 DEF queue_message, Good, Panel, Fresh, State, has_current
<1>2. CASE ~duplicate_id(s, m.id)
  <2> DEFINE r == IF has_pending(s) THEN set_last(s, s.pending.id, "superseded") ELSE s
  <2>1. s.pending.id \in Ids \cup {NoId}
    BY SlotFacts DEF Good, State
  <2>2. Good(r)
    BY <2>1, SetLast DEF Results
  <2>3. queue_message(s, m) = [r EXCEPT !.pending = m, !.status_dirty = TRUE]
    BY <1>2 DEF queue_message
  <2> HIDE DEF r
  <2> QED BY <2>2, <2>3 DEF Good, Panel, Fresh, State, has_current
<1> QED BY <1>1, <1>2

LEMMA PromotePending ==
  ASSUME NEW s, Good(s)
  PROVE  /\ Good(promote_pending(s))
         /\ has_pending(promote_pending(s)) => has_current(promote_pending(s))
         /\ \A id : Known(s, id) => Known(promote_pending(s), id)
<1>1. CASE has_current(s) \/ ~has_pending(s)
  BY <1>1 DEF promote_pending
<1>2. CASE ~has_current(s) /\ has_pending(s)
  <2> DEFINE r == promote_pending(s)
  <2>1. r = [s EXCEPT !.current = s.pending,
                      !.pending = NoMessage,
                      !.current_visible = FALSE,
                      !.beacon_remaining = s.pending.timeout,
                      !.status_dirty = TRUE]
    BY <1>2 DEF promote_pending
  <2>2. s \in State /\ s.pending.timeout \in 0 .. Half
    BY SlotFacts DEF Good, State
  <2>3. r \in State
    BY <2>1, <2>2 DEF State
  <2>4. /\ r.current = s.pending /\ r.pending = NoMessage /\ r.current_visible = FALSE
        /\ r.status_dirty = TRUE /\ r.panel = s.panel
    BY <2>1, <2>2 DEF State
  <2>5. s.panel = NoMessage
    BY <1>2 DEF Good, Panel
  <2> HIDE DEF r
  <2>6. Good(r)
    BY <2>3, <2>4, <2>5 DEF Good, Panel, Fresh
  <2>7. \A id : Known(s, id) => Known(r, id)
    BY <1>2, <2>4 DEF Known, has_current, has_pending
  <2> QED BY <2>4, <2>6, <2>7 DEF r, has_current, has_pending
<1> QED BY <1>1, <1>2

LEMMA FinishCurrent ==
  ASSUME NEW s, Good(s), NEW result \in Results
  PROVE  /\ Good(finish_current(s, result))
         /\ \A id : Known(s, id) => Known(finish_current(s, result), id)
<1>1. CASE ~has_current(s)
  BY <1>1 DEF finish_current
<1>2. CASE has_current(s)
  <2> DEFINE h == IF s.current_visible THEN hideMqttMessage(s) ELSE s
             l == set_last(h, s.current.id, result)
             r == finish_current(s, result)
  <2>1. r = [l EXCEPT !.current = NoMessage,
                      !.current_visible = FALSE,
                      !.beacon_due = 0,
                      !.beacon_remaining = 0]
    BY <1>2 DEF finish_current
  <2>2. s \in State /\ s.current.id \in Ids \cup {NoId}
    BY SlotFacts DEF Good, State
  <2>3. h \in State /\ h.panel = NoMessage /\ h.pending = s.pending
    BY <2>2 DEF Good, Panel, State, hideMqttMessage
  <2> HIDE DEF h
  <2>4. /\ l \in State /\ l.panel = NoMessage /\ l.pending = s.pending
        /\ l.last_id = s.current.id /\ l.status_dirty = TRUE
    BY <2>2, <2>3 DEF set_last, State
  <2> HIDE DEF l, r
  <2>a. 0 \in Times /\ 0 \in 0 .. Half
    BY HalfFacts DEF Times
  <2>5. /\ r \in State /\ r.panel = NoMessage /\ r.pending = s.pending
        /\ r.last_id = s.current.id /\ r.status_dirty = TRUE
        /\ r.current = NoMessage /\ r.current_visible = FALSE
    BY <2>1, <2>4, <2>a DEF State
  <2>6. Good(r)
    BY <2>5 DEF Good, Panel, Fresh
  <2>7. \A id : Known(s, id) => Known(r, id)
    BY <1>2, <2>5 DEF Known, has_current, has_pending
  <2> QED BY <2>6, <2>7 DEF r
<1> QED BY <1>1, <1>2

LEMMA ProcessInbound ==
  ASSUME NEW s, Good(s), NEW command \in Commands
  PROVE  Good(process_inbound(s, command))
<1>1. CASE command \in Messages
  <2>1. process_inbound(s, command) = queue_message(s, command)
    BY <1>1, MessageFacts DEF process_inbound
  <2> QED BY <1>1, <2>1, QueueMessage
<1>2. CASE command \notin Messages
  <2>1. CASE command.kind = "invalid"
    <3>1. command.id \in Ids \cup Invalid \cup {NoId}
      BY <1>2, <2>1 DEF Commands, Control
    <3>2. process_inbound(s, command) = set_last(s, command.id, "rejected")
      BY <1>2, <2>1 DEF process_inbound
    <3> QED BY <3>1, <3>2, SetLast DEF Results
  <2>2. CASE command.kind = "dismiss"
    <3>1. process_inbound(s, command) = promote_pending(finish_current(s, "dismissed"))
      BY <1>2, <2>2 DEF process_inbound
    <3>2. Good(finish_current(s, "dismissed"))
      BY FinishCurrent DEF Results
    <3> QED BY <3>1, <3>2, PromotePending
  <2>3. CASE command.kind \in {"dndOn", "dndOff"}
    <3>1. process_inbound(s, command) =
            [s EXCEPT !.do_not_disturb = (command.kind = "dndOn"), !.status_dirty = TRUE]
      BY <1>2, <2>3 DEF process_inbound
    <3> QED BY <3>1 DEF Good, Panel, Fresh, State, has_current
  <2>4. CASE command.kind \notin {"invalid", "dismiss", "dndOn", "dndOff"}
    <3>1. process_inbound(s, command) = s
      BY <1>2, <2>4 DEF process_inbound
    <3> QED BY <3>1
  <2> QED BY <2>1, <2>2, <2>3, <2>4
<1> QED BY <1>1, <1>2

LEMMA PublishStatus ==
  ASSUME NEW s, Good(s), NEW sent \in BOOLEAN
  PROVE  Good(publish_status(s, sent))
<1>1. CASE ~(s.connected /\ sent)
  <2>1. publish_status(s, sent) = s
    BY <1>1 DEF publish_status
  <2> QED BY <2>1
<1>2. CASE s.connected /\ sent
  <2> DEFINE r == publish_status(s, sent)
  <2>1. r = [s EXCEPT !.status_dirty = FALSE, !.retained = Snapshot(s)]
    BY <1>2 DEF publish_status
  <2>2. s \in State /\ Snapshot(s) \in Statuses
    BY SnapshotType DEF Good
  <2>3. r \in State
    BY <2>1, <2>2 DEF State
  <2>4. /\ r.current = s.current /\ r.pending = s.pending /\ r.panel = s.panel
        /\ r.current_visible = s.current_visible
        /\ r.last_id = s.last_id /\ r.last_result = s.last_result
        /\ r.do_not_disturb = s.do_not_disturb
        /\ r.retained = Snapshot(s)
    BY <2>1, <2>2 DEF State
  <2> HIDE DEF r
  <2>5. Snapshot(r) = Snapshot(s)
    BY <2>4 DEF Snapshot, has_current, has_pending
  <2>6. Good(r)
    BY <2>3, <2>4, <2>5 DEF Good, Panel, Fresh, has_current
  <2> QED BY <2>6 DEF r
<1> QED BY <1>1, <1>2

(* Changes of the connection leave the slots, the panel and the status.    *)
LEMMA Connection ==
  ASSUME NEW s, Good(s), NEW r \in State,
         \/ ~r.connected
         \/ r.status_dirty
         \/ r.connected = s.connected /\ r.status_dirty = s.status_dirty,
         r.current = s.current, r.pending = s.pending, r.panel = s.panel,
         r.current_visible = s.current_visible,
         r.last_id = s.last_id, r.last_result = s.last_result,
         r.do_not_disturb = s.do_not_disturb, r.retained = s.retained
  PROVE  Good(r)
<1>1. Snapshot(r) = Snapshot(s)
  BY DEF Snapshot, has_current, has_pending
<1> QED BY <1>1 DEF Good, Panel, Fresh, has_current

LEMMA Stop ==
  ASSUME NEW s, Good(s)
  PROVE  Good(stop(s))
<1>1. s \in State
  BY DEF Good
<1>2. stop(s) \in State /\ ~stop(s).connected
  BY <1>1 DEF stop, State
<1> QED BY <1>1, <1>2, Connection DEF stop, State

LEMMA ConnectedClient ==
  ASSUME NEW s, Good(s), NEW sent \in BOOLEAN
  PROVE  Good(connected_client(s, sent))
<1> DEFINE r == [s EXCEPT !.connected = TRUE, !.status_dirty = TRUE]
<1>1. s \in State
  BY DEF Good
<1>2. r \in State /\ r.status_dirty
  BY <1>1 DEF State
<1>3. Good(r)
  BY <1>1, <1>2, Connection DEF State
<1> QED BY <1>3, PublishStatus DEF connected_client

LEMMA RetryTypes ==
  ASSUME NEW s \in State, NEW t \in Times
  PROVE  Later(t, s.retry_delay) \in Times /\ Doubled(s.retry_delay) \in Nat
<1>1. s.retry_delay \in Nat
  BY DEF State
<1> QED BY <1>1, LaterType, MqttServiceAssumption DEF Doubled

LEMMA ConnectStep ==
  ASSUME NEW s, Good(s), NEW t \in Times, NEW network \in AllNetworks
  PROVE  Good(Connected(s, t, network))
<1>1. CASE ~MayConnect(s, t)
  BY <1>1 DEF Connected
<1>2. CASE MayConnect(s, t) /\ network # "refused"
  BY <1>2, ConnectedClient DEF Connected, connect_client
<1>3. CASE MayConnect(s, t) /\ network = "refused"
  <2> DEFINE r == Connected(s, t, network)
  <2>1. r = [s EXCEPT !.next_retry = Later(t, s.retry_delay),
                      !.retry_delay = Doubled(s.retry_delay)]
    BY <1>3 DEF Connected, connect_client
  <2>2. s \in State
    BY DEF Good
  <2>3. r \in State /\ r.connected = s.connected /\ r.status_dirty = s.status_dirty
    BY <2>1, <2>2, RetryTypes DEF State
  <2> QED BY <2>1, <2>2, <2>3, Connection DEF State
<1> QED BY <1>1, <1>2, <1>3

LEMMA ServeStep ==
  ASSUME NEW s, Good(s), NEW t \in Times, NEW network \in AllNetworks, NEW command \in Commands
  PROVE  Good(Served(s, t, network, command))
<1>1. CASE ~s.connected
  BY <1>1 DEF Served
<1>2. CASE s.connected /\ network \in {"up", "breaking"}
  BY <1>2, ProcessInbound DEF Served
<1>3. CASE s.connected /\ network \notin {"up", "breaking"}
  <2> DEFINE r == Served(s, t, network, command)
  <2>1. r = [s EXCEPT !.connected = FALSE, !.next_retry = Later(t, s.retry_delay)]
    BY <1>3 DEF Served, Lost
  <2>2. s \in State
    BY DEF Good
  <2>3. r \in State /\ ~r.connected
    BY <2>1, <2>2, RetryTypes DEF State
  <2> QED BY <2>1, <2>2, <2>3, Connection DEF State
<1> QED BY <1>1, <1>2, <1>3

LEMMA NetworkStep ==
  ASSUME NEW s, Good(s), NEW t \in Times, NEW network \in AllNetworks, NEW command \in Commands
  PROVE  Good(Networked(s, t, network, command))
BY Stop, ConnectStep, ServeStep DEF Networked

-----------------------------------------------------------------------------
(* The display half of a tick                                              *)
LEMMA HiddenStep ==
  ASSUME NEW s, Good(s), NEW t \in Times, NEW free \in BOOLEAN
  PROVE  /\ Good(Hidden(s, t, free))
         /\ Hidden(s, t, free).current = s.current
         /\ Hidden(s, t, free).pending = s.pending
         /\ Hidden(s, t, free).last_id = s.last_id
<1>1. CASE ~(has_current(s) /\ s.current_visible /\ ~free)
  BY <1>1 DEF Hidden
<1>2. CASE has_current(s) /\ s.current_visible /\ ~free
  <2> DEFINE h == hideMqttMessage(s)
             left == IF IsBeacon(s) THEN Left(t, s.beacon_due) ELSE h.beacon_remaining
             r == Hidden(s, t, free)
  <2>1. r = [h EXCEPT !.beacon_remaining = left,
                      !.current_visible = FALSE,
                      !.status_dirty = TRUE]
    BY <1>2 DEF Hidden
  <2>2. s \in State /\ Left(t, s.beacon_due) \in 0 .. Half
    BY LeftType DEF Good, State
  <2>3. /\ h \in State /\ h.panel = NoMessage
        /\ h.current = s.current /\ h.pending = s.pending /\ h.last_id = s.last_id
    BY <2>2 DEF State, hideMqttMessage
  <2>a. left \in 0 .. Half
    BY <2>2, <2>3 DEF State
  <2> HIDE DEF h, r, left
  <2>4. /\ r \in State /\ r.panel = NoMessage /\ ~r.current_visible /\ r.status_dirty
        /\ r.current = s.current /\ r.pending = s.pending /\ r.last_id = s.last_id
    BY <2>1, <2>3, <2>a DEF State
  <2>5. Good(r)
    BY <2>4 DEF Good, Panel, Fresh
  <2> QED BY <2>4, <2>5 DEF r
<1> QED BY <1>1, <1>2

LEMMA ShownStep ==
  ASSUME NEW s, Good(s), NEW t \in Times, NEW free \in BOOLEAN
  PROVE  /\ Good(Shown(s, t, free))
         /\ Shown(s, t, free).current = s.current
         /\ Shown(s, t, free).pending = s.pending
         /\ Shown(s, t, free).last_id = s.last_id
<1>1. CASE ~(has_current(s) /\ ~s.current_visible /\ free)
  BY <1>1 DEF Shown
<1>2. CASE has_current(s) /\ ~s.current_visible /\ free
  <2> DEFINE h == showMqttMessage(s)
             remaining == IF s.beacon_remaining = 0 THEN s.current.timeout
                                                    ELSE s.beacon_remaining
             r == Shown(s, t, free)
  <2>1. r = [h EXCEPT !.beacon_remaining = IF IsBeacon(s) THEN remaining ELSE @,
                      !.beacon_due = IF IsBeacon(s) THEN Later(t, remaining) ELSE @,
                      !.current_visible = TRUE,
                      !.status_dirty = TRUE]
    BY <1>2 DEF Shown
  <2>2. s \in State /\ remaining \in 0 .. Half
    <3>1. s \in State
      BY DEF Good
    <3>2. s.current \in Messages \cup {NoMessage} /\ s.beacon_remaining \in 0 .. Half
      BY <3>1 DEF State
    <3>3. s.current.timeout \in 0 .. Half
      BY <3>2, SlotFacts
    <3> QED BY <3>1, <3>2, <3>3
  <2>3. Later(t, remaining) \in Times
    BY <2>2, LaterType, HalfFacts
  <2>4. /\ h \in State /\ h.panel = s.current
        /\ h.current = s.current /\ h.pending = s.pending /\ h.last_id = s.last_id
    BY <2>2 DEF State, showMqttMessage
  <2> HIDE DEF h, r, remaining
  <2>5. /\ r \in State /\ r.panel = s.current /\ r.current_visible /\ r.status_dirty
        /\ r.current = s.current /\ r.pending = s.pending /\ r.last_id = s.last_id
    BY <2>1, <2>2, <2>3, <2>4 DEF State
  <2>6. Good(r)
    BY <1>2, <2>5 DEF Good, Panel, Fresh, has_current
  <2> QED BY <2>5, <2>6 DEF r
<1> QED BY <1>1, <1>2

LEMMA ExpiredStep ==
  ASSUME NEW s, Good(s), NEW t \in Times, has_pending(s) => has_current(s)
  PROVE  /\ Good(Expired(s, t))
         /\ has_pending(Expired(s, t)) => has_current(Expired(s, t))
         /\ \A id : Known(s, id) => Known(Expired(s, t), id)
<1> DEFINE f == finish_current(s, "auto_acknowledged")
<1>1. Good(f) /\ \A id : Known(s, id) => Known(f, id)
  BY FinishCurrent DEF Results
<1>2. /\ Good(promote_pending(f))
      /\ has_pending(promote_pending(f)) => has_current(promote_pending(f))
      /\ \A id : Known(f, id) => Known(promote_pending(f), id)
  <2> HIDE DEF f
  <2> QED BY <1>1, PromotePending
<1>3. Expired(s, t) = promote_pending(f) \/ Expired(s, t) = s
  BY DEF Expired
<1> HIDE DEF f
<1> QED BY <1>1, <1>2, <1>3

LEMMA AgedStep ==
  ASSUME NEW s, Good(s), NEW sent \in BOOLEAN, NEW p,
         p = Reported(s, sent) \/ p = publish_status(s, sent)
  PROVE  /\ Good(Aged(p))
         /\ Aged(p).current = s.current
         /\ Aged(p).pending = s.pending
         /\ Aged(p).current_visible = s.current_visible
         /\ Aged(p).last_id = s.last_id
<1>1. /\ Good(p) /\ p.current = s.current /\ p.pending = s.pending
      /\ p.current_visible = s.current_visible /\ p.last_id = s.last_id
  <2>1. Good(p)
    BY PublishStatus DEF Reported
  <2>2. s \in State
    BY DEF Good
  <2> QED BY <2>1, <2>2 DEF Reported, publish_status, State
<1>2. CASE p.retained = Snapshot(p)
  BY <1>1, <1>2 DEF Aged
<1>3. CASE p.retained # Snapshot(p)
  <2> DEFINE r == [p EXCEPT !.retained = OldStatus]
  <2>1. Aged(p) = r
    BY <1>3 DEF Aged
  <2>2. p \in State
    BY <1>1 DEF Good
  <2>3. /\ r \in State /\ r.current = p.current /\ r.pending = p.pending
        /\ r.current_visible = p.current_visible /\ r.last_id = p.last_id
        /\ r.panel = p.panel /\ r.connected = p.connected /\ r.status_dirty = p.status_dirty
    BY <2>2 DEF State
  <2> HIDE DEF r
  <2>4. ~(p.connected /\ ~p.status_dirty)
    BY <1>1, <1>3 DEF Good, Fresh
  <2>5. Good(r)
    BY <1>1, <2>3, <2>4 DEF Good, Panel, Fresh, has_current
  <2> QED BY <1>1, <2>1, <2>3, <2>5
<1> QED BY <1>2, <1>3

(* A beacon that is shown in this tick does not expire in it.              *)
LEMMA NotAtOnce ==
  ASSUME NEW t \in Times, NEW delay \in 1 .. Half
  PROVE  ~Reached(t, Later(t, delay))
<1>1. Wrap \in Nat /\ t \in 0 .. Wrap - 1 /\ 2 * Half <= Wrap /\ Half \in Nat /\ 1 < Half
  BY HalfFacts, MqttServiceAssumption DEF Times, Half
<1>2. \A n \in 0 .. Wrap - 1 : n % Wrap = n
  BY <1>1
<1>3. CASE t + delay < Wrap
  <2>1. (t + delay) % Wrap = t + delay
    BY <1>1, <1>3
  <2>2. (t - (t + delay)) % Wrap = Wrap - delay
    BY <1>1, <1>3
  <2> QED BY <1>1, <2>1, <2>2 DEF Reached, Later
<1>4. CASE t + delay >= Wrap
  <2>1. (t + delay) % Wrap = t + delay - Wrap
    BY <1>1, <1>4
  <2>2. (t - (t + delay - Wrap)) % Wrap = Wrap - delay
    BY <1>1, <1>4
  <2> QED BY <1>1, <2>1, <2>2 DEF Reached, Later
<1> QED BY <1>1, <1>3, <1>4

-----------------------------------------------------------------------------
(* What one tick does to the two slots                                     *)
SameSlots(s, r) ==
    /\ r.current = s.current
    /\ r.pending = s.pending
    /\ r.current_visible = s.current_visible

Queued(s, r, m) ==
    /\ ~duplicate_id(s, m.id)
    /\ r.current = s.current
    /\ r.pending = m
    /\ r.current_visible = s.current_visible

Followed(s, r) ==
    /\ has_current(s)
    /\ r.current = s.pending
    /\ r.pending = NoMessage
    /\ r.current_visible = FALSE

LEMMA FollowedStep ==
  ASSUME NEW s, Good(s), has_pending(s) => has_current(s), NEW result \in Results
  PROVE  \/ SameSlots(s, promote_pending(finish_current(s, result)))
         \/ Followed(s, promote_pending(finish_current(s, result)))
<1>1. CASE ~has_current(s)
  BY <1>1 DEF finish_current, promote_pending, SameSlots
<1>2. CASE has_current(s)
  <2> DEFINE f == finish_current(s, result)
             r == promote_pending(f)
  <2>1. f = [set_last(IF s.current_visible THEN hideMqttMessage(s) ELSE s, s.current.id, result)
               EXCEPT !.current = NoMessage,
                      !.current_visible = FALSE,
                      !.beacon_due = 0,
                      !.beacon_remaining = 0]
    BY <1>2 DEF finish_current
  <2>2. s \in State
    BY DEF Good
  <2>3. /\ f.current = NoMessage /\ f.pending = s.pending /\ f.current_visible = FALSE
    BY <2>1, <2>2 DEF set_last, hideMqttMessage, State
  <2>4. f \in State
    BY FinishCurrent DEF Good
  <2> HIDE DEF f
  <2>5. Followed(s, r)
    BY <1>2, <2>3, <2>4 DEF promote_pending, has_current, has_pending, Followed, State
  <2> QED BY <2>5 DEF f
<1> QED BY <1>1, <1>2

LEMMA InboundSlots ==
  ASSUME NEW s, Good(s), has_pending(s) => has_current(s), NEW command \in Commands,
         NEW id, Known(s, id)
  PROVE  LET r == process_inbound(s, command)
             known == IF command.kind = "invalid" THEN NoId
                      ELSE IF Accepts(s, command) THEN command.id ELSE id
         IN  /\ \/ SameSlots(s, r)
                \/ command \in Messages /\ Queued(s, r, command)
                \/ Followed(s, r)
             /\ Known(r, known)
             /\ r.connected = s.connected
<1> DEFINE r == process_inbound(s, command)
<1>0. s \in State
  BY DEF Good
<1>1. CASE command \in Messages
  <2>1. r = queue_message(s, command) /\ command.kind # "invalid" /\ command # NoMessage
    BY <1>1, MessageFacts DEF process_inbound
  <2>2. CASE duplicate_id(s, command.id)
    BY <1>0, <2>1, <2>2
       DEF queue_message, SameSlots, Known, Accepts, has_current, has_pending, State
  <2>3. CASE ~duplicate_id(s, command.id)
    <3>1. /\ r.current = s.current /\ r.pending = command
          /\ r.current_visible = s.current_visible /\ r.connected = s.connected
      BY <1>0, <2>1, <2>3 DEF queue_message, set_last, State
    <3> QED BY <1>1, <2>1, <2>3, <3>1 DEF Queued, Known, Accepts, has_pending
  <2> QED BY <2>2, <2>3
<1>2. CASE command \notin Messages /\ command.kind = "invalid"
  BY <1>0, <1>2 DEF process_inbound, set_last, SameSlots, Known, State
<1>3. CASE command \notin Messages /\ command.kind = "dismiss"
  <2> DEFINE f == finish_current(s, "dismissed")
  <2>1. r = promote_pending(f)
    BY <1>3 DEF process_inbound
  <2>2. SameSlots(s, r) \/ Followed(s, r)
    BY <2>1, FollowedStep DEF Results
  <2>3. Good(f) /\ Known(f, id)
    BY FinishCurrent DEF Results
  <2>4. Known(r, id)
    <3> HIDE DEF f
    <3> QED BY <2>1, <2>3, PromotePending
  <2>5. f.connected = s.connected /\ f \in State
    <3>1. f \in State
      BY <2>3 DEF Good
    <3>2. CASE ~has_current(s)
      BY <3>1, <3>2 DEF finish_current
    <3>3. CASE has_current(s)
      <4> DEFINE h == IF s.current_visible THEN hideMqttMessage(s) ELSE s
      <4>1. h \in State /\ h.connected = s.connected
        BY <1>0 DEF State, hideMqttMessage
      <4>2. f = [set_last(h, s.current.id, "dismissed") EXCEPT
                   !.current = NoMessage, !.current_visible = FALSE,
                   !.beacon_due = 0, !.beacon_remaining = 0]
        BY <3>3 DEF finish_current
      <4> HIDE DEF h, f
      <4> QED BY <3>1, <4>1, <4>2 DEF set_last, State
    <3> QED BY <3>2, <3>3
  <2>6. r.connected = f.connected
    <3> HIDE DEF f, r
    <3>1. CASE has_current(f) \/ ~has_pending(f)
      BY <2>1, <3>1 DEF promote_pending
    <3>2. CASE ~(has_current(f) \/ ~has_pending(f))
      BY <2>1, <2>5, <3>2 DEF promote_pending, State
    <3> QED BY <3>1, <3>2
  <2> QED BY <1>3, <2>2, <2>4, <2>5, <2>6 DEF Accepts
<1>4. CASE command \notin Messages /\ command.kind \in {"dndOn", "dndOff"}
  BY <1>0, <1>4
     DEF process_inbound, SameSlots, Known, Accepts, has_current, has_pending, State
<1>5. CASE command \notin Messages /\ command.kind \notin {"invalid", "dismiss", "dndOn", "dndOff"}
  BY <1>0, <1>5 DEF process_inbound, SameSlots, Accepts
<1> QED BY <1>1, <1>2, <1>3, <1>4, <1>5

(* The connection changes no slot and forgets no accepted message.         *)
LEMMA ConnectedSlots ==
  ASSUME NEW s, Good(s), NEW t \in Times, NEW network \in AllNetworks
  PROVE  LET c == Connected(s, t, network)
         IN  SameSlots(s, c) /\ c.last_id = s.last_id
<1>1. s \in State
  BY DEF Good
<1>2. CASE ~MayConnect(s, t)
  BY <1>2 DEF Connected, SameSlots
<1>3. CASE MayConnect(s, t) /\ network # "refused"
  BY <1>1, <1>3
     DEF Connected, connect_client, connected_client, publish_status, SameSlots, State
<1>4. CASE MayConnect(s, t) /\ network = "refused"
  BY <1>1, <1>4 DEF Connected, connect_client, SameSlots, State
<1> QED BY <1>2, <1>3, <1>4

LEMMA NetworkedSlots ==
  ASSUME NEW s, Good(s), has_pending(s) => has_current(s),
         NEW t \in Times, NEW network \in AllNetworks, NEW command \in Commands,
         NEW id, Known(s, id)
  PROVE  LET r == Networked(s, t, network, command)
             known == IF ~r.connected THEN id
                      ELSE IF command.kind = "invalid" THEN NoId
                      ELSE IF Accepts(s, command) THEN command.id ELSE id
         IN  /\ \/ SameSlots(s, r)
                \/ command \in Messages /\ Queued(s, r, command)
                \/ Followed(s, r)
             /\ Known(r, known)
<1> DEFINE c == Connected(s, t, network)
           r == Networked(s, t, network, command)
<1>1. s \in State /\ Good(c) /\ c \in State
  BY ConnectStep DEF Good
<1>2. SameSlots(s, c) /\ c.last_id = s.last_id
  BY ConnectedSlots
<1>3. /\ Known(c, id)
      /\ has_pending(c) => has_current(c)
      /\ Accepts(s, command) = Accepts(c, command)
  BY <1>2 DEF Known, SameSlots, has_current, has_pending, Accepts, duplicate_id
<1>4. CASE ~(enabled /\ network # "off")
  <2>1. r = stop(s)
    BY <1>4 DEF Networked
  <2>2. SameSlots(s, r) /\ r.last_id = s.last_id /\ ~r.connected
    BY <1>1, <2>1 DEF stop, SameSlots, State
  <2> QED BY <2>2 DEF Known, SameSlots, has_current, has_pending
<1>5. CASE enabled /\ network # "off"
  <2>1. r = Served(c, t, network, command)
    BY <1>5 DEF Networked
  <2> HIDE DEF c, r
  <2>2. CASE ~c.connected
    <3>1. r = c
      BY <2>1, <2>2 DEF Served
    <3> QED BY <1>2, <1>3, <2>2, <3>1 DEF r
  <2>3. CASE c.connected /\ network \notin {"up", "breaking"}
    <3>1. SameSlots(c, r) /\ r.last_id = c.last_id /\ ~r.connected
      BY <1>1, <2>1, <2>3 DEF Served, Lost, SameSlots, State
    <3>2. SameSlots(s, r) /\ Known(r, id)
      BY <1>2, <1>3, <3>1 DEF Known, SameSlots, has_current, has_pending
    <3> QED BY <3>1, <3>2 DEF r
  <2>4. CASE c.connected /\ network \in {"up", "breaking"}
    <3>1. r = process_inbound(c, command)
      BY <2>1, <2>4 DEF Served
    <3> DEFINE known == IF command.kind = "invalid" THEN NoId
                        ELSE IF Accepts(c, command) THEN command.id ELSE id
    <3>2. /\ \/ SameSlots(c, r)
             \/ command \in Messages /\ Queued(c, r, command)
             \/ Followed(c, r)
          /\ Known(r, known)
          /\ r.connected
      BY <1>1, <1>3, <2>4, <3>1, InboundSlots
    <3>3. \/ SameSlots(s, r)
          \/ command \in Messages /\ Queued(s, r, command)
          \/ Followed(s, r)
      BY <1>2, <3>2 DEF SameSlots, Queued, Followed, has_current, duplicate_id
    <3> QED BY <1>3, <3>2, <3>3 DEF r
  <2> QED BY <2>2, <2>3, <2>4
<1> QED BY <1>4, <1>5

-----------------------------------------------------------------------------
(* The inductive invariant: the record is good, nothing waits behind an    *)
(* empty place, and duplicate_id finds the last accepted message in the    *)
(* place where it has got to.                                              *)
IInv ==
    /\ TypeOK
    /\ Good(state)
    /\ has_pending(state) => has_current(state)
    /\ Known(state, accepted)

(* What a tick has done before the status is published.                    *)
Through(command, r) ==
    \E t \in Times, free \in BOOLEAN, network \in Networks :
        /\ now' = t
        /\ LET n == Networked(state, t, network, command)
               h == Shown(Hidden(promote_pending(n), t, free), t, free)
           IN  /\ r = Expired(h, t)
               /\ Remembered(n.connected, command)
        /\ state' = Aged(Reported(r, network = "up"))

LEMMA TickSteps ==
  ASSUME IInv, Tick
  PROVE  /\ \E command \in Commands : \E r : Through(command, r)
         /\ Watched
         /\ UNCHANGED enabled
<1>1. PICK network \in Networks, allowed \in BOOLEAN, command \in Commands :
         tick(network, command, allowed)
  <2>1. PICK network \in Networks, allowed \in BOOLEAN :
           \E command \in Arriving(network) : tick(network, command, allowed)
    BY DEF Tick
  <2>2. Arriving(network) \subseteq Commands
    BY DEF Arriving, Commands
  <2> QED BY <2>1, <2>2
<1> DEFINE t == Later(now, 1)
           free == allowed /\ ~state.do_not_disturb
           n == Networked(state, t, network, command)
           h == Shown(Hidden(promote_pending(n), t, free), t, free)
           r == Expired(h, t)
<1>2. t \in Times /\ free \in BOOLEAN
  BY LaterType, HalfFacts DEF IInv, TypeOK
<1>3. /\ now' = t
      /\ state' = Aged(Reported(r, network = "up"))
      /\ Watched
      /\ Remembered(n.connected, command)
      /\ UNCHANGED enabled
  BY <1>1 DEF tick
<1>4. Through(command, r)
  <2> HIDE DEF t, free
  <2> QED BY <1>2, <1>3 DEF Through
<1> QED BY <1>3, <1>4

(* A tick, or the OK button, changes the slots in one of these ways.       *)
QueueStep(s, command, r) ==
    \/ r.current = s.current /\ r.pending = s.pending
    \/ command \in Messages /\ ~duplicate_id(s, command.id) /\ ~has_current(s)
         /\ r.current = command /\ r.pending = NoMessage
    \/ command \in Messages /\ ~duplicate_id(s, command.id) /\ has_current(s)
         /\ r.current = s.current /\ r.pending = command
    \/ command \in Messages /\ ~duplicate_id(s, command.id) /\ has_current(s)
         /\ r.current = command /\ r.pending = NoMessage /\ r.current_visible = FALSE
    \/ has_current(s) /\ r.current = s.pending /\ r.pending = NoMessage


LEMMA ThroughSteps ==
  ASSUME IInv, NEW command \in Commands, NEW r, Through(command, r)
  PROVE  /\ Good(r)
         /\ has_pending(r) => has_current(r)
         /\ Known(r, accepted')
         /\ QueueStep(state, command, r)
<1>1. PICK t \in Times, free \in BOOLEAN, network \in Networks :
        LET n == Networked(state, t, network, command)
            h == Shown(Hidden(promote_pending(n), t, free), t, free)
        IN  r = Expired(h, t) /\ Remembered(n.connected, command)
  BY DEF Through
<1> DEFINE n == Networked(state, t, network, command)
           p == promote_pending(n)
           d == Hidden(p, t, free)
           h == Shown(d, t, free)
<1>2. network \in AllNetworks
  BY MqttServiceAssumption
<1>3. /\ Good(state) /\ (has_pending(state) => has_current(state))
      /\ Known(state, accepted)
  BY DEF IInv
<1>4. Good(n)
  BY <1>2, <1>3, NetworkStep
<1>5. /\ \/ SameSlots(state, n)
         \/ command \in Messages /\ Queued(state, n, command)
         \/ Followed(state, n)
      /\ Known(n, accepted')
  <2>1. accepted' = IF ~n.connected THEN accepted
                    ELSE IF command.kind = "invalid" THEN NoId
                    ELSE IF Accepts(state, command) THEN command.id ELSE accepted
    BY <1>1 DEF Remembered
  <2> QED BY <1>2, <1>3, <2>1, NetworkedSlots
<1> HIDE DEF n
<1>6. /\ Good(p) /\ (has_pending(p) => has_current(p)) /\ Known(p, accepted')
  BY <1>4, <1>5, PromotePending
<1>7. /\ n \in State /\ state \in State
      /\ state.current_visible => has_current(state)
      /\ NoMessage \notin Messages
  BY <1>3, <1>4, MessageFacts DEF Good, Panel
<1>8. \/ SameSlots(state, p)
      \/ /\ command \in Messages /\ ~duplicate_id(state, command.id) /\ ~has_current(state)
         /\ p.current = command /\ p.pending = NoMessage /\ p.current_visible = FALSE
      \/ /\ command \in Messages /\ ~duplicate_id(state, command.id) /\ has_current(state)
         /\ p.current = state.current /\ p.pending = command
      \/ Followed(state, p)
  <2>1. CASE SameSlots(state, n)
    BY <1>3, <2>1 DEF promote_pending, SameSlots, has_current, has_pending
  <2>2. CASE command \in Messages /\ Queued(state, n, command)
    <3>1. CASE has_current(state)
      BY <2>2, <3>1 DEF promote_pending, Queued, has_current
    <3>2. CASE ~has_current(state)
      BY <1>7, <2>2, <3>2 DEF promote_pending, Queued, has_current, has_pending, State
    <3> QED BY <3>1, <3>2
  <2>3. CASE Followed(state, n)
    BY <2>3 DEF promote_pending, Followed, has_current, has_pending
  <2> QED BY <1>5, <2>1, <2>2, <2>3
<1> HIDE DEF p
<1>9. /\ Good(d) /\ d.current = p.current /\ d.pending = p.pending /\ d.last_id = p.last_id
  BY <1>6, HiddenStep
<1>10. ~p.current_visible => ~d.current_visible
  BY DEF Hidden
<1> HIDE DEF d
<1>11. /\ Good(h) /\ h.current = p.current /\ h.pending = p.pending /\ h.last_id = p.last_id
  BY <1>9, ShownStep
<1>12. ~d.current_visible => Expired(h, t) = h
  <2> SUFFICES ASSUME ~d.current_visible, has_current(h), h.current_visible, IsBeacon(h)
               PROVE  ~Reached(t, h.beacon_due)
    BY DEF Expired
  <2> DEFINE remaining == IF d.beacon_remaining = 0 THEN d.current.timeout
                                                    ELSE d.beacon_remaining
  <2>1. has_current(d) /\ free
    BY DEF Shown
  <2>2. d \in State /\ d.current = h.current
    BY <1>9, <1>11 DEF Good
  <2>3. IsBeacon(d)
    BY <2>2 DEF IsBeacon
  <2>4. h.beacon_due = Later(t, remaining)
    BY <2>1, <2>2, <2>3 DEF Shown, showMqttMessage, State
  <2>5. d.current \in Messages /\ d.beacon_remaining \in 0 .. Half
    BY <2>1, <2>2 DEF State, has_current
  <2>6. d.current.timeout \in 1 .. Half
    BY <2>3, <2>5, HalfFacts, MqttServiceAssumption DEF IsBeacon
  <2>7. remaining \in 1 .. Half
    BY <2>5, <2>6
  <2> QED BY <2>4, <2>7, NotAtOnce
<1> HIDE DEF h
<1>13. /\ has_pending(h) => has_current(h)
       /\ Known(h, accepted')
  BY <1>6, <1>11 DEF Known, has_current, has_pending
<1>14. r = Expired(h, t)
  BY <1>1 DEF h, d, p, n
<1>15. Good(r) /\ (has_pending(r) => has_current(r)) /\ Known(r, accepted')
  BY <1>11, <1>13, <1>14, ExpiredStep
<1>16. r = h \/ (d.current_visible /\ (SameSlots(h, r) \/ Followed(h, r)))
  <2>1. r = h \/ r = promote_pending(finish_current(h, "auto_acknowledged"))
    BY <1>14 DEF Expired
  <2>2. \/ SameSlots(h, promote_pending(finish_current(h, "auto_acknowledged")))
        \/ Followed(h, promote_pending(finish_current(h, "auto_acknowledged")))
    BY <1>11, <1>13, FollowedStep DEF Results
  <2> QED BY <1>12, <1>14, <2>1, <2>2
<1>17. QueueStep(state, command, r)
  BY <1>3, <1>7, <1>8, <1>10, <1>11, <1>16
     DEF QueueStep, SameSlots, Followed, has_current, has_pending, Good, Panel
<1> QED BY <1>15, <1>17

-----------------------------------------------------------------------------
(* The invariant holds at first and is kept, action by action.             *)
LEMMA InitialIsGood ==
  ASSUME NEW dnd \in BOOLEAN
  PROVE  /\ Good(Initial(dnd, OldStatus))
         /\ ~has_pending(Initial(dnd, OldStatus))
         /\ \A id : id = NoId => Known(Initial(dnd, OldStatus), id)
<1>1. Initial(dnd, OldStatus) \in State
  BY HalfFacts, MqttServiceAssumption DEF Initial, State, Times, Results
<1> QED BY <1>1 DEF Initial, Good, Panel, Fresh, has_current, has_pending, Known

LEMMA InitIInv == Init => IInv
<1> SUFFICES ASSUME Init PROVE IInv
  OBVIOUS
<1>1. PICK dnd \in BOOLEAN : state = Initial(dnd, OldStatus)
  BY DEF Init
<1>2. Good(state) /\ ~has_pending(state) /\ Known(state, accepted)
  BY <1>1, InitialIsGood DEF Init
<1>3. TypeOK
  BY <1>2, HalfFacts DEF Init, TypeOK, Good, Times
<1> QED BY <1>2, <1>3 DEF IInv

LEMMA WatchedType ==
  ASSUME IInv, Watched
  PROVE  seen' \in 0 .. Half
BY HalfFacts DEF IInv, TypeOK, Watched, LongestTimeout

LEMMA TickIInv ==
  ASSUME IInv, Tick
  PROVE  /\ IInv'
         /\ \E command \in Commands : QueueStep(state, command, state')
<1>1. PICK command \in Commands : \E r : Through(command, r)
  BY TickSteps
<1>2. PICK r : Through(command, r)
  BY <1>1
<1>3. /\ Good(r) /\ (has_pending(r) => has_current(r)) /\ Known(r, accepted')
      /\ QueueStep(state, command, r)
  BY <1>2, ThroughSteps
<1>4. PICK t \in Times, network \in Networks :
         /\ now' = t
         /\ state' = Aged(Reported(r, network = "up"))
         /\ \E handled : Remembered(handled, command)
  BY <1>2 DEF Through
<1>5. /\ Good(state') /\ state'.current = r.current /\ state'.pending = r.pending
      /\ state'.current_visible = r.current_visible /\ state'.last_id = r.last_id
  BY <1>3, <1>4, AgedStep
<1>6. /\ Good(state)' /\ (has_pending(state) => has_current(state))'
      /\ Known(state, accepted)'
  BY <1>3, <1>5 DEF Known, Good, Panel, Fresh, Snapshot, has_current, has_pending
<1>7. accepted' \in Ids \cup {NoId}
  <2>1. \/ accepted' \in {accepted, NoId}
        \/ command \in Messages /\ accepted' = command.id
    BY <1>4 DEF Remembered, Accepts
  <2> QED BY <2>1, MessageFacts DEF IInv, TypeOK
<1>8. TypeOK'
  BY <1>4, <1>6, <1>7, TickSteps, WatchedType DEF TypeOK, IInv, Good
<1>9. QueueStep(state, command, state')
  BY <1>3, <1>5 DEF QueueStep
<1> QED BY <1>6, <1>8, <1>9 DEF IInv

LEMMA StoppedTickIInv ==
  ASSUME IInv, StoppedTick
  PROVE  IInv' /\ SameSlots(state, state')
<1>1. state \in State /\ state' = stop(state)
  BY DEF IInv, TypeOK, StoppedTick
<1>2. Good(state') /\ SameSlots(state, state') /\ state'.last_id = state.last_id
  BY <1>1, Stop DEF IInv, stop, SameSlots, State
<1>3. /\ Good(state)' /\ (has_pending(state) => has_current(state))'
      /\ Known(state, accepted)'
  BY <1>2 DEF IInv, StoppedTick, SameSlots, Known, Good, Panel, Fresh, Snapshot,
              has_current, has_pending
<1>4. TypeOK'
  BY <1>3, WatchedType, LaterType, HalfFacts DEF TypeOK, IInv, Good, StoppedTick
<1> QED BY <1>2, <1>3, <1>4 DEF IInv

LEMMA AcknowledgeIInv ==
  ASSUME IInv, acknowledgeCurrent
  PROVE  IInv' /\ (SameSlots(state, state') \/ Followed(state, state'))
<1> DEFINE f == finish_current(state, "acknowledged")
           p == promote_pending(f)
<1>1. PICK sent \in BOOLEAN : state' = Aged(publish_status(p, sent))
  BY DEF acknowledgeCurrent
<1>2. Good(f) /\ Known(f, accepted)
  BY FinishCurrent DEF IInv, Results
<1>3. SameSlots(state, p) \/ Followed(state, p)
  BY FollowedStep DEF IInv, Results
<1> HIDE DEF f
<1>4. Good(p) /\ (has_pending(p) => has_current(p)) /\ Known(p, accepted)
  BY <1>2, PromotePending
<1> HIDE DEF p
<1>5. /\ Good(state') /\ state'.current = p.current /\ state'.pending = p.pending
      /\ state'.current_visible = p.current_visible /\ state'.last_id = p.last_id
  BY <1>1, <1>4, AgedStep
<1>6. /\ Good(state)' /\ (has_pending(state) => has_current(state))'
      /\ Known(state, accepted)'
  BY <1>4, <1>5 DEF acknowledgeCurrent, Known, Good, Panel, Fresh, Snapshot,
                    has_current, has_pending
<1>7. TypeOK'
  BY <1>6, WatchedType DEF TypeOK, IInv, Good, acknowledgeCurrent
<1> QED BY <1>3, <1>5, <1>6, <1>7 DEF IInv, SameSlots, Followed

LEMMA ConfigureIInv ==
  ASSUME IInv, configure
  PROVE  IInv' /\ SameSlots(state, state')
<1>1. state \in State
  BY DEF IInv, TypeOK
<1> DEFINE r == [stop(state) EXCEPT !.next_retry = 0, !.retry_delay = RetryInitial]
<1>2. state' = r
  BY DEF configure
<1>3. 0 \in Times /\ RetryInitial \in Nat
  BY HalfFacts, MqttServiceAssumption DEF Times
<1>4. r \in State /\ ~r.connected
  BY <1>1, <1>3 DEF stop, State
<1>5. Good(r)
  BY <1>1, <1>4, Connection DEF IInv, stop, State
<1>6. SameSlots(state, r) /\ r.last_id = state.last_id
  BY <1>1 DEF stop, SameSlots, State
<1> HIDE DEF r
<1>7. /\ Good(state)' /\ (has_pending(state) => has_current(state))'
      /\ Known(state, accepted)'
  BY <1>2, <1>5, <1>6 DEF IInv, configure, SameSlots, Known, Good, Panel, Fresh, Snapshot,
                          has_current, has_pending
<1>8. TypeOK'
  BY <1>7 DEF TypeOK, IInv, Good, configure
<1> QED BY <1>2, <1>6, <1>7, <1>8 DEF IInv

LEMMA BeginIInv ==
  ASSUME IInv, begin
  PROVE  IInv'
<1>1. state.do_not_disturb \in BOOLEAN
  BY DEF IInv, TypeOK, State
<1>2. /\ Good(state') /\ ~has_pending(state') /\ Known(state', accepted')
  BY <1>1, InitialIsGood DEF begin
<1>3. TypeOK'
  BY <1>2, HalfFacts DEF TypeOK, IInv, begin, Good, Times
<1> QED BY <1>2, <1>3 DEF IInv, Good, Panel, Fresh, Snapshot, Known, has_current, has_pending

LEMMA NextIInv == IInv /\ [Next]_vars => IInv'
<1> SUFFICES ASSUME IInv, [Next]_vars PROVE IInv'
  OBVIOUS
<1>1. CASE Tick
  BY <1>1, TickIInv
<1>2. CASE StoppedTick
  BY <1>2, StoppedTickIInv
<1>3. CASE acknowledgeCurrent
  BY <1>3, AcknowledgeIInv
<1>4. CASE configure
  BY <1>4, ConfigureIInv
<1>5. CASE begin
  BY <1>5, BeginIInv
<1>6. CASE UNCHANGED vars
  BY <1>6 DEF vars, IInv, TypeOK, Good, Panel, Fresh, Snapshot, Known, has_current, has_pending
<1> QED BY <1>1, <1>2, <1>3, <1>4, <1>5, <1>6 DEF Next

(* IInv is an inductive invariant of the service.                          *)
LEMMA Inductive == Spec => []IInv
<1> QED BY InitIInv, NextIInv, PTL DEF Spec

-----------------------------------------------------------------------------
(* The service's state is well formed, for every set of messages, width of *)
(* the millisecond counter and retry delays.                               *)
THEOREM TypeCorrect == Spec => []TypeOK
<1>1. IInv => TypeOK
  BY DEF IInv
<1> QED BY <1>1, Inductive, PTL

(* The panel shows the current message while it is visible, and nothing    *)
(* otherwise.                                                              *)
THEOREM PanelCorrect == Spec => []PanelShowsCurrent
<1>1. IInv => PanelShowsCurrent
  BY DEF IInv, Good, Panel, PanelShowsCurrent
<1> QED BY <1>1, Inductive, PTL

(* duplicate_id recognises the last accepted message wherever it is.       *)
THEOREM RedeliveryDropped == Spec => []RedeliveryIsDropped
<1>1. IInv => RedeliveryIsDropped
  BY DEF IInv, Known, RedeliveryIsDropped, duplicate_id
<1> QED BY <1>1, Inductive, PTL

(* A connected service that owes no status has published the present one.  *)
THEOREM StatusFresh == Spec => []StatusIsFresh
<1>1. IInv => StatusIsFresh
  BY DEF IInv, Good, Fresh, StatusIsFresh
<1> QED BY <1>1, Inductive, PTL

(* Every step of the service is a step of the abstract queue, or none.     *)
LEMMA QueueSteps ==
  ASSUME IInv, IInv', NEW command \in Commands, QueueStep(state, command, state')
  PROVE  [Queue!QueueNext]_(Queue!queueVars)
<1>1. /\ state'.current_visible \in BOOLEAN /\ state.current_visible \in BOOLEAN
      /\ state'.current_visible => state'.current # NoMessage
      /\ state.current_visible => state.current # NoMessage
      /\ state.pending # NoMessage => state.current # NoMessage
  BY DEF IInv, TypeOK, State, Good, Panel, has_current, has_pending
<1>2. command \in Messages /\ ~duplicate_id(state, command.id) => Queue!New(command)
  BY MessageFacts DEF Queue!New, duplicate_id
<1>3. CASE state'.current = state.current /\ state'.pending = state.pending
  BY <1>1, <1>3 DEF Queue!QueueNext, Queue!Present, Queue!queueVars
<1>4. CASE /\ command \in Messages /\ ~duplicate_id(state, command.id)
           /\ ~has_current(state)
           /\ state'.current = command /\ state'.pending = NoMessage
  BY <1>1, <1>2, <1>4 DEF Queue!QueueNext, Queue!Receive, has_current
<1>5. CASE /\ command \in Messages /\ ~duplicate_id(state, command.id)
           /\ has_current(state)
           /\ state'.current = state.current /\ state'.pending = command
  BY <1>1, <1>2, <1>5 DEF Queue!QueueNext, Queue!Receive, has_current
<1>6. CASE /\ command \in Messages /\ ~duplicate_id(state, command.id)
           /\ has_current(state)
           /\ state'.current = command /\ state'.pending = NoMessage
           /\ state'.current_visible = FALSE
  BY <1>2, <1>6 DEF Queue!QueueNext, Queue!ReceiveAndAnswer, has_current
<1>7. CASE has_current(state) /\ state'.current = state.pending /\ state'.pending = NoMessage
  BY <1>1, <1>7 DEF Queue!QueueNext, Queue!Answer, has_current
<1> QED BY <1>3, <1>4, <1>5, <1>6, <1>7 DEF QueueStep

(* The two message slots implement MessageQueue.                           *)
THEOREM ServiceImplementsMessageQueue == Spec => ImplementsMessageQueue
<1>1. Init => Queue!QueueInit
  BY DEF Init, Initial, Queue!QueueInit
<1>2. IInv /\ IInv' /\ [Next]_vars => [Queue!QueueNext]_(Queue!queueVars)
  <2> SUFFICES ASSUME IInv, IInv', [Next]_vars
               PROVE  [Queue!QueueNext]_(Queue!queueVars)
    OBVIOUS
  <2>1. Control("none") \in Commands
    BY DEF Commands
  <2>2. CASE Tick
    BY <2>2, TickIInv, QueueSteps
  <2>3. CASE StoppedTick
    BY <2>1, <2>3, StoppedTickIInv, QueueSteps DEF SameSlots, QueueStep
  <2>4. CASE acknowledgeCurrent
    BY <2>1, <2>4, AcknowledgeIInv, QueueSteps DEF SameSlots, Followed, QueueStep
  <2>5. CASE configure
    BY <2>1, <2>5, ConfigureIInv, QueueSteps DEF SameSlots, QueueStep
  <2>6. CASE begin
    BY <2>6 DEF begin, Initial, Queue!QueueNext, Queue!Forget
  <2>7. CASE UNCHANGED vars
    BY <2>7 DEF vars, Queue!queueVars
  <2> QED BY <2>2, <2>3, <2>4, <2>5, <2>6, <2>7 DEF Next
<1> QED BY <1>1, <1>2, Inductive, PTL DEF Spec, ImplementsMessageQueue, Queue!QueueSpec

-----------------------------------------------------------------------------
(* Beacons: the time on the screen. The differences of counter values are  *)
(* taken modulo Wrap, and count as ahead while they are below Half.        *)
(* The difference of two counter values.                                   *)
LEMMA Difference ==
  ASSUME NEW x \in Times, NEW y \in Times
  PROVE  (x - y) % Wrap = IF x >= y THEN x - y ELSE x - y + Wrap
<1>1. Wrap \in Nat \ {0} /\ x \in 0 .. Wrap - 1 /\ y \in 0 .. Wrap - 1
  BY HalfFacts DEF Times
<1> QED BY <1>1

LEMMA LaterValue ==
  ASSUME NEW t \in Times, NEW delay \in 0 .. Half
  PROVE  Later(t, delay) = IF t + delay < Wrap THEN t + delay ELSE t + delay - Wrap
<1>1. Wrap \in Nat \ {0} /\ t \in 0 .. Wrap - 1 /\ 2 * Half <= Wrap /\ Half \in Nat /\ 1 < Half
  BY HalfFacts, MqttServiceAssumption DEF Times, Half
<1>2. CASE t + delay < Wrap
  <2>1. (t + delay) % Wrap = t + delay
    BY <1>1, <1>2
  <2> QED BY <1>2, <2>1 DEF Later
<1>3. CASE t + delay >= Wrap
  <2>1. (t + delay) % Wrap = t + delay - Wrap
    BY <1>1, <1>3
  <2> QED BY <1>1, <1>3, <2>1 DEF Later
<1> QED BY <1>1, <1>2, <1>3

(* How long a beacon has left at t, and what passing time does to it.      *)
Ahead(s, t) == (s.beacon_due - t) % Wrap

LEMMA AheadFacts ==
  ASSUME NEW due \in Times, NEW t \in Times
  PROVE  /\ (due - t) % Wrap \in 0 .. Wrap - 1
         /\ (due - t) % Wrap > 0 => (due - Later(t, 1)) % Wrap = ((due - t) % Wrap) - 1
         /\ Reached(t, due) /\ (due - t) % Wrap < Half => (due - t) % Wrap = 0
<1>1. Wrap \in Nat \ {0} /\ 2 * Half <= Wrap /\ Half \in Nat /\ 1 < Half
  BY HalfFacts, MqttServiceAssumption DEF Half
<1>2. t \in 0 .. Wrap - 1 /\ due \in 0 .. Wrap - 1
  BY DEF Times
<1>3. Later(t, 1) \in Times /\ Later(t, 1) = IF t + 1 < Wrap THEN t + 1 ELSE 0
  <2>1. Later(t, 1) \in Times /\ 1 \in 0 .. Half
    BY <1>1, LaterType
  <2> QED BY <1>1, <1>2, <2>1, LaterValue
<1>4. /\ (due - t) % Wrap = IF due >= t THEN due - t ELSE due - t + Wrap
      /\ (due - Later(t, 1)) % Wrap = IF due >= Later(t, 1) THEN due - Later(t, 1)
                                      ELSE due - Later(t, 1) + Wrap
      /\ (t - due) % Wrap = IF t >= due THEN t - due ELSE t - due + Wrap
  BY <1>3, Difference
<1> QED BY <1>1, <1>2, <1>3, <1>4 DEF Reached

LEMMA AheadOfLater ==
  ASSUME NEW t \in Times, NEW delay \in 0 .. Half
  PROVE  (Later(t, delay) - t) % Wrap = delay
<1>1. Wrap \in Nat \ {0} /\ 2 * Half <= Wrap /\ Half \in Nat /\ 1 < Half /\ t \in 0 .. Wrap - 1
  BY HalfFacts, MqttServiceAssumption DEF Half, Times
<1>2. Later(t, delay) \in Times
  BY <1>1, LaterType
<1> QED BY <1>1, <1>2, LaterValue, Difference

(* A beacon that was on the screen for n ticks is due to stay there for at *)
(* least the rest of its timeout at time t.                                *)
Credit(s, n, t) ==
    has_current(s) /\ IsBeacon(s) =>
        IF s.current_visible
          THEN \/ n >= s.current.timeout
               \/ Ahead(s, t) < Half /\ n + Ahead(s, t) >= s.current.timeout
          ELSE /\ s.beacon_remaining < Half
               /\ s.beacon_remaining = 0 \/ n + s.beacon_remaining >= s.current.timeout

(* The message on the screen and its times are left alone, or it is        *)
(* another message, not shown yet.                                         *)
SameDisplay(s, r) ==
    /\ r.current = s.current /\ r.current_visible = s.current_visible
    /\ r.beacon_due = s.beacon_due /\ r.beacon_remaining = s.beacon_remaining

NewDisplay(r) ==
    /\ ~r.current_visible
    /\ has_current(r) => r.beacon_remaining = r.current.timeout

LEMMA SameCredit ==
  ASSUME NEW s, NEW r, SameDisplay(s, r), NEW n, NEW t, Credit(s, n, t)
  PROVE  Credit(r, n, t)
BY DEF SameDisplay, Credit, Ahead, has_current, IsBeacon

LEMMA NewCredit ==
  ASSUME NEW r \in State, NewDisplay(r), NEW n \in Nat, NEW t
  PROVE  Credit(r, n, t)
<1> SUFFICES ASSUME has_current(r) PROVE Credit(r, n, t)
  BY DEF Credit
<1>1. r.current \in Messages
  BY DEF State, has_current
<1>2. r.current.timeout \in Nat /\ r.current.timeout < Half
  BY <1>1, MqttServiceAssumption
<1> QED BY <1>2 DEF NewDisplay, Credit

LEMMA FinishDisplay ==
  ASSUME NEW s \in State, NEW result
  PROVE  LET f == finish_current(s, result)
         IN  \/ ~has_current(s) /\ f = s
             \/ f.current = NoMessage /\ ~f.current_visible /\ f.last_result = result
<1>1. CASE ~has_current(s)
  BY <1>1 DEF finish_current
<1>2. CASE has_current(s)
  BY <1>2 DEF finish_current, set_last, hideMqttMessage, State
<1> QED BY <1>1, <1>2

LEMMA PromoteDisplay ==
  ASSUME NEW s \in State
  PROVE  LET p == promote_pending(s)
         IN  /\ p.last_result = s.last_result
             /\ p = s \/ (~has_current(s) /\ NewDisplay(p))
<1>1. CASE has_current(s) \/ ~has_pending(s)
  BY <1>1 DEF promote_pending
<1>2. CASE ~has_current(s) /\ has_pending(s)
  <2> DEFINE p == promote_pending(s)
  <2>1. /\ p.current = s.pending /\ p.beacon_remaining = s.pending.timeout
        /\ p.current_visible = FALSE /\ p.last_result = s.last_result
    BY <1>2 DEF promote_pending, State
  <2> HIDE DEF p
  <2>2. p.last_result = s.last_result /\ NewDisplay(p)
    BY <2>1 DEF NewDisplay
  <2> QED BY <1>2, <2>2 DEF p
<1> QED BY <1>1, <1>2

(* Before the display half of a tick, the message on the screen is the     *)
(* same or was dismissed.                                                  *)
Before(s, r) ==
    \/ SameDisplay(s, r)
    \/ NewDisplay(r) /\ (has_current(s) => r.last_result # "auto_acknowledged")

LEMMA InboundDisplay ==
  ASSUME NEW s, Good(s), NEW command \in Commands
  PROVE  Before(s, process_inbound(s, command))
<1>0. s \in State
  BY DEF Good
<1>1. CASE command \in Messages
  <2>1. process_inbound(s, command) = queue_message(s, command)
    BY <1>1, MessageFacts DEF process_inbound
  <2>2. SameDisplay(s, queue_message(s, command))
    BY <1>0 DEF queue_message, set_last, SameDisplay, State
  <2> QED BY <2>1, <2>2 DEF Before
<1>2. CASE command \notin Messages
  <2>1. CASE command.kind = "invalid"
    BY <1>0, <1>2, <2>1 DEF process_inbound, set_last, Before, SameDisplay, State
  <2>2. CASE command.kind = "dismiss"
    <3> DEFINE f == finish_current(s, "dismissed")
    <3>1. process_inbound(s, command) = promote_pending(f)
      BY <1>2, <2>2 DEF process_inbound
    <3>2. /\ f \in State
          /\ \/ ~has_current(s) /\ f = s
             \/ f.current = NoMessage /\ ~f.current_visible /\ f.last_result = "dismissed"
      BY <1>0, FinishCurrent, FinishDisplay DEF Good, Results
    <3> HIDE DEF f
    <3>3. /\ promote_pending(f).last_result = f.last_result
          /\ promote_pending(f) = f \/ (~has_current(f) /\ NewDisplay(promote_pending(f)))
      BY <3>2, PromoteDisplay
    <3> QED BY <3>1, <3>2, <3>3 DEF Before, SameDisplay, NewDisplay, has_current
  <2>3. CASE command.kind \in {"dndOn", "dndOff"}
    BY <1>0, <1>2, <2>3 DEF process_inbound, Before, SameDisplay, State
  <2>4. CASE command.kind \notin {"invalid", "dismiss", "dndOn", "dndOff"}
    BY <1>2, <2>4 DEF process_inbound, Before, SameDisplay
  <2> QED BY <2>1, <2>2, <2>3, <2>4
<1> QED BY <1>1, <1>2

LEMMA NetworkedDisplay ==
  ASSUME NEW s, Good(s), NEW t \in Times, NEW network \in AllNetworks, NEW command \in Commands
  PROVE  Before(s, Networked(s, t, network, command))
<1>1. s \in State
  BY DEF Good
<1>2. CASE ~(enabled /\ network # "off")
  BY <1>1, <1>2 DEF Networked, stop, Before, SameDisplay, State
<1>3. CASE enabled /\ network # "off"
  <2> DEFINE c == Connected(s, t, network)
  <2>1. Networked(s, t, network, command) = Served(c, t, network, command)
    BY <1>3 DEF Networked
  <2>2. Good(c)
    BY ConnectStep
  <2>3. SameDisplay(s, c)
    BY <1>1 DEF Connected, connect_client, connected_client, publish_status, SameDisplay, State
  <2>4. c \in State
    BY <2>2 DEF Good
  <2> HIDE DEF c
  <2>5. Before(c, Served(c, t, network, command))
    <3>1. CASE ~c.connected
      BY <3>1 DEF Served, Before, SameDisplay
    <3>2. CASE c.connected /\ network \in {"up", "breaking"}
      BY <2>2, <3>2, InboundDisplay DEF Served
    <3>3. CASE c.connected /\ network \notin {"up", "breaking"}
      BY <2>4, <3>3 DEF Served, Lost, Before, SameDisplay, State
    <3> QED BY <3>1, <3>2, <3>3
  <2> QED BY <2>1, <2>3, <2>5 DEF Before, SameDisplay, has_current
<1> QED BY <1>2, <1>3

LEMMA BeforeDisplay ==
  ASSUME NEW s, Good(s), NEW t \in Times, NEW network \in AllNetworks, NEW command \in Commands
  PROVE  Before(s, promote_pending(Networked(s, t, network, command)))
<1> DEFINE n == Networked(s, t, network, command)
<1>1. n \in State /\ Before(s, n)
  BY NetworkStep, NetworkedDisplay DEF Good
<1> HIDE DEF n
<1>2. /\ promote_pending(n).last_result = n.last_result
      /\ promote_pending(n) = n \/ (~has_current(n) /\ NewDisplay(promote_pending(n)))
  BY <1>1, PromoteDisplay
<1>3. Before(s, promote_pending(n))
  BY <1>1, <1>2 DEF Before, SameDisplay, NewDisplay, has_current
<1> QED BY <1>3 DEF n

-----------------------------------------------------------------------------
(* Hiding a beacon keeps what it has left, showing it again counts from    *)
(* there.                                                                  *)
LEMMA HiddenCredit ==
  ASSUME NEW s, Good(s), NEW t \in Times, NEW free \in BOOLEAN
  PROVE  LET d == Hidden(s, t, free)
         IN  /\ d.last_result = s.last_result
             /\ \A n \in Nat : Credit(s, n, t) => Credit(d, n, t)
             /\ d.current_visible => SameDisplay(s, d)
<1>0. s \in State
  BY DEF Good
<1>1. CASE ~(has_current(s) /\ s.current_visible /\ ~free)
  BY <1>1 DEF Hidden, SameDisplay
<1>2. CASE has_current(s) /\ s.current_visible /\ ~free
  <2> DEFINE d == Hidden(s, t, free)
             left == IF IsBeacon(s) THEN Left(t, s.beacon_due) ELSE s.beacon_remaining
  <2>1. /\ d.last_result = s.last_result /\ ~d.current_visible /\ d.current = s.current
        /\ d.beacon_remaining = left
    BY <1>0, <1>2 DEF Hidden, hideMqttMessage, State
  <2> HIDE DEF d
  <2>2. ASSUME NEW n \in Nat, Credit(s, n, t), IsBeacon(s)
        PROVE  /\ left < Half
               /\ n + left >= s.current.timeout
    <3>1. s.current \in Messages /\ s.beacon_due \in Times
      BY <1>0, <1>2 DEF State, has_current
    <3>2. s.current.timeout \in Nat
      BY <3>1, MqttServiceAssumption
    <3>3. Ahead(s, t) \in 0 .. Wrap - 1
      BY <3>1, AheadFacts DEF Ahead
    <3>4. left = IF Ahead(s, t) \in 1 .. Half - 1 THEN Ahead(s, t) ELSE 1
      BY <2>2 DEF Left, Ahead
    <3>5. \/ n >= s.current.timeout
          \/ Ahead(s, t) < Half /\ n + Ahead(s, t) >= s.current.timeout
      BY <1>2, <2>2 DEF Credit
    <3> HIDE DEF left
    <3> QED BY <3>2, <3>3, <3>4, <3>5, HalfFacts
  <2> HIDE DEF left
  <2>3. \A n \in Nat : Credit(s, n, t) => Credit(d, n, t)
    BY <2>1, <2>2 DEF Credit, IsBeacon, has_current
  <2> QED BY <2>1, <2>3 DEF d
<1> QED BY <1>1, <1>2

LEMMA ShownCredit ==
  ASSUME NEW s, Good(s), NEW t \in Times, NEW free \in BOOLEAN
  PROVE  LET h == Shown(s, t, free)
         IN  /\ h.last_result = s.last_result
             /\ \A n \in Nat : Credit(s, n, t) => Credit(h, n, t)
             /\ s.current_visible => h = s
             /\ h.current_visible /\ ~s.current_visible /\ IsBeacon(h) =>
                  ~Reached(t, h.beacon_due)
<1>0. s \in State
  BY DEF Good
<1>1. CASE ~(has_current(s) /\ ~s.current_visible /\ free)
  BY <1>1 DEF Shown
<1>2. CASE has_current(s) /\ ~s.current_visible /\ free
  <2> DEFINE h == Shown(s, t, free)
             remaining == IF s.beacon_remaining = 0 THEN s.current.timeout
                                                    ELSE s.beacon_remaining
  <2>1. /\ h.last_result = s.last_result /\ h.current_visible /\ h.current = s.current
        /\ IsBeacon(s) => h.beacon_due = Later(t, remaining)
    BY <1>0, <1>2 DEF Shown, showMqttMessage, State
  <2>2. s.current \in Messages /\ s.beacon_remaining \in 0 .. Half
    BY <1>0, <1>2 DEF State, has_current
  <2> HIDE DEF h
  <2>3. ASSUME IsBeacon(s)
        PROVE  s.current.timeout \in 1 .. Half - 1
    BY <2>2, <2>3, MqttServiceAssumption, HalfFacts DEF IsBeacon
  <2>4. ASSUME IsBeacon(s) PROVE remaining \in 1 .. Half
    BY <2>2, <2>3, <2>4, HalfFacts
  <2>5. ASSUME NEW n \in Nat, Credit(s, n, t), IsBeacon(s)
        PROVE  /\ Ahead(h, t) = remaining /\ remaining < Half
               /\ n + remaining >= s.current.timeout
    <3>1. remaining \in 1 .. Half /\ s.current.timeout \in 1 .. Half - 1
      BY <2>3, <2>4, <2>5
    <3>2. s.beacon_remaining < Half /\ (s.beacon_remaining = 0 \/ n + s.beacon_remaining >= s.current.timeout)
      BY <1>2, <2>5 DEF Credit
    <3>3. Ahead(h, t) = remaining
      BY <2>1, <2>5, <3>1, AheadOfLater, HalfFacts DEF Ahead
    <3> QED BY <2>2, <3>1, <3>2, <3>3, HalfFacts
  <2> HIDE DEF remaining
  <2>6. \A n \in Nat : Credit(s, n, t) => Credit(h, n, t)
    BY <2>1, <2>5 DEF Credit, IsBeacon, has_current
  <2>7. IsBeacon(h) => ~Reached(t, h.beacon_due)
    BY <2>1, <2>4, NotAtOnce DEF IsBeacon
  <2> QED BY <1>2, <2>1, <2>6, <2>7 DEF h
<1> QED BY <1>1, <1>2

-----------------------------------------------------------------------------
(* One tick. For how long the message of `state` was on the screen when    *)
(* the tick is over, if it stays.                                          *)
Stay == IF state.current_visible /\ seen < Half THEN seen + 1 ELSE seen

CreditInv == Credit(state, seen, now)

LEMMA TimePasses ==
  ASSUME TypeOK, CreditInv
  PROVE  Stay \in Nat /\ Stay <= Half /\ Credit(state, Stay, Later(now, 1))
<1>1. /\ state \in State /\ now \in Times /\ seen \in 0 .. Half /\ Half \in Nat
  BY HalfFacts DEF TypeOK
<1>2. Stay \in Nat /\ Stay <= Half
  BY <1>1 DEF Stay
<1>3. Credit(state, Stay, Later(now, 1))
  <2> SUFFICES ASSUME has_current(state), IsBeacon(state)
               PROVE  Credit(state, Stay, Later(now, 1))
    BY DEF Credit
  <2>1. state.current \in Messages /\ state.beacon_due \in Times
    BY <1>1 DEF State, has_current
  <2>2. state.current.timeout \in Nat /\ state.current.timeout < Half
    BY <2>1, MqttServiceAssumption
  <2>3. CASE state.current_visible
    <3>1. /\ Ahead(state, now) \in 0 .. Wrap - 1
          /\ Ahead(state, now) > 0 => Ahead(state, Later(now, 1)) = Ahead(state, now) - 1
      BY <1>1, <2>1, AheadFacts DEF Ahead
    <3>2. \/ seen >= state.current.timeout
          \/ Ahead(state, now) < Half /\ seen + Ahead(state, now) >= state.current.timeout
      BY <2>3 DEF CreditInv, Credit
    <3>3. Stay = IF seen < Half THEN seen + 1 ELSE seen
      BY <2>3 DEF Stay
    <3>4. \/ Stay >= state.current.timeout
          \/ /\ Ahead(state, Later(now, 1)) < Half
             /\ Stay + Ahead(state, Later(now, 1)) >= state.current.timeout
      BY <1>1, <2>2, <3>1, <3>2, <3>3, HalfFacts
    <3> QED BY <2>3, <3>4 DEF Credit
  <2>4. CASE ~state.current_visible
    BY <2>4 DEF CreditInv, Credit, Stay
  <2> QED BY <2>3, <2>4
<1> QED BY <1>2, <1>3

LEMMA AgedDisplay ==
  ASSUME NEW s, Good(s), NEW sent \in BOOLEAN, NEW p,
         p = Reported(s, sent) \/ p = publish_status(s, sent)
  PROVE  SameDisplay(s, Aged(p)) /\ Aged(p).last_result = s.last_result
<1>1. s \in State
  BY DEF Good
<1>2. p \in State
  <2>1. Good(p)
    BY PublishStatus DEF Reported
  <2> QED BY <2>1 DEF Good
<1>3. SameDisplay(s, p) /\ p.last_result = s.last_result
  BY <1>1 DEF Reported, publish_status, SameDisplay, State
<1> QED BY <1>2, <1>3 DEF Aged, SameDisplay, State

(* A message that leaves the screen by itself was shown in full.           *)
ShownInFull ==
    has_current(state) /\ state'.current # state.current
        /\ <<state'.last_id, state'.last_result>> = <<state.current.id, "auto_acknowledged">>
        => state.current_visible /\ seen + 1 >= state.current.timeout

LEMMA TickCredit ==
  ASSUME IInv, CreditInv, Tick
  PROVE  CreditInv' /\ ShownInFull
<1>1. PICK network \in AllNetworks, allowed \in BOOLEAN, command \in Commands :
         tick(network, command, allowed)
  <2>1. PICK network \in Networks, allowed \in BOOLEAN :
           \E command \in Arriving(network) : tick(network, command, allowed)
    BY DEF Tick
  <2>2. Arriving(network) \subseteq Commands /\ network \in AllNetworks
    BY MqttServiceAssumption DEF Arriving, Commands
  <2> QED BY <2>1, <2>2
<1> DEFINE t == Later(now, 1)
           free == allowed /\ ~state.do_not_disturb
           p == promote_pending(Networked(state, t, network, command))
           d == Hidden(p, t, free)
           h == Shown(d, t, free)
           r == Expired(h, t)
<1>2. /\ now' = t
      /\ state' = Aged(Reported(r, network = "up"))
      /\ Watched
  BY <1>1 DEF tick
<1>3. t \in Times /\ free \in BOOLEAN /\ Good(state) /\ TypeOK
  BY LaterType, HalfFacts DEF IInv, TypeOK
<1>4. Stay \in Nat /\ Stay <= Half /\ Credit(state, Stay, t)
  BY <1>3, TimePasses
<1>5. /\ state \in State /\ seen \in 0 .. Half /\ Half \in Nat
  BY <1>3, HalfFacts DEF TypeOK
<1> HIDE DEF t, free
<1>6. Good(p) /\ (has_pending(p) => has_current(p)) /\ Before(state, p)
  <2>1. Good(Networked(state, t, network, command))
    BY <1>3, NetworkStep
  <2> QED BY <1>3, <2>1, PromotePending, BeforeDisplay
<1> HIDE DEF p
<1>7. /\ Good(d) /\ d.current = p.current /\ d.last_result = p.last_result
      /\ d.pending = p.pending
      /\ \A n \in Nat : Credit(p, n, t) => Credit(d, n, t)
      /\ d.current_visible => SameDisplay(p, d)
  BY <1>3, <1>6, HiddenStep, HiddenCredit
<1> HIDE DEF d
<1>8. /\ Good(h) /\ h.current = p.current /\ h.last_result = p.last_result
      /\ h.pending = p.pending
      /\ \A n \in Nat : Credit(d, n, t) => Credit(h, n, t)
      /\ d.current_visible => h = d
      /\ h.current_visible /\ ~d.current_visible /\ IsBeacon(h) => ~Reached(t, h.beacon_due)
  BY <1>3, <1>7, ShownStep, ShownCredit
<1> HIDE DEF h
<1>9. Credit(h, Stay, t) /\ (h.current = state.current \/ Credit(h, 0, t))
  <2>1. CASE SameDisplay(state, p)
    <3>1. Credit(p, Stay, t) /\ p.current = state.current
      BY <1>4, <2>1, SameCredit DEF SameDisplay
    <3> QED BY <1>4, <1>7, <1>8, <3>1
  <2>2. CASE NewDisplay(p)
    <3>1. p \in State
      BY <1>6 DEF Good
    <3>2. Credit(p, Stay, t) /\ Credit(p, 0, t)
      BY <1>4, <2>2, <3>1, NewCredit
    <3> QED BY <1>4, <1>7, <1>8, <3>2
  <2> QED BY <1>6, <2>1, <2>2 DEF Before
<1>10. /\ Good(r) /\ SameDisplay(r, state') /\ state'.last_result = r.last_result
  <2>1. Good(r)
    BY <1>3, <1>6, <1>7, <1>8, ExpiredStep DEF has_current, has_pending
  <2> HIDE DEF r
  <2> QED BY <1>2, <2>1, AgedDisplay
<1>11. CASE ~(has_current(h) /\ h.current_visible /\ IsBeacon(h) /\ Reached(t, h.beacon_due))
  <2>1. r = h
    BY <1>11 DEF Expired
  <2>2. Credit(r, Stay, t) /\ (r.current = state.current \/ Credit(r, 0, t))
    BY <1>9, <2>1
  <2> HIDE DEF r
  <2>3. Credit(state', Stay, t) /\ (state'.current = state.current \/ Credit(state', 0, t))
    BY <1>4, <1>10, <2>2, SameCredit DEF SameDisplay
  <2>4. CreditInv'
    BY <1>2, <2>3 DEF Watched, CreditInv, LongestTimeout, Stay, Credit, Ahead, has_current,
       IsBeacon
  <2>5. ShownInFull
    <3> SUFFICES ASSUME has_current(state), state'.current # state.current,
                        state'.last_result = "auto_acknowledged"
                 PROVE  FALSE
      BY DEF ShownInFull
    <3>1. p.current # state.current /\ p.last_result = "auto_acknowledged"
      BY <1>8, <1>10, <2>1 DEF SameDisplay
    <3> QED BY <1>6, <3>1 DEF Before, SameDisplay
  <2> QED BY <2>4, <2>5
<1>12. CASE has_current(h) /\ h.current_visible /\ IsBeacon(h) /\ Reached(t, h.beacon_due)
  <2>1. d.current_visible /\ h = d /\ SameDisplay(p, d)
    BY <1>7, <1>8, <1>12
  <2>2. p.current_visible /\ SameDisplay(state, p)
    BY <1>6, <2>1 DEF Before, SameDisplay, NewDisplay
  <2>3. state.current_visible /\ h.current = state.current
    BY <2>1, <2>2 DEF SameDisplay
  <2>4. h.current \in Messages /\ h.beacon_due \in Times
    BY <1>8, <1>12 DEF Good, State, has_current
  <2>5. Stay >= h.current.timeout
    <3>1. /\ Ahead(h, t) \in 0 .. Wrap - 1
          /\ Ahead(h, t) < Half => Ahead(h, t) = 0
      BY <1>3, <1>12, <2>4, AheadFacts DEF Ahead
    <3>2. \/ Stay >= h.current.timeout
          \/ Ahead(h, t) < Half /\ Stay + Ahead(h, t) >= h.current.timeout
      BY <1>9, <1>12 DEF Credit
    <3> QED BY <1>4, <3>1, <3>2
  <2>6. ShownInFull
    <3>1. h.current.timeout \in Nat
      BY <2>4, MqttServiceAssumption
    <3>2. seen + 1 >= state.current.timeout
      BY <1>5, <2>3, <2>5, <3>1 DEF Stay
    <3> QED BY <2>3, <3>2 DEF ShownInFull
  <2>7. r \in State /\ NewDisplay(r)
    <3> DEFINE f == finish_current(h, "auto_acknowledged")
    <3>1. r = promote_pending(f)
      BY <1>12 DEF Expired
    <3>2. f \in State /\ f.current = NoMessage /\ ~f.current_visible
      BY <1>8, <1>12, FinishCurrent, FinishDisplay DEF Good, Results
    <3> HIDE DEF f
    <3>3. promote_pending(f) = f \/ NewDisplay(promote_pending(f))
      BY <3>2, PromoteDisplay
    <3> QED BY <1>10, <3>1, <3>2, <3>3 DEF NewDisplay, has_current, Good
  <2> HIDE DEF r
  <2>8. seen' \in Nat
    BY <1>2, <1>5 DEF Watched, LongestTimeout
  <2>9. Credit(state', seen', now')
    BY <1>10, <2>7, <2>8, NewCredit, SameCredit
  <2> QED BY <2>6, <2>9 DEF CreditInv, Credit, Ahead, has_current, IsBeacon
<1> QED BY <1>11, <1>12

LEMMA OtherCredit ==
  ASSUME IInv, CreditInv, StoppedTick \/ acknowledgeCurrent \/ configure \/ begin \/ UNCHANGED vars
  PROVE  CreditInv' /\ ShownInFull
<1>1. /\ state \in State /\ now \in Times /\ seen \in 0 .. Half /\ Half \in Nat
  BY HalfFacts DEF IInv, TypeOK
<1>2. CASE StoppedTick
  <2>1. state' = stop(state) /\ now' = Later(now, 1) /\ Watched
    BY <1>2 DEF StoppedTick
  <2>2. SameDisplay(state, state')
    BY <1>1, <2>1 DEF stop, SameDisplay, State
  <2>3. Credit(state, Stay, now')
    BY <2>1, TimePasses DEF IInv
  <2>4. Credit(state', Stay, now')
    BY <2>2, <2>3, SameCredit
  <2>5. CreditInv'
    BY <2>1, <2>2, <2>4 DEF Watched, CreditInv, LongestTimeout, Stay, SameDisplay, Credit, Ahead,
       has_current, IsBeacon
  <2> QED BY <2>2, <2>5 DEF SameDisplay, ShownInFull
<1>3. CASE acknowledgeCurrent
  <2> DEFINE f == finish_current(state, "acknowledged")
             p == promote_pending(f)
  <2>1. PICK sent \in BOOLEAN : state' = Aged(publish_status(p, sent))
    BY <1>3 DEF acknowledgeCurrent
  <2>2. has_current(state)
    BY <1>3 DEF acknowledgeCurrent, has_current, NoMessage
  <2>3. Good(f) /\ f.current = NoMessage /\ ~f.current_visible /\ f.last_result = "acknowledged"
    BY <1>1, <2>2, FinishCurrent, FinishDisplay DEF IInv, Results
  <2> HIDE DEF f
  <2>4. Good(p) /\ NewDisplay(p) /\ p.last_result = "acknowledged"
    <3>1. f \in State
      BY <2>3 DEF Good
    <3>2. p.last_result = f.last_result /\ (p = f \/ NewDisplay(p))
      BY <3>1, PromoteDisplay
    <3> QED BY <2>3, <3>2, PromotePending DEF NewDisplay, has_current
  <2> HIDE DEF p
  <2>5. SameDisplay(p, state') /\ state'.last_result = "acknowledged"
    BY <2>1, <2>4, AgedDisplay
  <2>6. seen' \in Nat
    BY <1>1, <1>3 DEF acknowledgeCurrent, Watched, LongestTimeout
  <2>7. Credit(state', seen', now')
    BY <2>4, <2>5, <2>6, NewCredit, SameCredit DEF Good
  <2> QED BY <2>5, <2>7 DEF ShownInFull, CreditInv, Credit, Ahead, has_current, IsBeacon
<1>4. CASE configure
  <2>1. SameDisplay(state, state') /\ UNCHANGED <<now, seen>>
    BY <1>1, <1>4 DEF configure, stop, SameDisplay, State
  <2> QED BY <2>1 DEF SameDisplay, ShownInFull, CreditInv, Credit, Ahead, has_current, IsBeacon
<1>5. CASE begin
  BY <1>5 DEF begin, Initial, ShownInFull, CreditInv, Credit, has_current
<1>6. CASE UNCHANGED vars
  BY <1>6 DEF vars, ShownInFull, CreditInv, Credit, Ahead, has_current, IsBeacon
<1> QED BY <1>2, <1>3, <1>4, <1>5, <1>6

(* A beacon is acknowledged automatically only after it was visible for    *)
(* its whole timeout, whatever interrupted it, for every width of the      *)
(* millisecond counter.                                                    *)
THEOREM BeaconInFull == Spec => BeaconShownInFull
<1>1. Init => CreditInv
  BY DEF Init, Initial, CreditInv, Credit, has_current
<1>2. IInv /\ CreditInv /\ [Next]_vars => CreditInv' /\ ShownInFull
  BY TickCredit, OtherCredit DEF Next
<1> QED BY <1>1, <1>2, Inductive, PTL DEF Spec, BeaconShownInFull, ShownInFull
-----------------------------------------------------------------------------
(* The upper bound of a beacon's time: what it has left at time t of a     *)
(* tick, and what it has left between two ticks, when it may be overdue    *)
(* because the service was stopped.                                        *)
OnTime(s, t) ==
    has_current(s) /\ IsBeacon(s) =>
        IF s.current_visible
          THEN Reached(t, s.beacon_due) \/ Ahead(s, t) \in 1 .. s.current.timeout
          ELSE s.beacon_remaining \in 0 .. s.current.timeout

Overdue ==
    state.current_visible /\ (now - state.beacon_due) % Wrap \in 0 .. Half - 2

TimeInv == has_current(state) /\ IsBeacon(state) => InTime \/ Overdue

LEMMA SameTime ==
  ASSUME NEW s, NEW r, SameDisplay(s, r), NEW t, OnTime(s, t)
  PROVE  OnTime(r, t)
BY DEF SameDisplay, OnTime, Ahead, has_current, IsBeacon

LEMMA NewTime ==
  ASSUME NEW r \in State, NewDisplay(r), NEW t
  PROVE  OnTime(r, t)
<1> SUFFICES ASSUME has_current(r) PROVE OnTime(r, t)
  BY DEF OnTime
<1>1. r.current \in Messages
  BY DEF State, has_current
<1>2. r.current.timeout \in Nat
  BY <1>1, MqttServiceAssumption
<1> QED BY <1>2 DEF NewDisplay, OnTime

(* What passing time does to a due time that is reached.                   *)
LEMMA ReachedFacts ==
  ASSUME NEW due \in Times, NEW t \in Times
  PROVE  /\ (t - due) % Wrap \in 0 .. Half - 2 =>
               (Later(t, 1) - due) % Wrap = ((t - due) % Wrap) + 1
         /\ (due - t) % Wrap = 1 => (Later(t, 1) - due) % Wrap = 0
         /\ (t - due) % Wrap = Half - 1 => t = Later(due, Half - 1)
<1>1. Wrap \in Nat \ {0} /\ 2 * Half <= Wrap /\ Half \in Nat /\ 1 < Half
  BY HalfFacts, MqttServiceAssumption DEF Half
<1>2. t \in 0 .. Wrap - 1 /\ due \in 0 .. Wrap - 1
  BY DEF Times
<1>3. Later(t, 1) \in Times /\ Later(t, 1) = IF t + 1 < Wrap THEN t + 1 ELSE 0
  <2>1. Later(t, 1) \in Times /\ 1 \in 0 .. Half
    BY <1>1, LaterType
  <2> QED BY <1>1, <1>2, <2>1, LaterValue
<1>4. Later(due, Half - 1) =
        IF due + Half - 1 < Wrap THEN due + Half - 1 ELSE due + Half - 1 - Wrap
  <2>1. Half - 1 \in 0 .. Half
    BY <1>1
  <2> QED BY <1>1, <1>2, <2>1, LaterValue
<1>5. /\ (t - due) % Wrap = IF t >= due THEN t - due ELSE t - due + Wrap
      /\ (due - t) % Wrap = IF due >= t THEN due - t ELSE due - t + Wrap
      /\ (Later(t, 1) - due) % Wrap = IF Later(t, 1) >= due THEN Later(t, 1) - due
                                      ELSE Later(t, 1) - due + Wrap
  BY <1>3, Difference
<1> DEFINE since == (t - due) % Wrap
           ahead == (due - t) % Wrap
           next == (Later(t, 1) - due) % Wrap
<1> HIDE DEF since, ahead, next
<1>6. /\ since = IF t >= due THEN t - due ELSE t - due + Wrap
      /\ ahead = IF due >= t THEN due - t ELSE due - t + Wrap
      /\ next = IF Later(t, 1) >= due THEN Later(t, 1) - due ELSE Later(t, 1) - due + Wrap
  BY <1>5 DEF since, ahead, next
<1>7. since \in 0 .. Half - 2 => next = since + 1
  BY <1>1, <1>2, <1>3, <1>6
<1>8. ahead = 1 => next = 0
  BY <1>1, <1>2, <1>3, <1>6
<1>9. since = Half - 1 => t = Later(due, Half - 1)
  BY <1>1, <1>2, <1>4, <1>6
<1> QED BY <1>7, <1>8, <1>9 DEF since, ahead, next

LEMMA TimeGoesOn ==
  ASSUME TypeOK, TimeInv
  PROVE  OnTime(state, Later(now, 1))
<1> DEFINE t == Later(now, 1)
<1> SUFFICES ASSUME has_current(state), IsBeacon(state) PROVE OnTime(state, t)
  BY DEF OnTime
<1>1. /\ state.current \in Messages /\ state.beacon_due \in Times /\ now \in Times
      /\ Half \in Nat /\ 1 < Half
  BY HalfFacts DEF TypeOK, State, has_current
<1>2. state.current.timeout \in 1 .. Half - 1
  BY <1>1, MqttServiceAssumption DEF IsBeacon
<1>3. CASE ~state.current_visible
  BY <1>3 DEF TimeInv, InTime, Overdue, OnTime
<1>4. CASE state.current_visible /\ Ahead(state, now) \in 1 .. state.current.timeout
  <2>1. /\ Ahead(state, t) = Ahead(state, now) - 1
        /\ Ahead(state, now) = 1 => (t - state.beacon_due) % Wrap = 0
    BY <1>1, <1>2, <1>4, AheadFacts, ReachedFacts DEF Ahead
  <2>2. CASE Ahead(state, now) = 1
    BY <1>1, <1>4, <2>1, <2>2 DEF OnTime, Reached
  <2>3. CASE Ahead(state, now) > 1
    <3>1. Ahead(state, t) \in 1 .. state.current.timeout
      BY <1>2, <1>4, <2>1, <2>3
    <3> QED BY <1>4, <3>1 DEF OnTime
  <2> QED BY <1>2, <1>4, <2>2, <2>3
<1>5. CASE state.current_visible /\ Overdue
  <2>1. (t - state.beacon_due) % Wrap \in 1 .. Half - 1
    BY <1>1, <1>5, ReachedFacts DEF Overdue
  <2> QED BY <1>1, <1>5, <2>1 DEF OnTime, Reached
<1> QED BY <1>3, <1>4, <1>5 DEF TimeInv, InTime, Ahead

LEMMA HiddenTime ==
  ASSUME NEW s, Good(s), NEW t \in Times, NEW free \in BOOLEAN, OnTime(s, t)
  PROVE  OnTime(Hidden(s, t, free), t)
<1>0. s \in State
  BY DEF Good
<1>1. CASE ~(has_current(s) /\ s.current_visible /\ ~free)
  BY <1>1 DEF Hidden
<1>2. CASE has_current(s) /\ s.current_visible /\ ~free
  <2> DEFINE d == Hidden(s, t, free)
             left == IF IsBeacon(s) THEN Left(t, s.beacon_due) ELSE s.beacon_remaining
  <2>1. ~d.current_visible /\ d.current = s.current /\ d.beacon_remaining = left
    BY <1>0, <1>2 DEF Hidden, hideMqttMessage, State
  <2> HIDE DEF d
  <2>2. ASSUME IsBeacon(s) PROVE left \in 0 .. s.current.timeout
    <3>1. s.current \in Messages /\ s.beacon_due \in Times
      BY <1>0, <1>2 DEF State, has_current
    <3>2. s.current.timeout \in 1 .. Half - 1
      BY <2>2, <3>1, MqttServiceAssumption, HalfFacts DEF IsBeacon
    <3>3. /\ Ahead(s, t) \in 0 .. Wrap - 1
          /\ Reached(t, s.beacon_due) /\ Ahead(s, t) < Half => Ahead(s, t) = 0
      BY <3>1, AheadFacts DEF Ahead
    <3>4. left = IF Ahead(s, t) \in 1 .. Half - 1 THEN Ahead(s, t) ELSE 1
      BY <2>2 DEF Left, Ahead
    <3>5. Reached(t, s.beacon_due) \/ Ahead(s, t) \in 1 .. s.current.timeout
      BY <1>2, <2>2 DEF OnTime
    <3> HIDE DEF left
    <3> QED BY <3>2, <3>3, <3>4, <3>5, HalfFacts
  <2> HIDE DEF left
  <2>3. OnTime(d, t)
    BY <2>1, <2>2 DEF OnTime, IsBeacon, has_current
  <2> QED BY <2>3 DEF d
<1> QED BY <1>1, <1>2

LEMMA ShownTime ==
  ASSUME NEW s, Good(s), NEW t \in Times, NEW free \in BOOLEAN, OnTime(s, t)
  PROVE  OnTime(Shown(s, t, free), t)
<1>0. s \in State
  BY DEF Good
<1>1. CASE ~(has_current(s) /\ ~s.current_visible /\ free)
  BY <1>1 DEF Shown
<1>2. CASE has_current(s) /\ ~s.current_visible /\ free
  <2> DEFINE h == Shown(s, t, free)
             remaining == IF s.beacon_remaining = 0 THEN s.current.timeout
                                                    ELSE s.beacon_remaining
  <2>1. /\ h.current_visible /\ h.current = s.current
        /\ IsBeacon(s) => h.beacon_due = Later(t, remaining)
    BY <1>0, <1>2 DEF Shown, showMqttMessage, State
  <2>2. s.current \in Messages /\ s.beacon_remaining \in 0 .. Half
    BY <1>0, <1>2 DEF State, has_current
  <2> HIDE DEF h
  <2>3. ASSUME IsBeacon(s) PROVE Ahead(h, t) \in 1 .. s.current.timeout
    <3>1. s.current.timeout \in 1 .. Half - 1
      BY <2>2, <2>3, MqttServiceAssumption, HalfFacts DEF IsBeacon
    <3>2. remaining \in 1 .. s.current.timeout
      BY <1>2, <2>2, <2>3, <3>1 DEF OnTime
    <3>3. remaining \in 0 .. Half
      BY <3>1, <3>2, HalfFacts
    <3>4. Ahead(h, t) = remaining
      BY <2>1, <2>3, <3>3, AheadOfLater DEF Ahead
    <3> QED BY <3>2, <3>4
  <2>4. OnTime(h, t)
    BY <2>1, <2>3 DEF OnTime, IsBeacon, has_current
  <2> QED BY <2>4 DEF h
<1> QED BY <1>1, <1>2

LEMMA ExpiredTime ==
  ASSUME NEW h, Good(h), NEW t \in Times, OnTime(h, t)
  PROVE  LET r == Expired(h, t)
         IN  has_current(r) /\ IsBeacon(r) =>
               IF r.current_visible
                 THEN Ahead(r, t) \in 1 .. r.current.timeout
                 ELSE r.beacon_remaining \in 0 .. r.current.timeout
<1>0. h \in State
  BY DEF Good
<1>1. CASE ~(has_current(h) /\ h.current_visible /\ IsBeacon(h) /\ Reached(t, h.beacon_due))
  <2>1. Expired(h, t) = h
    BY <1>1 DEF Expired
  <2> QED BY <1>1, <2>1 DEF OnTime
<1>2. CASE has_current(h) /\ h.current_visible /\ IsBeacon(h) /\ Reached(t, h.beacon_due)
  <2> DEFINE f == finish_current(h, "auto_acknowledged")
             r == Expired(h, t)
  <2>1. r = promote_pending(f)
    BY <1>2 DEF Expired
  <2>2. Good(f) /\ f.current = NoMessage /\ ~f.current_visible
    BY <1>0, <1>2, FinishCurrent, FinishDisplay DEF Results
  <2> HIDE DEF f
  <2>3. Good(r) /\ NewDisplay(r)
    <3>1. f \in State
      BY <2>2 DEF Good
    <3>2. promote_pending(f) = f \/ NewDisplay(promote_pending(f))
      BY <3>1, PromoteDisplay
    <3> QED BY <2>1, <2>2, <3>2, PromotePending DEF NewDisplay, has_current
  <2> HIDE DEF r
  <2>4. OnTime(r, t) /\ ~r.current_visible
    BY <2>3, NewTime DEF Good, NewDisplay
  <2> QED BY <2>4 DEF OnTime, r
<1> QED BY <1>1, <1>2

LEMMA TickInTime ==
  ASSUME IInv, TimeInv, Tick
  PROVE  InTime'
<1>1. PICK network \in AllNetworks, allowed \in BOOLEAN, command \in Commands :
         tick(network, command, allowed)
  <2>1. PICK network \in Networks, allowed \in BOOLEAN :
           \E command \in Arriving(network) : tick(network, command, allowed)
    BY DEF Tick
  <2>2. Arriving(network) \subseteq Commands /\ network \in AllNetworks
    BY MqttServiceAssumption DEF Arriving, Commands
  <2> QED BY <2>1, <2>2
<1> DEFINE t == Later(now, 1)
           free == allowed /\ ~state.do_not_disturb
           p == promote_pending(Networked(state, t, network, command))
           d == Hidden(p, t, free)
           h == Shown(d, t, free)
           r == Expired(h, t)
<1>2. now' = t /\ state' = Aged(Reported(r, network = "up"))
  BY <1>1 DEF tick
<1>3. t \in Times /\ free \in BOOLEAN /\ Good(state) /\ TypeOK
  BY LaterType, HalfFacts DEF IInv, TypeOK
<1>4. OnTime(state, t)
  BY <1>3, TimeGoesOn
<1> HIDE DEF t, free
<1>5. Good(p) /\ (has_pending(p) => has_current(p)) /\ Before(state, p)
  <2>1. Good(Networked(state, t, network, command))
    BY <1>3, NetworkStep
  <2> QED BY <1>3, <2>1, PromotePending, BeforeDisplay
<1> HIDE DEF p
<1>6. OnTime(p, t)
  BY <1>4, <1>5, SameTime, NewTime DEF Before, Good
<1>7. Good(d) /\ OnTime(d, t) /\ d.pending = p.pending /\ d.current = p.current
  BY <1>3, <1>5, <1>6, HiddenStep, HiddenTime
<1> HIDE DEF d
<1>8. Good(h) /\ OnTime(h, t) /\ h.pending = p.pending /\ h.current = p.current
  BY <1>3, <1>7, ShownStep, ShownTime
<1> HIDE DEF h
<1>9. Good(r) /\ SameDisplay(r, state')
  <2>1. Good(r)
    BY <1>3, <1>5, <1>8, ExpiredStep DEF has_current, has_pending
  <2> HIDE DEF r
  <2> QED BY <1>2, <2>1, AgedDisplay
<1>10. has_current(r) /\ IsBeacon(r) =>
         IF r.current_visible
           THEN Ahead(r, t) \in 1 .. r.current.timeout
           ELSE r.beacon_remaining \in 0 .. r.current.timeout
  BY <1>3, <1>8, ExpiredTime
<1> HIDE DEF r
<1> QED BY <1>2, <1>9, <1>10 DEF InTime, Ahead, SameDisplay, has_current, IsBeacon

LEMMA OtherTime ==
  ASSUME IInv, TimeInv, StoppedTick \/ acknowledgeCurrent \/ configure \/ begin \/ UNCHANGED vars
  PROVE  TimeInv'
<1>1. /\ state \in State /\ now \in Times /\ Half \in Nat /\ 1 < Half
  BY HalfFacts DEF IInv, TypeOK
<1>2. CASE StoppedTick
  <2>1. state' = stop(state) /\ now' = Later(now, 1)
    BY <1>2 DEF StoppedTick
  <2>2. SameDisplay(state, state')
    BY <1>1, <2>1 DEF stop, SameDisplay, State
  <2>3. SUFFICES ASSUME has_current(state), IsBeacon(state), state.current_visible
                 PROVE  InTime' \/ Overdue'
    BY <2>2 DEF SameDisplay, TimeInv, InTime, Overdue, has_current, IsBeacon
  <2>4. OnTime(state, now')
    BY <2>1, TimeGoesOn DEF IInv
  <2>5. CASE Ahead(state, now') \in 1 .. state.current.timeout
    BY <2>2, <2>3, <2>5 DEF SameDisplay, InTime, Ahead, has_current, IsBeacon
  <2>6. CASE Reached(now', state.beacon_due)
    <3>1. state.beacon_due \in Times /\ now' \in Times /\ Wrap \in Nat \ {0}
      BY <1>1, <2>1, LaterType, HalfFacts DEF State
    <3>2. now' # Later(state.beacon_due, Half - 1)
      BY <1>2, <2>3 DEF StoppedTick
    <3>3. (now' - state.beacon_due) % Wrap # Half - 1
      BY <3>1, <3>2, ReachedFacts
    <3>4. (now' - state.beacon_due) % Wrap \in 0 .. Wrap - 1
      BY <3>1, AheadFacts
    <3>5. (now' - state.beacon_due) % Wrap \in 0 .. Half - 2
      BY <1>1, <2>6, <3>1, <3>3, <3>4 DEF Reached
    <3> QED BY <2>2, <2>3, <3>5 DEF SameDisplay, Overdue
  <2> QED BY <2>3, <2>4, <2>5, <2>6 DEF OnTime
<1>3. CASE acknowledgeCurrent
  <2> DEFINE f == finish_current(state, "acknowledged")
             p == promote_pending(f)
  <2>1. PICK sent \in BOOLEAN : state' = Aged(publish_status(p, sent))
    BY <1>3 DEF acknowledgeCurrent
  <2>2. has_current(state)
    BY <1>3 DEF acknowledgeCurrent, has_current, NoMessage
  <2>3. Good(f) /\ f.current = NoMessage /\ ~f.current_visible
    BY <1>1, <2>2, FinishCurrent, FinishDisplay DEF IInv, Results
  <2> HIDE DEF f
  <2>4. Good(p) /\ NewDisplay(p)
    <3>1. f \in State
      BY <2>3 DEF Good
    <3>2. p = f \/ NewDisplay(p)
      BY <3>1, PromoteDisplay
    <3> QED BY <2>3, <3>2, PromotePending DEF NewDisplay, has_current
  <2> HIDE DEF p
  <2>5. SameDisplay(p, state')
    BY <2>1, <2>4, AgedDisplay
  <2>6. OnTime(state', now') /\ ~state'.current_visible
    BY <2>4, <2>5, NewTime, SameTime DEF Good, NewDisplay, SameDisplay
  <2> QED BY <2>6 DEF OnTime, TimeInv, InTime, has_current, IsBeacon
<1>4. CASE configure
  <2>1. SameDisplay(state, state') /\ UNCHANGED now
    BY <1>1, <1>4 DEF configure, stop, SameDisplay, State
  <2> QED BY <2>1 DEF SameDisplay, TimeInv, InTime, Overdue, has_current, IsBeacon
<1>5. CASE begin
  BY <1>5 DEF begin, Initial, TimeInv, has_current
<1>6. CASE UNCHANGED vars
  BY <1>6 DEF vars, TimeInv, InTime, Overdue, has_current, IsBeacon
<1> QED BY <1>2, <1>3, <1>4, <1>5, <1>6

(* No tick leaves a beacon on the screen longer than it was asked for, for *)
(* every width of the millisecond counter.                                 *)
THEOREM BeaconInTime == Spec => BeaconKeepsItsTime
<1>1. Init => TimeInv
  BY DEF Init, Initial, TimeInv, has_current
<1>2. IInv /\ TimeInv /\ [Next]_vars => TimeInv' /\ (InTime' \/ ~Tick)
  BY TickInTime, OtherTime DEF Next, TimeInv
<1>3. IInv /\ TimeInv /\ [Next]_vars => [InTime' \/ ~Tick]_vars
  BY <1>2
<1> QED BY <1>1, <1>2, <1>3, Inductive, PTL DEF Spec, BeaconKeepsItsTime
=============================================================================
