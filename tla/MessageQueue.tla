---------------------------- MODULE MessageQueue ----------------------------
(***************************************************************************)
(* What the MQTT service promises about the messages that a home-automation*)
(* system sends: one message is current, one more may wait, a newer one    *)
(* replaces the one that waits but never the current one, and the message  *)
(* that waits becomes current when the current one is answered.            *)
(*                                                                         *)
(* MqttService implements this module.                                     *)
(***************************************************************************)
CONSTANTS
    Messages,        \* what may be sent, records with an id
    NoMessage        \* no message; its id is no message's id

VARIABLES
    current,         \* the message that is shown, or will be when the screen is free
    waiting,         \* the message that is next
    visible          \* the current message is on the screen

queueVars == <<current, waiting, visible>>

QueueInit ==
    /\ current = NoMessage
    /\ waiting = NoMessage
    /\ visible = FALSE

New(m) == m.id # current.id /\ m.id # waiting.id

(* A message for an idle queue becomes current, any other one waits.       *)
Receive(m) ==
    /\ New(m)
    /\ \/ /\ current = NoMessage
          /\ current' = m
          /\ UNCHANGED waiting
          /\ visible' \in BOOLEAN
       \/ /\ current # NoMessage
          /\ waiting' = m
          /\ UNCHANGED current
          /\ visible' \in BOOLEAN

(* The current message was acknowledged, dismissed or timed out.           *)
Answer ==
    /\ current # NoMessage
    /\ current' = waiting
    /\ waiting' = NoMessage
    /\ visible' \in {FALSE, waiting # NoMessage}

(* The same, in the moment in which another message arrives.               *)
ReceiveAndAnswer(m) ==
    /\ New(m)
    /\ current # NoMessage
    /\ current' = m
    /\ waiting' = NoMessage
    /\ visible' = FALSE

(* The screen becomes free for the current message, or is needed elsewhere.*)
Present ==
    /\ current # NoMessage
    /\ visible' = ~visible
    /\ UNCHANGED <<current, waiting>>

(* A restart forgets every message.                                        *)
Forget ==
    /\ current' = NoMessage
    /\ waiting' = NoMessage
    /\ visible' = FALSE

QueueNext ==
    \/ \E m \in Messages : Receive(m) \/ ReceiveAndAnswer(m)
    \/ Answer
    \/ Present
    \/ Forget

QueueSpec == QueueInit /\ [][QueueNext]_queueVars
=============================================================================
