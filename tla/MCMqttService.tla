--------------------------- MODULE MCMqttService ----------------------------
(***************************************************************************)
(* Both instances of the run together are too large, so a behaviour keeps  *)
(* to one of them: either every message arrives and the network stays up,  *)
(* or the network does what it likes and one notification arrives.         *)
(***************************************************************************)
EXTENDS MqttService

MCMessages ==
    { [id |-> "a", kind |-> "beacon",       timeout |-> 2],
      [id |-> "b", kind |-> "notification", timeout |-> 0],
      [id |-> "c", kind |-> "beacon",       timeout |-> 1] }

MCInvalid == {NoId}

VARIABLE instance

mcvars == <<vars, instance>>

InInstance(network, command) ==
    IF instance = "messages" THEN network = "up" ELSE command.kind # "beacon"

MCTick ==
    /\ \E network \in Networks, allowed \in BOOLEAN :
          \E command \in {c \in Arriving(network) : InInstance(network, c)} :
              tick(network, command, allowed)
    /\ UNCHANGED instance

MCInit == Init /\ instance \in {"messages", "networks"}

MCNext ==
    \/ MCTick
    \/ StoppedTick /\ UNCHANGED instance
    \/ acknowledgeCurrent /\ UNCHANGED instance
    \/ configure /\ UNCHANGED instance
    \/ begin /\ UNCHANGED instance

MCFairSpec == MCInit /\ [][MCNext]_mcvars /\ WF_mcvars(MCTick)
=============================================================================
