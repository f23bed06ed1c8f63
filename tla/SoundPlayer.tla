---------------------------- MODULE SoundPlayer ----------------------------
(***************************************************************************)
(* What the audio service promises to those who play sounds, without its   *)
(* task, its mutex and its decoders: of one sound it is said at most once  *)
(* that it ended, never of one that was stopped or replaced, and the       *)
(* player is suspended in silence.                                         *)
(*                                                                         *)
(* AudioService implements this module as ControlPanel calls it, and       *)
(* MaclockApp, which has no audio task of its own, plays its sounds by it. *)
(***************************************************************************)

VARIABLES
    playing,    \* a sound is being played
    ended,      \* its end is to be reported
    frozen      \* the player is suspended

Init == playing = FALSE /\ ended = FALSE /\ frozen = FALSE

(* A sound begins, or is refused, or the one that plays is stopped: the    *)
(* end of the one before is forgotten.                                     *)
Play ==
    /\ playing' \in BOOLEAN
    /\ ended' = FALSE
    /\ UNCHANGED frozen

Take == ended' = FALSE /\ UNCHANGED <<playing, frozen>>

Finish ==
    /\ playing /\ ~frozen
    /\ playing' = FALSE
    /\ ended' = TRUE
    /\ UNCHANGED frozen

(* The memory is lent to a transfer or to the emulator, or everything      *)
(* starts again.                                                           *)
Silence ==
    /\ playing' = FALSE /\ ended' = FALSE
    /\ frozen' \in BOOLEAN

Thaw == frozen' = FALSE /\ UNCHANGED <<playing, ended>>

Next == Play \/ Take \/ Finish \/ Silence \/ Thaw

Spec == Init /\ [][Next]_<<playing, ended, frozen>>
=============================================================================
