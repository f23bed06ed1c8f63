---------------------------- MODULE AudioService ----------------------------
(***************************************************************************)
(* The audio service (src/audio_service.cpp): the playback task against    *)
(* the application, which plays and stops sounds under the same mutex and  *)
(* suspends the task, at any point of it, for the time of a transfer.      *)
(*                                                                         *)
(* A function of the service is an action on its variables; ControlPanel   *)
(* composes them with the application that calls them. Whether a sound is  *)
(* muted, its volume and the I2S driver, which play() starts by itself,    *)
(* are left out.                                                           *)
(***************************************************************************)

VARIABLES
    decoder,       \* "none", "running" or, after its end, "stopped"
    finished,      \* finished_
    task,          \* runTask: "away" from the mutex, "inside", or "ending" a sound in it
    suspended      \* vTaskSuspend

audioVars == <<decoder, finished, task, suspended>>

(* What xSemaphoreTake(lock_) waits for.                                   *)
LockFree == task = "away"

(* Mutant of stop: the mutex is not taken.                                 *)
MutStopUnlocked ==
    /\ decoder' = "none"
    /\ finished' = FALSE
    /\ UNCHANGED <<task, suspended>>

stop ==
    /\ LockFree
    /\ decoder' = "none"
    /\ finished' = FALSE
    /\ UNCHANGED <<task, suspended>>

(* Mutant of play: the end of the sound before it is not forgotten.        *)
MutPlayKeepsEnd ==
    /\ LockFree
    /\ decoder' \in {"running", "none"}
    /\ UNCHANGED <<finished, task, suspended>>

(* A decoder that does not begin is deleted.                               *)
play ==
    /\ LockFree
    /\ decoder' \in {"running", "none"}
    /\ finished' = FALSE
    /\ UNCHANGED <<task, suspended>>

(* running() and setVolume() read the decoder.                             *)
running == LockFree /\ UNCHANGED audioVars

takeFinished == finished' = FALSE /\ UNCHANGED <<decoder, task, suspended>>

suspendTask == suspended' = TRUE /\ UNCHANGED <<decoder, finished, task>>
resumeTask  == suspended' = FALSE /\ UNCHANGED <<decoder, finished, task>>

-----------------------------------------------------------------------------
(* runTask                                                                 *)
Enters ==
    /\ ~suspended
    /\ task = "away"
    /\ task' = "inside"
    /\ UNCHANGED <<decoder, finished, suspended>>

(* Nothing plays, or a piece of the sound was decoded.                     *)
Leaves ==
    /\ ~suspended
    /\ task = "inside"
    /\ task' = "away"
    /\ UNCHANGED <<decoder, finished, suspended>>

(* The file has ended; the rest of it is played with the mutex held.       *)
Flushes ==
    /\ ~suspended
    /\ task = "inside" /\ decoder = "running"
    /\ task' = "ending"
    /\ UNCHANGED <<decoder, finished, suspended>>

Ends ==
    /\ ~suspended
    /\ task = "ending"
    /\ decoder' = "stopped"
    /\ finished' = TRUE
    /\ task' = "away"
    /\ UNCHANGED suspended

runTask == Enters \/ Leaves \/ Flushes \/ Ends

AudioInit ==
    /\ decoder = "none"
    /\ finished = FALSE
    /\ task = "away"
    /\ suspended = FALSE

(* An end that is reported is that of the last sound, and a sound that is  *)
(* ending is the one that plays.                                           *)
AudioTypeOK ==
    /\ decoder \in {"none", "running", "stopped"}
    /\ finished \in BOOLEAN
    /\ finished => decoder = "stopped"
    /\ task \in {"away", "inside", "ending"}
    /\ task = "ending" => decoder = "running"
    /\ suspended \in BOOLEAN

=============================================================================
