----------------------- MODULE FirmwareUpdateProofs ------------------------
(* What the promise of FirmwareUpdate is worth, for any set of releases:   *)
(* whoever keeps it (UpdateService does, see UpdateServiceProofs) starts   *)
(* no new firmware without its assets and mixes no assets unseen.          *)
EXTENDS FirmwareUpdate, TLAPS

Safe == TypeOK /\ FreshFits /\ NeverMixedUnseen

LEMMA InitSafe == Init => Safe
BY DEF Init, Safe, TypeOK, FreshFits, NeverMixedUnseen

LEMMA StepSafe ==
  ASSUME Safe, [Next]_vars
  PROVE  Safe'
<1> USE DEF Safe, TypeOK
<1>1. CASE Replace
  BY <1>1 DEF Replace, FreshFits, NeverMixedUnseen
<1>2. CASE Close
  BY <1>2 DEF Close, FreshFits, NeverMixedUnseen, Fits
<1>3. CASE Select
  <2>1. PICK v \in assets : ~open /\ Write([version |-> v, origin |-> "release"])
    BY <1>3 DEF Select
  <2> QED BY <2>1 DEF Write, Images, FreshFits, NeverMixedUnseen, Fits
<1>4. CASE Upload
  <2>1. PICK v \in Versions : Write([version |-> v, origin |-> "upload"])
    BY <1>4 DEF Upload
  <2> QED BY <2>1 DEF Write, Images, FreshFits, NeverMixedUnseen, Fits
<1>5. CASE Settle \/ Restart
  BY <1>5 DEF Settle, Restart, FreshFits, NeverMixedUnseen
<1>6. CASE UNCHANGED vars
  BY <1>6 DEF vars, FreshFits, NeverMixedUnseen, Fits
<1> QED BY <1>1, <1>2, <1>3, <1>4, <1>5, <1>6 DEF Next

(* Firmware that is started for the first time finds its release's assets, *)
(* or the record of their replacement, and a mix of two releases' assets   *)
(* is always on record.                                                    *)
THEOREM PromiseIsSafe == Spec => [](TypeOK /\ FreshFits /\ NeverMixedUnseen)
<1>1. Init => Safe
  BY InitSafe
<1>2. Safe /\ [Next]_vars => Safe'
  BY StepSafe
<1> QED BY <1>1, <1>2, PTL DEF Spec, Safe
=============================================================================
