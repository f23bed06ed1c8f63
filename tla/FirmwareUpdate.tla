-------------------------- MODULE FirmwareUpdate ---------------------------
(***************************************************************************)
(* What the update promises of the firmware and its assets, whatever is    *)
(* downloaded, uploaded, interrupted or refused: one image runs, one is    *)
(* the next start's, and a new image gets one start to confirm itself.     *)
(* Assets are replaced only while that is on record (open), and a release  *)
(* is selected only when its assets are complete.                          *)
(***************************************************************************)
CONSTANT Versions

VARIABLES
    running,    \* the image that runs
    next,       \* the image that the next start runs
    fresh,      \* next was written since the last start, and never started
    assets,     \* the releases whose assets are all in place
    open        \* on record: the assets are being replaced, or never were complete

vars == <<running, next, fresh, assets, open>>

Images == [version : Versions, origin : {"release", "upload"}]

(* An uploaded image brings no assets and asks for none.                   *)
Fits(image, complete) == image.origin = "release" => image.version \in complete

Init ==
    /\ running \in Images
    /\ next = running
    /\ fresh = FALSE
    /\ assets \in SUBSET Versions
    /\ open \in BOOLEAN
    /\ open \/ assets # {}

-----------------------------------------------------------------------------
(* The assets                                                              *)
Replace ==
    /\ open' = TRUE
    /\ assets' \in SUBSET Versions
    /\ UNCHANGED <<running, next, fresh>>

Close ==
    /\ open /\ assets # {}
    /\ fresh => Fits(next, assets)
    /\ open' = FALSE
    /\ UNCHANGED <<running, next, fresh, assets>>

-----------------------------------------------------------------------------
(* The firmware                                                            *)
Write(image) ==
    /\ next' = image
    /\ fresh' = TRUE
    /\ UNCHANGED <<running, assets, open>>

Select == ~open /\ \E v \in assets : Write([version |-> v, origin |-> "release"])

Upload == \E v \in Versions : Write([version |-> v, origin |-> "upload"])

(* The slot of the next image is erased for another one (it was never      *)
(* started), or the image that runs confirms itself (next was to fall back *)
(* to): the running image is the next one too.                             *)
Settle ==
    /\ next' = running
    /\ fresh' = FALSE
    /\ UNCHANGED <<running, assets, open>>

(* A restart, by a power cut at any moment too. What was started the first *)
(* time leaves the image before it as the next one.                        *)
Restart ==
    /\ running' = next
    /\ next' = IF fresh THEN running ELSE next
    /\ fresh' = FALSE
    /\ UNCHANGED <<assets, open>>

Next == Replace \/ Close \/ Select \/ Upload \/ Settle \/ Restart

Spec == Init /\ [][Next]_vars

-----------------------------------------------------------------------------
(* The type of every variable.                                             *)
TypeOK ==
    /\ running \in Images /\ next \in Images
    /\ fresh \in BOOLEAN /\ open \in BOOLEAN
    /\ assets \in SUBSET Versions

(* An image that is started for the first time finds its assets, or the    *)
(* record that tells it to complete them.                                  *)
FreshFits == fresh /\ ~open => Fits(next, assets)

(* A mix of two releases' assets is always on record.                      *)
NeverMixedUnseen == open \/ assets # {}
=============================================================================
