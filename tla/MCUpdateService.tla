-------------------------- MODULE MCUpdateService --------------------------
(* Two releases that share a changed file, the probe; release 2 drops one  *)
(* file and adds one. The user has added a sound.                          *)
EXTENDS UpdateService, TLC

MCManifest ==
    << ("clockface.json" :> 1) @@ ("old.png" :> 1),
       ("clockface.json" :> 2) @@ ("new.png" :> 2) >>

MCUserFiles == {"downloaded/a.mp3"}
=============================================================================
