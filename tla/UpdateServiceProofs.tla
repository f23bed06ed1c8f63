------------------------ MODULE UpdateServiceProofs ------------------------
(* Proofs about UpdateService for every history of releases, every set of  *)
(* files and users' files, and any number of requests, faults and power    *)
(* cuts.                                                                   *)
EXTENDS UpdateService, TLAPS

(* Who may write the state: the worker or the application, not both.       *)
Owners ==
    /\ worker.action = "None" => worker.at = "exit"
    /\ app.at \in {"serve", "upload"} => worker.action = "None"
    /\ state.manual # "no" => worker.action = "None" /\ state.busy

(* Without an upload that stays open, busy is cleared by its owner.        *)
BusyEnds ==
    "short" \notin Features =>
        /\ state.busy => worker.at # "exit" \/ app.at = "upload"
        /\ app.at = "upload" /\ state.busy => state.manual # "no"

(* How far the worker is, and what it has done by then.                    *)
Progress ==
    /\ worker.at \in {"files", "prune", "firmware", "write", "finish"} => state.urls # 0
    /\ worker.at = "fetch" => worker.action # "Install"
    /\ worker.at \in {"manifest", "files"} => worker.action # "Check"
    /\ worker.at \in {"prune", "firmware", "write"} => worker.action = "Install"
    /\ worker.at \in {"files", "prune"} /\ worker.action = "Install" => work
    /\ worker.at \in {"prune", "firmware", "write", "finish"} => Complete(state.urls) /\ ~partial
    /\ worker.at \in {"firmware", "write"} => ~work
    /\ state.urls # 0 => state.latest = state.urls

(* The image that runs is valid, and so is the one to fall back to.        *)
Slots ==
    /\ flash.slots[flash.running] # Junk
    /\ state.pending_verify <=> flash.state = "pending"
    /\ flash.state = "valid" => flash.boot = flash.running
    /\ flash.state = "pending" =>
          flash.boot = flash.running /\ flash.slots[Other(flash.running)] # Junk
    /\ flash.state = "new" => flash.boot = Other(flash.running)
    /\ worker.at = "write" \/ state.manual # "no" => ~state.pending_verify

(* A new image waits for its reboot: only an installation of the same      *)
(* release may work on, and the image is that release's or an upload.      *)
NewImage ==
    flash.state = "new" =>
        /\ worker.action \in {"None", "Install"}
        /\ state.reboot_required \/ worker = [action |-> "Install", at |-> "finish"]
        /\ flash.slots[flash.boot] # Junk =>
              \/ flash.slots[flash.boot].origin = "upload"
              \/ flash.slots[flash.boot].version = state.urls

(* Nothing is written while "Reboot to finish" is shown.                   *)
ReadyMeans ==
    state.stage = "readyToReboot" =>
        /\ worker.at \in {"start", "exit"} /\ state.manual = "no"
        /\ \/ flash.state = "new" /\ flash.slots[flash.boot] # Junk
           \/ ~partial /\ state.latest # 0 /\ Complete(state.latest)

PromptMeans ==
    /\ state.prompt_pending => state.update_available /\ state.latest # ignored
    /\ state.update_available => state.latest > Running

(* The inductive invariant.                                                *)
IInv ==
    /\ TypeOK /\ Owners /\ BusyEnds /\ Progress /\ Slots /\ NewImage /\ ReadyMeans /\ PromptMeans
    /\ MixedIsMarked /\ AssetsBeforeFirmware /\ UserFilesKept

-----------------------------------------------------------------------------
(* Facts about the constants and the data                                  *)
LEMMA VersionFacts ==
  /\ 1 \in Versions /\ 0 \notin Versions
  /\ Versions \subseteq Nat
  /\ \A v \in Versions : DOMAIN Manifest[v] \subseteq Paths
  /\ \A v \in Versions : \A p \in DOMAIN Manifest[v] : Manifest[v][p] \in Versions
BY ManifestAssumption DEF Versions, Paths

LEMMA OtherFacts ==
  ASSUME NEW slot \in 0 .. 1
  PROVE  Other(slot) \in 0 .. 1 /\ Other(slot) # slot /\ Other(Other(slot)) = slot
BY DEF Other

(* Any slot is the one or the other.                                       *)
LEMMA TwoSlots ==
  ASSUME NEW slot \in 0 .. 1, NEW that \in 0 .. 1, slot # that
  PROVE  slot = Other(that)
BY DEF Other

(* An image that was written is not junk.                                  *)
LEMMA ImageFacts ==
  ASSUME NEW version \in Versions, NEW origin \in {"release", "upload"}
  PROVE  [version |-> version, origin |-> origin] \in Images \ {Junk}
BY JunkAssumption DEF Images

(* The helpers of the code change the stage and busy, and nothing else.    *)
SameBesides(s, t) ==
    /\ t \in State
    /\ t.update_available = s.update_available /\ t.latest = s.latest
    /\ t.prompt_pending = s.prompt_pending /\ t.reboot_required = s.reboot_required
    /\ t.pending_verify = s.pending_verify /\ t.urls = s.urls /\ t.manual = s.manual

LEMMA SetStage ==
  ASSUME NEW s \in State, NEW stage \in Stages
  PROVE  /\ SameBesides(s, set_stage(s, stage))
         /\ set_stage(s, stage).stage = stage
         /\ set_stage(s, stage).busy <=> stage \in BusyStages
<1>1. ASSUME NEW busy \in BOOLEAN, NEW t, t = [s EXCEPT !.stage = stage, !.busy = busy]
      PROVE  SameBesides(s, t) /\ t.stage = stage /\ t.busy = busy
  BY <1>1 DEF SameBesides, State
<1>2. (stage \in BusyStages) \in BOOLEAN
  OBVIOUS
<1>3. set_stage(s, stage) = [s EXCEPT !.stage = stage, !.busy = stage \in BusyStages]
  BY DEF set_stage
<1> QED BY <1>1, <1>2, <1>3, Zenon

LEMMA SetError ==
  ASSUME NEW s \in State
  PROVE  /\ SameBesides(s, set_error(s))
         /\ set_error(s).stage = "error"
         /\ ~set_error(s).busy
BY DEF SameBesides, State, Stages, set_error

-----------------------------------------------------------------------------
(* Requests: what a tick, a click and a request of the panel may do        *)

(* The worker stays as it was, or it is idle and is created; if it could   *)
(* not be, that is an error.                                               *)
Starts(s, w, t, v) ==
    /\ t \in State /\ v \in [action : Actions, at : Steps]
    /\ t.manual = s.manual /\ t.latest = s.latest /\ t.urls = s.urls
    /\ t.update_available = s.update_available /\ t.reboot_required = s.reboot_required
    /\ \/ v = w /\ t.busy = s.busy /\ t.stage = s.stage
       \/ v = w /\ w = Idle /\ ~s.busy /\ ~t.busy /\ t.stage = "error"
       \/ /\ w = Idle /\ ~s.busy /\ ~t.busy /\ t.stage \in {s.stage, "error"}
          /\ v.at = "start" /\ v.action # "None"
          /\ v.action # "Install" => ~s.reboot_required

(* What a request returns, which leaves the prompt and the verification of *)
(* the new image alone.                                                    *)
Outcome == [state : State, worker : [action : Actions, at : Steps], started : BOOLEAN]

StartsAs(s, w, r) ==
    /\ r \in Outcome
    /\ Starts(s, w, r.state, r.worker)
    /\ r.state.pending_verify = s.pending_verify
    /\ r.state.prompt_pending = s.prompt_pending

LEMMA StartsTwice ==
  ASSUME NEW s, NEW w, NEW t, NEW v, NEW u, NEW x, Starts(s, w, t, v), Starts(t, v, u, x)
  PROVE  Starts(s, w, u, x)
BY DEF Starts, Idle

(* Flags that say what is still to be started do not matter for it.        *)
LEMMA StartsFlag ==
  ASSUME NEW s, NEW w, NEW t, NEW v, NEW u, Starts(s, w, t, v),
         SameBesides(t, u), u.stage = t.stage, u.busy = t.busy
  PROVE  Starts(s, w, u, v)
BY DEF Starts, SameBesides

LEMMA StartsNone ==
  ASSUME NEW s \in State, NEW w \in [action : Actions, at : Steps]
  PROVE  Starts(s, w, s, w) /\ StartsAs(s, w, NoStart(s, w))
BY DEF Starts, StartsAs, Outcome, NoStart

LEMMA StartWorker ==
  ASSUME NEW s \in State, NEW w \in [action : Actions, at : Steps],
         NEW action \in Actions \ {"None"}, NEW created \in BOOLEAN,
         action # "Install" => ~s.reboot_required
  PROVE  StartsAs(s, w, start_worker(s, w, action, created))
<1> DEFINE r == start_worker(s, w, action, created)
<1>1. CASE networkOperationActive(s, w)
  BY <1>1, StartsNone DEF start_worker
<1>2. CASE ~networkOperationActive(s, w) /\ ~created
  <2>1. /\ r = NoStart(set_error(s), w) /\ w = Idle /\ ~s.busy
    BY <1>2 DEF start_worker, networkOperationActive
  <2>2. /\ SameBesides(s, set_error(s))
        /\ set_error(s).stage = "error" /\ ~set_error(s).busy
    BY SetError
  <2>3. StartsAs(s, w, NoStart(set_error(s), w))
    BY <2>1, <2>2 DEF StartsAs, Starts, SameBesides, Outcome, NoStart
  <2> QED BY <2>1, <2>3
<1>3. CASE ~networkOperationActive(s, w) /\ created
  <2>1. /\ r = [state |-> s, worker |-> [action |-> action, at |-> "start"], started |-> TRUE]
        /\ w = Idle /\ ~s.busy
    BY <1>3 DEF start_worker, networkOperationActive
  <2> HIDE DEF r
  <2>2. StartsAs(s, w, r)
    BY <2>1 DEF StartsAs, Starts, Outcome, Steps
  <2> QED BY <2>2 DEF r
<1> QED BY <1>1, <1>2, <1>3

LEMMA RequestInstall ==
  ASSUME NEW s \in State, NEW w \in [action : Actions, at : Steps], NEW created \in BOOLEAN
  PROVE  StartsAs(s, w, requestInstall(s, w, created))
BY StartWorker, StartsNone DEF requestInstall, Actions

(* A flag of the state inside an outcome.                                  *)
LEMMA OutcomeFlag ==
  ASSUME NEW s, NEW w, NEW r, StartsAs(s, w, r),
         NEW u, SameBesides(r.state, u), u.stage = r.state.stage, u.busy = r.state.busy
  PROVE  StartsAs(s, w, [r EXCEPT !.state = u])
<1>1. /\ [r EXCEPT !.state = u] \in Outcome
      /\ [r EXCEPT !.state = u].state = u
      /\ [r EXCEPT !.state = u].worker = r.worker
  BY DEF StartsAs, Outcome, SameBesides
<1> QED BY <1>1, StartsFlag DEF StartsAs, SameBesides

LEMMA RequestAssetRefresh ==
  ASSUME NEW s \in State, NEW w \in [action : Actions, at : Steps], NEW created \in BOOLEAN
  PROVE  StartsAs(s, w, requestAssetRefresh(s, w, created))
<1>1. CASE networkOperationActive(s, w) \/ s.reboot_required
  BY <1>1, StartsNone DEF requestAssetRefresh
<1>2. CASE ~(networkOperationActive(s, w) \/ s.reboot_required)
  <2>1. PICK r : r = start_worker(s, w, "RefreshAssets", created)
    OBVIOUS
  <2>2. StartsAs(s, w, r)
    BY <1>2, <2>1, StartWorker DEF Actions
  <2>3. PICK u : u = [r.state EXCEPT !.asset_refresh_requested = FALSE]
    OBVIOUS
  <2>4. \/ requestAssetRefresh(s, w, created) = r
        \/ requestAssetRefresh(s, w, created) = [r EXCEPT !.state = u]
    BY <1>2, <2>1, <2>2, <2>3 DEF requestAssetRefresh, StartsAs, Outcome
  <2>5. SameBesides(r.state, u) /\ u.stage = r.state.stage /\ u.busy = r.state.busy
    BY <2>2, <2>3 DEF StartsAs, Outcome, SameBesides, State
  <2> QED BY <2>2, <2>4, <2>5, OutcomeFlag
<1> QED BY <1>1, <1>2

-----------------------------------------------------------------------------
(* The tick                                                                *)
LEMMA RefreshedStep ==
  ASSUME NEW s \in State, NEW w \in [action : Actions, at : Steps], NEW created \in BOOLEAN,
         NEW online, NEW checks
  PROVE  StartsAs(s, w, Refreshed(s, w, online, checks, created))
BY RequestAssetRefresh, StartsNone DEF Refreshed

LEMMA CheckedStep ==
  ASSUME NEW s \in State, NEW w \in [action : Actions, at : Steps], NEW created \in BOOLEAN,
         NEW online, NEW checks
  PROVE  StartsAs(s, w, Checked(s, w, online, checks, created))
<1>1. CASE ~(checks /\ needsNetworkCheck(s, w, online))
  BY <1>1, StartsNone DEF Checked
<1>2. CASE checks /\ needsNetworkCheck(s, w, online)
  <2>1. PICK r : r = start_worker(s, w, "Check", created)
    OBVIOUS
  <2>2. StartsAs(s, w, r)
    BY <1>2, <2>1, StartWorker DEF Actions, needsNetworkCheck
  <2>3. PICK u : u = [[[r.state EXCEPT !.check_requested = FALSE]
                                EXCEPT !.first_check_complete = TRUE]
                                EXCEPT !.check_due = FALSE]
    OBVIOUS
  <2>4. CheckStarted(r) = r \/ CheckStarted(r) = [r EXCEPT !.state = u]
    BY <2>2, <2>3 DEF CheckStarted, StartsAs, Outcome, State
  <2>5. SameBesides(r.state, u) /\ u.stage = r.state.stage /\ u.busy = r.state.busy
    BY <2>2, <2>3 DEF StartsAs, Outcome, SameBesides, State
  <2>6. Checked(s, w, online, checks, created) = CheckStarted(r)
    BY <1>2, <2>1 DEF Checked
  <2> QED BY <2>2, <2>4, <2>5, <2>6, OutcomeFlag
<1> QED BY <1>1, <1>2

LEMMA ResumedStep ==
  ASSUME NEW s \in State, NEW w \in [action : Actions, at : Steps], NEW created \in BOOLEAN
  PROVE  StartsAs(s, w, Resumed(s, w, created))
<1>1. CASE ~(s.install_requested /\ ~s.busy /\ CanInstall(s))
  BY <1>1, StartsNone DEF Resumed
<1>2. CASE s.install_requested /\ ~s.busy /\ CanInstall(s)
  <2>1. PICK r : r = start_worker(s, w, "Install", created)
    OBVIOUS
  <2>2. StartsAs(s, w, r)
    BY <2>1, StartWorker DEF Actions
  <2>3. PICK u : u = [r.state EXCEPT !.install_requested = FALSE]
    OBVIOUS
  <2>4. \/ Resumed(s, w, created) = r
        \/ Resumed(s, w, created) = [r EXCEPT !.state = u]
    BY <1>2, <2>1, <2>2, <2>3 DEF Resumed, StartsAs, Outcome
  <2>5. SameBesides(r.state, u) /\ u.stage = r.state.stage /\ u.busy = r.state.busy
    BY <2>2, <2>3 DEF StartsAs, Outcome, SameBesides, State
  <2> QED BY <2>2, <2>4, <2>5, OutcomeFlag
<1> QED BY <1>1, <1>2

(* The prompt is set for a release that is not ignored, or kept.           *)
LEMMA PromptStep ==
  ASSUME NEW s \in State, NEW allowed \in BOOLEAN
  PROVE  /\ PromptSet(s, allowed) \in State
         /\ PromptSet(s, allowed).prompt_pending =>
               s.prompt_pending \/ (s.update_available /\ s.latest # ignored)
         /\ \A w, t, v : Starts(t, w, s, v) => Starts(t, w, PromptSet(s, allowed), v)
         /\ PromptSet(s, allowed).pending_verify = s.pending_verify
<1>1. PICK p \in BOOLEAN :
        /\ PromptSet(s, allowed) = [s EXCEPT !.prompt_pending = p]
        /\ p => s.prompt_pending \/ (s.update_available /\ s.latest # ignored)
  <2>1. s.prompt_pending \in BOOLEAN /\ s.snoozed \in BOOLEAN /\ s.update_available \in BOOLEAN
    BY DEF State
  <2>2. CASE ~allowed \/ s.snoozed
    <3>1. PromptSet(s, allowed) = [s EXCEPT !.prompt_pending = FALSE]
      BY <2>2 DEF PromptSet
    <3> QED BY <3>1
  <2>3. CASE ~(~allowed \/ s.snoozed) /\ s.update_available /\ s.latest # ignored
    <3>1. PromptSet(s, allowed) = [s EXCEPT !.prompt_pending = TRUE]
      BY <2>1, <2>3, Zenon DEF PromptSet
    <3> QED BY <2>3, <3>1
  <2>4. CASE ~(~allowed \/ s.snoozed) /\ ~(s.update_available /\ s.latest # ignored)
    <3>1. PromptSet(s, allowed) = [s EXCEPT !.prompt_pending = s.prompt_pending]
      BY <2>1, <2>4, Zenon DEF PromptSet
    <3> QED BY <2>1, <3>1
  <2> QED BY <2>2, <2>3, <2>4
<1>2. PICK u : u = [s EXCEPT !.prompt_pending = p]
  OBVIOUS
<1>3. /\ u \in State /\ u.prompt_pending = p /\ u.pending_verify = s.pending_verify
      /\ \A w, t, v : Starts(t, w, s, v) => Starts(t, w, u, v)
  BY <1>2 DEF State, Starts
<1> QED BY <1>1, <1>2, <1>3

-----------------------------------------------------------------------------
(* What every step of the application outside an upload does: it may start *)
(* the worker, confirm the running image, and set or dismiss the prompt.   *)
Apps == [at : {"loop", "serve", "upload", "sync"}, allowed : BOOLEAN, quiet : BOOLEAN]

PromptAllowed == state.update_available /\ state.latest # ignored

Requested ==
    /\ app.at # "upload" /\ app' \in Apps /\ app'.at # "upload"
    /\ app'.at = "serve" => worker'.action = "None"
    /\ Starts(state, worker, state', worker')
    /\ \/ flash' = flash /\ state'.pending_verify = state.pending_verify
       \/ /\ state.pending_verify /\ ~state'.pending_verify
          /\ flash' = [flash EXCEPT !.state = "valid"]
    /\ \/ /\ ignored' = ignored
          /\ state'.prompt_pending => state.prompt_pending \/ PromptAllowed
       \/ ignored' = state.latest /\ ~state'.prompt_pending
    /\ events' \in 0 .. MaxEvents
    /\ UNCHANGED <<work, files, release, partial>>

LEMMA UsesType ==
  ASSUME NEW n \in Nat, events \in 0 .. MaxEvents, Uses(n)
  PROVE  events' \in 0 .. MaxEvents
BY FeaturesAssumption DEF Uses

LEMMA TickRequested ==
  ASSUME TypeOK, NEW place, NEW online \in BOOLEAN, NEW elapsed \in BOOLEAN,
         NEW created \in BOOLEAN, Tick(place, online, elapsed, created)
  PROVE  Requested
<1> DEFINE checks  == place \in {"clock", "page"}
           allowed == place \in {"clock", "fetching"}
<1> DEFINE next(c) ==
              /\ state' = PromptSet(c.state, allowed) /\ worker' = c.worker
              /\ app' = [at |-> IF /\ online
                                   /\ ~networkOperationActive(c.state, c.worker)
                                   /\ ~needsNetworkCheck(c.state, c.worker, online)
                                  THEN "serve" ELSE "sync",
                         allowed |-> allowed,
                         quiet |-> worker = Idle /\ c.worker = Idle]
<1>0. /\ \E a \in {Refreshed(state, worker, online, checks, created)} :
         \E b \in {Checked([a.state EXCEPT !.pending_verify = @ /\ ~elapsed],
                           a.worker, online, checks, created)} :
         \E c \in {Resumed(b.state, b.worker, created)} : next(c)
      /\ app.at = "loop"
      /\ Uses(Cost(created))
      /\ flash' = IF state.pending_verify /\ elapsed
                    THEN [flash EXCEPT !.state = "valid"] ELSE flash
      /\ UNCHANGED <<work, ignored, files, release, partial>>
  BY Zenon DEF Tick
<1>1. PICK a : /\ a = Refreshed(state, worker, online, checks, created)
               /\ \E b \in {Checked([a.state EXCEPT !.pending_verify = @ /\ ~elapsed],
                                    a.worker, online, checks, created)} :
                  \E c \in {Resumed(b.state, b.worker, created)} : next(c)
  <2> HIDE DEF next
  <2> QED BY <1>0, Zenon
<1>2. StartsAs(state, worker, a)
  BY <1>1, RefreshedStep DEF TypeOK
<1>3. PICK m : /\ m = [a.state EXCEPT !.pending_verify = a.state.pending_verify /\ ~elapsed]
               /\ \E b \in {Checked(m, a.worker, online, checks, created)} :
                  \E c \in {Resumed(b.state, b.worker, created)} : next(c)
  <2> HIDE DEF next
  <2> QED BY <1>1, Zenon
<1>4. /\ m \in State
      /\ Starts(state, worker, m, a.worker)
      /\ m.pending_verify <=> state.pending_verify /\ ~elapsed
      /\ m.prompt_pending = state.prompt_pending
  <2>1. a.state \in State /\ (a.state.pending_verify /\ ~elapsed) \in BOOLEAN
    BY <1>2 DEF StartsAs, Outcome
  <2>2. \A p \in BOOLEAN : LET u == [a.state EXCEPT !.pending_verify = p]
                          IN  /\ u \in State /\ u.pending_verify = p
                              /\ u.prompt_pending = a.state.prompt_pending
                              /\ Starts(state, worker, u, a.worker)
    BY <1>2, <2>1 DEF StartsAs, Starts, State
  <2>3. /\ m \in State /\ m.pending_verify = (a.state.pending_verify /\ ~elapsed)
        /\ m.prompt_pending = a.state.prompt_pending
        /\ Starts(state, worker, m, a.worker)
    BY <1>3, <2>1, <2>2, Zenon
  <2> QED BY <1>2, <2>3 DEF StartsAs
<1>5. PICK b : /\ b = Checked(m, a.worker, online, checks, created)
               /\ \E c \in {Resumed(b.state, b.worker, created)} : next(c)
  <2> HIDE DEF next
  <2> QED BY <1>3, Zenon
<1>6. StartsAs(m, a.worker, b)
  BY <1>2, <1>4, <1>5, CheckedStep DEF StartsAs, Outcome
<1>7. PICK c : c = Resumed(b.state, b.worker, created) /\ next(c)
  <2> HIDE DEF next
  <2> QED BY <1>5, Zenon
<1>8. StartsAs(b.state, b.worker, c)
  BY <1>6, <1>7, ResumedStep DEF StartsAs, Outcome
<1>9. /\ state' = PromptSet(c.state, allowed) /\ worker' = c.worker
      /\ app' = [at |-> IF /\ online
                           /\ ~networkOperationActive(c.state, c.worker)
                           /\ ~needsNetworkCheck(c.state, c.worker, online)
                          THEN "serve" ELSE "sync",
                 allowed |-> allowed,
                 quiet |-> worker = Idle /\ c.worker = Idle]
  BY <1>7, Zenon
<1>10. Starts(state, worker, c.state, c.worker)
  BY <1>4, <1>6, <1>8, StartsTwice DEF StartsAs
<1>11. /\ Starts(state, worker, state', worker')
       /\ state'.pending_verify = c.state.pending_verify
       /\ state'.prompt_pending =>
             c.state.prompt_pending \/ (c.state.update_available /\ c.state.latest # ignored)
  <2>1. c.state \in State /\ allowed \in BOOLEAN
    BY <1>8 DEF StartsAs, Outcome
  <2>2. PICK p : p = PromptSet(c.state, allowed)
    OBVIOUS
  <2>3. /\ Starts(state, worker, p, c.worker)
        /\ p.pending_verify = c.state.pending_verify
        /\ p.prompt_pending =>
             c.state.prompt_pending \/ (c.state.update_available /\ c.state.latest # ignored)
    BY <1>10, <2>1, <2>2, PromptStep, Zenon
  <2>4. state' = p /\ worker' = c.worker
    BY <1>9, <2>2
  <2> QED BY <2>3, <2>4
<1>12. /\ c.state.pending_verify <=> state.pending_verify /\ ~elapsed
       /\ c.state.prompt_pending = state.prompt_pending
       /\ c.state.update_available = state.update_available /\ c.state.latest = state.latest
  BY <1>4, <1>6, <1>8, <1>10 DEF StartsAs, Starts
<1>13. /\ app' \in Apps /\ app'.at \in {"serve", "sync"}
       /\ app'.at = "serve" => worker'.action = "None"
  <2>1. allowed \in BOOLEAN /\ (worker = Idle /\ c.worker = Idle) \in BOOLEAN
    OBVIOUS
  <2>2. \A q, y \in BOOLEAN, e \in {"serve", "sync"} :
           app' = [at |-> e, allowed |-> q, quiet |-> y] => app'.at = e /\ app' \in Apps
    BY DEF Apps
  <2> DEFINE free == /\ online
                     /\ ~networkOperationActive(c.state, c.worker)
                     /\ ~needsNetworkCheck(c.state, c.worker, online)
  <2>3. app'.at = (IF free THEN "serve" ELSE "sync") /\ app' \in Apps
    <3>1. PICK e \in {"serve", "sync"} : e = IF free THEN "serve" ELSE "sync"
      BY Zenon
    <3> QED BY <1>9, <2>1, <2>2, <3>1, Zenon
  <2>4. free => worker'.action = "None"
    BY <1>9 DEF networkOperationActive, Idle
  <2> HIDE DEF free
  <2> QED BY <2>3, <2>4
<1>14. events' \in 0 .. MaxEvents
  <2>1. Cost(created) \in Nat
    BY DEF Cost
  <2> QED BY <1>0, <2>1, UsesType DEF TypeOK
<1>15. \/ flash' = flash /\ state'.pending_verify = state.pending_verify
       \/ /\ state.pending_verify /\ ~state'.pending_verify
          /\ flash' = [flash EXCEPT !.state = "valid"]
  <2>1. state.pending_verify \in BOOLEAN /\ c.state.pending_verify \in BOOLEAN
    BY <1>8 DEF TypeOK, State, StartsAs, Outcome
  <2> QED BY <1>0, <1>11, <1>12, <2>1
<1> QED BY <1>0, <1>11, <1>12, <1>13, <1>14, <1>15 DEF Requested, PromptAllowed

-----------------------------------------------------------------------------
(* The requests of the page and of the panel                               *)
Asked ==
    /\ Starts(state, worker, state', worker')
    /\ state'.pending_verify = state.pending_verify
    /\ \/ ignored' = ignored /\ (state'.prompt_pending => state.prompt_pending)
       \/ ignored' = state.latest /\ ~state'.prompt_pending
    /\ events' \in 0 .. MaxEvents

LEMMA CostType ==
  ASSUME NEW created \in Creations
  PROVE  created \in BOOLEAN /\ Cost(created) \in Nat /\ 1 + Cost(created) \in Nat
<1>1. created \in BOOLEAN
  BY Zenon DEF Creations
<1>2. Cost(created) \in {0, 1}
  BY Zenon DEF Cost
<1> QED BY <1>1, <1>2

LEMMA AskedByRequest ==
  ASSUME TypeOK, Check \/ Install \/ RefreshAssets \/ Dismiss
  PROVE  Asked
<1> USE DEF TypeOK
<1>1. CASE Check
  <2>1. SameBesides(state, state') /\ state'.stage = state.stage /\ state'.busy = state.busy
    BY <1>1 DEF Check, SameBesides, State
  <2>2. Starts(state, worker, state', worker')
    BY <1>1, <2>1, StartsNone, StartsFlag DEF Check
  <2> QED BY <1>1, <2>1, <2>2, UsesType DEF Check, Asked, SameBesides
<1>2. CASE Install
  <2>1. PICK created \in Creations :
          /\ Uses(1 + Cost(created))
          /\ \E r \in {requestInstall(state, worker, created)} \ {NoStart(state, worker)} :
                 state' = r.state /\ worker' = r.worker
          /\ UNCHANGED ignored
    BY <1>2, Zenon DEF Install
  <2>2. PICK r : /\ r = requestInstall(state, worker, created)
                 /\ state' = r.state /\ worker' = r.worker
    BY <2>1, Zenon
  <2>3. StartsAs(state, worker, r)
    BY <2>2, CostType, RequestInstall
  <2> QED BY <2>1, <2>2, <2>3, CostType, UsesType DEF Asked, StartsAs
<1>3. CASE RefreshAssets
  <2>1. PICK created \in Creations :
          /\ Uses(1 + Cost(created))
          /\ \E r \in {requestAssetRefresh(state, worker, created)} \ {NoStart(state, worker)} :
                 state' = r.state /\ worker' = r.worker
    BY <1>3, Zenon DEF RefreshAssets
  <2>2. PICK r : /\ r = requestAssetRefresh(state, worker, created)
                 /\ state' = r.state /\ worker' = r.worker
    BY <2>1, Zenon
  <2>3. StartsAs(state, worker, r)
    BY <2>2, CostType, RequestAssetRefresh
  <2>4. UNCHANGED ignored
    BY <1>3 DEF RefreshAssets
  <2> QED BY <2>1, <2>2, <2>3, <2>4, CostType, UsesType DEF Asked, StartsAs
<1>4. CASE Dismiss
  <2>1. PICK ignore \in BOOLEAN :
          /\ Uses(1) /\ UNCHANGED worker
          /\ state' = dismiss(state, ignore)
          /\ ignored' = IF ignore THEN state.latest ELSE ignored
    BY <1>4, Zenon DEF Dismiss
  <2>2. /\ state' \in State /\ ~state'.prompt_pending
        /\ state'.pending_verify = state.pending_verify
        /\ Starts(state, worker, state', worker')
    BY <2>1 DEF dismiss, State, Starts
  <2> QED BY <2>1, <2>2, UsesType DEF Asked
<1> QED BY <1>1, <1>2, <1>3, <1>4

LEMMA ClickRequested ==
  ASSUME TypeOK, Click
  PROVE  Requested
<1>1. Check \/ Install \/ RefreshAssets \/ Dismiss
  BY DEF Click, Primary
<1>2. Asked
  BY <1>1, AskedByRequest
<1> QED BY <1>2 DEF Click, Asked, Requested, PromptAllowed, TypeOK, Apps

LEMMA ServeRequested ==
  ASSUME TypeOK, Serve
  PROVE  Requested
<1>1. /\ app.at = "serve" /\ app' = [app EXCEPT !.at = "sync"]
      /\ UNCHANGED <<work, flash, files, release, partial>>
  BY DEF Serve
<1>2. app' \in Apps /\ app'.at = "sync"
  BY <1>1 DEF TypeOK, Apps
<1>3. CASE UNCHANGED <<state, worker, ignored, events>>
  <2>1. Starts(state, worker, state', worker')
    BY <1>3, StartsNone DEF TypeOK
  <2> QED BY <1>1, <1>2, <1>3, <2>1 DEF Requested, TypeOK
<1>4. CASE Check \/ Install \/ Dismiss
  <2>1. Asked
    BY <1>4, AskedByRequest
  <2> QED BY <1>1, <1>2, <2>1 DEF Asked, Requested, PromptAllowed
<1> QED BY <1>3, <1>4 DEF Serve

LEMMA SyncRequested ==
  ASSUME TypeOK, Sync
  PROVE  Requested
<1>1. /\ app' \in Apps /\ app'.at = "loop" /\ app.at = "sync"
      /\ UNCHANGED <<worker, work, ignored, flash, files, release, partial, events>>
  BY DEF Sync, AtLoop, Apps
<1>2. /\ state' \in State /\ (state'.prompt_pending => state.prompt_pending)
      /\ state'.pending_verify = state.pending_verify
      /\ Starts(state, worker, state', worker')
  BY DEF Sync, TypeOK, State, Starts
<1> QED BY <1>1, <1>2 DEF Requested, TypeOK

-----------------------------------------------------------------------------
(* What is done to the flash                                               *)
LEMMA Emptying ==
  ASSUME flash \in FlashState, flash' = Emptied
  PROVE  /\ flash' \in FlashState
         /\ flash'.boot = flash.boot /\ flash'.state = flash.state /\ flash'.running = flash.running
         /\ flash'.slots[flash.running] = flash.slots[flash.running]
         /\ flash'.slots[Other(flash.running)] = Junk
<1>1. /\ flash.running \in 0 .. 1 /\ Other(flash.running) \in 0 .. 1
      /\ Other(flash.running) # flash.running
  BY OtherFacts DEF FlashState
<1> QED BY <1>1 DEF Emptied, FlashState

LEMMA Flashing ==
  ASSUME flash \in FlashState, NEW version \in Versions,
         NEW origin \in {"release", "upload"}, flash' = Flashed(version, origin)
  PROVE  /\ flash' \in FlashState
         /\ flash'.boot = Other(flash.running) /\ flash'.state = "new"
         /\ flash'.running = flash.running
         /\ flash'.slots[flash.running] = flash.slots[flash.running]
         /\ flash'.slots[flash'.boot] # Junk
         /\ flash'.slots[flash'.boot].version = version
         /\ flash'.slots[flash'.boot].origin = origin
<1>1. /\ flash.running \in 0 .. 1 /\ Other(flash.running) \in 0 .. 1
      /\ Other(flash.running) # flash.running
  BY OtherFacts DEF FlashState
<1>2. PICK image : image = [version |-> version, origin |-> origin]
  OBVIOUS
<1>3. image \in Images /\ image # Junk /\ image.version = version /\ image.origin = origin
  BY <1>2, ImageFacts
<1>4. flash' = [ slots |-> [flash.slots EXCEPT ![Other(flash.running)] = image],
                 boot |-> Other(flash.running), state |-> "new", running |-> flash.running ]
  <2>1. PICK other : other = Other(flash.running)
    OBVIOUS
  <2>2. flash' = [flash EXCEPT !.slots[other] = image, !.boot = other, !.state = "new"]
    BY <1>2, <2>1, Zenon DEF Flashed
  <2>3. flash' = [ slots |-> [flash.slots EXCEPT ![other] = image],
                   boot |-> other, state |-> "new", running |-> flash.running ]
    BY <2>2 DEF FlashState
  <2> QED BY <2>1, <2>3
<1> QED BY <1>1, <1>3, <1>4 DEF FlashState

LEMMA Confirming ==
  ASSUME flash \in FlashState, flash' = [flash EXCEPT !.state = "valid"]
  PROVE  /\ flash' \in FlashState
         /\ flash'.boot = flash.boot /\ flash'.state = "valid" /\ flash'.running = flash.running
         /\ flash'.slots = flash.slots
BY DEF FlashState

-----------------------------------------------------------------------------
(* The application's steps outside an upload keep the invariant            *)
LEMMA RequestedIInv ==
  ASSUME IInv, Requested
  PROVE  IInv'
<1> USE DEF IInv
<1>1. /\ app.at # "upload" /\ app' \in Apps /\ app'.at # "upload"
      /\ app'.at = "serve" => worker'.action = "None"
      /\ Starts(state, worker, state', worker')
      /\ events' \in 0 .. MaxEvents
      /\ UNCHANGED <<work, files, release, partial>>
  BY DEF Requested
<1>2. /\ flash' \in FlashState
      /\ flash'.boot = flash.boot /\ flash'.running = flash.running /\ flash'.slots = flash.slots
      /\ \/ flash'.state = flash.state /\ state'.pending_verify = state.pending_verify
         \/ /\ flash.state = "pending" /\ flash'.state = "valid"
            /\ state.pending_verify /\ ~state'.pending_verify
  BY Confirming DEF Requested, TypeOK, Slots
<1>3. /\ ignored' \in Versions \cup {0}
      /\ state'.prompt_pending => state'.update_available /\ state'.latest # ignored'
  BY <1>1 DEF Requested, TypeOK, State, Starts, PromptMeans, PromptAllowed
<1>4. TypeOK'
  BY <1>1, <1>2, <1>3 DEF TypeOK, Starts, Apps
<1>5. Owners'
  BY <1>1 DEF Owners, Starts, Idle
<1>6. BusyEnds'
  BY <1>1 DEF BusyEnds, Starts
<1>7. Progress'
  BY <1>1 DEF Progress, Starts, Complete, Installed
<1>8. Slots'
  BY <1>1, <1>2 DEF Slots, Starts
<1>9. NewImage'
  BY <1>1, <1>2 DEF NewImage, Starts, Idle
<1>10. ReadyMeans'
  BY <1>1, <1>2 DEF ReadyMeans, Starts, Idle, Complete, Installed
<1>11. PromptMeans'
  BY <1>1, <1>2, <1>3 DEF PromptMeans, Starts, Running
<1>12. MixedIsMarked' /\ UserFilesKept'
  BY <1>1 DEF MixedIsMarked, UserFilesKept, Complete, Installed
<1>13. AssetsBeforeFirmware'
  BY <1>1, <1>2 DEF AssetsBeforeFirmware, Complete, Installed
<1> QED BY <1>4, <1>5, <1>6, <1>7, <1>8, <1>9, <1>10, <1>11, <1>12, <1>13

-----------------------------------------------------------------------------
(* The upload                                                              *)
LEMMA ReadyFacts ==
  ASSUME NEW s \in State
  PROVE  /\ Ready(s) \in State
         /\ Ready(s).stage = "readyToReboot" /\ ~Ready(s).busy /\ Ready(s).reboot_required
         /\ Ready(s).update_available = s.update_available /\ Ready(s).latest = s.latest
         /\ Ready(s).prompt_pending = s.prompt_pending /\ Ready(s).urls = s.urls
         /\ Ready(s).pending_verify = s.pending_verify /\ Ready(s).manual = s.manual
BY DEF Ready, State, Stages

LEMMA Manual ==
  ASSUME NEW s \in State, NEW manual \in {"no", "header", "writing"}, NEW u,
         u = [s EXCEPT !.manual = manual]
  PROVE  /\ u \in State /\ u.manual = manual
         /\ u.stage = s.stage /\ u.busy = s.busy /\ u.reboot_required = s.reboot_required
         /\ u.update_available = s.update_available /\ u.latest = s.latest
         /\ u.prompt_pending = s.prompt_pending /\ u.urls = s.urls
         /\ u.pending_verify = s.pending_verify
BY DEF State

LEMMA BeginIInv ==
  ASSUME IInv, beginManualFirmware
  PROVE  IInv'
<1> USE DEF IInv
<1>1. PICK u : u = [state EXCEPT !.manual = "header"]
  OBVIOUS
<1>2. /\ u \in State /\ u.manual = "header" /\ u.pending_verify = state.pending_verify
      /\ u.reboot_required = state.reboot_required
      /\ u.update_available = state.update_available /\ u.latest = state.latest
      /\ u.prompt_pending = state.prompt_pending /\ u.urls = state.urls
  BY <1>1, Manual DEF TypeOK
<1>3. state' = set_stage(u, "uploadingFirmware")
  BY <1>1, Zenon DEF beginManualFirmware
<1>4. SameBesides(u, state') /\ state'.stage = "uploadingFirmware" /\ state'.busy
  BY <1>2, <1>3, SetStage DEF Stages, BusyStages
<1>5. /\ app.at = "serve" /\ Uses(1) /\ ~state.pending_verify
      /\ app' = [app EXCEPT !.at = "upload"]
      /\ UNCHANGED <<worker, work, ignored, flash, files, release, partial>>
  BY DEF beginManualFirmware, Confirmed
<1>6. app'.at = "upload" /\ app' \in Apps
  BY <1>5 DEF TypeOK, Apps
<1>7. worker.action = "None" /\ worker.at = "exit"
  BY <1>5 DEF Owners
<1> USE DEF SameBesides
<1>8. TypeOK'
  BY <1>4, <1>5, <1>6, UsesType DEF TypeOK, Apps
<1>9. Owners' /\ BusyEnds'
  BY <1>2, <1>4, <1>5, <1>6, <1>7 DEF Owners, BusyEnds
<1>10. Progress' /\ NewImage' /\ ReadyMeans'
  BY <1>2, <1>4, <1>5, <1>7 DEF Progress, NewImage, ReadyMeans
<1>11. Slots' /\ PromptMeans'
  BY <1>2, <1>4, <1>5, <1>7 DEF Slots, PromptMeans, Running
<1>12. MixedIsMarked' /\ AssetsBeforeFirmware' /\ UserFilesKept'
  BY <1>5 DEF MixedIsMarked, AssetsBeforeFirmware, UserFilesKept, Complete, Installed
<1> QED BY <1>8, <1>9, <1>10, <1>11, <1>12

(* Every way an upload fails ends in set_error and leaves the flash alone. *)
UploadFails ==
    /\ app.at = "upload" /\ app' \in Apps /\ app'.at \in {"upload", "sync"}
    /\ Fault
    /\ state' = set_error([state EXCEPT !.manual = "no"])
    /\ UNCHANGED <<worker, work, ignored, flash, files, release, partial>>

LEMMA UploadFailsIInv ==
  ASSUME IInv, UploadFails
  PROVE  IInv'
<1> USE DEF IInv
<1>1. PICK u : u = [state EXCEPT !.manual = "no"]
  OBVIOUS
<1>2. /\ u \in State /\ u.manual = "no" /\ u.pending_verify = state.pending_verify
      /\ u.reboot_required = state.reboot_required
      /\ u.update_available = state.update_available /\ u.latest = state.latest
      /\ u.prompt_pending = state.prompt_pending /\ u.urls = state.urls
  BY <1>1, Manual DEF TypeOK
<1>3. state' = set_error(u)
  BY <1>1, Zenon DEF UploadFails
<1>4. SameBesides(u, state') /\ state'.stage = "error" /\ ~state'.busy
  BY <1>2, <1>3, SetError
<1>5. /\ app.at = "upload" /\ app' \in Apps /\ app'.at \in {"upload", "sync"} /\ Uses(1)
      /\ UNCHANGED <<worker, work, ignored, flash, files, release, partial>>
  BY DEF UploadFails, Fault
<1>6. worker.action = "None" /\ worker.at = "exit"
  BY <1>5 DEF Owners
<1> USE DEF SameBesides
<1>7. TypeOK'
  BY <1>4, <1>5, UsesType DEF TypeOK, Apps
<1>8. Owners' /\ BusyEnds'
  BY <1>2, <1>4, <1>5, <1>6 DEF Owners, BusyEnds
<1>9. Progress' /\ NewImage' /\ ReadyMeans'
  BY <1>2, <1>4, <1>5, <1>6 DEF Progress, NewImage, ReadyMeans
<1>10. Slots' /\ PromptMeans'
  BY <1>2, <1>4, <1>5, <1>6 DEF Slots, PromptMeans, Running
<1>11. MixedIsMarked' /\ AssetsBeforeFirmware' /\ UserFilesKept'
  BY <1>5 DEF MixedIsMarked, AssetsBeforeFirmware, UserFilesKept, Complete, Installed
<1> QED BY <1>7, <1>8, <1>9, <1>10, <1>11

LEMMA WriteIInv ==
  ASSUME IInv, writeManualFirmware
  PROVE  IInv'
<1> USE DEF IInv
<1>1. /\ app.at = "upload" /\ state.manual = "header"
      /\ UNCHANGED <<app, worker, work, ignored, files, release, partial>>
  BY DEF writeManualFirmware
<1>2. CASE Fault /\ state' = set_error([state EXCEPT !.manual = "no"]) /\ UNCHANGED flash
  BY <1>1, <1>2, UploadFailsIInv DEF UploadFails, TypeOK, Apps
<1>3. CASE state' = [state EXCEPT !.manual = "writing"] /\ flash' = Emptied /\ UNCHANGED events
  <2>1. /\ state' \in State /\ state'.manual = "writing" /\ state'.busy = state.busy
        /\ state'.stage = state.stage /\ state'.pending_verify = state.pending_verify
        /\ state'.reboot_required = state.reboot_required
        /\ state'.update_available = state.update_available /\ state'.latest = state.latest
        /\ state'.prompt_pending = state.prompt_pending /\ state'.urls = state.urls
    BY <1>3, Manual DEF TypeOK
  <2>2. /\ worker.action = "None" /\ worker.at = "exit" /\ state.busy
        /\ state.stage # "readyToReboot"
        /\ ~state.pending_verify /\ flash.state # "pending"
    BY <1>1 DEF Owners, ReadyMeans, Slots
  <2>3. /\ flash' \in FlashState
        /\ flash'.boot = flash.boot /\ flash'.state = flash.state /\ flash'.running = flash.running
        /\ flash'.slots[flash.running] = flash.slots[flash.running]
        /\ flash'.slots[Other(flash.running)] = Junk
    BY <1>3, Emptying DEF TypeOK
  <2>4. TypeOK'
    BY <1>1, <1>3, <2>1, <2>3 DEF TypeOK
  <2>5. Owners' /\ BusyEnds'
    BY <1>1, <2>1, <2>2 DEF Owners, BusyEnds
  <2>6. Progress' /\ ReadyMeans'
    BY <1>1, <2>1, <2>2 DEF Progress, ReadyMeans
  <2>7. Slots'
    BY <1>1, <2>1, <2>2, <2>3 DEF Slots
  <2>8. NewImage' /\ AssetsBeforeFirmware'
    BY <1>1, <2>1, <2>2, <2>3 DEF NewImage, AssetsBeforeFirmware, Slots
  <2>9. PromptMeans'
    BY <1>1, <2>1, <2>3 DEF PromptMeans, Running
  <2>10. MixedIsMarked' /\ UserFilesKept'
    BY <1>1 DEF MixedIsMarked, UserFilesKept, Complete, Installed
  <2> QED BY <2>4, <2>5, <2>6, <2>7, <2>8, <2>9, <2>10
<1> QED BY <1>2, <1>3 DEF writeManualFirmware

LEMMA AbortIInv ==
  ASSUME IInv, abortManualFirmware
  PROVE  IInv'
<1>1. app' \in Apps /\ app'.at = "sync"
  BY DEF IInv, TypeOK, Apps, abortManualFirmware
<1> QED BY <1>1, UploadFailsIInv DEF UploadFails, abortManualFirmware

LEMMA FinishIInv ==
  ASSUME IInv, finishManualFirmware
  PROVE  IInv'
<1> USE DEF IInv
<1>1. /\ app.at = "upload" /\ app' \in Apps /\ app'.at = "sync"
      /\ UNCHANGED <<worker, work, ignored, files, release, partial>>
  BY DEF TypeOK, Apps, finishManualFirmware
<1>2. worker.action = "None" /\ worker.at = "exit"
  BY <1>1 DEF Owners
<1>3. CASE /\ state.manual = "no" \/ (state.manual = "header" /\ "short" \in Features)
           /\ UNCHANGED <<state, flash, events>>
  <2>1. TypeOK' /\ Owners' /\ BusyEnds'
    BY <1>1, <1>2, <1>3 DEF TypeOK, Apps, Owners, BusyEnds
  <2>2. Progress' /\ NewImage' /\ ReadyMeans' /\ Slots' /\ PromptMeans'
    BY <1>1, <1>3 DEF Progress, NewImage, ReadyMeans, Slots, PromptMeans, Running,
                      Complete, Installed
  <2>3. MixedIsMarked' /\ AssetsBeforeFirmware' /\ UserFilesKept'
    BY <1>1, <1>3 DEF MixedIsMarked, AssetsBeforeFirmware, UserFilesKept, Complete, Installed
  <2> QED BY <2>1, <2>2, <2>3
<1>4. CASE Fault /\ state' = set_error([state EXCEPT !.manual = "no"]) /\ UNCHANGED flash
  BY <1>1, <1>4, UploadFailsIInv DEF UploadFails
<1>5. CASE /\ state.manual = "writing"
           /\ \E v \in Versions : flash' = Flashed(v, "upload")
           /\ state' = Ready([state EXCEPT !.manual = "no"])
           /\ UNCHANGED events
  <2>1. PICK u : u = [state EXCEPT !.manual = "no"]
    OBVIOUS
  <2>2. /\ u \in State /\ u.manual = "no" /\ u.pending_verify = state.pending_verify
        /\ u.update_available = state.update_available /\ u.latest = state.latest
        /\ u.prompt_pending = state.prompt_pending /\ u.urls = state.urls
    BY <2>1, Manual DEF TypeOK
  <2>3. state' = Ready(u)
    BY <1>5, <2>1, Zenon
  <2>4. /\ state' \in State
        /\ state'.stage = "readyToReboot" /\ ~state'.busy /\ state'.reboot_required
        /\ state'.update_available = state.update_available /\ state'.latest = state.latest
        /\ state'.prompt_pending = state.prompt_pending /\ state'.urls = state.urls
        /\ state'.pending_verify = state.pending_verify /\ state'.manual = "no"
    BY <2>2, <2>3, ReadyFacts
  <2>5. PICK v \in Versions : flash' = Flashed(v, "upload")
    BY <1>5
  <2>6. /\ flash' \in FlashState
        /\ flash'.boot = Other(flash.running) /\ flash'.state = "new"
        /\ flash'.running = flash.running
        /\ flash'.slots[flash.running] = flash.slots[flash.running]
        /\ flash'.slots[flash'.boot] # Junk
        /\ flash'.slots[flash'.boot].origin = "upload"
    BY <2>5, Flashing DEF TypeOK
  <2>7. ~state.pending_verify
    BY <1>5 DEF Slots
  <2>8. TypeOK'
    BY <1>1, <1>5, <2>4, <2>6 DEF TypeOK, Apps
  <2>9. Owners' /\ BusyEnds' /\ Progress'
    BY <1>1, <1>2, <2>4 DEF Owners, BusyEnds, Progress
  <2>10. Slots'
    BY <1>1, <1>2, <2>4, <2>6, <2>7 DEF Slots
  <2>11. NewImage' /\ AssetsBeforeFirmware'
    BY <1>1, <1>2, <2>4, <2>6 DEF NewImage, AssetsBeforeFirmware
  <2>12. ReadyMeans' /\ PromptMeans'
    BY <1>1, <1>2, <2>4, <2>6 DEF ReadyMeans, PromptMeans, Running
  <2>13. MixedIsMarked' /\ UserFilesKept'
    BY <1>1 DEF MixedIsMarked, UserFilesKept, Complete, Installed
  <2> QED BY <2>8, <2>9, <2>10, <2>11, <2>12, <2>13
<1> QED BY <1>3, <1>4, <1>5 DEF finishManualFirmware

-----------------------------------------------------------------------------
(* The worker                                                              *)

(* While the worker is at work the application neither serves nor uploads. *)
LEMMA Working ==
  ASSUME IInv, NEW step \in Steps \ {"exit"}, At(step)
  PROVE  /\ worker.at = step /\ worker.action \in Actions \ {"None"}
         /\ state.manual = "no" /\ app.at \in {"loop", "sync"}
         /\ step # "start" => state.stage # "readyToReboot"
BY DEF IInv, TypeOK, Owners, ReadyMeans, At

LEMMA Going ==
  ASSUME TypeOK, NEW step \in Steps, Goes(step)
  PROVE  /\ worker' \in [action : Actions, at : Steps]
         /\ worker'.at = step /\ worker'.action = worker.action
BY DEF TypeOK, Goes

(* A step that fails ends the work.  A body that arrives incomplete leaves *)
(* its ETag, which is read by later checks only.                           *)
Failure ==
    /\ worker.action # "None" /\ worker.at \in Steps \ {"start", "finish", "exit"}
    /\ Goes("exit")
    /\ \E u \in State : SameBesides(state, u) /\ state' = set_error(u)
    /\ events' \in 0 .. MaxEvents
    /\ UNCHANGED <<app, work, ignored, flash, files, release, partial>>

LEMMA FailureIInv ==
  ASSUME IInv, Failure
  PROVE  IInv'
<1> USE DEF IInv
<1>1. PICK u \in State : SameBesides(state, u) /\ state' = set_error(u)
  BY DEF Failure
<1>2. /\ SameBesides(state, state') /\ state'.stage = "error" /\ ~state'.busy
  BY <1>1, SetError DEF SameBesides
<1>3. /\ worker.action # "None" /\ worker.at \in Steps \ {"start", "finish", "exit"}
      /\ events' \in 0 .. MaxEvents
      /\ UNCHANGED <<app, work, ignored, flash, files, release, partial>>
  BY DEF Failure
<1>4. /\ worker' \in [action : Actions, at : Steps]
      /\ worker'.at = "exit" /\ worker'.action = worker.action
  BY Going DEF Failure, Steps
<1> USE DEF SameBesides
<1>5. TypeOK'
  BY <1>2, <1>3, <1>4 DEF TypeOK
<1>6. Owners' /\ BusyEnds' /\ Progress'
  BY <1>2, <1>3, <1>4 DEF Owners, BusyEnds, Progress
<1>7. Slots' /\ PromptMeans'
  BY <1>2, <1>3, <1>4 DEF Slots, PromptMeans, Running
<1>8. NewImage' /\ ReadyMeans'
  BY <1>2, <1>3, <1>4 DEF NewImage, ReadyMeans
<1>9. MixedIsMarked' /\ AssetsBeforeFirmware' /\ UserFilesKept'
  BY <1>3 DEF MixedIsMarked, AssetsBeforeFirmware, UserFilesKept, Complete, Installed
<1> QED BY <1>5, <1>6, <1>7, <1>8, <1>9

LEMMA FailsFails ==
  ASSUME IInv, NEW step \in Steps \ {"start", "finish", "exit"}, At(step), Fails,
         UNCHANGED <<app, work, ignored, flash, files, release, partial>>
  PROVE  Failure
<1>1. SameBesides(state, state) /\ state \in State
  BY DEF IInv, TypeOK, SameBesides
<1>2. events' \in 0 .. MaxEvents
  BY UsesType DEF Fails, Fault, IInv, TypeOK
<1> QED BY <1>1, <1>2, Working DEF Failure, Fails

(* A step of the worker that changes the stage, and where it goes.         *)
Advances(step, next, stage) ==
    /\ At(step) /\ Goes(next)
    /\ state' = set_stage(state, stage)

LEMMA Advancing ==
  ASSUME IInv, NEW step \in Steps \ {"exit"}, NEW next \in Steps \ {"start"},
         NEW stage \in Stages \ {"readyToReboot"}, Advances(step, next, stage),
         stage \in BusyStages => next # "exit"
  PROVE  /\ SameBesides(state, state') /\ state'.stage = stage
         /\ worker' \in [action : Actions, at : Steps]
         /\ worker'.at = next /\ worker'.action = worker.action
         /\ UNCHANGED app => (Owners /\ BusyEnds /\ ReadyMeans)'
<1> USE DEF IInv
<1>1. /\ SameBesides(state, state') /\ state'.stage = stage
      /\ state'.busy <=> stage \in BusyStages
  BY SetStage DEF Advances, TypeOK
<1>2. /\ worker' \in [action : Actions, at : Steps]
      /\ worker'.at = next /\ worker'.action = worker.action
  BY Going DEF Advances
<1>3. /\ worker.at = step /\ worker.action # "None"
      /\ state.manual = "no" /\ app.at \in {"loop", "sync"}
  BY Working DEF Advances
<1> QED BY <1>1, <1>2, <1>3 DEF SameBesides, Owners, BusyEnds, ReadyMeans

LEMMA WorkerStartIInv ==
  ASSUME IInv, WorkerStart
  PROVE  IInv'
<1> USE DEF IInv
<1>1. At("start") /\ UNCHANGED <<app, work, ignored, flash, files, release, partial, events>>
  BY DEF WorkerStart
<1>2. /\ worker.at = "start" /\ worker.action \in Actions \ {"None"}
      /\ state.manual = "no" /\ app.at \in {"loop", "sync"}
  BY <1>1, Working DEF Steps
<1>3. /\ SameBesides(state, state')
      /\ state'.stage \in {"downloadingAssets", "checking"}
      /\ worker' \in [action : Actions, at : Steps] /\ worker'.action = worker.action
      /\ worker'.at = IF worker.action = "Install" THEN "manifest" ELSE "fetch"
      /\ Owners' /\ BusyEnds' /\ ReadyMeans'
  <2>1. CASE worker.action = "Install"
    <3>1. Advances("start", "manifest", "downloadingAssets")
      BY <1>1, <2>1 DEF WorkerStart, Advances
    <3> QED BY <1>1, <2>1, <3>1, Advancing DEF Stages, BusyStages, Steps
  <2>2. CASE worker.action # "Install"
    <3>1. Advances("start", "fetch", "checking")
      BY <1>1, <2>2 DEF WorkerStart, Advances
    <3> QED BY <1>1, <2>2, <3>1, Advancing DEF Stages, BusyStages, Steps
  <2> QED BY <2>1, <2>2
<1> USE DEF SameBesides
<1>4. TypeOK'
  BY <1>1, <1>3 DEF TypeOK
<1>5. Progress' /\ Slots'
  BY <1>1, <1>2, <1>3 DEF Progress, Slots
<1>6. NewImage' /\ PromptMeans'
  BY <1>1, <1>2, <1>3 DEF NewImage, PromptMeans, Running
<1>7. MixedIsMarked' /\ AssetsBeforeFirmware' /\ UserFilesKept'
  BY <1>1 DEF MixedIsMarked, AssetsBeforeFirmware, UserFilesKept, Complete, Installed
<1> QED BY <1>3, <1>4, <1>5, <1>6, <1>7

(* The answer of a check: nothing but the release it names is new.         *)
LEMMA FetchedIInv ==
  ASSUME IInv, At("fetch"), NEW next \in {"manifest", "exit"},
         Goes(next), next = "manifest" => worker.action # "Check",
         state' \in State, state'.stage \in {"upToDate", "available"}, ~state'.busy,
         state'.reboot_required = state.reboot_required,
         state'.pending_verify = state.pending_verify, state'.manual = state.manual,
         \/ state'.urls = state.urls /\ state'.latest = state.latest
         \/ state'.urls = state'.latest,
         PromptMeans',
         UNCHANGED <<app, work, ignored, flash, files, release, partial, events>>
  PROVE  IInv'
<1> USE DEF IInv
<1>1. /\ worker.at = "fetch" /\ worker.action \in Actions \ {"None", "Install"}
      /\ state.manual = "no" /\ app.at \in {"loop", "sync"}
  BY Working DEF Steps, Progress
<1>2. /\ worker' \in [action : Actions, at : Steps]
      /\ worker'.at = next /\ worker'.action = worker.action
  BY Going DEF Steps
<1>3. TypeOK'
  BY <1>2 DEF TypeOK
<1>4. Owners' /\ BusyEnds' /\ Progress'
  BY <1>1, <1>2 DEF Owners, BusyEnds, Progress
<1>5. Slots' /\ ReadyMeans'
  BY <1>1, <1>2 DEF Slots, ReadyMeans
<1>6. NewImage'
  BY <1>1, <1>2 DEF NewImage
<1>7. MixedIsMarked' /\ AssetsBeforeFirmware' /\ UserFilesKept'
  BY <1>1 DEF MixedIsMarked, AssetsBeforeFirmware, UserFilesKept, Complete, Installed
<1> QED BY <1>3, <1>4, <1>5, <1>6, <1>7

LEMMA FetchIInv ==
  ASSUME IInv, Fetch
  PROVE  IInv'
<1> USE DEF IInv
<1>1. At("fetch") /\ UNCHANGED <<app, work, ignored, flash, files, release, partial>>
  BY DEF Fetch
<1>2. PICK next : next = IF worker.action = "Check" THEN "exit" ELSE "manifest"
  OBVIOUS
<1>3. next \in {"manifest", "exit"} /\ (next = "manifest" => worker.action # "Check")
  BY <1>2
<1>4. CASE NonePublished /\ Goes(next)
  <2>1. PICK s : s = set_stage(state, "upToDate")
    OBVIOUS
  <2>2. SameBesides(state, s) /\ s.stage = "upToDate" /\ ~s.busy
    BY <2>1, SetStage DEF TypeOK, Stages, BusyStages
  <2>3. state' = [s EXCEPT !.update_available = FALSE, !.prompt_pending = FALSE]
    BY <1>4, <2>1, Zenon DEF NonePublished
  <2>4. /\ state' \in State /\ state'.stage = "upToDate" /\ ~state'.busy
        /\ state'.reboot_required = state.reboot_required
        /\ state'.pending_verify = state.pending_verify /\ state'.manual = state.manual
        /\ state'.urls = state.urls /\ state'.latest = state.latest
        /\ ~state'.update_available /\ ~state'.prompt_pending
    BY <2>2, <2>3 DEF SameBesides, State
  <2>5. PromptMeans'
    BY <2>4 DEF PromptMeans
  <2> QED BY <1>1, <1>3, <1>4, <2>4, <2>5, FetchedIInv DEF NonePublished
<1>5. CASE NotModified /\ Goes(next)
  <2>1. PICK stage \in {"available", "upToDate"} : state' = set_stage(state, stage)
    <3>1. CheckedStage(state.update_available) \in {"available", "upToDate"}
      BY Zenon DEF CheckedStage
    <3> QED BY <1>5, <3>1 DEF NotModified
  <2>2. SameBesides(state, state') /\ state'.stage = stage /\ ~state'.busy
    BY <2>1, SetStage DEF TypeOK, Stages, BusyStages
  <2>3. PromptMeans'
    BY <1>1, <2>2 DEF PromptMeans, SameBesides, Running
  <2> QED BY <1>1, <1>3, <1>5, <2>2, <2>3, FetchedIInv DEF NotModified, SameBesides
<1>6. CASE release # 0 /\ state' = NewRelease(state) /\ UNCHANGED events /\ Goes(next)
  <2>1. PICK s : s = set_stage(state, CheckedStage(Running < release))
    OBVIOUS
  <2>2. SameBesides(state, s) /\ s.stage \in {"upToDate", "available"} /\ ~s.busy
    <3>1. CheckedStage(Running < release) \in {"available", "upToDate"}
      BY Zenon DEF CheckedStage
    <3> QED BY <2>1, <3>1, SetStage DEF TypeOK, Stages, BusyStages
  <2>3. ASSUME NEW p \in BOOLEAN, NEW q \in BOOLEAN
        PROVE  LET u == [s EXCEPT !.etag = release, !.urls = release, !.latest = release,
                                  !.update_available = p, !.prompt_pending = q]
               IN  /\ u \in State /\ u.stage \in {"upToDate", "available"} /\ ~u.busy
                   /\ u.reboot_required = state.reboot_required
                   /\ u.pending_verify = state.pending_verify /\ u.manual = state.manual
                   /\ u.urls = release /\ u.latest = release
                   /\ u.update_available = p /\ u.prompt_pending = q
    <3>1. release \in Versions \cup {0}
      BY DEF TypeOK
    <3>2. /\ s \in State /\ s.reboot_required = state.reboot_required
          /\ s.pending_verify = state.pending_verify /\ s.manual = state.manual
      BY <2>2 DEF SameBesides
    <3> HIDE DEF IInv
    <3> QED BY <2>2, <3>1, <3>2 DEF State
  <2>4. PICK p \in BOOLEAN : p = (Running < release)
    <3>1. (Running < release) \in BOOLEAN
      OBVIOUS
    <3> QED BY <3>1, Zenon
  <2>5. PICK q \in BOOLEAN : q = (p /\ release # ignored)
    <3>1. (p /\ release # ignored) \in BOOLEAN
      OBVIOUS
    <3> QED BY <3>1, Zenon
  <2>6. state' = [s EXCEPT !.etag = release, !.urls = release, !.latest = release,
                           !.update_available = p, !.prompt_pending = q]
    BY <1>6, <2>1, <2>4, <2>5, Zenon DEF NewRelease
  <2>7. /\ state' \in State /\ state'.stage \in {"upToDate", "available"} /\ ~state'.busy
        /\ state'.reboot_required = state.reboot_required
        /\ state'.pending_verify = state.pending_verify /\ state'.manual = state.manual
        /\ state'.urls = release /\ state'.latest = release
        /\ state'.update_available = p /\ state'.prompt_pending = q
    BY <2>3, <2>6, Zenon
  <2>8. PromptMeans'
    <3>1. flash.running \in 0 .. 1 /\ flash.slots[flash.running] \in Images
      BY DEF TypeOK, Slots, FlashState
    <3>2. Running' = Running
      BY <1>1 DEF Running
    <3>3. Running \in Versions /\ release \in Versions \cup {0}
      BY <3>1 DEF Images, Running, TypeOK
    <3>4. Running \in Nat /\ release \in Nat
      <4> HIDE DEF IInv
      <4> QED BY <3>3, VersionFacts
    <3> QED BY <1>1, <2>4, <2>5, <2>7, <3>2, <3>4 DEF PromptMeans
  <2> QED BY <1>1, <1>3, <1>6, <2>7, <2>8, FetchedIInv
<1>7. CASE Truncated
  <2>1. PICK u : u = [state EXCEPT !.etag = release]
    OBVIOUS
  <2>2. u \in State /\ SameBesides(state, u)
    BY <2>1 DEF SameBesides, TypeOK, State
  <2>3. Failure
    BY <1>1, <1>7, <2>1, <2>2, Working, UsesType DEF Failure, Truncated, TypeOK, Steps
  <2> QED BY <2>3, FailureIInv
<1>8. CASE Fails
  BY <1>1, <1>8, FailsFails, FailureIInv DEF Steps
<1> QED BY <1>2, <1>4, <1>5, <1>6, <1>7, <1>8 DEF Fetch

LEMMA ReadManifestIInv ==
  ASSUME IInv, ReadManifest
  PROVE  IInv'
<1> USE DEF IInv
<1>1. At("manifest") /\ UNCHANGED <<app, ignored, flash, files, release, partial>>
  BY DEF ReadManifest
<1>2. CASE /\ state.urls = 0 /\ state' = set_error(state) /\ Goes("exit")
           /\ UNCHANGED <<work, events>>
  <2>1. Failure
    BY <1>1, <1>2, Working DEF Failure, SameBesides, TypeOK, Steps
  <2> QED BY <2>1, FailureIInv
<1>3. CASE /\ state.urls # 0 /\ state' = set_stage(state, "downloadingAssets")
           /\ work' = Marker /\ Goes("files") /\ UNCHANGED events
  <2>1. Advances("manifest", "files", "downloadingAssets")
    BY <1>1, <1>3 DEF Advances
  <2>2. /\ SameBesides(state, state') /\ state'.stage = "downloadingAssets"
        /\ worker' \in [action : Actions, at : Steps]
        /\ worker'.at = "files" /\ worker'.action = worker.action
        /\ Owners' /\ BusyEnds' /\ ReadyMeans'
    BY <1>1, <2>1, Advancing DEF Stages, Steps, BusyStages
  <2>3. worker.at = "manifest" /\ worker.action \in {"Install", "RefreshAssets"}
    BY <1>1, Working DEF Steps, Actions, Progress
  <2>4. work' \in BOOLEAN /\ (work => work') /\ (worker.action = "Install" => work')
    BY <1>3 DEF Marker, TypeOK
  <2> USE DEF SameBesides
  <2>5. TypeOK'
    BY <1>1, <1>3, <2>2, <2>4 DEF TypeOK
  <2>6. Progress' /\ Slots'
    BY <1>1, <1>3, <2>2, <2>3, <2>4 DEF Progress, Slots
  <2>7. NewImage' /\ PromptMeans'
    BY <1>1, <2>2, <2>3 DEF NewImage, PromptMeans, Running
  <2>8. MixedIsMarked' /\ AssetsBeforeFirmware' /\ UserFilesKept'
    BY <1>1, <2>4 DEF MixedIsMarked, AssetsBeforeFirmware, UserFilesKept, Complete, Installed
  <2> QED BY <2>2, <2>5, <2>6, <2>7, <2>8
<1>4. CASE Fails /\ UNCHANGED work
  BY <1>1, <1>4, FailsFails, FailureIInv DEF Steps
<1> QED BY <1>2, <1>3, <1>4 DEF ReadManifest

-----------------------------------------------------------------------------
(* The worker and the files                                                *)

(* The files of the release that the URLs name.                            *)
LEMMA ReleaseFiles ==
  ASSUME TypeOK, state.urls # 0
  PROVE  /\ state.urls \in Versions
         /\ DOMAIN Manifest[state.urls] \subseteq Paths
         /\ \A p \in DOMAIN Manifest[state.urls] : Manifest[state.urls][p] \in Versions
BY VersionFacts DEF TypeOK, State

LEMMA InstallFileIInv ==
  ASSUME IInv, InstallFile
  PROVE  IInv'
<1> USE DEF IInv
<1>1. At("files") /\ UNCHANGED <<app, work, ignored, flash, release>>
  BY DEF InstallFile
<1>2. CASE Fails /\ UNCHANGED <<files, partial>>
  BY <1>1, <1>2, FailsFails, FailureIInv DEF Steps
<1>3. CASE \E p \in DOMAIN Manifest[state.urls] :
              /\ ~Installed(p, state.urls)
              /\ files' = [q \in DOMAIN files \cup {p} |->
                              IF q = p THEN Manifest[state.urls][p] ELSE files[q]]
              /\ partial' = (partial \/ worker.action = "RefreshAssets")
              /\ UNCHANGED <<state, worker, events>>
  <2>1. PICK p \in DOMAIN Manifest[state.urls] :
              /\ files' = [q \in DOMAIN files \cup {p} |->
                              IF q = p THEN Manifest[state.urls][p] ELSE files[q]]
              /\ partial' = (partial \/ worker.action = "RefreshAssets")
              /\ UNCHANGED <<state, worker, events>>
    BY <1>3
  <2>2. /\ worker.at = "files" /\ worker.action \in {"Install", "RefreshAssets"}
        /\ state.urls # 0 /\ state.stage # "readyToReboot"
    BY <1>1, Working DEF Steps, Actions, Progress
  <2>3. p \in Paths /\ Manifest[state.urls][p] \in Versions
    BY <2>2, ReleaseFiles
  <2>4. /\ DOMAIN files' = DOMAIN files \cup {p}
        /\ \A q \in DOMAIN files' : files'[q] \in Versions \cup {0}
    BY <2>1, <2>3 DEF TypeOK
  <2>5. partial' \in BOOLEAN
    BY <2>1 DEF TypeOK
  <2>6. work \/ partial'
    BY <2>1, <2>2 DEF Progress, TypeOK
  <2>7. TypeOK'
    BY <1>1, <2>1, <2>3, <2>4, <2>5 DEF TypeOK
  <2>8. Owners' /\ BusyEnds' /\ Slots' /\ NewImage' /\ PromptMeans'
    BY <1>1, <2>1 DEF Owners, BusyEnds, Slots, NewImage, PromptMeans, Running
  <2>9. Progress' /\ ReadyMeans'
    BY <1>1, <2>1, <2>2 DEF Progress, ReadyMeans
  <2>10. MixedIsMarked' /\ AssetsBeforeFirmware'
    BY <1>1, <2>6 DEF MixedIsMarked, AssetsBeforeFirmware
  <2>11. UserFilesKept'
    BY <2>4 DEF UserFilesKept
  <2> QED BY <2>7, <2>8, <2>9, <2>10, <2>11
<1> QED BY <1>2, <1>3 DEF InstallFile

LEMMA FilesInstalledIInv ==
  ASSUME IInv, FilesInstalled
  PROVE  IInv'
<1> USE DEF IInv
<1>1. /\ At("files") /\ Complete(state.urls)
      /\ partial' = FALSE
      /\ UNCHANGED <<app, state, work, ignored, flash, files, release, events>>
  BY DEF FilesInstalled
<1>2. /\ worker.at = "files" /\ worker.action \in {"Install", "RefreshAssets"}
      /\ state.urls # 0 /\ state.stage # "readyToReboot"
      /\ app.at \in {"loop", "sync"} /\ state.manual = "no"
  BY <1>1, Working DEF Steps, Actions, Progress
<1>3. PICK next \in {"prune", "finish"} :
        Goes(next) /\ (next = "prune" <=> worker.action = "Install")
  <2>1. CASE worker.action = "Install"
    BY <2>1 DEF FilesInstalled
  <2>2. CASE worker.action # "Install"
    BY <2>2 DEF FilesInstalled
  <2> QED BY <2>1, <2>2
<1>4. /\ worker' \in [action : Actions, at : Steps]
      /\ worker'.at = next /\ worker'.action = worker.action
  BY <1>3, Going DEF Steps
<1>5. Complete(state.urls)'
  BY <1>1 DEF Complete, Installed
<1>6. TypeOK'
  BY <1>1, <1>4 DEF TypeOK
<1>7. Owners' /\ BusyEnds' /\ Slots' /\ PromptMeans'
  BY <1>1, <1>2, <1>3, <1>4 DEF Owners, BusyEnds, Slots, PromptMeans, Running
<1>8. Progress'
  BY <1>1, <1>2, <1>3, <1>4, <1>5 DEF Progress
<1>9. NewImage' /\ ReadyMeans'
  BY <1>1, <1>2, <1>3, <1>4 DEF NewImage, ReadyMeans
<1>10. MixedIsMarked'
  <2>1. state.urls \in Versions
    BY <1>2, ReleaseFiles
  <2> QED BY <1>1, <1>5, <2>1 DEF MixedIsMarked
<1>11. AssetsBeforeFirmware'
  BY <1>1, <1>2 DEF AssetsBeforeFirmware, NewImage, Progress
<1>12. UserFilesKept'
  BY <1>1 DEF UserFilesKept
<1> QED BY <1>6, <1>7, <1>8, <1>9, <1>10, <1>11, <1>12

LEMMA PruneIInv ==
  ASSUME IInv, Prune
  PROVE  IInv'
<1> USE DEF IInv
<1>1. /\ At("prune")
      /\ UNCHANGED <<app, state, worker, work, ignored, flash, release, partial, events>>
  BY DEF Prune
<1>2. PICK p \in Obsolete(state.urls) : files' = [q \in DOMAIN files \ {p} |-> files[q]]
  BY DEF Prune
<1>3. /\ worker.at = "prune" /\ work /\ Complete(state.urls) /\ ~partial
      /\ state.urls # 0 /\ state.stage # "readyToReboot"
  BY <1>1, Working DEF Steps, Progress
<1>4. /\ p \notin DOMAIN Manifest[state.urls] /\ p \notin UserFiles
      /\ DOMAIN files' = DOMAIN files \ {p}
      /\ \A q \in DOMAIN files' : q \in DOMAIN files /\ files'[q] = files[q]
  BY <1>2 DEF Obsolete
<1>5. Complete(state.urls)'
  BY <1>1, <1>3, <1>4 DEF Complete, Installed
<1>6. TypeOK'
  BY <1>1, <1>4 DEF TypeOK
<1>7. Owners' /\ BusyEnds' /\ Slots' /\ NewImage' /\ PromptMeans'
  BY <1>1 DEF Owners, BusyEnds, Slots, NewImage, PromptMeans, Running
<1>8. Progress' /\ ReadyMeans'
  BY <1>1, <1>3, <1>5 DEF Progress, ReadyMeans
<1>9. MixedIsMarked' /\ AssetsBeforeFirmware'
  BY <1>1, <1>3 DEF MixedIsMarked, AssetsBeforeFirmware
<1>10. UserFilesKept'
  BY <1>4 DEF UserFilesKept
<1> QED BY <1>6, <1>7, <1>8, <1>9, <1>10

LEMMA PrunedIInv ==
  ASSUME IInv, Pruned
  PROVE  IInv'
<1> USE DEF IInv
<1>1. /\ At("prune") /\ work' = FALSE
      /\ UNCHANGED <<app, ignored, flash, files, release, partial, events>>
  BY DEF Pruned
<1>2. Advances("prune", "firmware", "downloadingFirmware")
  BY DEF Pruned, Advances
<1>3. /\ SameBesides(state, state') /\ state'.stage = "downloadingFirmware"
      /\ worker' \in [action : Actions, at : Steps]
      /\ worker'.at = "firmware" /\ worker'.action = worker.action
      /\ Owners' /\ BusyEnds' /\ ReadyMeans'
  BY <1>1, <1>2, Advancing DEF Stages, Steps, BusyStages
<1>4. /\ worker.at = "prune" /\ worker.action = "Install"
      /\ state.urls # 0 /\ Complete(state.urls) /\ ~partial
  BY <1>1, Working DEF Steps, Progress
<1> USE DEF SameBesides
<1>5. TypeOK'
  BY <1>1, <1>3 DEF TypeOK
<1>6. Progress'
  BY <1>1, <1>3, <1>4 DEF Progress, Complete, Installed
<1>7. Slots' /\ NewImage' /\ PromptMeans'
  BY <1>1, <1>3, <1>4 DEF Slots, NewImage, PromptMeans, Running
<1>8. MixedIsMarked'
  <2>1. state.urls \in Versions
    BY <1>4, ReleaseFiles
  <2> QED BY <1>1, <1>4, <2>1 DEF MixedIsMarked, Complete, Installed
<1>9. AssetsBeforeFirmware'
  BY <1>1, <1>4 DEF AssetsBeforeFirmware, NewImage, Complete, Installed
<1>10. UserFilesKept'
  BY <1>1 DEF UserFilesKept
<1> QED BY <1>3, <1>5, <1>6, <1>7, <1>8, <1>9, <1>10

-----------------------------------------------------------------------------
(* The worker and the firmware                                             *)
LEMMA BeginFirmwareIInv ==
  ASSUME IInv, BeginFirmware
  PROVE  IInv'
<1> USE DEF IInv
<1>1. /\ At("firmware") /\ ~state.pending_verify
      /\ UNCHANGED <<app, work, ignored, files, release, partial>>
  BY DEF BeginFirmware, Confirmed
<1>2. CASE Fails /\ UNCHANGED flash
  BY <1>1, <1>2, FailsFails, FailureIInv DEF Steps
<1>3. CASE flash' = Emptied /\ Goes("write") /\ UNCHANGED <<state, events>>
  <2>1. /\ worker.at = "firmware" /\ worker.action = "Install"
        /\ app.at \in {"loop", "sync"} /\ state.manual = "no"
        /\ state.stage # "readyToReboot"
    BY <1>1, Working DEF Steps, Progress
  <2>2. /\ worker' \in [action : Actions, at : Steps]
        /\ worker'.at = "write" /\ worker'.action = worker.action
    BY <1>3, Going DEF Steps
  <2>3. /\ flash' \in FlashState
        /\ flash'.boot = flash.boot /\ flash'.state = flash.state /\ flash'.running = flash.running
        /\ flash'.slots[flash.running] = flash.slots[flash.running]
        /\ flash'.slots[Other(flash.running)] = Junk
    BY <1>3, Emptying DEF TypeOK
  <2>4. TypeOK'
    BY <1>1, <1>3, <2>2, <2>3 DEF TypeOK
  <2>5. Owners' /\ BusyEnds' /\ ReadyMeans'
    BY <1>1, <1>3, <2>1, <2>2 DEF Owners, BusyEnds, ReadyMeans
  <2>6. Progress'
    BY <1>1, <1>3, <2>1, <2>2 DEF Progress, Complete, Installed
  <2>7. Slots'
    BY <1>1, <1>3, <2>1, <2>3 DEF Slots
  <2>8. NewImage' /\ AssetsBeforeFirmware'
    BY <1>1, <1>3, <2>1, <2>2, <2>3 DEF NewImage, AssetsBeforeFirmware, Slots
  <2>9. PromptMeans'
    BY <1>1, <1>3, <2>3 DEF PromptMeans, Running
  <2>10. MixedIsMarked' /\ UserFilesKept'
    BY <1>1 DEF MixedIsMarked, UserFilesKept, Complete, Installed
  <2> QED BY <2>4, <2>5, <2>6, <2>7, <2>8, <2>9, <2>10
<1> QED BY <1>2, <1>3 DEF BeginFirmware

LEMMA WriteFirmwareIInv ==
  ASSUME IInv, WriteFirmware
  PROVE  IInv'
<1> USE DEF IInv
<1>1. At("write") /\ UNCHANGED <<app, work, ignored, files, release, partial>>
  BY DEF WriteFirmware
<1>2. CASE Fails /\ UNCHANGED flash
  BY <1>1, <1>2, FailsFails, FailureIInv DEF Steps
<1>3. CASE flash' = Flashed(state.urls, "release") /\ Goes("finish") /\ UNCHANGED <<state, events>>
  <2>1. /\ worker.at = "write" /\ worker.action = "Install"
        /\ app.at \in {"loop", "sync"} /\ state.manual = "no"
        /\ state.stage # "readyToReboot" /\ ~state.pending_verify
        /\ state.urls # 0 /\ Complete(state.urls) /\ ~partial
    BY <1>1, Working DEF Steps, Progress, Slots
  <2>2. /\ worker' \in [action : Actions, at : Steps]
        /\ worker'.at = "finish" /\ worker'.action = worker.action
    BY <1>3, Going DEF Steps
  <2>3. worker' = [action |-> "Install", at |-> "finish"]
    BY <2>1, <2>2
  <2>4. /\ flash' \in FlashState
        /\ flash'.boot = Other(flash.running) /\ flash'.state = "new"
        /\ flash'.running = flash.running
        /\ flash'.slots[flash.running] = flash.slots[flash.running]
        /\ flash'.slots[flash'.boot] # Junk
        /\ flash'.slots[flash'.boot].version = state.urls
    BY <1>3, <2>1, ReleaseFiles, Flashing DEF TypeOK
  <2>5. TypeOK'
    BY <1>1, <1>3, <2>2, <2>4 DEF TypeOK
  <2>6. Owners' /\ BusyEnds' /\ ReadyMeans'
    BY <1>1, <1>3, <2>1, <2>2 DEF Owners, BusyEnds, ReadyMeans
  <2>7. Progress'
    BY <1>1, <1>3, <2>1, <2>2 DEF Progress, Complete, Installed
  <2>8. Slots'
    BY <1>1, <1>3, <2>1, <2>2, <2>4 DEF Slots
  <2>9. NewImage'
    BY <1>3, <2>3, <2>4 DEF NewImage
  <2>10. AssetsBeforeFirmware'
    BY <1>1, <2>1, <2>4 DEF AssetsBeforeFirmware, Complete, Installed
  <2>11. PromptMeans'
    BY <1>1, <1>3, <2>4 DEF PromptMeans, Running
  <2>12. MixedIsMarked' /\ UserFilesKept'
    BY <1>1 DEF MixedIsMarked, UserFilesKept, Complete, Installed
  <2> QED BY <2>5, <2>6, <2>7, <2>8, <2>9, <2>10, <2>11, <2>12
<1> QED BY <1>2, <1>3 DEF WriteFirmware

LEMMA FinishWorkIInv ==
  ASSUME IInv, Finish
  PROVE  IInv'
<1> USE DEF IInv
<1>1. /\ At("finish") /\ state' = Ready(state) /\ Goes("exit")
      /\ UNCHANGED <<app, work, ignored, flash, files, release, partial, events>>
  BY DEF Finish
<1>2. /\ state' \in State
      /\ state'.stage = "readyToReboot" /\ ~state'.busy /\ state'.reboot_required
      /\ state'.update_available = state.update_available /\ state'.latest = state.latest
      /\ state'.prompt_pending = state.prompt_pending /\ state'.urls = state.urls
      /\ state'.pending_verify = state.pending_verify /\ state'.manual = state.manual
  BY <1>1, ReadyFacts DEF TypeOK
<1>3. /\ worker' \in [action : Actions, at : Steps]
      /\ worker'.at = "exit" /\ worker'.action = worker.action
  BY <1>1, Going DEF Steps
<1>4. /\ worker.at = "finish" /\ worker.action # "None"
      /\ app.at \in {"loop", "sync"} /\ state.manual = "no"
      /\ state.latest # 0 /\ Complete(state.latest) /\ ~partial
  BY <1>1, Working DEF Steps, Progress
<1>5. TypeOK'
  BY <1>1, <1>2, <1>3 DEF TypeOK
<1>6. Owners' /\ BusyEnds'
  BY <1>1, <1>2, <1>3, <1>4 DEF Owners, BusyEnds
<1>7. Progress' /\ Slots'
  BY <1>1, <1>2, <1>3, <1>4 DEF Progress, Slots
<1>8. NewImage' /\ PromptMeans'
  BY <1>1, <1>2, <1>3, <1>4 DEF NewImage, PromptMeans, Running
<1>9. ReadyMeans'
  BY <1>1, <1>2, <1>3, <1>4 DEF ReadyMeans, Complete, Installed
<1>10. MixedIsMarked' /\ AssetsBeforeFirmware' /\ UserFilesKept'
  BY <1>1 DEF MixedIsMarked, AssetsBeforeFirmware, UserFilesKept, Complete, Installed
<1> QED BY <1>5, <1>6, <1>7, <1>8, <1>9, <1>10

LEMMA WorkerExitIInv ==
  ASSUME IInv, WorkerExit
  PROVE  IInv'
<1> USE DEF IInv
<1>1. /\ worker.at = "exit" /\ worker.action # "None" /\ worker' = Idle
      /\ UNCHANGED <<app, state, work, ignored, flash, files, release, partial, events>>
  BY DEF WorkerExit, At
<1>2. /\ worker' \in [action : Actions, at : Steps]
      /\ worker'.at = "exit" /\ worker'.action = "None"
  BY <1>1 DEF Idle, Actions, Steps
<1>3. TypeOK'
  BY <1>1, <1>2 DEF TypeOK
<1>4. Owners' /\ BusyEnds' /\ Progress'
  BY <1>1, <1>2 DEF Owners, BusyEnds, Progress
<1>5. Slots' /\ NewImage' /\ PromptMeans'
  BY <1>1, <1>2 DEF Slots, NewImage, PromptMeans, Running
<1>6. ReadyMeans'
  BY <1>1, <1>2 DEF ReadyMeans, Complete, Installed
<1>7. MixedIsMarked' /\ AssetsBeforeFirmware' /\ UserFilesKept'
  BY <1>1 DEF MixedIsMarked, AssetsBeforeFirmware, UserFilesKept, Complete, Installed
<1> QED BY <1>3, <1>4, <1>5, <1>6, <1>7

LEMMA WorkerIInv ==
  ASSUME IInv, Worker
  PROVE  IInv'
BY WorkerStartIInv, FetchIInv, ReadManifestIInv, InstallFileIInv, FilesInstalledIInv,
   PruneIInv, PrunedIInv, BeginFirmwareIInv, WriteFirmwareIInv, FinishWorkIInv, WorkerExitIInv
   DEF Worker

-----------------------------------------------------------------------------
(* Power cuts and reboots                                                  *)
LEMMA BegunFacts ==
  ASSUME NEW present, NEW marked \in BOOLEAN, NEW pending \in BOOLEAN, NEW s,
         s = Begun(present, marked, pending)
  PROVE  /\ s \in State /\ s.stage \in {"installingAssets", "idle"} /\ ~s.busy
         /\ ~s.update_available /\ s.latest = 0 /\ ~s.prompt_pending
         /\ s.urls = 0 /\ s.manual = "no" /\ s.pending_verify = pending
<1>1. PICK refresh \in BOOLEAN : refresh = (Probe \notin present)
  <2>1. (Probe \notin present) \in BOOLEAN
    OBVIOUS
  <2> QED BY <2>1, Zenon
<1>2. PICK stage \in {"installingAssets", "idle"} :
        stage = IF marked THEN "installingAssets" ELSE "idle"
  BY Zenon
<1>3. s = [ stage |-> stage,
            busy |-> FALSE, update_available |-> FALSE, latest |-> 0,
            prompt_pending |-> FALSE, reboot_required |-> FALSE,
            check_requested |-> TRUE, first_check_complete |-> FALSE,
            install_requested |-> marked, asset_refresh_requested |-> refresh,
            pending_verify |-> pending, check_due |-> FALSE, snoozed |-> FALSE,
            etag |-> 0, urls |-> 0, manual |-> "no" ]
  BY <1>1, <1>2, Zenon DEF Begun
<1> QED BY <1>3 DEF State, Stages

(* What the bootloader makes of the slots: an image that was confirmed, or *)
(* a new one, to confirm, which leaves the old one to fall back to.        *)
LEMMA BootedFacts ==
  ASSUME flash \in FlashState, Slots, NEW next, next = Booted
  PROVE  /\ next \in FlashState
         /\ next.boot = next.running /\ next.slots[next.running] # Junk
         /\ next.state \in {"valid", "pending"}
         /\ next.state = "pending" => next.slots[Other(next.running)] # Junk
<1>1. /\ flash.boot \in 0 .. 1 /\ flash.running \in 0 .. 1
      /\ Other(flash.boot) \in 0 .. 1 /\ Other(flash.running) \in 0 .. 1
      /\ Other(Other(flash.running)) = flash.running
  BY OtherFacts DEF FlashState
<1>2. CASE Rejected
  <2>1. PICK other : other = Other(flash.boot)
    OBVIOUS
  <2>2. next = [flash EXCEPT !.boot = other, !.running = other, !.state = "valid"]
    BY <1>2, <2>1 DEF Booted
  <2>3. other \in 0 .. 1 /\ flash.slots[other] # Junk
    BY <1>1, <1>2, <2>1 DEF Slots, Rejected, FlashState
  <2>4. /\ next \in FlashState /\ next.boot = other /\ next.running = other
        /\ next.state = "valid" /\ next.slots = flash.slots
    BY <2>2, <2>3 DEF FlashState
  <2> QED BY <2>3, <2>4
<1>3. CASE ~Rejected
  <2>1. PICK confirm \in {"valid", "pending"} :
          /\ confirm = IF flash.state = "new" THEN "pending" ELSE flash.state
          /\ confirm = "pending" => flash.state = "new"
    BY <1>3 DEF Rejected, FlashState
  <2>2. next = [flash EXCEPT !.running = flash.boot, !.state = confirm]
    BY <1>3, <2>1 DEF Booted
  <2>3. /\ next \in FlashState /\ next.boot = flash.boot /\ next.running = flash.boot
        /\ next.state = confirm /\ next.slots = flash.slots
    BY <1>1, <2>1, <2>2 DEF FlashState
  <2>4. /\ flash.slots[flash.boot] # Junk
        /\ confirm = "pending" => flash.slots[Other(flash.boot)] # Junk
    BY <1>1, <1>3, <2>1 DEF Rejected, Slots
  <2> QED BY <2>1, <2>3, <2>4
<1> QED BY <1>2, <1>3

LEMMA RestartIInv ==
  ASSUME IInv, Restart, Uses(1)
  PROVE  IInv'
<1> USE DEF IInv
<1>1. /\ app' = AtLoop /\ worker' = Idle
      /\ UNCHANGED <<work, ignored, files, release, partial>>
  BY DEF Restart
<1>2. /\ flash' \in FlashState
      /\ flash'.boot = flash'.running /\ flash'.slots[flash'.running] # Junk
      /\ flash'.state \in {"valid", "pending"}
      /\ flash'.state = "pending" => flash'.slots[Other(flash'.running)] # Junk
  BY BootedFacts DEF Restart, TypeOK
<1>3. PICK pending \in BOOLEAN : pending = (Booted.state = "pending")
  <2>1. (Booted.state = "pending") \in BOOLEAN
    OBVIOUS
  <2> QED BY <2>1, Zenon
<1>4. /\ state' \in State /\ state'.stage \in {"installingAssets", "idle"} /\ ~state'.busy
      /\ ~state'.update_available /\ state'.latest = 0 /\ ~state'.prompt_pending
      /\ state'.urls = 0 /\ state'.manual = "no" /\ state'.pending_verify = pending
  <2>1. state' = Begun(DOMAIN files, work, pending)
    BY <1>3, Zenon DEF Restart
  <2>2. work \in BOOLEAN
    BY DEF TypeOK
  <2>3. PICK s : s = Begun(DOMAIN files, work, pending)
    OBVIOUS
  <2> QED BY <2>1, <2>2, <2>3, BegunFacts
<1>5. state'.pending_verify <=> flash'.state = "pending"
  BY <1>3, <1>4 DEF Restart
<1>6. /\ app' \in Apps /\ app'.at = "loop"
      /\ worker' \in [action : Actions, at : Steps]
      /\ worker'.at = "exit" /\ worker'.action = "None"
  BY <1>1 DEF AtLoop, Apps, Idle, Actions, Steps
<1>7. TypeOK'
  BY <1>1, <1>2, <1>4, <1>6, UsesType DEF TypeOK, Apps
<1>8. Owners' /\ BusyEnds' /\ Progress'
  BY <1>4, <1>6 DEF Owners, BusyEnds, Progress
<1>9. Slots'
  BY <1>2, <1>4, <1>5, <1>6 DEF Slots
<1>10. NewImage' /\ ReadyMeans' /\ PromptMeans'
  BY <1>2, <1>4, <1>6 DEF NewImage, ReadyMeans, PromptMeans
<1>11. MixedIsMarked' /\ UserFilesKept'
  BY <1>1 DEF MixedIsMarked, UserFilesKept, Complete, Installed
<1>12. AssetsBeforeFirmware'
  BY <1>2 DEF AssetsBeforeFirmware
<1> QED BY <1>7, <1>8, <1>9, <1>10, <1>11, <1>12

-----------------------------------------------------------------------------
(* The environment                                                         *)
LEMMA PublishIInv ==
  ASSUME IInv, Publish
  PROVE  IInv'
<1> USE DEF IInv
<1>1. /\ release' \in Versions
      /\ UNCHANGED <<app, state, worker, work, ignored, flash, files, partial, events>>
  BY DEF Publish
<1>2. TypeOK' /\ Owners' /\ BusyEnds' /\ Slots' /\ NewImage' /\ PromptMeans'
  BY <1>1 DEF TypeOK, Owners, BusyEnds, Slots, NewImage, PromptMeans, Running
<1>3. Progress' /\ ReadyMeans'
  BY <1>1 DEF Progress, ReadyMeans, Complete, Installed
<1>4. MixedIsMarked' /\ AssetsBeforeFirmware' /\ UserFilesKept'
  BY <1>1 DEF MixedIsMarked, AssetsBeforeFirmware, UserFilesKept, Complete, Installed
<1> QED BY <1>2, <1>3, <1>4

LEMMA DayPassesIInv ==
  ASSUME IInv, DayPasses
  PROVE  IInv'
<1> USE DEF IInv
<1>1. UNCHANGED <<app, worker, work, ignored, flash, files, release, partial, events>>
  BY DEF DayPasses
<1>2. /\ SameBesides(state, state') /\ state'.stage = state.stage
      /\ state'.busy = state.busy
  <2>1. PICK snoozed \in BOOLEAN :
          state' = [state EXCEPT !.check_due = state.first_check_complete, !.snoozed = snoozed]
    BY DEF DayPasses
  <2> QED BY <2>1 DEF SameBesides, TypeOK, State
<1> USE DEF SameBesides
<1>3. TypeOK' /\ Owners' /\ BusyEnds' /\ Slots' /\ NewImage' /\ PromptMeans'
  BY <1>1, <1>2 DEF TypeOK, Owners, BusyEnds, Slots, NewImage, PromptMeans, Running
<1>4. Progress' /\ ReadyMeans'
  BY <1>1, <1>2 DEF Progress, ReadyMeans, Complete, Installed
<1>5. MixedIsMarked' /\ AssetsBeforeFirmware' /\ UserFilesKept'
  BY <1>1 DEF MixedIsMarked, AssetsBeforeFirmware, UserFilesKept, Complete, Installed
<1> QED BY <1>3, <1>4, <1>5

-----------------------------------------------------------------------------
(* The invariant is inductive                                              *)
LEMMA InitIInv ==
  ASSUME Init
  PROVE  IInv
<1> USE DEF IInv
<1>1. /\ state \in State /\ state.stage = "idle" /\ ~state.busy
      /\ ~state.update_available /\ state.latest = 0 /\ ~state.prompt_pending
      /\ state.urls = 0 /\ state.manual = "no" /\ ~state.pending_verify
  <2>1. state = Begun(DOMAIN files, FALSE, FALSE)
    BY DEF Init
  <2>2. state.stage = "idle"
    BY <2>1 DEF Begun
  <2> QED BY <2>1, <2>2, BegunFacts
<1>2. /\ app \in Apps /\ app.at = "loop"
      /\ worker \in [action : Actions, at : Steps]
      /\ worker.at = "exit" /\ worker.action = "None"
  BY DEF Init, AtLoop, Apps, Idle, Actions, Steps
<1>3. /\ flash \in FlashState /\ flash.boot = 0 /\ flash.running = 0
      /\ flash.state = "valid" /\ flash.slots[0] # Junk
  <2>1. PICK image : image = [version |-> 1, origin |-> "release"]
    OBVIOUS
  <2>2. image \in Images /\ image # Junk
    BY <2>1, VersionFacts, ImageFacts
  <2>3. flash = [ slots |-> [slot \in 0 .. 1 |-> IF slot = 0 THEN image ELSE Junk],
                  boot |-> 0, state |-> "valid", running |-> 0 ]
    BY <2>1 DEF Init
  <2> QED BY <2>2, <2>3 DEF FlashState
<1>4. /\ work = FALSE /\ ignored = 0 /\ release = 0 /\ events = 0
      /\ partial = (files = Added)
  BY DEF Init
<1>5. /\ DOMAIN files \subseteq Paths \cup UserFiles /\ UserFiles \subseteq DOMAIN files
      /\ \A p \in DOMAIN files : files[p] \in Versions \cup {0}
      /\ files = Added \/ Complete(1)
  <2>1. files = Added \/ files = Shipped
    BY Zenon DEF Init
  <2>2. CASE files = Added
    BY <2>2 DEF Added
  <2>3. CASE files = Shipped
    <3>1. /\ DOMAIN files = UserFiles \cup DOMAIN Manifest[1]
          /\ \A p \in DOMAIN files : files[p] = IF p \in UserFiles THEN 0 ELSE Manifest[1][p]
      BY <2>3 DEF Shipped
    <3>2. \A p \in DOMAIN Manifest[1] :
             p \in Paths /\ p \notin UserFiles /\ Manifest[1][p] \in Versions
      BY VersionFacts, UserFilesAssumption
    <3> QED BY <3>1, <3>2 DEF Complete, Installed
  <2> QED BY <2>1, <2>2, <2>3
<1>6. TypeOK
  <2>1. partial \in BOOLEAN
    <3>1. (files = Added) \in BOOLEAN
      OBVIOUS
    <3> QED BY <1>4, <3>1, Zenon
  <2>2. events \in 0 .. MaxEvents
    BY <1>4, FeaturesAssumption
  <2> QED BY <1>1, <1>2, <1>3, <1>4, <1>5, <2>1, <2>2 DEF TypeOK, Apps
<1>7. Owners /\ BusyEnds /\ Progress
  BY <1>1, <1>2 DEF Owners, BusyEnds, Progress
<1>8. Slots /\ NewImage
  BY <1>1, <1>2, <1>3 DEF Slots, NewImage
<1>9. ReadyMeans /\ PromptMeans
  BY <1>1 DEF ReadyMeans, PromptMeans
<1>10. MixedIsMarked /\ UserFilesKept
  BY <1>4, <1>5, VersionFacts DEF MixedIsMarked, UserFilesKept
<1>11. AssetsBeforeFirmware
  BY <1>3 DEF AssetsBeforeFirmware
<1> QED BY <1>6, <1>7, <1>8, <1>9, <1>10, <1>11

LEMMA NextIInv ==
  ASSUME IInv, [Next]_vars
  PROVE  IInv'
<1>0. TypeOK
  BY DEF IInv
<1>1. CASE TickAny
  <2>1. PICK place \in {"clock", "fetching", "page", "elsewhere"}, online \in BOOLEAN,
             elapsed \in BOOLEAN, created \in Creations :
                Tick(place, online, elapsed, created)
    BY <1>1, Zenon DEF TickAny
  <2> QED BY <1>0, <2>1, CostType, TickRequested, RequestedIInv
<1>2. CASE Sync \/ Click \/ Serve
  BY <1>0, <1>2, SyncRequested, ClickRequested, ServeRequested, RequestedIInv
<1>3. CASE Reboot \/ PowerCut
  BY <1>3, RestartIInv DEF Reboot, PowerCut
<1>4. CASE beginManualFirmware \/ writeManualFirmware \/ abortManualFirmware \/ finishManualFirmware
  BY <1>4, BeginIInv, WriteIInv, AbortIInv, FinishIInv
<1>5. CASE Worker
  BY <1>5, WorkerIInv
<1>6. CASE Publish \/ DayPasses
  BY <1>6, PublishIInv, DayPassesIInv
<1>7. CASE UNCHANGED vars
  <2> USE <1>7 DEF IInv, vars
  <2>1. TypeOK' /\ Owners' /\ BusyEnds' /\ Slots' /\ NewImage' /\ PromptMeans'
    BY DEF TypeOK, Owners, BusyEnds, Slots, NewImage, PromptMeans, Running
  <2>2. Progress' /\ ReadyMeans'
    BY DEF Progress, ReadyMeans, Complete, Installed
  <2>3. MixedIsMarked' /\ AssetsBeforeFirmware' /\ UserFilesKept'
    BY DEF MixedIsMarked, AssetsBeforeFirmware, UserFilesKept, Complete, Installed
  <2> QED BY <2>1, <2>2, <2>3
<1> QED BY <1>1, <1>2, <1>3, <1>4, <1>5, <1>6, <1>7 DEF Next

-----------------------------------------------------------------------------
(* Theorems                                                                *)
LEMMA Invariance == Spec => []IInv
<1>1. Init => IInv
  BY InitIInv
<1>2. IInv /\ [Next]_vars => IInv'
  BY NextIInv
<1> QED BY <1>1, <1>2, PTL DEF Spec

(* Every variable of the update keeps its type.                            *)
THEOREM TypeCorrect == Spec => []TypeOK
<1>1. IInv => TypeOK
  BY DEF IInv
<1> QED BY <1>1, Invariance, PTL

(* No upload is open while the worker has work: the Update library serves  *)
(* one of them at a time, however requests, ticks and uploads interleave.  *)
THEOREM OneFlasherHolds == Spec => []OneFlasher
<1>1. IInv => OneFlasher
  <2> SUFFICES ASSUME IInv, state.manual # "no" PROVE worker = Idle
    BY DEF OneFlasher
  <2>1. worker.action = "None" /\ worker.at = "exit"
    BY DEF IInv, Owners
  <2>2. worker \in [action : Actions, at : Steps]
    BY DEF IInv, TypeOK
  <2> QED BY <2>1, <2>2 DEF Idle
<1> QED BY <1>1, Invariance, PTL

(* busy has an owner who will clear it, as long as no upload is shorter    *)
(* than a firmware header (such a one leaves busy set).                    *)
THEOREM BusyIsOwned ==
  ASSUME "short" \notin Features
  PROVE  Spec => []BusyHasAnOwner
<1>1. IInv => BusyHasAnOwner
  BY DEF IInv, BusyEnds, BusyHasAnOwner, Idle
<1> QED BY <1>1, Invariance, PTL

(* Wherever in a download, an upload or its first ten seconds the power is *)
(* cut, the bootloader starts a valid image.                               *)
THEOREM BootsAlways == Spec => []AlwaysBoots
<1>1. IInv => AlwaysBoots
  <2> SUFFICES ASSUME IInv PROVE AlwaysBoots
    OBVIOUS
  <2>1. PICK next : next = Booted
    OBVIOUS
  <2>2. next.boot = next.running /\ next.slots[next.running] # Junk
    BY <2>1, BootedFacts DEF IInv, TypeOK
  <2> QED BY <2>1, <2>2 DEF AlwaysBoots, NextImage
<1> QED BY <1>1, Invariance, PTL

(* The assets on LittleFS are those of one release, or the marker says     *)
(* that an installation must go on, or a refresh was begun.                *)
THEOREM MixedAssetsAreMarked == Spec => []MixedIsMarked
<1>1. IInv => MixedIsMarked
  BY DEF IInv
<1> QED BY <1>1, Invariance, PTL

(* An update selects its firmware only once the firmware's assets are in   *)
(* place, so that the new image starts with them.                          *)
THEOREM AssetsComeFirst == Spec => []AssetsBeforeFirmware
<1>1. IInv => AssetsBeforeFirmware
  BY DEF IInv
<1> QED BY <1>1, Invariance, PTL

(* "Reboot to finish" keeps its promise: the reboot starts another image,  *)
(* or the latest release's assets are in place.                            *)
THEOREM ReadyKeepsItsPromise == Spec => []ReadyIsTrue
<1>1. IInv => ReadyIsTrue
  <2> SUFFICES ASSUME IInv, state.stage = "readyToReboot", flash.state = "new",
                      flash.slots[flash.boot] # Junk
               PROVE  Booted.running # flash.running
    BY DEF IInv, ReadyMeans, ReadyIsTrue
  <2>1. flash \in FlashState /\ flash.boot = Other(flash.running)
    BY DEF IInv, TypeOK, Slots
  <2>2. flash.running \in 0 .. 1 /\ Other(flash.running) # flash.running
    BY <2>1, OtherFacts DEF FlashState
  <2>3. ~Rejected
    BY DEF Rejected
  <2>4. PICK next : next = Booted
    OBVIOUS
  <2>5. next = [flash EXCEPT !.running = flash.boot, !.state = "pending"]
    BY <2>1, <2>3, <2>4 DEF Booted, FlashState
  <2>6. next.running = flash.boot
    BY <2>1, <2>5 DEF FlashState
  <2> QED BY <2>1, <2>2, <2>4, <2>6
<1> QED BY <1>1, Invariance, PTL

(* The page that opens by itself is about a newer release that the user    *)
(* has not chosen to ignore, though worker and application both write the  *)
(* prompt between the tick that decides and the call that consumes it.     *)
THEOREM PromptIsAlwaysDue == Spec => []PromptIsDue
<1>1. IInv => PromptIsDue
  BY DEF IInv, PromptMeans, PromptIsDue
<1> QED BY <1>1, Invariance, PTL

(* The files the user added outlive every update, refresh and power cut.   *)
THEOREM UserFilesStay == Spec => []UserFilesKept
<1>1. IInv => UserFilesKept
  BY DEF IInv
<1> QED BY <1>1, Invariance, PTL

-----------------------------------------------------------------------------
(* The firmware and its assets as promised                                 *)

(* What the next start runs, by the state of the slot that is selected.    *)
NextMeans ==
    /\ flash.state = "valid" => NextImage = flash.slots[flash.running] /\ ~Untried
    /\ flash.state = "pending" =>
          NextImage = flash.slots[Other(flash.running)] /\ ~Untried
    /\ flash.state = "new" =>
          /\ flash.boot = Other(flash.running)
          /\ Untried => NextImage = flash.slots[flash.boot]
          /\ ~Untried => NextImage = flash.slots[flash.running]
    /\ flash.slots[flash.running] \in Images /\ NextImage \in Images

LEMMA NextImages == IInv => NextMeans
<1> SUFFICES ASSUME IInv PROVE NextMeans
  OBVIOUS
<1>1. flash \in FlashState /\ Slots
  BY DEF IInv, TypeOK
<1>2. /\ flash.boot \in 0 .. 1 /\ flash.running \in 0 .. 1
      /\ Other(flash.running) \in 0 .. 1
      /\ Other(Other(flash.running)) = flash.running
  BY <1>1, OtherFacts DEF FlashState
<1>3. PICK b : b = Booted
  OBVIOUS
<1>4. /\ b \in FlashState /\ b.slots[b.boot] # Junk
  BY <1>1, <1>3, BootedFacts
<1>5. b.slots = flash.slots /\ b.boot = IF Rejected THEN Other(flash.boot) ELSE flash.boot
  BY <1>1, <1>3 DEF Booted, FlashState
<1>6. NextImage = flash.slots[IF Rejected THEN Other(flash.boot) ELSE flash.boot]
  BY <1>3, <1>5 DEF NextImage
<1>7. flash.slots[flash.running] \in Images /\ NextImage \in Images
  BY <1>1, <1>2, <1>3, <1>4 DEF FlashState, Slots, NextImage
<1>8. CASE flash.state = "valid"
  BY <1>1, <1>6, <1>7, <1>8 DEF NextMeans, Slots, Rejected, Untried
<1>9. CASE flash.state = "pending"
  BY <1>1, <1>6, <1>7, <1>9 DEF NextMeans, Slots, Rejected, Untried
<1>10. CASE flash.state = "new"
  BY <1>1, <1>2, <1>6, <1>7, <1>10 DEF NextMeans, Slots, Rejected, Untried
<1> QED BY <1>1, <1>8, <1>9, <1>10 DEF FlashState

(* The firmware or the assets as they were, after a step of the other.     *)
LEMMA SameFirmware ==
  ASSUME flash' = flash
  PROVE  flash.slots[flash.running]' = flash.slots[flash.running] /\ NextImage' = NextImage /\ Untried' = Untried
BY DEF NextImage, Untried, Booted, Rejected

LEMMA SameAssets ==
  ASSUME UNCHANGED <<work, files, partial>>
  PROVE  CompleteAssets' = CompleteAssets /\ Replacing' = Replacing
BY DEF CompleteAssets, Replacing, Complete, Installed

LEMMA StepInit == Init => Update!Init
<1> SUFFICES ASSUME Init PROVE Update!Init
  OBVIOUS
<1>1. IInv
  BY InitIInv
<1>2. NextMeans
  BY <1>1, NextImages
<1>3. flash.state = "valid"
  BY DEF Init
<1>4. flash.slots[flash.running] \in Update!Images
  BY <1>2 DEF NextMeans, Images, Update!Images
<1>5. Replacing \in BOOLEAN /\ (Replacing \/ CompleteAssets # {})
  BY <1>1 DEF IInv, TypeOK, Replacing, CompleteAssets, MixedIsMarked
<1>6. CompleteAssets \subseteq Versions
  BY DEF CompleteAssets
<1> QED BY <1>2, <1>3, <1>4, <1>5, <1>6 DEF Update!Init, NextMeans

(* A step that leaves the flash alone and changes files only on record.    *)
LEMMA AssetsStep ==
  ASSUME IInv, IInv', flash' = flash, files' = files \/ Replacing'
  PROVE  [Update!Next]_Update!vars
<1>1. /\ flash.slots[flash.running]' = flash.slots[flash.running]
      /\ NextImage' = NextImage /\ Untried' = Untried
  BY SameFirmware
<1>2. Replacing \in BOOLEAN /\ Replacing' \in BOOLEAN
  BY DEF IInv, TypeOK, Replacing
<1>3. CASE Replacing'
  <2>1. CompleteAssets' \in SUBSET Versions
    BY DEF CompleteAssets
  <2> QED BY <1>1, <1>2, <1>3, <2>1 DEF Update!Next, Update!Replace
<1>4. CASE ~Replacing'
  <2>1. CompleteAssets' = CompleteAssets
    BY <1>4 DEF CompleteAssets, Complete, Installed
  <2>2. CASE ~Replacing
    BY <1>1, <1>2, <1>4, <2>1, <2>2 DEF Update!vars
  <2>3. CASE Replacing
    <3>1. CompleteAssets # {}
      BY <1>4, <2>1 DEF IInv, MixedIsMarked, Replacing, CompleteAssets
    <3>2. NextMeans /\ (NextMeans)'
      BY NextImages, PTL
    <3>3. Untried => Update!Fits(NextImage, CompleteAssets)
      <4> SUFFICES ASSUME Untried PROVE Update!Fits(NextImage, CompleteAssets)
        OBVIOUS
      <4>1. /\ flash.state = "new" /\ flash.slots[flash.boot] # Junk
            /\ NextImage = flash.slots[flash.boot] /\ NextImage \in Images
        BY <3>2 DEF NextMeans, Untried
      <4>2. files' = files /\ ~work' /\ ~partial'
        BY <1>4 DEF Replacing
      <4>3. NextImage.origin = "upload" \/ Complete(NextImage.version)
        BY <4>1, <4>2 DEF IInv, AssetsBeforeFirmware, Complete, Installed
      <4>4. NextImage.origin = "upload" \/ NextImage.version \in CompleteAssets
        BY <4>1, <4>3 DEF Images, CompleteAssets
      <4> QED BY <4>4 DEF Update!Fits
    <3> QED BY <1>1, <1>2, <1>4, <2>1, <2>3, <3>1, <3>3 DEF Update!Next, Update!Close
  <2> QED BY <2>2, <2>3
<1> QED BY <1>2, <1>3, <1>4

(* Steps of the flash that leave the assets alone.                         *)
LEMMA ConfirmStep ==
  ASSUME IInv, IInv', flash.state = "pending", flash' = [flash EXCEPT !.state = "valid"],
         UNCHANGED <<work, files, partial>>
  PROVE  [Update!Next]_Update!vars
<1>1. CompleteAssets' = CompleteAssets /\ Replacing' = Replacing
  BY SameAssets
<1>2. NextMeans'
  BY NextImages, PTL
<1>3. flash'.running = flash.running /\ flash'.slots = flash.slots /\ flash'.state = "valid"
  BY Confirming DEF IInv, TypeOK
<1>4. flash.slots[flash.running]' = flash.slots[flash.running]
  BY <1>3
<1>5. NextImage' = flash.slots[flash.running] /\ Untried' = FALSE
  BY <1>2, <1>3 DEF NextMeans, Untried
<1> QED BY <1>1, <1>4, <1>5 DEF Update!Next, Update!Settle

LEMMA EmptyStep ==
  ASSUME IInv, IInv', ~state.pending_verify, flash' = Emptied,
         UNCHANGED <<work, files, partial>>
  PROVE  [Update!Next]_Update!vars
<1>1. CompleteAssets' = CompleteAssets /\ Replacing' = Replacing
  BY SameAssets
<1>2. NextMeans'
  BY NextImages, PTL
<1>3. /\ flash'.boot = flash.boot /\ flash'.state = flash.state /\ flash'.running = flash.running
      /\ flash'.slots[flash.running] = flash.slots[flash.running]
      /\ flash'.slots[Other(flash.running)] = Junk
  BY Emptying DEF IInv, TypeOK
<1>4. flash.slots[flash.running]' = flash.slots[flash.running]
  BY <1>3
<1>5. flash'.state \in {"valid", "new"}
  BY <1>3 DEF IInv, TypeOK, FlashState, Slots
<1>6. NextImage' = flash.slots[flash.running] /\ Untried' = FALSE
  BY <1>2, <1>3, <1>4, <1>5 DEF NextMeans, Untried
<1> QED BY <1>1, <1>4, <1>6 DEF Update!Next, Update!Settle

LEMMA FlashStep ==
  ASSUME IInv, IInv', NEW version \in Versions, NEW origin \in {"release", "upload"},
         flash' = Flashed(version, origin),
         origin = "release" => ~Replacing /\ Complete(version),
         UNCHANGED <<work, files, partial>>
  PROVE  [Update!Next]_Update!vars
<1>1. CompleteAssets' = CompleteAssets /\ Replacing' = Replacing
  BY SameAssets
<1>2. NextMeans'
  BY NextImages, PTL
<1>3. /\ flash'.state = "new" /\ flash'.running = flash.running
      /\ flash'.slots[flash.running] = flash.slots[flash.running]
      /\ flash'.slots[flash'.boot] # Junk
      /\ flash'.slots[flash'.boot].version = version
      /\ flash'.slots[flash'.boot].origin = origin
  BY Flashing DEF IInv, TypeOK
<1>4. flash.slots[flash.running]' = flash.slots[flash.running]
  BY <1>3
<1>5. Untried' = TRUE /\ NextImage' = flash'.slots[flash'.boot] /\ NextImage' \in Images
  BY <1>2, <1>3 DEF NextMeans, Untried
<1>6. NextImage' = [version |-> version, origin |-> origin]
  BY <1>3, <1>5 DEF Images
<1>7. Update!Write([version |-> version, origin |-> origin])
  BY <1>1, <1>4, <1>5, <1>6 DEF Update!Write
<1>8. CASE origin = "upload"
  BY <1>7, <1>8 DEF Update!Next, Update!Upload
<1>9. CASE origin = "release"
  <2>1. version \in CompleteAssets
    BY <1>9 DEF CompleteAssets
  <2> QED BY <1>7, <1>9, <2>1 DEF Update!Next, Update!Select
<1> QED BY <1>8, <1>9

LEMMA RestartStep ==
  ASSUME IInv, IInv', Restart
  PROVE  [Update!Next]_Update!vars
<1>1. flash' = Booted /\ UNCHANGED <<work, files, partial>>
  BY DEF Restart
<1>2. CompleteAssets' = CompleteAssets /\ Replacing' = Replacing
  BY <1>1, SameAssets
<1>3. NextMeans /\ NextMeans'
  BY NextImages, PTL
<1>4. flash \in FlashState /\ Slots
  BY DEF IInv, TypeOK
<1>5. flash'.boot = flash'.running /\ flash'.state \in {"valid", "pending"}
  BY <1>1, <1>4, BootedFacts
<1>6. /\ flash'.slots = flash.slots
      /\ flash'.state = "pending" => Untried /\ flash'.running = flash.boot
      /\ Untried => flash'.state = "pending"
  BY <1>1, <1>4 DEF Booted, Rejected, FlashState, Slots, Untried
<1>7. flash.slots[flash.running]' = NextImage
  BY <1>1, <1>5 DEF NextImage
<1>8. Untried' = FALSE
  BY <1>5 DEF Untried
<1>9. NextImage' = IF Untried THEN flash.slots[flash.running] ELSE NextImage
  <2>1. CASE Untried
    <3>1. flash.state = "new" /\ flash.boot = Other(flash.running)
      BY <1>3, <2>1 DEF NextMeans, Untried
    <3>2. flash.running \in 0 .. 1 /\ Other(Other(flash.running)) = flash.running
      BY <1>4, OtherFacts DEF FlashState
    <3> QED BY <1>3, <1>6, <2>1, <3>1, <3>2 DEF NextMeans
  <2>2. CASE ~Untried
    BY <1>3, <1>5, <1>6, <1>7, <2>2 DEF NextMeans
  <2> QED BY <2>1, <2>2
<1> QED BY <1>2, <1>7, <1>8, <1>9 DEF Update!Next, Update!Restart

LEMMA RequestedStep ==
  ASSUME IInv, IInv', Requested
  PROVE  [Update!Next]_Update!vars
<1>1. UNCHANGED <<work, files, release, partial>>
  BY DEF Requested
<1>2. CASE flash' = flash
  BY <1>1, <1>2, AssetsStep
<1>3. CASE state.pending_verify /\ flash' = [flash EXCEPT !.state = "valid"]
  BY <1>1, <1>3, ConfirmStep DEF IInv, Slots
<1> QED BY <1>2, <1>3 DEF Requested

LEMMA UploadStep ==
  ASSUME IInv, IInv',
         beginManualFirmware \/ writeManualFirmware \/ abortManualFirmware \/ finishManualFirmware
  PROVE  [Update!Next]_Update!vars
<1>1. UNCHANGED <<work, files, partial>>
  BY DEF beginManualFirmware, writeManualFirmware, abortManualFirmware, finishManualFirmware
<1>2. CASE flash' = flash
  BY <1>1, <1>2, AssetsStep
<1>3. CASE writeManualFirmware /\ flash' = Emptied
  BY <1>1, <1>3, EmptyStep DEF IInv, Slots, writeManualFirmware
<1>4. CASE \E v \in Versions : flash' = Flashed(v, "upload")
  BY <1>1, <1>4, FlashStep
<1> QED BY <1>2, <1>3, <1>4
       DEF beginManualFirmware, writeManualFirmware, abortManualFirmware, finishManualFirmware

LEMMA WorkerStep ==
  ASSUME IInv, IInv', Worker
  PROVE  [Update!Next]_Update!vars
<1>1. CASE WorkerStart \/ Fetch \/ ReadManifest \/ FilesInstalled \/ Pruned \/ Finish \/ WorkerExit
  BY <1>1, AssetsStep
     DEF WorkerStart, Fetch, ReadManifest, FilesInstalled, Pruned, Finish, WorkerExit
<1>2. CASE InstallFile
  <2>1. flash' = flash /\ work' = work /\ At("files")
    BY <1>2 DEF InstallFile
  <2>2. CASE UNCHANGED files
    BY <2>1, <2>2, AssetsStep
  <2>3. CASE partial' = (partial \/ worker.action = "RefreshAssets")
    <3>1. worker.action \in {"Install", "RefreshAssets"} /\ worker.at = "files"
      BY <2>1, Working DEF IInv, Steps, Actions, Progress
    <3>2. Replacing'
      BY <2>1, <2>3, <3>1 DEF Replacing, IInv, TypeOK, Progress
    <3> QED BY <2>1, <3>2, AssetsStep
  <2> QED BY <1>2, <2>2, <2>3 DEF InstallFile
<1>3. CASE Prune
  <2>1. flash' = flash /\ work' = work /\ At("prune")
    BY <1>3 DEF Prune
  <2>2. work
    BY <2>1, Working DEF IInv, Steps, Progress
  <2> QED BY <2>1, <2>2, AssetsStep DEF Replacing
<1>4. CASE BeginFirmware
  <2>1. UNCHANGED <<work, files, partial>> /\ ~state.pending_verify
    BY <1>4 DEF BeginFirmware, Confirmed
  <2> QED BY <1>4, <2>1, AssetsStep, EmptyStep DEF BeginFirmware
<1>5. CASE WriteFirmware
  <2>1. UNCHANGED <<work, files, partial>> /\ At("write")
    BY <1>5 DEF WriteFirmware
  <2>2. state.urls # 0 /\ Complete(state.urls) /\ ~partial /\ ~work
    BY <2>1, Working DEF IInv, Steps, Progress
  <2>3. state.urls \in Versions
    BY <2>2, ReleaseFiles DEF IInv
  <2>4. CASE flash' = flash
    BY <2>1, <2>4, AssetsStep
  <2>5. CASE flash' = Flashed(state.urls, "release")
    BY <2>1, <2>2, <2>3, <2>5, FlashStep DEF Replacing
  <2> QED BY <1>5, <2>4, <2>5 DEF WriteFirmware
<1> QED BY <1>1, <1>2, <1>3, <1>4, <1>5 DEF Worker

LEMMA NextStep ==
  ASSUME IInv, IInv', [Next]_vars
  PROVE  [Update!Next]_Update!vars
<1>0. TypeOK
  BY DEF IInv
<1>1. CASE TickAny
  <2>1. PICK place \in {"clock", "fetching", "page", "elsewhere"}, online \in BOOLEAN,
             elapsed \in BOOLEAN, created \in Creations :
                Tick(place, online, elapsed, created)
    BY <1>1, Zenon DEF TickAny
  <2> QED BY <1>0, <2>1, CostType, TickRequested, RequestedStep
<1>2. CASE Sync \/ Click \/ Serve
  BY <1>0, <1>2, SyncRequested, ClickRequested, ServeRequested, RequestedStep
<1>3. CASE Reboot \/ PowerCut
  BY <1>3, RestartStep DEF Reboot, PowerCut
<1>4. CASE beginManualFirmware \/ writeManualFirmware \/ abortManualFirmware \/ finishManualFirmware
  BY <1>4, UploadStep
<1>5. CASE Worker
  BY <1>5, WorkerStep
<1>6. CASE Publish \/ DayPasses \/ UNCHANGED vars
  BY <1>6, AssetsStep DEF Publish, DayPasses, vars
<1> QED BY <1>1, <1>2, <1>3, <1>4, <1>5, <1>6 DEF Next

(* The update keeps the promise of FirmwareUpdate: every step of the       *)
(* worker, the application, an upload or a power cut is one of its steps   *)
(* or changes nothing that it speaks of.                                   *)
THEOREM UpdateKeepsItsPromise == Spec => ImplementsFirmwareUpdate
<1>1. Init => Update!Init
  BY StepInit
<1>2. IInv /\ IInv' /\ [Next]_vars => [Update!Next]_Update!vars
  BY NextStep
<1> QED BY <1>1, <1>2, Invariance, PTL DEF Spec, Update!Spec, ImplementsFirmwareUpdate
=============================================================================
