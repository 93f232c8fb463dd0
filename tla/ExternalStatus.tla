---------------------------- MODULE ExternalStatus ----------------------------
(***************************************************************************)
(* From a sidecar's verdict to the models a router offers: the status      *)
(* poller, the projection of a verdict onto its row, its expiry, the       *)
(* outage alert and the catalogue, beside the operator's mutations         *)
(* (external-endpoints/*.ts), in one pod and, during a rolling update,     *)
(* beside another that polls its own sidecar over the same database.       *)
(*                                                                         *)
(* One endpoint: a pass handles each row by itself, and a rebuild replaces *)
(* the whole catalogue.  A step is what runs between two awaits.  The      *)
(* sidecar answers with any verdict its configuration allows, as old as it *)
(* likes, or not at all.                                                   *)
(***************************************************************************)
EXTENDS Naturals, FiniteSets

CONSTANTS
    Grace,          \* verdictGraceMs
    AttestWindow,   \* verdictAttestWindowMs
    AfterFailures,  \* OutageThresholds; zero disables either
    AfterNoSuccess,
    Urls,           \* where the endpoint can be pointed
    None,
    MaxTime,        \* bound on the clock
    MaxEvents       \* bound on mutations, failing queries, crashes and writes of the other pod

ASSUME StatusAssumption ==
    /\ {Grace, AttestWindow} \subseteq Nat \ {0}
    /\ {AfterFailures, AfterNoSuccess, MaxTime, MaxEvents} \subseteq Nat
    /\ None \notin Nat \cup Urls /\ Urls # {}

VARIABLES
    clock, events,
    row,    \* the row of the endpoint, with the url its verdict was formed about
    side,   \* the configuration the sidecar has taken up
    pod,    \* the router: its pass, its maps and its catalogue
    admin   \* the mutation in progress, or the last one

vars == <<clock, events, row, side, pod, admin>>

Times == 0 .. MaxTime \cup {None}
Rows == [enabled : BOOLEAN, status : {"pending", "verified", "denied", "disabled"}, url : Urls,
         pinned : BOOLEAN, since : Times, checked : Times, failures : 0 .. AfterFailures,
         vouched : Urls \cup {None}]

ASSUME NoneAssumption == None \notin Rows

\* PENDING_VERDICT
Cleared(r) == [r EXCEPT !.status = "pending", !.checked = None, !.failures = 0, !.vouched = None]

NotHeld == [url |-> None, pinned |-> FALSE]
Down == [pc |-> "down", now |-> None, left |-> None, confirmed |-> None,
         alerted |-> None, catalog |-> FALSE, built |-> FALSE, sync |-> FALSE, clean |-> FALSE]
Resting(d) == [d EXCEPT !.pc = "idle", !.now = None, !.left = None, !.built = FALSE,
                        !.sync = FALSE, !.clean = FALSE]
NoOp == [pc |-> "idle", op |-> "none", built |-> FALSE]

\* Registered at time zero, with its deployment approved; no check has run.
Init ==
    /\ clock = 0 /\ events = 0
    /\ row = [enabled |-> TRUE, status |-> "pending", url |-> CHOOSE u \in Urls : TRUE, pinned |-> TRUE,
              since |-> 0, checked |-> None, failures |-> 0, vouched |-> None]
    /\ side = NotHeld
    /\ pod = Down
    /\ admin = NoOp

\* One of the bounded events.
Happens == events < MaxEvents /\ events' = events + 1

Tick ==
    /\ clock < MaxTime
    /\ clock' = clock + 1
    /\ UNCHANGED <<events, row, side, pod, admin>>

-----------------------------------------------------------------------------
(* The sidecar *)

Rendered == IF row.enabled THEN [url |-> row.url, pinned |-> row.pinned] ELSE NotHeld

\* It takes up what was rendered.
Reload ==
    /\ side # Rendered
    /\ side' = Rendered
    /\ UNCHANGED <<clock, events, row, pod, admin>>

\* What it may say of the endpoint, if it runs on one: no report until its first
\* check after a reload, then the last check, which may be long ago.
Verdicts(c) ==
    IF c = NotHeld THEN {}
    ELSE [url : {c.url}, result : {"attesting"}, at : {None}]
         \cup [url : {c.url}, result : {"denied", IF c.pinned THEN "admitted" ELSE "unpinned"}, at : 0 .. clock]

-----------------------------------------------------------------------------
(* The projection of a verdict (status-projection.ts) *)

StatusOf(v) ==
    CASE v.result = "admitted" -> "verified"
      [] v.result \in {"attesting", "unpinned"} -> "pending"
      [] OTHER -> "denied"

\* An admission whose own check is too old no longer admits.
ExpiredAdmissionMutant(v, t) == FALSE

ExpiredAdmission(v, t) == v.result = "admitted" /\ v.at + AttestWindow <= t

AtMost(n, most) == IF n > most THEN most ELSE n

\* The run the row is in: no report changes nothing, an admission ends it, and
\* only a check the row has not seen counts as another failure.
RunOf(r, v, status) ==
    CASE v.result = "attesting" -> <<r.since, r.failures>>
      [] status = "verified" -> <<None, 0>>
      [] OTHER -> <<IF r.since = None THEN v.at ELSE r.since,
                    IF status = "denied" /\ v.at # r.checked THEN AtMost(r.failures + 1, AfterFailures)
                    ELSE r.failures>>

ProjectVerdict(r, v, t) ==
    LET status == IF ExpiredAdmission(v, t) THEN "pending" ELSE StatusOf(v)
        run == RunOf(r, v, status)
    IN  [r EXCEPT !.status = status, !.since = run[1], !.failures = run[2],
                  !.checked = IF v.result = "attesting" THEN @ ELSE v.at,
                  !.vouched = IF status = "verified" THEN v.url ELSE None]

\* A verdict nobody has confirmed for the grace period, or at all.
LapsesMutant(r, confirmed, t) == r.status = "verified" /\ confirmed = None

Lapses(r, confirmed, t) ==
    /\ r.status = "verified"
    /\ confirmed # None => confirmed + Grace <= t

ExpireVerdict(r, t) == [Cleared(r) EXCEPT !.since = t]

\* UPDATE ... WHERE id: the patch is written whatever the row has become.
Patched(patch) ==
    row' = [row EXCEPT !.status = patch.status, !.since = patch.since, !.checked = patch.checked,
                       !.failures = patch.failures, !.vouched = patch.vouched]

-----------------------------------------------------------------------------
(* A pass of the poller *)

\* How a pass goes on from the row it holds: to a write, or to the catalogue.
OnwardFromMutant(d) ==
    IF d.left # None /\ Lapses(d.left, d.confirmed, d.now) THEN "lapse"
    ELSE IF d.pc = "apply" THEN "refresh" ELSE "alert"

OnwardFrom(d) == IF d.left # None /\ Lapses(d.left, d.confirmed, d.now) THEN "lapse" ELSE "refresh"
Onward(d) == [d EXCEPT !.pc = OnwardFrom(d)]

\* Only one pass at a time; the clock is read as it starts.
PollOnce ==
    /\ pod.pc = "idle"
    /\ pod' = [pod EXCEPT !.pc = "fetch", !.now = clock, !.sync = TRUE, !.clean = TRUE]
    /\ UNCHANGED <<clock, events, row, side, admin>>

\* The rows that are enabled, read for themselves; one that is not takes its
\* clock with it.
FromRows(d) ==
    IF row.enabled THEN Onward([d EXCEPT !.left = row])
    ELSE [d EXCEPT !.pc = "refresh", !.confirmed = None]

\* sync: the verdict, then the rows.  A reload between the two reads might as well
\* have come after them.
Sync ==
    /\ pod.pc = "fetch" /\ row.enabled
    /\ \E v \in Verdicts(side) :
          LET patch == ProjectVerdict(row, v, pod.now)
              d == [pod EXCEPT !.confirmed = pod.now, !.left = patch]
          IN  pod' = IF patch # row THEN [d EXCEPT !.pc = "apply"] ELSE Onward(d)
    /\ UNCHANGED <<clock, events, row, side, admin>>

\* It answers, and does not name the endpoint, or the endpoint is not enabled.
SyncUnnamed ==
    /\ pod.pc = "fetch" /\ (row.enabled => Verdicts(side) = {})
    /\ pod' = FromRows(pod)
    /\ UNCHANGED <<clock, events, row, side, admin>>

\* The sidecar does not answer: refreshFromRows.
RefreshFromRows ==
    /\ pod.pc \in {"fetch", "rows"}
    /\ pod' = FromRows([pod EXCEPT !.sync = FALSE])
    /\ UNCHANGED <<clock, events, row, side, admin>>

Apply ==
    /\ pod.pc = "apply"
    /\ Patched(pod.left)
    /\ pod' = Onward(pod)
    /\ UNCHANGED <<clock, events, side, admin>>

Lapse ==
    /\ pod.pc = "lapse"
    /\ LET patch == ExpireVerdict(pod.left, pod.now)
       IN  /\ Patched(patch)
           /\ pod' = [pod EXCEPT !.pc = "refresh", !.left = patch, !.confirmed = None]
    /\ UNCHANGED <<clock, events, side, admin>>

\* The maps are rebuilt on every pass, one rebuild at a time.
Rebuilding == pod.pc = "assign" \/ admin.pc = "assign"

MayRebuildMutant == TRUE

MayRebuild == ~Rebuilding

Routable == row.enabled /\ row.status = "verified"

Refresh ==
    /\ pod.pc = "refresh" /\ MayRebuild
    /\ pod' = [pod EXCEPT !.pc = "assign", !.built = Routable]
    /\ UNCHANGED <<clock, events, row, side, admin>>

Assign ==
    /\ pod.pc = "assign"
    /\ pod' = [pod EXCEPT !.pc = "alert", !.catalog = pod.built]
    /\ UNCHANGED <<clock, events, row, side, admin>>

IsOutageMutant(r, t) ==
    r.enabled /\ r.pinned /\ r.since # None /\ AfterFailures > 0 /\ r.failures >= AfterFailures

IsOutage(r, t) ==
    /\ r.enabled /\ r.pinned /\ r.since # None
    /\ \/ AfterFailures > 0 /\ r.failures >= AfterFailures
       \/ AfterNoSuccess > 0 /\ r.since + AfterNoSuccess <= t

\* alertOnOutages: a run is declared once, its latch set before its event is
\* written, and is over when the row says that the endpoint serves.
AlertOnOutages ==
    /\ pod.pc = "alert"
    /\ LET r == pod.left
       IN  pod' = IF r = None THEN Resting([pod EXCEPT !.alerted = None])
                  ELSE IF IsOutage(r, pod.now) /\ pod.alerted # r.since THEN [pod EXCEPT !.pc = "event", !.alerted = r.since]
                  ELSE IF pod.alerted # None /\ r.since = None THEN [pod EXCEPT !.pc = "event", !.alerted = None]
                  ELSE Resting(pod)
    /\ UNCHANGED <<clock, events, row, side, admin>>

EventRecorded ==
    /\ pod.pc = "event"
    /\ pod' = Resting(pod)
    /\ UNCHANGED <<clock, events, row, side, admin>>

\* A query fails: a sync starts over from the rows, a pass from the rows ends.
QueryFails ==
    /\ pod.pc \in {"fetch", "rows", "apply", "lapse", "refresh", "event"} /\ Happens
    /\ pod' = IF pod.sync THEN [pod EXCEPT !.pc = "rows", !.sync = FALSE, !.left = None] ELSE Resting(pod)
    /\ UNCHANGED <<clock, row, side, admin>>

-----------------------------------------------------------------------------
(* Boot: resetToPending, before the first poll *)

Boot ==
    /\ pod.pc = "down"
    /\ pod' = [pod EXCEPT !.now = clock, !.pc = IF row.enabled THEN "reset" ELSE "booted"]
    /\ UNCHANGED <<clock, events, row, side, admin>>

ResetToPending ==
    /\ pod.pc = "reset"
    /\ row' = [Cleared(row) EXCEPT !.since = pod.now]
    /\ pod' = [pod EXCEPT !.pc = "booted"]
    /\ UNCHANGED <<clock, events, side, admin>>

\* Nothing reads the catalogue before the pod serves.
Booted ==
    /\ pod.pc = "booted"
    /\ pod' = [Resting(pod) EXCEPT !.catalog = Routable]
    /\ UNCHANGED <<clock, events, row, side, admin>>

\* The router dies; a mutation it was serving dies with it.
Crash ==
    /\ pod.pc # "down" /\ Happens
    /\ pod' = Down
    /\ admin' = NoOp
    /\ UNCHANGED <<clock, row, side>>

\* The other pod of a rolling update resets the row as it boots, lets a verdict of
\* its own lapse, or projects one of its sidecar's.
OtherPod ==
    /\ row.enabled /\ Happens
    /\ \/ row' = ExpireVerdict(row, clock)
       \/ \E v \in Verdicts(Rendered) : row' = ProjectVerdict(row, v, clock)
    /\ pod' = [pod EXCEPT !.clean = FALSE]
    /\ UNCHANGED <<clock, side, admin>>

-----------------------------------------------------------------------------
(* The operator (external-endpoint-admin.service.ts) *)

Serving == pod.pc \notin {"down", "reset", "booted"}

Commit(op) ==
    /\ Serving /\ admin.pc = "idle" /\ Happens
    /\ admin' = [pc |-> "refresh", op |-> op, built |-> FALSE]
    /\ UNCHANGED <<clock, side, pod>>

Disable ==
    /\ row.enabled
    /\ row' = [Cleared(row) EXCEPT !.enabled = FALSE, !.status = "disabled", !.since = None]
    /\ Commit("disable")

Enable ==
    /\ ~row.enabled
    /\ row' = [Cleared(row) EXCEPT !.enabled = TRUE, !.since = clock]
    /\ Commit("enable")

\* update: re-pointing resets the verdict, and the approval unless it carries one.
Repoint ==
    /\ \E u \in Urls \ {row.url}, approved \in BOOLEAN :
          row' = [(IF row.enabled THEN [Cleared(row) EXCEPT !.since = clock] ELSE row)
                     EXCEPT !.url = u, !.pinned = approved]
    /\ Commit("update")

PinDigest ==
    /\ ~row.pinned
    /\ row' = [row EXCEPT !.pinned = TRUE]
    /\ Commit("pin")

\* publish: the configuration (Rollout), then the catalogue; either may fail.
PublishFails ==
    /\ admin.pc = "refresh" /\ Happens
    /\ admin' = NoOp
    /\ UNCHANGED <<clock, row, side, pod>>

AdminRefresh ==
    /\ admin.pc = "refresh" /\ MayRebuild
    /\ admin' = [admin EXCEPT !.pc = "assign", !.built = Routable]
    /\ UNCHANGED <<clock, events, row, side, pod>>

AdminAssign ==
    /\ admin.pc = "assign"
    /\ admin' = [admin EXCEPT !.pc = "idle", !.built = FALSE]
    /\ pod' = [pod EXCEPT !.catalog = admin.built]
    /\ UNCHANGED <<clock, events, row, side>>

-----------------------------------------------------------------------------
Pass ==
    \/ PollOnce \/ Sync \/ SyncUnnamed \/ RefreshFromRows \/ Apply \/ Lapse
    \/ Refresh \/ Assign \/ AlertOnOutages \/ EventRecorded

Boots == Boot \/ ResetToPending \/ Booted

Next ==
    \/ Tick \/ PublishFails \/ AdminRefresh \/ AdminAssign
    \/ Reload \/ Pass \/ QueryFails \/ Boots \/ Crash \/ OtherPod
    \/ Disable \/ Enable \/ Repoint \/ PinDigest

Spec == Init /\ [][Next]_vars

\* Time passes, pods are started and their passes scheduled, rebuilds are served
\* in turn, and a rendered configuration reaches the sidecar (Rollout).  Nothing
\* makes a sidecar attest or answer.
FairSpec ==
    /\ Spec
    /\ WF_vars(Tick) /\ SF_vars(AdminRefresh) /\ WF_vars(AdminAssign)
    /\ WF_vars(Pass) /\ WF_vars(Boots) /\ WF_vars(Reload)

-----------------------------------------------------------------------------
(* Properties *)

TypeOK ==
    /\ clock \in 0 .. MaxTime /\ events \in 0 .. MaxEvents
    /\ row \in Rows
    /\ pod.left \in Rows \cup {None} /\ pod.confirmed \in Times /\ pod.alerted \in Times

\* "a stored status is never trust" (status-projection.ts:291): after a pass of
\* a pod that is alone, the catalogue offers nothing that the sidecar has not named
\* within the grace period, and, if it answered, nothing it checked too long ago.
VerdictsExpire ==
    pod.pc = "alert" /\ pod.clean /\ pod.catalog =>
        /\ pod.confirmed # None
        /\ pod.now < pod.confirmed + Grace
        /\ pod.sync /\ pod.confirmed = pod.now => pod.now < pod.left.checked + AttestWindow

\* external-catalog.service.ts:140: once an endpoint is disabled, the pod that
\* did it does not offer it again, whatever its poller had read before.
DisabledStaysOut ==
    admin.pc = "idle" /\ admin.op = "disable" => ~pod.catalog

\* external-endpoint-status.service.ts:258: an approved endpoint that stays dark
\* is declared, with a sidecar that answers or without.
DarkIsDeclared ==
    <>[](/\ row.enabled /\ row.pinned /\ row.status # "verified"
         /\ row.since # None /\ row.since + AfterNoSuccess <= MaxTime)
        => <>[](Serving => pod.alerted = row.since)

\* external-catalog.service.ts:196: a pod offers what the rows admit, whichever
\* pod moved them and whichever of its own passes failed.
CatalogueFollowsRows ==
    /\ <>[](Routable) => <>[](Serving => pod.catalog)
    /\ <>[](~Routable) => <>[](Serving => ~pod.catalog)

\* external-endpoint-admin.service.ts:286: a pass that read the row before its
\* endpoint was re-pointed may write it after, but the row does not go on vouching
\* for a host the endpoint has left: the next answer corrects it, or it lapses
\* (where the clock has room for that).
Misvouched == row.enabled /\ row.status = "verified" /\ row.vouched # row.url

RepointTakesHold == []<>(Misvouched => pod.confirmed # None /\ pod.confirmed + Grace > MaxTime)

\* external-catalog.service.ts:71, "Since when it has not been known to serve, or
\* null while it is".
DarkHasStart == row.enabled /\ row.status # "verified" => row.since # None

\* external-endpoint-status.service.ts:121, the switch is the operator's: a poll
\* that read the row before it was disabled writes its verdict over it.
SwitchIsOperators == ~row.enabled => row.status = "disabled"
=============================================================================
