------------------------ MODULE ExternalStatusProofs ------------------------
(***************************************************************************)
(* Proofs about ExternalStatus, for every grace period, window, threshold  *)
(* and number of failures, mutations and crashes: after a pass of a pod    *)
(* that is alone the catalogue offers nothing whose verdict has expired,   *)
(* and an endpoint that is disabled is not offered again by the pod that   *)
(* did it.                                                                 *)
(***************************************************************************)
EXTENDS ExternalStatus, TLAPS

PodType ==
    [pc : {"down", "reset", "booted", "idle", "fetch", "rows", "apply", "lapse", "refresh", "assign", "alert", "event"},
     now : Times, left : Rows \cup {None}, confirmed : Times, alerted : Times,
     catalog : BOOLEAN, built : BOOLEAN, sync : BOOLEAN, clean : BOOLEAN]
HeldType == [url : Urls, pinned : BOOLEAN]
AdminType == [pc : {"idle", "refresh", "assign"}, op : {"none", "disable", "enable", "update", "pin"}, built : BOOLEAN]

Typed ==
    /\ clock \in 0 .. MaxTime /\ events \in 0 .. MaxEvents
    /\ row \in Rows /\ side \in HeldType \cup {NotHeld} /\ pod \in PodType /\ admin \in AdminType

\* A pass knows when it began, and no confirmation is of the future.
Timed ==
    /\ pod.pc \notin {"down", "idle"} => pod.now \in 0 .. clock
    /\ pod.confirmed # None => pod.confirmed \in 0 .. clock

\* An admission rests on a check.
RestsOnCheck(r) == r.status = "verified" => r.checked # None
Checked == RestsOnCheck(row) /\ (pod.left # None => RestsOnCheck(pod.left))

\* A verdict on its way to the row was confirmed by this very pass, and its
\* admission had not expired.
Arriving ==
    /\ pod.pc \in {"apply", "lapse"} => pod.left # None
    /\ pod.pc = "apply" => /\ pod.confirmed = pod.now
                           /\ pod.left.status = "verified" => pod.now < pod.left.checked + AttestWindow

\* An endpoint the sidecar does not hold yet has been enabled since the sidecar
\* last named it, so its verdict is younger than that.
EnabledSince ==
    row.enabled /\ side = NotHeld /\ row.status = "verified" /\ pod.confirmed # None =>
        pod.confirmed < row.checked + AttestWindow

\* What VerdictsExpire asks of an offer.
Fresh ==
    /\ pod.confirmed # None
    /\ pod.now < pod.confirmed + Grace
    /\ pod.sync /\ pod.confirmed = pod.now => pod.now < pod.left.checked + AttestWindow

\* Once a pass of a pod that is alone has dealt with its row, whatever can reach
\* the catalogue is fresh: the row, the maps being rebuilt, the catalogue itself.
Offers ==
    pod.clean =>
        /\ pod.pc \in {"refresh", "assign", "alert"} /\ Routable => Fresh
        /\ pod.pc = "assign" /\ pod.built => Fresh
        /\ pod.pc = "alert" /\ (pod.catalog \/ (admin.pc = "assign" /\ admin.built)) => Fresh

\* One rebuild at a time.
OneRebuild == ~(pod.pc = "assign" /\ admin.pc = "assign")

\* After a disable nothing offers the endpoint: not the row, nor a rebuild that
\* began since.
Disabled ==
    admin.op = "disable" =>
        /\ ~row.enabled
        /\ admin.pc = "assign" => ~admin.built
        /\ admin.pc = "idle" => ~pod.catalog /\ (pod.pc = "assign" => ~pod.built)

\* The inductive invariant.
StatusInv ==
    /\ Typed /\ Timed /\ Checked /\ Arriving /\ EnabledSince
    /\ Offers /\ OneRebuild /\ Disabled

-----------------------------------------------------------------------------
(* The operators of the model *)

LEMMA Constants ==
  /\ Grace \in Nat /\ Grace > 0 /\ AttestWindow \in Nat /\ AttestWindow > 0
  /\ AfterFailures \in Nat /\ AfterNoSuccess \in Nat /\ MaxTime \in Nat /\ MaxEvents \in Nat
  /\ None \notin Nat /\ None \notin Urls /\ None \notin Rows
BY StatusAssumption, NoneAssumption

\* A verdict cleared from a row.
LEMMA Clears ==
  ASSUME NEW r \in Rows
  PROVE  /\ Cleared(r) \in Rows /\ Cleared(r).status = "pending" /\ Cleared(r).enabled = r.enabled
         /\ \A t \in Times :
                LET c == [Cleared(r) EXCEPT !.since = t]
                IN  c \in Rows /\ c.status = "pending" /\ c.enabled = r.enabled
<1>1. Cleared(r) \in Rows /\ Cleared(r).status = "pending" /\ Cleared(r).enabled = r.enabled
  <2>1. None \in Times /\ 0 \in 0 .. AfterFailures
    BY Constants DEF Times
  <2> QED
    BY <2>1 DEF Cleared, Rows
<1> QED
  BY <1>1 DEF Rows

LEMMA Expires ==
  ASSUME NEW r \in Rows, NEW t \in 0 .. MaxTime
  PROVE  ExpireVerdict(r, t) \in Rows /\ ExpireVerdict(r, t).status = "pending" /\ ExpireVerdict(r, t).enabled = r.enabled
BY Clears DEF ExpireVerdict, Times

\* What a sidecar that holds an endpoint says of it.
LEMMA Says ==
  ASSUME clock \in 0 .. MaxTime, NEW c \in HeldType \cup {NotHeld}
  PROVE  /\ \A v \in Verdicts(c) : /\ v.url \in Urls
                                   /\ v.result \in {"attesting", "denied", "admitted", "unpinned"}
                                   /\ v.at \in 0 .. clock \/ (v.result = "attesting" /\ v.at = None)
         /\ c # NotHeld => Verdicts(c) # {}
<1>1. CASE c = NotHeld
  BY <1>1 DEF Verdicts
<1>2. CASE c # NotHeld
  <2>1. c \in HeldType
    BY <1>2
  <2>2. [url |-> c.url, result |-> "attesting", at |-> None] \in Verdicts(c)
    BY <1>2 DEF Verdicts
  <2>3. ASSUME NEW v \in Verdicts(c)
        PROVE  /\ v.url \in Urls /\ v.result \in {"attesting", "denied", "admitted", "unpinned"}
               /\ v.at \in 0 .. clock \/ (v.result = "attesting" /\ v.at = None)
    BY <1>2, <2>1, <2>3 DEF Verdicts, HeldType
  <2> QED
    BY <2>2, <2>3
<1> QED
  BY <1>1, <1>2

\* What the projection writes: a row that is verified rests on an admission
\* whose check is within the window.
LEMMA Projects ==
  ASSUME Typed, NEW r \in Rows, NEW c \in HeldType \cup {NotHeld}, NEW v \in Verdicts(c), NEW t \in 0 .. MaxTime
  PROVE  LET p == ProjectVerdict(r, v, t)
         IN  /\ p \in Rows /\ p.enabled = r.enabled
             /\ p.status = "verified" => p.checked \in 0 .. clock /\ t < p.checked + AttestWindow
<1> DEFINE status == IF ExpiredAdmission(v, t) THEN "pending" ELSE StatusOf(v)
           run == RunOf(r, v, status)
<1>0. clock \in 0 .. MaxTime
  BY DEF Typed
<1>1. /\ v.url \in Urls /\ v.result \in {"attesting", "denied", "admitted", "unpinned"}
      /\ v.at \in 0 .. clock \/ (v.result = "attesting" /\ v.at = None)
  BY <1>0, Says
<1>2. status \in {"pending", "verified", "denied"} /\ (status = "verified" => v.result = "admitted" /\ ~ExpiredAdmission(v, t))
  BY <1>1 DEF StatusOf
<1>3. status = "verified" => v.at \in 0 .. clock /\ t < v.at + AttestWindow
  BY <1>0, <1>1, <1>2, Constants DEF ExpiredAdmission
<1>4. r.since \in Times /\ r.failures \in 0 .. AfterFailures /\ r.checked \in Times /\ v.at \in Times
  BY <1>0, <1>1, Constants DEF Rows, Times
<1> HIDE DEF status
<1>5. run[1] \in Times /\ run[2] \in 0 .. AfterFailures
  <2>1. CASE v.result = "attesting"
    <3>1. run = <<r.since, r.failures>>
      BY <1>2, <2>1 DEF RunOf
    <3> QED
      BY <1>4, <3>1
  <2>2. CASE v.result # "attesting" /\ status = "verified"
    <3>1. run = <<None, 0>>
      BY <2>2 DEF RunOf
    <3> QED
      BY <3>1, Constants DEF Times
  <2>3. CASE v.result # "attesting" /\ status # "verified"
    <3>1. run = <<IF r.since = None THEN v.at ELSE r.since,
                  IF status = "denied" /\ v.at # r.checked THEN AtMost(r.failures + 1, AfterFailures)
                  ELSE r.failures>>
      BY <2>3 DEF RunOf
    <3>2. AtMost(r.failures + 1, AfterFailures) \in 0 .. AfterFailures
      BY <1>4, Constants DEF AtMost
    <3> QED
      BY <1>4, <3>1, <3>2
  <2> QED
    BY <2>1, <2>2, <2>3
<1> HIDE DEF run
<1> DEFINE checked == IF v.result = "attesting" THEN r.checked ELSE v.at
           vouched == IF status = "verified" THEN v.url ELSE None
<1>6. ProjectVerdict(r, v, t)
        = [r EXCEPT !.status = status, !.since = run[1], !.failures = run[2], !.checked = checked, !.vouched = vouched]
  BY DEF ProjectVerdict, status, run
<1>7. checked \in Times /\ vouched \in Urls \cup {None} /\ (status = "verified" => checked = v.at)
  BY <1>1, <1>2, <1>4
<1> HIDE DEF checked, vouched
<1> QED
  BY <1>2, <1>3, <1>5, <1>6, <1>7 DEF Rows

\* How a pass goes on.
LEMMA Goes ==
  ASSUME NEW d \in PodType
  PROVE  /\ Onward(d) \in PodType /\ Resting(d) \in PodType
         /\ Onward(d).pc = OnwardFrom(d) /\ OnwardFrom(d) \in {"lapse", "refresh"}
         /\ Onward(d) = [d EXCEPT !.pc = OnwardFrom(d)] /\ Onward(d).catalog = d.catalog
         /\ Resting(d).pc = "idle" /\ Resting(d).confirmed = d.confirmed /\ Resting(d).left = None
         /\ Resting(d).catalog = d.catalog
<1>1. OnwardFrom(d) \in {"lapse", "refresh"}
  BY DEF OnwardFrom
<1>2. None \in Times
  BY DEF Times
<1>3. Onward(d) \in PodType /\ Onward(d).pc = OnwardFrom(d) /\ Onward(d).catalog = d.catalog
  BY <1>1 DEF Onward, PodType
<1>4. /\ Resting(d) \in PodType /\ Resting(d).pc = "idle" /\ Resting(d).confirmed = d.confirmed
      /\ Resting(d).left = None /\ Resting(d).catalog = d.catalog
  BY <1>2 DEF Resting, PodType
<1> QED
  BY <1>1, <1>3, <1>4 DEF Onward

\* A pass that takes the row as it is.
LEMMA TakesRow ==
  ASSUME Typed, NEW d \in PodType
  PROVE  /\ FromRows(d) \in PodType /\ FromRows(d).pc \in {"lapse", "refresh"} /\ FromRows(d).catalog = d.catalog
         /\ row.enabled => FromRows(d) = Onward([d EXCEPT !.left = row]) /\ [d EXCEPT !.left = row] \in PodType
         /\ ~row.enabled => FromRows(d) = [d EXCEPT !.pc = "refresh", !.confirmed = None]
<1>1. row \in Rows /\ None \in Times
  BY DEF Typed, Times
<1> DEFINE e == [d EXCEPT !.left = row]
           f == [d EXCEPT !.pc = "refresh", !.confirmed = None]
<1>2. e \in PodType /\ e.catalog = d.catalog /\ f \in PodType /\ f.catalog = d.catalog /\ f.pc = "refresh"
  BY <1>1 DEF PodType
<1>3. /\ row.enabled => FromRows(d) = Onward(e)
      /\ ~row.enabled => FromRows(d) = f
  BY DEF FromRows
<1> HIDE DEF e, f
<1>4. FromRows(d) \in PodType /\ FromRows(d).pc \in {"lapse", "refresh"} /\ FromRows(d).catalog = d.catalog
  BY <1>2, <1>3, Goes
<1> QED
  BY <1>2, <1>3, <1>4 DEF e, f

\* A row that is patched keeps its switch and its address.
LEMMA Patches ==
  ASSUME Typed, NEW p \in Rows, Patched(p)
  PROVE  /\ row' \in Rows /\ row'.enabled = row.enabled /\ row'.url = row.url
         /\ row'.status = p.status /\ row'.checked = p.checked
BY DEF Typed, Patched, Rows

LEMMA StepTyped == StatusInv /\ [Next]_vars => Typed'
<1> SUFFICES ASSUME StatusInv, [Next]_vars PROVE Typed'
  OBVIOUS
<1>0. /\ Typed /\ clock \in 0 .. MaxTime /\ events \in 0 .. MaxEvents /\ row \in Rows /\ pod \in PodType /\ admin \in AdminType
      /\ side \in HeldType \cup {NotHeld} /\ clock \in Times /\ None \in Times
  BY DEF StatusInv, Typed, Times
<1>1. Rendered \in HeldType \cup {NotHeld}
  BY <1>0 DEF Rendered, HeldType, Rows
<1>2. ASSUME Happens PROVE events' \in 0 .. MaxEvents
  BY <1>0, <1>2, Constants DEF Happens
<1>3. CASE Tick
  BY <1>0, <1>3, Constants DEF Tick, Typed
<1>4. CASE Reload
  BY <1>0, <1>1, <1>4 DEF Reload, Typed
<1>5. CASE PollOnce
  <2>1. pod' \in PodType
    BY <1>0, <1>5 DEF PollOnce, PodType
  <2> QED
    BY <1>0, <1>5, <2>1 DEF PollOnce, Typed
<1>6. CASE Sync
  <2>1. PICK v \in Verdicts(side) :
            LET patch == ProjectVerdict(row, v, pod.now)
                d == [pod EXCEPT !.confirmed = pod.now, !.left = patch]
            IN  pod' = IF patch # row THEN [d EXCEPT !.pc = "apply"] ELSE Onward(d)
    BY <1>6 DEF Sync
  <2> DEFINE patch == ProjectVerdict(row, v, pod.now)
             d == [pod EXCEPT !.confirmed = pod.now, !.left = patch]
  <2>2. pod.now \in 0 .. MaxTime /\ pod.now \in Times
    BY <1>0, <1>6, Constants DEF Sync, StatusInv, Timed, Times
  <2>3. patch \in Rows
    BY <1>0, <2>2, Projects
  <2> HIDE DEF patch
  <2>4. d \in PodType /\ [d EXCEPT !.pc = "apply"] \in PodType
    BY <1>0, <2>2, <2>3 DEF PodType
  <2>5. pod' = [d EXCEPT !.pc = "apply"] \/ pod' = Onward(d)
    BY <2>1 DEF patch
  <2> HIDE DEF d
  <2>6. pod' \in PodType
    BY <2>4, <2>5, Goes
  <2> QED
    BY <1>0, <1>6, <2>6 DEF Sync, Typed
<1>7. CASE SyncUnnamed
  BY <1>0, <1>7, TakesRow DEF SyncUnnamed, Typed
<1>8. CASE RefreshFromRows
  <2>1. [pod EXCEPT !.sync = FALSE] \in PodType
    BY <1>0 DEF PodType
  <2> QED
    BY <1>0, <1>8, <2>1, TakesRow DEF RefreshFromRows, Typed
<1>9. CASE Apply
  <2>1. pod.left \in Rows
    BY <1>0, <1>9 DEF Apply, StatusInv, Arriving, PodType
  <2> QED
    BY <1>0, <1>9, <2>1, Goes, Patches DEF Apply, Typed
<1>10. CASE Lapse
  <2>1. pod.left \in Rows /\ pod.now \in 0 .. MaxTime
    BY <1>0, <1>10, Constants DEF Lapse, StatusInv, Arriving, Timed, PodType
  <2> DEFINE p == ExpireVerdict(pod.left, pod.now)
  <2>2. p \in Rows
    BY <2>1, Expires
  <2>3. Patched(p) /\ pod' = [pod EXCEPT !.pc = "refresh", !.left = p, !.confirmed = None]
    BY <1>10 DEF Lapse
  <2> HIDE DEF p
  <2>4. pod' \in PodType
    BY <1>0, <2>2, <2>3 DEF PodType
  <2> QED
    BY <1>0, <1>10, <2>2, <2>3, <2>4, Patches DEF Lapse, Typed
<1>11. CASE Refresh \/ Assign
  <2>1. Routable \in BOOLEAN
    BY DEF Routable
  <2>2. pod' \in PodType
    BY <1>0, <1>11, <2>1 DEF Refresh, Assign, PodType
  <2> QED
    BY <1>0, <1>11, <2>2 DEF Refresh, Assign, Typed
<1>12. CASE AlertOnOutages
  <2>1. [pod EXCEPT !.alerted = None] \in PodType /\ [pod EXCEPT !.pc = "event", !.alerted = None] \in PodType
    BY <1>0 DEF PodType
  <2>2. pod.left # None => [pod EXCEPT !.pc = "event", !.alerted = pod.left.since] \in PodType
    <3>1. pod.left # None => pod.left \in Rows
      BY <1>0 DEF PodType
    <3>2. pod.left # None => pod.left.since \in Times
      BY <3>1 DEF Rows
    <3> QED
      BY <1>0, <3>2 DEF PodType
  <2>3. pod' \in PodType
    BY <1>0, <1>12, <2>1, <2>2, Goes DEF AlertOnOutages
  <2> QED
    BY <1>0, <1>12, <2>3 DEF AlertOnOutages, Typed
<1>13. CASE EventRecorded
  BY <1>0, <1>13, Goes DEF EventRecorded, Typed
<1>14. CASE QueryFails
  <2>1. [pod EXCEPT !.pc = "rows", !.sync = FALSE, !.left = None] \in PodType
    BY <1>0 DEF PodType
  <2> QED
    BY <1>0, <1>2, <1>14, <2>1, Goes DEF QueryFails, Typed
<1>15. CASE Boot
  <2>1. pod' \in PodType
    BY <1>0, <1>15 DEF Boot, PodType
  <2> QED
    BY <1>0, <1>15, <2>1 DEF Boot, Typed
<1>16. CASE ResetToPending
  <2>1. pod' \in PodType /\ pod.now \in Times
    BY <1>0, <1>16 DEF ResetToPending, PodType
  <2>2. row' \in Rows
    BY <1>0, <1>16, <2>1, Clears DEF ResetToPending
  <2> QED
    BY <1>0, <1>16, <2>1, <2>2 DEF ResetToPending, Typed
<1>17. CASE Booted
  <2>1. Routable \in BOOLEAN /\ Resting(pod) \in PodType
    BY <1>0, Goes DEF Routable
  <2>2. [Resting(pod) EXCEPT !.catalog = Routable] \in PodType
    BY <2>1 DEF PodType
  <2> QED
    BY <1>0, <1>17, <2>2 DEF Booted, Typed
<1>18. CASE Crash
  <2>1. Down \in PodType /\ NoOp \in AdminType
    BY <1>0 DEF Down, PodType, NoOp, AdminType
  <2> QED
    BY <1>0, <1>2, <1>18, <2>1 DEF Crash, Typed
<1>19. CASE OtherPod
  <2>1. row' \in Rows
    BY <1>0, <1>1, <1>19, Expires, Projects DEF OtherPod
  <2>2. pod' \in PodType
    BY <1>0, <1>19 DEF OtherPod, PodType
  <2> QED
    BY <1>0, <1>2, <1>19, <2>1, <2>2 DEF OtherPod, Typed
<1>20. ASSUME NEW op \in {"disable", "enable", "update", "pin"}, Commit(op), row' \in Rows PROVE Typed'
  <2>1. admin' \in AdminType
    BY <1>20 DEF Commit, AdminType
  <2> QED
    BY <1>0, <1>2, <1>20, <2>1 DEF Commit, Typed
<1>21. CASE Disable
  <2>1. row' \in Rows
    <3>1. Cleared(row) \in Rows
      BY <1>0, Clears
    <3> QED
      BY <1>0, <1>21, <3>1 DEF Disable, Rows
  <2> QED
    BY <1>20, <1>21, <2>1 DEF Disable
<1>22. CASE Enable
  <2>1. row' \in Rows
    <3>1. Cleared(row) \in Rows
      BY <1>0, Clears
    <3> QED
      BY <1>0, <1>22, <3>1 DEF Enable, Rows
  <2> QED
    BY <1>20, <1>22, <2>1 DEF Enable
<1>23. CASE Repoint
  <2>1. PICK u \in Urls, approved \in BOOLEAN :
            row' = [(IF row.enabled THEN [Cleared(row) EXCEPT !.since = clock] ELSE row)
                       EXCEPT !.url = u, !.pinned = approved]
    BY <1>23 DEF Repoint
  <2>2. (IF row.enabled THEN [Cleared(row) EXCEPT !.since = clock] ELSE row) \in Rows
    BY <1>0, Clears
  <2>3. row' \in Rows
    BY <2>1, <2>2 DEF Rows
  <2> QED
    BY <1>20, <1>23, <2>3 DEF Repoint
<1>24. CASE PinDigest
  <2>1. row' \in Rows
    BY <1>0, <1>24 DEF PinDigest, Rows
  <2> QED
    BY <1>20, <1>24, <2>1 DEF PinDigest
<1>25. CASE PublishFails
  <2>1. NoOp \in AdminType
    BY DEF NoOp, AdminType
  <2> QED
    BY <1>0, <1>2, <1>25, <2>1 DEF PublishFails, Typed
<1>26. CASE AdminRefresh
  <2>1. admin' \in AdminType
    BY <1>0, <1>26 DEF AdminRefresh, AdminType, Routable
  <2> QED
    BY <1>0, <1>26, <2>1 DEF AdminRefresh, Typed
<1>27. CASE AdminAssign
  <2>1. admin' \in AdminType /\ pod' \in PodType
    BY <1>0, <1>27 DEF AdminAssign, AdminType, PodType
  <2> QED
    BY <1>0, <1>27, <2>1 DEF AdminAssign, Typed
<1>28. CASE UNCHANGED vars
  BY <1>0, <1>28 DEF vars, Typed
<1> QED
  BY <1>3, <1>4, <1>5, <1>6, <1>7, <1>8, <1>9, <1>10, <1>11, <1>12, <1>13, <1>14, <1>15, <1>16, <1>17, <1>18, <1>19,
     <1>21, <1>22, <1>23, <1>24, <1>25, <1>26, <1>27, <1>28 DEF Next, Pass, Boots

-----------------------------------------------------------------------------
(* What a pass holds *)

Judged == Timed /\ Checked /\ Arriving /\ EnabledSince

\* The row is not verified by this step, nor enabled with a verdict.
Calmer ==
    row'.status = "verified" =>
        row.status = "verified" /\ row'.checked = row.checked /\ (row'.enabled => row.enabled)

\* What the operator, a boot or a lapse does to the row.
LEMMA CalmSteps ==
  ASSUME Typed, Disable \/ Enable \/ Repoint \/ PinDigest \/ UNCHANGED row
  PROVE  Calmer
<1>0. row \in Rows /\ Cleared(row) \in Rows /\ Cleared(row).status = "pending" /\ clock \in Times
  BY Clears DEF Typed, Times
<1>1. CASE Disable
  <2>1. row'.status = "disabled"
    BY <1>0, <1>1 DEF Disable, Rows
  <2> QED
    BY <2>1 DEF Calmer
<1>2. CASE Enable
  <2>1. row'.status = "pending"
    BY <1>0, <1>2 DEF Enable, Rows
  <2> QED
    BY <2>1 DEF Calmer
<1>3. CASE Repoint
  <2>1. PICK u \in Urls, approved \in BOOLEAN :
            row' = [(IF row.enabled THEN [Cleared(row) EXCEPT !.since = clock] ELSE row)
                       EXCEPT !.url = u, !.pinned = approved]
    BY <1>3 DEF Repoint
  <2>2. CASE row.enabled
    <3>1. [Cleared(row) EXCEPT !.since = clock] \in Rows /\ [Cleared(row) EXCEPT !.since = clock].status = "pending"
      BY <1>0, Clears
    <3>2. row'.status = "pending"
      BY <2>1, <2>2, <3>1 DEF Rows
    <3> QED
      BY <3>2 DEF Calmer
  <2>3. CASE ~row.enabled
    <3>1. row' = [row EXCEPT !.url = u, !.pinned = approved]
      BY <2>1, <2>3
    <3> QED
      BY <1>0, <3>1 DEF Calmer, Rows
  <2> QED
    BY <2>2, <2>3
<1>4. CASE PinDigest
  BY <1>0, <1>4 DEF PinDigest, Calmer, Rows
<1>5. CASE UNCHANGED row
  BY <1>5 DEF Calmer
<1> QED
  BY <1>1, <1>2, <1>3, <1>4, <1>5

\* A step that gives the pass nothing new to write or to trust.
Quiet ==
    /\ UNCHANGED <<clock, side>>
    /\ pod'.pc = pod.pc \/ pod'.pc \notin {"apply", "lapse"}
    /\ pod'.pc \notin {"down", "idle"} => pod'.now = clock \/ (pod'.now = pod.now /\ pod.pc \notin {"down", "idle"})
    /\ pod'.left \in {None, pod.left} /\ pod'.confirmed \in {None, pod.confirmed}
    /\ pod'.pc \in {"apply", "lapse"} => pod'.left = pod.left /\ pod'.now = pod.now /\ pod'.confirmed = pod.confirmed

LEMMA QuietSteps ==
  ASSUME Typed,
         \/ PollOnce \/ Refresh \/ Assign \/ AlertOnOutages \/ EventRecorded \/ QueryFails \/ Boot \/ ResetToPending
         \/ Booted \/ Crash \/ PublishFails \/ AdminRefresh \/ AdminAssign \/ Disable \/ Enable \/ Repoint \/ PinDigest
         \/ UNCHANGED vars
  PROVE  Quiet
<1>0. pod \in PodType /\ Resting(pod) \in PodType
  BY Goes DEF Typed
<1>1. CASE PollOnce
  BY <1>0, <1>1 DEF PollOnce, Quiet, PodType
<1>2. CASE Refresh \/ Assign
  BY <1>0, <1>2 DEF Refresh, Assign, Quiet, PodType
<1>3. ASSUME UNCHANGED <<clock, side>>, NEW d \in PodType, d.confirmed = pod.confirmed, pod' = Resting(d)
      PROVE  Quiet
  BY <1>3, Goes DEF Quiet
<1>4. CASE AlertOnOutages
  <2>1. CASE \E a \in Times : pod' = [pod EXCEPT !.pc = "event", !.alerted = a]
    BY <1>0, <1>4, <2>1 DEF AlertOnOutages, Quiet, PodType
  <2>2. [pod EXCEPT !.alerted = None] \in PodType /\ [pod EXCEPT !.alerted = None].confirmed = pod.confirmed /\ None \in Times
    BY <1>0 DEF PodType, Times
  <2>3. pod.left # None => pod.left.since \in Times
    BY <1>0 DEF PodType, Rows
  <2>4. CASE pod' = Resting(pod) \/ pod' = Resting([pod EXCEPT !.alerted = None])
    BY <1>0, <1>3, <1>4, <2>2, <2>4 DEF AlertOnOutages
  <2> QED
    BY <1>4, <2>1, <2>2, <2>3, <2>4 DEF AlertOnOutages
<1>5. CASE EventRecorded
  BY <1>0, <1>3, <1>5 DEF EventRecorded
<1>6. CASE QueryFails
  <2>1. CASE pod' = [pod EXCEPT !.pc = "rows", !.sync = FALSE, !.left = None]
    BY <1>0, <1>6, <2>1 DEF QueryFails, Quiet, PodType
  <2>2. CASE pod' = Resting(pod)
    BY <1>0, <1>3, <1>6, <2>2 DEF QueryFails
  <2> QED
    BY <1>6, <2>1, <2>2 DEF QueryFails
<1>7. CASE Boot \/ ResetToPending
  BY <1>0, <1>7 DEF Boot, ResetToPending, Quiet, PodType
<1>8. CASE Booted
  <2>1. Resting(pod).pc = "idle" /\ Resting(pod).left = None /\ Resting(pod).confirmed = pod.confirmed
    BY <1>0, Goes
  <2>2. pod'.pc = "idle" /\ pod'.left = None /\ pod'.confirmed = pod.confirmed
    BY <1>0, <1>8, <2>1 DEF Booted, PodType
  <2> QED
    BY <1>8, <2>2 DEF Booted, Quiet
<1>9. CASE Crash
  BY <1>9 DEF Crash, Down, Quiet
<1>10. CASE AdminAssign
  BY <1>0, <1>10 DEF AdminAssign, Quiet, PodType
<1>11. CASE PublishFails \/ AdminRefresh \/ Disable \/ Enable \/ Repoint \/ PinDigest \/ UNCHANGED vars
  <2>1. UNCHANGED <<clock, side, pod>>
    BY <1>11 DEF PublishFails, AdminRefresh, Disable, Enable, Repoint, PinDigest, Commit, vars
  <2> QED
    BY <2>1 DEF Quiet
<1> QED
  BY <1>1, <1>2, <1>4, <1>5, <1>6, <1>7, <1>8, <1>9, <1>10, <1>11

LEMMA StepJudged == StatusInv /\ [Next]_vars => Judged'
<1> SUFFICES ASSUME StatusInv, [Next]_vars PROVE Judged'
  OBVIOUS
<1>0. /\ Typed /\ Timed /\ Checked /\ Arriving /\ EnabledSince
      /\ clock \in 0 .. MaxTime /\ row \in Rows /\ pod \in PodType /\ side \in HeldType \cup {NotHeld}
  BY DEF StatusInv, Typed
<1>1. ASSUME Quiet, Calmer PROVE Judged'
  <2>1. Timed'
    BY <1>0, <1>1 DEF Timed, Quiet
  <2>2. Checked'
    BY <1>0, <1>1 DEF Checked, RestsOnCheck, Calmer, Quiet
  <2>3. Arriving'
    BY <1>0, <1>1 DEF Arriving, Quiet
  <2>4. EnabledSince'
    BY <1>0, <1>1 DEF EnabledSince, Calmer, Quiet
  <2> QED
    BY <2>1, <2>2, <2>3, <2>4 DEF Judged
<1>2. CASE Tick
  BY <1>0, <1>2 DEF Tick, Judged, Timed, Checked, Arriving, EnabledSince
<1>3. CASE Reload
  <2>1. side' = NotHeld => ~row.enabled
    BY <1>0, <1>3, Constants DEF Reload, Rendered, NotHeld, Rows
  <2> QED
    BY <1>0, <1>3, <2>1 DEF Reload, Judged, Timed, Checked, Arriving, EnabledSince
<1>4. ASSUME UNCHANGED <<clock, side, row>>, NEW d \in PodType, pod' = Onward(d), pod.pc \notin {"down", "idle"},
             d.now = pod.now, d.left \in Rows, RestsOnCheck(d.left),
             d.confirmed = pod.confirmed \/ (d.confirmed = d.now /\ side # NotHeld)
      PROVE  Judged'
  <2>1. pod' = [d EXCEPT !.pc = OnwardFrom(d)] /\ pod'.pc \in {"lapse", "refresh"}
    BY <1>4, Goes
  <2>2. pod'.left = d.left /\ pod'.now = d.now /\ pod'.confirmed = d.confirmed
    BY <2>1 DEF PodType
  <2>3. Timed'
    BY <1>0, <1>4, <2>1, <2>2 DEF Timed
  <2>4. Checked' /\ Arriving'
    BY <1>0, <1>4, <2>1, <2>2, Constants DEF Checked, Arriving
  <2>5. EnabledSince'
    BY <1>0, <1>4, <2>2 DEF EnabledSince
  <2> QED
    BY <2>3, <2>4, <2>5 DEF Judged
<1>5. CASE Sync
  <2>1. PICK v \in Verdicts(side) :
            LET patch == ProjectVerdict(row, v, pod.now)
                d == [pod EXCEPT !.confirmed = pod.now, !.left = patch]
            IN  pod' = IF patch # row THEN [d EXCEPT !.pc = "apply"] ELSE Onward(d)
    BY <1>5 DEF Sync
  <2> DEFINE patch == ProjectVerdict(row, v, pod.now)
             d == [pod EXCEPT !.confirmed = pod.now, !.left = patch]
  <2>2. pod.now \in 0 .. clock /\ pod.now \in 0 .. MaxTime /\ pod.now \in Times /\ pod.pc = "fetch"
    BY <1>0, <1>5, Constants DEF Sync, Timed, Times
  <2>3. patch \in Rows /\ (patch.status = "verified" => patch.checked \in 0 .. clock /\ pod.now < patch.checked + AttestWindow)
    BY <1>0, <2>2, Projects
  <2>4. RestsOnCheck(patch)
    BY <1>0, <2>3, Constants DEF RestsOnCheck
  <2>5. side # NotHeld /\ UNCHANGED <<clock, side, row>>
    BY <1>5, <2>1 DEF Sync, Verdicts
  <2>6. pod' = [d EXCEPT !.pc = "apply"] \/ pod' = Onward(d)
    BY <2>1
  <2> HIDE DEF patch
  <2>7. d \in PodType /\ d.now = pod.now /\ d.left = patch /\ d.confirmed = pod.now
    BY <1>0, <2>2, <2>3 DEF PodType
  <2> HIDE DEF d
  <2>8. CASE pod' = Onward(d)
    BY <1>4, <2>2, <2>3, <2>4, <2>5, <2>7, <2>8
  <2>9. CASE pod' = [d EXCEPT !.pc = "apply"]
    <3>1. pod'.pc = "apply" /\ pod'.now = pod.now /\ pod'.left = patch /\ pod'.confirmed = pod.now
      BY <2>7, <2>9 DEF PodType
    <3>2. Timed'
      BY <2>2, <2>5, <3>1 DEF Timed
    <3>3. Checked' /\ Arriving'
      BY <1>0, <2>3, <2>4, <2>5, <3>1, Constants DEF Checked, Arriving
    <3>4. EnabledSince'
      BY <2>5 DEF EnabledSince
    <3> QED
      BY <3>2, <3>3, <3>4 DEF Judged
  <2> QED
    BY <2>6, <2>8, <2>9
<1>6. ASSUME UNCHANGED <<clock, side, row>>, NEW d \in PodType, pod' = FromRows(d), pod.pc \notin {"down", "idle"},
             d.now = pod.now, d.confirmed = pod.confirmed, d.left = pod.left
      PROVE  Judged'
  <2>1. CASE row.enabled
    <3> DEFINE e == [d EXCEPT !.left = row]
    <3>1. e \in PodType /\ e.now = d.now /\ e.confirmed = d.confirmed /\ e.left = row
      BY <1>0 DEF PodType
    <3>2. pod' = Onward(e)
      BY <1>0, <1>6, <2>1, TakesRow
    <3> HIDE DEF e
    <3> QED
      BY <1>0, <1>4, <1>6, <3>1, <3>2 DEF Checked
  <2>2. CASE ~row.enabled
    <3>1. pod' = [d EXCEPT !.pc = "refresh", !.confirmed = None]
      BY <1>0, <1>6, <2>2, TakesRow
    <3>2. pod'.pc = "refresh" /\ pod'.confirmed = None /\ pod'.now = pod.now /\ pod'.left = pod.left
      BY <1>6, <3>1 DEF PodType
    <3>3. Quiet /\ Calmer
      BY <1>6, <3>2 DEF Quiet, Calmer
    <3> QED
      BY <1>1, <3>3
  <2> QED
    BY <2>1, <2>2
<1>7. CASE SyncUnnamed
  BY <1>0, <1>6, <1>7 DEF SyncUnnamed
<1>8. CASE RefreshFromRows
  <2> DEFINE d == [pod EXCEPT !.sync = FALSE]
  <2>1. d \in PodType /\ d.now = pod.now /\ d.confirmed = pod.confirmed /\ d.left = pod.left
    BY <1>0 DEF PodType
  <2>2. pod' = FromRows(d) /\ UNCHANGED <<clock, side, row>> /\ pod.pc \notin {"down", "idle"}
    BY <1>8 DEF RefreshFromRows
  <2> HIDE DEF d
  <2> QED
    BY <1>6, <2>1, <2>2
<1>9. CASE Apply
  <2>1. pod.left \in Rows /\ pod.pc = "apply" /\ pod.now \in 0 .. clock /\ UNCHANGED <<clock, side>>
    BY <1>0, <1>9 DEF Apply, Arriving, PodType, Timed
  <2>2. row'.status = pod.left.status /\ row'.checked = pod.left.checked
    BY <1>0, <1>9, <2>1, Patches DEF Apply
  <2>3. pod' = [pod EXCEPT !.pc = OnwardFrom(pod)] /\ pod'.pc \in {"lapse", "refresh"}
    BY <1>0, <1>9, Goes DEF Apply
  <2>4. pod'.left = pod.left /\ pod'.now = pod.now /\ pod'.confirmed = pod.confirmed
    BY <1>0, <2>3 DEF PodType
  <2>5. Timed'
    BY <1>0, <2>1, <2>4 DEF Timed
  <2>6. Checked' /\ Arriving'
    BY <1>0, <2>1, <2>2, <2>3, <2>4, Constants DEF Checked, Arriving, RestsOnCheck
  <2>7. EnabledSince'
    BY <1>0, <2>1, <2>2, <2>4 DEF EnabledSince, Arriving
  <2> QED
    BY <2>5, <2>6, <2>7 DEF Judged
<1>10. CASE Lapse
  <2>1. pod.left \in Rows /\ pod.now \in 0 .. MaxTime /\ UNCHANGED <<clock, side>> /\ pod.pc = "lapse"
    BY <1>0, <1>10, Constants DEF Lapse, Arriving, Timed, PodType
  <2> DEFINE p == ExpireVerdict(pod.left, pod.now)
  <2>2. p \in Rows /\ p.status = "pending"
    BY <2>1, Expires
  <2>3. Patched(p) /\ pod' = [pod EXCEPT !.pc = "refresh", !.left = p, !.confirmed = None]
    BY <1>10 DEF Lapse
  <2> HIDE DEF p
  <2>4. pod'.pc = "refresh" /\ pod'.left = p /\ pod'.now = pod.now /\ pod'.confirmed = None
    BY <1>0, <2>2, <2>3 DEF PodType
  <2>5. row'.status = "pending"
    BY <1>0, <2>2, <2>3, Patches
  <2> QED
    BY <1>0, <2>1, <2>2, <2>4, <2>5 DEF Judged, Timed, Checked, RestsOnCheck, Arriving, EnabledSince
<1>11. CASE OtherPod
  <2>1. Rendered \in HeldType \cup {NotHeld}
    BY <1>0 DEF Rendered, HeldType, Rows
  <2>2. row'.status = "verified" => row'.checked \in 0 .. clock /\ clock < row'.checked + AttestWindow
    BY <1>0, <1>11, <2>1, Expires, Projects DEF OtherPod
  <2>3. /\ pod'.pc = pod.pc /\ pod'.left = pod.left /\ pod'.now = pod.now /\ pod'.confirmed = pod.confirmed
        /\ UNCHANGED <<clock, side>>
    BY <1>0, <1>11 DEF OtherPod, PodType
  <2>4. Timed' /\ Arriving'
    BY <1>0, <2>3 DEF Timed, Arriving
  <2>5. Checked'
    BY <1>0, <2>2, <2>3, Constants DEF Checked, RestsOnCheck
  <2>6. EnabledSince'
    <3>1. ASSUME row'.status = "verified", pod.confirmed # None PROVE pod.confirmed < row'.checked + AttestWindow
      <4>1. pod.confirmed \in 0 .. clock /\ row'.checked \in 0 .. clock /\ clock < row'.checked + AttestWindow
        BY <1>0, <2>2, <3>1 DEF Timed
      <4> QED
        BY <1>0, <4>1, Constants
    <3> QED
      BY <2>3, <3>1 DEF EnabledSince
  <2> QED
    BY <2>4, <2>5, <2>6 DEF Judged
<1>12. CASE ResetToPending
  <2>1. row'.status = "pending"
    BY <1>0, <1>12, Clears DEF ResetToPending, PodType
  <2> QED
    BY <1>0, <1>1, <1>12, <2>1, QuietSteps DEF Calmer
<1>13. CASE \/ PollOnce \/ Refresh \/ Assign \/ AlertOnOutages \/ EventRecorded \/ QueryFails \/ Boot \/ Booted
            \/ Crash \/ PublishFails \/ AdminRefresh \/ AdminAssign \/ UNCHANGED vars
  <2>1. UNCHANGED row
    BY <1>13 DEF PollOnce, Refresh, Assign, AlertOnOutages, EventRecorded, QueryFails, Boot, Booted, Crash, PublishFails,
       AdminRefresh, AdminAssign, vars
  <2> QED
    BY <1>0, <1>1, <1>13, <2>1, CalmSteps, QuietSteps
<1>14. CASE Disable \/ Enable \/ Repoint \/ PinDigest
  BY <1>0, <1>1, <1>14, CalmSteps, QuietSteps
<1> QED
  BY <1>2, <1>3, <1>5, <1>7, <1>8, <1>9, <1>10, <1>11, <1>12, <1>13, <1>14 DEF Next, Pass, Boots

-----------------------------------------------------------------------------
(* What is offered *)

\* A pass that ends, fails, starts or is set up offers nothing by it.
LEMMA Rests ==
  ASSUME Typed, PollOnce \/ Boot \/ ResetToPending \/ EventRecorded \/ QueryFails \/ AlertOnOutages
  PROVE  pod'.pc \notin {"refresh", "assign", "alert"} /\ pod'.catalog = pod.catalog /\ UNCHANGED admin
<1>0. pod \in PodType
  BY DEF Typed
<1>1. CASE PollOnce \/ Boot \/ ResetToPending
  BY <1>0, <1>1 DEF PollOnce, Boot, ResetToPending, PodType
<1>2. CASE EventRecorded
  BY <1>0, <1>2, Goes DEF EventRecorded
<1>3. CASE QueryFails
  <2>1. CASE pod' = [pod EXCEPT !.pc = "rows", !.sync = FALSE, !.left = None]
    BY <1>0, <1>3, <2>1 DEF QueryFails, PodType
  <2>2. CASE pod' = Resting(pod)
    BY <1>0, <1>3, <2>2, Goes DEF QueryFails
  <2> QED
    BY <1>3, <2>1, <2>2 DEF QueryFails
<1>4. CASE AlertOnOutages
  <2>1. [pod EXCEPT !.alerted = None] \in PodType /\ [pod EXCEPT !.alerted = None].catalog = pod.catalog
    BY <1>0 DEF PodType, Times
  <2>2. CASE \E a : pod' = [pod EXCEPT !.pc = "event", !.alerted = a]
    BY <1>0, <1>4, <2>2 DEF AlertOnOutages, PodType
  <2>3. CASE pod' = Resting(pod) \/ pod' = Resting([pod EXCEPT !.alerted = None])
    BY <1>0, <1>4, <2>1, <2>3, Goes DEF AlertOnOutages
  <2> QED
    BY <1>4, <2>2, <2>3 DEF AlertOnOutages
<1> QED
  BY <1>1, <1>2, <1>3, <1>4

\* A mutation commits before it publishes.
LEMMA Commits ==
  ASSUME Disable \/ Enable \/ Repoint \/ PinDigest
  PROVE  UNCHANGED pod /\ admin'.pc = "refresh" /\ (admin'.op = "disable" => Disable)
<1>1. (Commit("disable") /\ Disable) \/ Commit("enable") \/ Commit("update") \/ Commit("pin")
  BY DEF Disable, Enable, Repoint, PinDigest
<1>2. ASSUME NEW op, Commit(op) PROVE UNCHANGED pod /\ admin'.pc = "refresh" /\ admin'.op = op
  BY <1>2 DEF Commit
<1> QED
  BY <1>1, <1>2

LEMMA StepOffers == StatusInv /\ [Next]_vars => Offers' /\ OneRebuild'
<1> SUFFICES ASSUME StatusInv, [Next]_vars PROVE Offers' /\ OneRebuild'
  OBVIOUS
<1>0. /\ Typed /\ Timed /\ Arriving /\ EnabledSince /\ Offers /\ OneRebuild
      /\ clock \in 0 .. MaxTime /\ row \in Rows /\ pod \in PodType /\ admin \in AdminType
  BY DEF StatusInv, Typed
<1>1. ASSUME pod'.pc \notin {"refresh", "assign", "alert"} PROVE Offers' /\ OneRebuild'
  BY <1>1 DEF Offers, OneRebuild
<1>2. CASE Tick \/ Reload
  BY <1>0, <1>2 DEF Tick, Reload, Offers, OneRebuild, Fresh, Routable
<1>3. ASSUME UNCHANGED pod, Calmer, admin'.pc # "assign" PROVE Offers' /\ OneRebuild'
  BY <1>0, <1>3 DEF Calmer, Offers, OneRebuild, Fresh, Routable
<1>4. ASSUME NEW d \in PodType, pod' = Onward(d), d.confirmed # None => d.confirmed \in Nat, d.now \in Nat,
             row'.enabled /\ row'.status = "verified" =>
                 /\ d.left # None /\ d.left.status = "verified"
                 /\ d.sync /\ d.confirmed = d.now => d.now < d.left.checked + AttestWindow
      PROVE  Offers' /\ OneRebuild'
  <2>1. pod'.pc = OnwardFrom(d) /\ pod'.pc \in {"lapse", "refresh"} /\ pod' = [d EXCEPT !.pc = OnwardFrom(d)]
    BY <1>4, Goes
  <2>2. pod'.now = d.now /\ pod'.confirmed = d.confirmed /\ pod'.left = d.left /\ pod'.sync = d.sync
    BY <2>1 DEF PodType
  <2>3. pod'.pc = "refresh" /\ row'.enabled /\ row'.status = "verified" => ~Lapses(d.left, d.confirmed, d.now)
    BY <1>4, <2>1 DEF OnwardFrom
  <2>4. pod'.pc = "refresh" /\ row'.enabled /\ row'.status = "verified" => d.confirmed # None /\ d.now < d.confirmed + Grace
    BY <1>4, <2>3, Constants DEF Lapses
  <2> QED
    BY <1>4, <2>1, <2>2, <2>4 DEF Offers, OneRebuild, Fresh, Routable
<1>5. pod.confirmed # None => pod.confirmed \in Nat
  BY <1>0 DEF Timed
<1>6. CASE Sync
  <2>1. PICK v \in Verdicts(side) :
            LET patch == ProjectVerdict(row, v, pod.now)
                d == [pod EXCEPT !.confirmed = pod.now, !.left = patch]
            IN  pod' = IF patch # row THEN [d EXCEPT !.pc = "apply"] ELSE Onward(d)
    BY <1>6 DEF Sync
  <2> DEFINE patch == ProjectVerdict(row, v, pod.now)
             d == [pod EXCEPT !.confirmed = pod.now, !.left = patch]
  <2>2. pod.now \in 0 .. MaxTime /\ pod.now \in Nat /\ pod.now \in Times
    BY <1>0, <1>6, Constants DEF Sync, Timed, Times
  <2>3. patch \in Rows /\ (patch.status = "verified" => pod.now < patch.checked + AttestWindow)
    BY <1>0, <2>2, Projects DEF Typed
  <2>4. (patch # row /\ pod' = [d EXCEPT !.pc = "apply"]) \/ (patch = row /\ pod' = Onward(d))
    BY <2>1
  <2>5. row' = row
    BY <1>6 DEF Sync
  <2> HIDE DEF patch
  <2>6. d \in PodType /\ d.now = pod.now /\ d.left = patch /\ d.confirmed = pod.now
    BY <1>0, <2>2, <2>3 DEF PodType
  <2> HIDE DEF d
  <2>7. CASE patch # row /\ pod' = [d EXCEPT !.pc = "apply"]
    <3>1. pod'.pc = "apply"
      BY <2>6, <2>7 DEF PodType
    <3> QED
      BY <1>1, <3>1
  <2>8. CASE patch = row /\ pod' = Onward(d)
    BY <1>0, <1>4, <2>2, <2>3, <2>5, <2>6, <2>8, Constants
  <2> QED
    BY <2>4, <2>7, <2>8
<1>7. ASSUME UNCHANGED row, NEW d \in PodType, pod' = FromRows(d), pod.pc \notin {"down", "idle"}, d.now = pod.now,
             d.confirmed = pod.confirmed, d.sync => (row.enabled => side = NotHeld)
      PROVE  Offers' /\ OneRebuild'
  <2>1. CASE row.enabled
    <3> DEFINE e == [d EXCEPT !.left = row]
    <3>1. e \in PodType /\ e.now = d.now /\ e.confirmed = d.confirmed /\ e.left = row /\ e.sync = d.sync
      BY <1>0 DEF PodType
    <3>2. pod' = Onward(e) /\ pod.now \in Nat
      BY <1>0, <1>7, <2>1, TakesRow DEF Timed
    <3> HIDE DEF e
    <3>3. row.status = "verified" /\ e.sync /\ e.confirmed = e.now => e.now < row.checked + AttestWindow
      BY <1>0, <1>7, <2>1, <3>1, <3>2, Constants DEF EnabledSince
    <3> QED
      BY <1>0, <1>4, <1>5, <1>7, <3>1, <3>2, <3>3, Constants
  <2>2. CASE ~row.enabled
    <3>1. pod' = [d EXCEPT !.pc = "refresh", !.confirmed = None]
      BY <1>0, <1>7, <2>2, TakesRow
    <3>2. pod'.pc = "refresh"
      BY <3>1 DEF PodType
    <3> QED
      BY <1>7, <2>2, <3>2 DEF Offers, OneRebuild, Routable
  <2> QED
    BY <2>1, <2>2
<1>8. CASE SyncUnnamed
  <2>1. row.enabled => side = NotHeld
    BY <1>0, <1>8, Says DEF SyncUnnamed, Typed
  <2> QED
    BY <1>0, <1>7, <1>8, <2>1 DEF SyncUnnamed
<1>9. CASE RefreshFromRows
  <2> DEFINE d == [pod EXCEPT !.sync = FALSE]
  <2>1. d \in PodType /\ d.now = pod.now /\ d.confirmed = pod.confirmed /\ ~d.sync
    BY <1>0 DEF PodType
  <2>2. pod' = FromRows(d) /\ UNCHANGED row /\ pod.pc \notin {"down", "idle"}
    BY <1>9 DEF RefreshFromRows
  <2> HIDE DEF d
  <2> QED
    BY <1>7, <2>1, <2>2
<1>10. CASE Apply
  <2>1. pod.left \in Rows /\ pod.left # None /\ pod.now \in Nat /\ pod.pc = "apply" /\ pod' = Onward(pod)
    BY <1>0, <1>10 DEF Apply, Arriving, PodType, Timed
  <2>2. row'.status = pod.left.status
    BY <1>0, <1>10, <2>1, Patches DEF Apply
  <2> QED
    BY <1>0, <1>4, <1>5, <2>1, <2>2 DEF Arriving
<1>11. CASE Lapse
  <2>1. pod.left \in Rows /\ pod.now \in 0 .. MaxTime
    BY <1>0, <1>11, Constants DEF Lapse, Arriving, Timed, PodType
  <2> DEFINE p == ExpireVerdict(pod.left, pod.now)
  <2>2. p \in Rows /\ p.status = "pending"
    BY <2>1, Expires
  <2>3. Patched(p) /\ pod' = [pod EXCEPT !.pc = "refresh", !.left = p, !.confirmed = None]
    BY <1>11 DEF Lapse
  <2> HIDE DEF p
  <2>4. pod'.pc = "refresh" /\ row'.status = "pending"
    BY <1>0, <2>2, <2>3, Patches DEF PodType
  <2> QED
    BY <2>4 DEF Offers, OneRebuild, Routable
<1>12. CASE Refresh
  <2>1. /\ pod.pc = "refresh" /\ admin.pc # "assign" /\ UNCHANGED <<row, admin>>
        /\ pod' = [pod EXCEPT !.pc = "assign", !.built = Routable]
    BY <1>12 DEF Refresh, MayRebuild, Rebuilding
  <2>2. /\ pod'.pc = "assign" /\ pod'.built = Routable /\ pod'.now = pod.now /\ pod'.confirmed = pod.confirmed
        /\ pod'.left = pod.left /\ pod'.sync = pod.sync /\ pod'.clean = pod.clean
    BY <1>0, <2>1 DEF PodType
  <2> QED
    BY <1>0, <2>1, <2>2 DEF Offers, OneRebuild, Fresh, Routable
<1>13. CASE Assign
  <2>1. /\ pod.pc = "assign" /\ admin.pc # "assign" /\ UNCHANGED <<row, admin>>
        /\ pod' = [pod EXCEPT !.pc = "alert", !.catalog = pod.built]
    BY <1>0, <1>13 DEF Assign, OneRebuild
  <2>2. /\ pod'.pc = "alert" /\ pod'.catalog = pod.built /\ pod'.now = pod.now /\ pod'.confirmed = pod.confirmed
        /\ pod'.left = pod.left /\ pod'.sync = pod.sync /\ pod'.clean = pod.clean
    BY <1>0, <2>1 DEF PodType
  <2> QED
    BY <1>0, <2>1, <2>2 DEF Offers, OneRebuild, Fresh, Routable
<1>14. CASE PollOnce \/ Boot \/ ResetToPending \/ Crash \/ Booted \/ EventRecorded \/ QueryFails \/ AlertOnOutages
  <2>1. CASE Crash
    BY <1>1, <2>1 DEF Crash, Down
  <2>2. CASE Booted
    <3>1. pod'.pc = "idle"
      BY <1>0, <2>2, Goes DEF Booted, PodType
    <3> QED
      BY <1>1, <3>1
  <2> QED
    BY <1>0, <1>1, <1>14, <2>1, <2>2, Rests
<1>15. CASE OtherPod
  <2>1. pod'.clean = FALSE /\ pod'.pc = pod.pc /\ UNCHANGED admin
    BY <1>0, <1>15 DEF OtherPod, PodType
  <2> QED
    BY <1>0, <2>1 DEF Offers, OneRebuild
<1>16. CASE Disable \/ Enable \/ Repoint \/ PinDigest
  BY <1>0, <1>3, <1>16, Commits, CalmSteps
<1>17. CASE PublishFails \/ UNCHANGED vars
  BY <1>0, <1>17 DEF PublishFails, NoOp, vars, Offers, OneRebuild, Fresh, Routable
<1>18. CASE AdminRefresh
  <2>1. admin'.pc = "assign" /\ admin'.built = Routable /\ UNCHANGED <<row, pod>> /\ pod.pc # "assign"
    BY <1>0, <1>18 DEF AdminRefresh, MayRebuild, Rebuilding, AdminType
  <2> QED
    BY <1>0, <2>1 DEF Offers, OneRebuild, Fresh, Routable
<1>19. CASE AdminAssign
  <2>1. admin.pc = "assign" /\ admin'.pc = "idle" /\ UNCHANGED row /\ pod' = [pod EXCEPT !.catalog = admin.built]
    BY <1>0, <1>19 DEF AdminAssign, AdminType
  <2>2. /\ pod'.pc = pod.pc /\ pod'.catalog = admin.built /\ pod'.built = pod.built /\ pod'.now = pod.now
        /\ pod'.confirmed = pod.confirmed /\ pod'.left = pod.left /\ pod'.sync = pod.sync /\ pod'.clean = pod.clean
    BY <1>0, <2>1 DEF PodType
  <2> QED
    BY <1>0, <2>1, <2>2 DEF Offers, OneRebuild, Fresh, Routable
<1> QED
  BY <1>2, <1>6, <1>8, <1>9, <1>10, <1>11, <1>12, <1>13, <1>14, <1>15, <1>16, <1>17, <1>18, <1>19 DEF Next, Pass, Boots

LEMMA StepDisabled == StatusInv /\ [Next]_vars => Disabled'
<1> SUFFICES ASSUME StatusInv, [Next]_vars PROVE Disabled'
  OBVIOUS
<1>0. /\ Typed /\ OneRebuild /\ Disabled /\ row \in Rows /\ pod \in PodType /\ admin \in AdminType
      /\ clock \in 0 .. MaxTime
  BY DEF StatusInv, Typed
<1>1. ASSUME UNCHANGED admin, row'.enabled = row.enabled, pod'.catalog = pod.catalog, pod'.pc # "assign" \/ UNCHANGED pod
      PROVE  Disabled'
  BY <1>0, <1>1 DEF Disabled
<1>2. CASE Tick \/ Reload \/ UNCHANGED vars
  BY <1>0, <1>2 DEF Tick, Reload, vars, Disabled
<1>3. CASE PollOnce \/ Boot \/ EventRecorded \/ QueryFails \/ AlertOnOutages
  <2>1. UNCHANGED row
    BY <1>3 DEF PollOnce, Boot, EventRecorded, QueryFails, AlertOnOutages
  <2> QED
    BY <1>0, <1>1, <1>3, <2>1, Rests
<1>4. CASE SyncUnnamed \/ RefreshFromRows \/ Sync
  <2>1. CASE SyncUnnamed
    BY <1>0, <1>1, <2>1, TakesRow DEF SyncUnnamed
  <2>2. CASE RefreshFromRows
    <3>1. [pod EXCEPT !.sync = FALSE] \in PodType /\ [pod EXCEPT !.sync = FALSE].catalog = pod.catalog
      BY <1>0 DEF PodType
    <3> QED
      BY <1>0, <1>1, <2>2, <3>1, TakesRow DEF RefreshFromRows
  <2>3. CASE Sync
    <3>1. PICK v \in Verdicts(side) :
              LET patch == ProjectVerdict(row, v, pod.now)
                  d == [pod EXCEPT !.confirmed = pod.now, !.left = patch]
              IN  pod' = IF patch # row THEN [d EXCEPT !.pc = "apply"] ELSE Onward(d)
      BY <2>3 DEF Sync
    <3> DEFINE patch == ProjectVerdict(row, v, pod.now)
               d == [pod EXCEPT !.confirmed = pod.now, !.left = patch]
    <3>2. pod.now \in 0 .. MaxTime /\ pod.now \in Times
      BY <1>0, <2>3, Constants DEF Sync, StatusInv, Timed, Times
    <3>3. patch \in Rows
      BY <1>0, <3>2, Projects DEF Typed
    <3>4. pod' = [d EXCEPT !.pc = "apply"] \/ pod' = Onward(d)
      BY <3>1
    <3> HIDE DEF patch
    <3>5. d \in PodType /\ d.catalog = pod.catalog
      BY <1>0, <3>2, <3>3 DEF PodType
    <3> HIDE DEF d
    <3>6. [d EXCEPT !.pc = "apply"].pc = "apply" /\ [d EXCEPT !.pc = "apply"].catalog = d.catalog
      BY <3>5 DEF PodType
    <3>7. pod'.pc # "assign" /\ pod'.catalog = pod.catalog
      BY <3>4, <3>5, <3>6, Goes
    <3> QED
      BY <1>1, <2>3, <3>7 DEF Sync
  <2> QED
    BY <1>4, <2>1, <2>2, <2>3
<1>5. CASE Apply
  <2>1. row'.enabled = row.enabled
    BY <1>0, <1>5, Patches DEF Apply, StatusInv, Arriving, PodType
  <2>2. pod'.pc # "assign" /\ pod'.catalog = pod.catalog
    BY <1>0, <1>5, Goes DEF Apply, PodType
  <2> QED
    BY <1>1, <1>5, <2>1, <2>2 DEF Apply
<1>6. CASE Lapse
  <2>1. pod.left \in Rows /\ pod.now \in 0 .. MaxTime
    BY <1>0, <1>6, Constants DEF Lapse, StatusInv, Arriving, Timed, PodType, Typed
  <2>2. row'.enabled = row.enabled
    BY <1>0, <1>6, <2>1, Expires, Patches DEF Lapse
  <2>3. pod'.pc # "assign" /\ pod'.catalog = pod.catalog
    BY <1>0, <1>6 DEF Lapse, PodType
  <2> QED
    BY <1>1, <1>6, <2>2, <2>3 DEF Lapse
<1>7. CASE Refresh
  <2>1. pod'.pc = "assign" /\ pod'.catalog = pod.catalog /\ pod'.built = Routable /\ UNCHANGED <<admin, row>>
    BY <1>0, <1>7 DEF Refresh, PodType
  <2> QED
    BY <1>0, <2>1 DEF Disabled, Routable
<1>8. CASE Assign
  <2>1. pod.pc = "assign" /\ pod'.pc = "alert" /\ pod'.catalog = pod.built /\ UNCHANGED <<admin, row>>
    BY <1>0, <1>8 DEF Assign, PodType
  <2> QED
    BY <1>0, <2>1 DEF Disabled
<1>9. CASE ResetToPending
  <2>1. row'.enabled = row.enabled
    BY <1>0, <1>9, Clears DEF ResetToPending, PodType
  <2>2. pod'.pc # "assign" /\ pod'.catalog = pod.catalog
    BY <1>0, <1>9 DEF ResetToPending, PodType
  <2> QED
    BY <1>1, <1>9, <2>1, <2>2 DEF ResetToPending
<1>10. CASE Booted
  <2>1. pod'.pc = "idle" /\ pod'.catalog = Routable /\ UNCHANGED <<admin, row>>
    BY <1>0, <1>10, Goes DEF Booted, PodType
  <2> QED
    BY <1>0, <2>1 DEF Disabled, Routable
<1>11. CASE Crash \/ PublishFails
  BY <1>11 DEF Crash, PublishFails, NoOp, Disabled
<1>12. CASE OtherPod
  <2>1. Rendered \in HeldType \cup {NotHeld}
    BY <1>0 DEF Rendered, HeldType, Rows
  <2>2. clock \in 0 .. MaxTime
    BY <1>0 DEF Typed
  <2>3. row' = ExpireVerdict(row, clock) => row'.enabled = row.enabled
    BY <1>0, <2>2, Expires
  <2>4. ASSUME NEW v \in Verdicts(Rendered), row' = ProjectVerdict(row, v, clock) PROVE row'.enabled = row.enabled
    BY <1>0, <2>1, <2>2, <2>4, Projects
  <2>5. row'.enabled = row.enabled
    BY <1>12, <2>3, <2>4 DEF OtherPod
  <2>6. pod'.catalog = pod.catalog /\ pod'.pc = pod.pc /\ pod'.built = pod.built /\ UNCHANGED admin
    BY <1>0, <1>12 DEF OtherPod, PodType
  <2> QED
    BY <1>0, <2>5, <2>6 DEF Disabled
<1>13. CASE Disable
  <2>1. row'.enabled = FALSE
    <3>1. Cleared(row) \in Rows
      BY <1>0, Clears
    <3> QED
      BY <1>13, <3>1 DEF Disable, Rows
  <2> QED
    BY <1>13, <2>1, Commits DEF Disabled
<1>14. CASE (Enable \/ Repoint \/ PinDigest) /\ ~Disable
  BY <1>14, Commits DEF Disabled
<1>15. CASE AdminRefresh
  <2>1. admin'.pc = "assign" /\ admin'.op = admin.op /\ admin'.built = Routable /\ UNCHANGED <<row, pod>>
    BY <1>0, <1>15 DEF AdminRefresh, AdminType
  <2> QED
    BY <1>0, <2>1 DEF Disabled, Routable
<1>16. CASE AdminAssign
  <2>1. admin.pc = "assign" /\ admin'.pc = "idle" /\ admin'.op = admin.op /\ UNCHANGED row
    BY <1>0, <1>16 DEF AdminAssign, AdminType
  <2>2. pod'.pc = pod.pc /\ pod'.catalog = admin.built
    BY <1>0, <1>16 DEF AdminAssign, PodType
  <2> QED
    BY <1>0, <2>1, <2>2 DEF Disabled, OneRebuild
<1> QED
  BY <1>2, <1>3, <1>4, <1>5, <1>6, <1>7, <1>8, <1>9, <1>10, <1>11, <1>12, <1>13, <1>14, <1>15, <1>16 DEF Next, Pass, Boots

-----------------------------------------------------------------------------
(* Theorems *)

LEMMA InitInv == Init => StatusInv
<1> SUFFICES ASSUME Init PROVE StatusInv
  OBVIOUS
<1>0. (CHOOSE u \in Urls : TRUE) \in Urls
  BY StatusAssumption
<1>1. Typed
  <2>1. clock \in 0 .. MaxTime /\ events \in 0 .. MaxEvents /\ 0 \in 0 .. AfterFailures /\ 0 \in Times /\ None \in Times
    BY Constants DEF Init, Times
  <2>2. row \in Rows
    BY <1>0, <2>1 DEF Init, Rows
  <2>3. pod \in PodType
    BY <2>1 DEF Init, Down, PodType
  <2>4. side \in HeldType \cup {NotHeld} /\ admin \in AdminType
    BY DEF Init, NoOp, AdminType
  <2> QED
    BY <2>1, <2>2, <2>3, <2>4 DEF Typed
<1>2. row.status = "pending" /\ pod.pc = "down" /\ pod.left = None /\ pod.confirmed = None /\ admin.pc = "idle" /\ admin.op = "none"
  BY DEF Init, Down, NoOp
<1> QED
  BY <1>1, <1>2 DEF StatusInv, Timed, Checked, RestsOnCheck, Arriving, EnabledSince, Offers, OneRebuild, Disabled

\* The inductive invariant holds of every run of the pod, beside another pod and
\* an operator, whatever fails (external-endpoints/*.ts).
THEOREM StatusInvariant == Spec => []StatusInv
<1>1. StatusInv /\ [Next]_vars => StatusInv'
  BY StepTyped, StepJudged, StepOffers, StepDisabled DEF StatusInv, Judged
<1> QED
  BY <1>1, InitInv, PTL DEF Spec

\* Every variable keeps its type.
THEOREM TypeCorrect == Spec => []TypeOK
<1>1. StatusInv => TypeOK
  BY DEF StatusInv, Typed, TypeOK, PodType
<1> QED
  BY <1>1, StatusInvariant, PTL

\* After a pass of a pod that is alone the catalogue offers nothing that the
\* sidecar has not named within the grace period, and, if the sidecar answered,
\* nothing it checked too long ago (status-projection.ts, lapses and isExpired).
THEOREM OffersExpire == Spec => []VerdictsExpire
<1>1. StatusInv => VerdictsExpire
  BY DEF StatusInv, Offers, Fresh, VerdictsExpire
<1> QED
  BY <1>1, StatusInvariant, PTL

\* Once an endpoint is disabled, the pod that did it does not offer it again,
\* whatever its poller had read before (external-catalog.service.ts, refresh).
THEOREM DisabledIsOut == Spec => []DisabledStaysOut
<1>1. StatusInv => DisabledStaysOut
  BY DEF StatusInv, Disabled, DisabledStaysOut
<1> QED
  BY <1>1, StatusInvariant, PTL
=============================================================================
