---------------------------- MODULE RolloutProofs ----------------------------
(***************************************************************************)
(* Proofs about Rollout, for every number of writers, edits and failures:  *)
(* renders that do not overlap leave the file equal to the rows, and never *)
(* leave half a file to a reader.                                          *)
(***************************************************************************)
EXTENDS Rollout, TLAPS

WriterType ==
    [pc : {"idle", "read", "compare", "open", "write", "rename"}, rendered : Configs \cup {None},
     fd : {"none", "tmp", "file", "gone"}]

\* A writer is at rest or in a render, and renders only while router-api runs.
WritersRest ==
    /\ \A w \in Writers : writer[w].pc = "idle" => writer[w] = Idle
    /\ api = "down" => AllIdle

\* One that has the directory to itself: no other renders, what it rendered is
\* still what the rows say, and it alone has put anything in the temporary file.
Alone(w) ==
    /\ \A v \in Writers : v # w => writer[v] = Idle
    /\ writer[w].fd \in {"none", "tmp"}
    /\ writer[w].pc \in {"compare", "open", "write", "rename"} => writer[w].rendered = db
    /\ writer[w].pc = "write" => writer[w].fd = "tmp" /\ tmp = Torn
    /\ writer[w].pc = "rename" => tmp = db

RendersAlone == ~overlapped => \A w \in Writers : writer[w] # Idle => Alone(w)

\* The sidecar waits for a configuration only without a child.
ChildStarted == side.pc = "wait" => child.pc = "none"

\* The inductive invariant.
RolloutInv ==
    /\ TypeOK
    /\ ChildStarted
    /\ WritersRest
    /\ RendersAlone
    /\ FileFollowsRows

-----------------------------------------------------------------------------
(* The operators of the model *)

LEMMA Values ==
  /\ Idle \in WriterType /\ Idle.pc = "idle" /\ Idle.fd = "none"
  /\ Torn \notin Configs /\ None \notin Configs /\ Runnable \subseteq Configs
BY RolloutAssumption DEF Idle, WriterType

LEMMA Types ==
  ASSUME TypeOK
  PROVE  writer \in [Writers -> WriterType] /\ db \in Configs /\ tmp \in Contents /\ file \in Contents
BY DEF TypeOK, WriterType

\* What a write leaves: the whole text, unless it went over another's.
LEMMA WritesWhole ==
  ASSUME NEW w, NEW old, NEW new \in Written(w, old)
  PROVE  /\ new \in {writer[w].rendered, Torn}
         /\ old = Torn => new = writer[w].rendered
BY DEF Written

-----------------------------------------------------------------------------
(* Types *)

SideType == [pc : {"wait", "stat", "digest", "watch", "look"}, applied : Contents]
ChildType ==
    [pc : {"none", "boot", "loaded", "listen", "apply", "exited"}, read : Contents, loaded : Contents, refused : BOOLEAN]

\* The two halves of TypeOK: router-api with its disk, and what watches the file.
RouterTyped ==
    /\ db \in past /\ past \subseteq Configs /\ tmp \in Contents /\ file \in Contents
    /\ edits \in 0 .. MaxEdits /\ api \in {"down", "boot", "up"}
    /\ writer \in [Writers -> WriterType]
    /\ overlapped \in BOOLEAN /\ reported \in BOOLEAN
SidecarTyped ==
    /\ side \in SideType /\ child \in ChildType
    /\ moved \in BOOLEAN /\ hup \in BOOLEAN
    /\ hup => child.pc \in {"listen", "apply"}

LEMMA TypedParts == TypeOK <=> RouterTyped /\ SidecarTyped /\ crashes \in 0 .. MaxCrashes
BY DEF TypeOK, RouterTyped, SidecarTyped, WriterType, SideType, ChildType

LEMMA CrashesCounted == crashes \in 0 .. MaxCrashes /\ [Next]_vars => crashes' \in 0 .. MaxCrashes
<1> SUFFICES ASSUME crashes \in 0 .. MaxCrashes, [Next]_vars PROVE crashes' \in 0 .. MaxCrashes
  OBVIOUS
<1>1. \/ UNCHANGED crashes
      \/ crashes < MaxCrashes /\ crashes' = crashes + 1
  BY DEF Next, vars, router, disk, Crash, Boot, Mutate, Render, ReadRows, Compare, Ends, Open, Write, Rename,
     RenameMissing, RenderFails, Sidecar, Start, RecordStamp, RecordDigest, Tick, Look, Restart, Gatekeeper, Load,
     Listen, HangUp, Reload, ReloadFails, ChildCrash
<1> QED
  BY <1>1, RolloutAssumption

\* The writer that moves keeps its type.
LEMMA WriterMoves ==
  ASSUME writer \in [Writers -> WriterType], NEW w \in Writers, NEW q \in WriterType,
         writer' = [writer EXCEPT ![w] = q]
  PROVE  writer' \in [Writers -> WriterType]
OBVIOUS

LEMMA WriterSteps ==
  ASSUME RouterTyped, NEW w \in Writers, NEW pc \in {"read", "compare", "open", "write", "rename"}
  PROVE  /\ [writer[w] EXCEPT !.pc = pc] \in WriterType
         /\ [writer[w] EXCEPT !.pc = pc, !.rendered = db] \in WriterType
         /\ [writer[w] EXCEPT !.pc = pc, !.fd = "tmp"] \in WriterType
<1>1. writer[w] \in WriterType /\ db \in Configs \cup {None}
  BY DEF RouterTyped
<1> QED
  BY <1>1 DEF WriterType

LEMMA RouterStepTyped == RouterTyped /\ [Next]_vars => RouterTyped'
<1> SUFFICES ASSUME RouterTyped, [Next]_vars PROVE RouterTyped'
  OBVIOUS
<1> USE DEF router, disk
<1>1. CASE Crash
  BY <1>1, Values DEF Crash, RouterTyped
<1>2. ASSUME NEW w \in Writers, Boot(w) PROVE RouterTyped'
  BY <1>2, WriterSteps, WriterMoves DEF Boot, RouterTyped
<1>3. ASSUME NEW w \in Writers, Mutate(w) PROVE RouterTyped'
  <2>1. edits' \in 0 .. MaxEdits
    <3>1. edits \in 0 .. MaxEdits /\ edits < MaxEdits /\ edits' = edits + 1
      BY <1>3 DEF Mutate, RouterTyped
    <3> QED
      BY <3>1, RolloutAssumption
  <2>2. writer' \in [Writers -> WriterType]
    BY <1>3, WriterSteps, WriterMoves DEF Mutate, RouterTyped
  <2>3. overlapped' \in BOOLEAN
    BY <1>3, Zenon DEF Mutate
  <2> QED
    BY <1>3, <2>1, <2>2, <2>3 DEF Mutate, RouterTyped
<1>4. ASSUME NEW w \in Writers, ReadRows(w) PROVE RouterTyped'
  <2>1. writer' = [writer EXCEPT ![w] = [writer[w] EXCEPT !.pc = "compare", !.rendered = db]]
    BY <1>4 DEF ReadRows, RouterTyped
  <2>2. writer' \in [Writers -> WriterType]
    BY <2>1, WriterSteps, WriterMoves DEF RouterTyped
  <2> QED
    BY <1>4, <2>2 DEF ReadRows, RouterTyped
<1>5. ASSUME NEW w \in Writers, NEW failed \in BOOLEAN, Ends(w, failed), UNCHANGED disk PROVE RouterTyped'
  BY <1>5, Values, WriterMoves DEF Ends, RouterTyped
<1>6. ASSUME NEW w \in Writers, Compare(w) PROVE RouterTyped'
  <2>1. CASE Ends(w, FALSE)
    BY <1>5, <1>6, <2>1 DEF Compare
  <2>2. CASE ~Ends(w, FALSE)
    BY <1>6, <2>2, WriterSteps, WriterMoves DEF Compare, RouterTyped
  <2> QED
    BY <2>1, <2>2
<1>7. ASSUME NEW w \in Writers, Open(w) PROVE RouterTyped'
  <2>1. writer' = [writer EXCEPT ![w] = [writer[w] EXCEPT !.pc = "write", !.fd = "tmp"]]
    BY <1>7 DEF Open, RouterTyped
  <2>2. writer' \in [Writers -> WriterType]
    BY <2>1, WriterSteps, WriterMoves DEF RouterTyped
  <2> QED
    BY <1>7, <2>2 DEF Open, RouterTyped, Contents
<1>8. ASSUME NEW w \in Writers, Write(w) PROVE RouterTyped'
  <2>1. writer[w].rendered \in Contents /\ Torn \in Contents
    <3>1. writer[w] \in WriterType
      BY DEF RouterTyped
    <3> QED
      BY <3>1 DEF WriterType, Contents
  <2>2. tmp' \in Contents /\ file' \in Contents
    BY <1>8, <2>1, WritesWhole DEF Write, RouterTyped
  <2>3. writer' = [writer EXCEPT ![w] = [writer[w] EXCEPT !.pc = "rename"]]
    BY <1>8 DEF Write
  <2>4. writer' \in [Writers -> WriterType]
    BY <2>3, WriterSteps, WriterMoves DEF RouterTyped
  <2> QED
    BY <1>8, <2>2, <2>4 DEF Write, RouterTyped
<1>9. ASSUME NEW w \in Writers, Rename(w) PROVE RouterTyped'
  <2>1. writer' \in [Writers -> WriterType]
    <3>1. \A v \in Writers : writer[v] \in WriterType
      BY DEF RouterTyped
    <3>2. \A v \in Writers, fd \in {"none", "tmp", "file", "gone"} : [writer[v] EXCEPT !.fd = fd] \in WriterType
      BY <3>1 DEF WriterType
    <3>3. \A v \in Writers : writer[v].fd \in {"none", "tmp", "file", "gone"}
      BY <3>1 DEF WriterType
    <3>4. writer' = [v \in Writers |->
                        IF v = w THEN Idle
                        ELSE [writer[v] EXCEPT !.fd = IF writer[v].fd = "tmp" THEN "file"
                                                      ELSE IF writer[v].fd = "file" THEN "gone" ELSE writer[v].fd]]
      BY <1>9 DEF Rename
    <3> QED
      BY <3>2, <3>3, <3>4, Values
  <2> QED
    BY <1>9, <2>1 DEF Rename, RouterTyped, Contents
<1>10. ASSUME NEW w \in Writers, RenameMissing(w) \/ RenderFails(w) PROVE RouterTyped'
  BY <1>5, <1>10 DEF RenameMissing, RenderFails
<1>11. CASE UNCHANGED <<router, disk>>
  BY <1>11 DEF RouterTyped
<1> QED
  BY <1>1, <1>2, <1>3, <1>4, <1>6, <1>7, <1>8, <1>9, <1>10, <1>11 DEF Next, vars, Render, Sidecar, Start, RecordStamp,
     RecordDigest, Tick, Look, Restart, Gatekeeper, Load, Listen, HangUp, Reload, ReloadFails, ChildCrash

LEMMA SidecarStepTyped == RouterTyped /\ SidecarTyped /\ ChildStarted /\ [Next]_vars => SidecarTyped'
<1> SUFFICES ASSUME RouterTyped, SidecarTyped, ChildStarted, [Next]_vars PROVE SidecarTyped'
  OBVIOUS
<1> USE DEF SidecarTyped
<1>0. file \in Contents /\ None \in Contents /\ Runnable \subseteq Contents /\ NoChild \in ChildType /\ Waiting \in SideType
  BY Values DEF RouterTyped, Contents, NoChild, ChildType, Waiting, SideType
<1>1. CASE Start
  <2>1. [side EXCEPT !.pc = "stat"] \in SideType
    BY DEF SideType
  <2>2. [NoChild EXCEPT !.pc = "boot"] \in ChildType /\ ~hup
    BY <1>0, <1>1 DEF ChildType, Start, ChildStarted
  <2> QED
    BY <1>1, <2>1, <2>2 DEF Start
<1>2. CASE RecordStamp \/ RecordDigest \/ Tick
  <2>1. side' \in SideType
    BY <1>0, <1>2 DEF RecordStamp, RecordDigest, Tick, SideType
  <2> QED
    <3>1. moved' \in BOOLEAN /\ UNCHANGED <<child, hup>>
      BY <1>2, Zenon DEF RecordStamp, RecordDigest, Tick
    <3> QED
      BY <2>1, <3>1, Zenon
<1>3. CASE Look
  <2>1. side' \in SideType /\ UNCHANGED <<child, moved>>
    BY <1>0, <1>3 DEF Look, SideType
  <2>2. hup' = hup \/ Signal
    BY <1>3 DEF Look
  <2>3. hup' \in BOOLEAN /\ (hup' => child.pc \in {"listen", "apply"})
    <3> DEFINE listening == child.pc \in {"listen", "apply"}
    <3>1. hup' = hup \/ hup' = (hup \/ listening)
      BY <2>2 DEF Signal
    <3>2. hup \in BOOLEAN /\ (hup => listening)
      OBVIOUS
    <3> HIDE DEF listening
    <3>3. CASE hup' = hup
      BY <3>2, <3>3 DEF listening
    <3>4. CASE hup' = (hup \/ listening)
      <4>1. hup' \in BOOLEAN
        BY <3>4, Zenon
      <4>2. hup' => listening
        BY <3>2, <3>4
      <4> QED
        BY <4>1, <4>2 DEF listening
    <3> QED
      BY <3>1, <3>3, <3>4
  <2> QED
    BY <2>1, <2>3
<1>4. CASE Restart
  BY <1>0, <1>4 DEF Restart, NoChild
<1>5. CASE Load
  BY <1>0, <1>5 DEF Load, ChildType, NoChild
<1>6. CASE Listen
  BY <1>6 DEF Listen, ChildType
<1>7. CASE HangUp
  BY <1>0, <1>7 DEF HangUp, ChildType
<1>8. CASE Reload \/ ReloadFails
  BY <1>0, <1>8 DEF Reload, ReloadFails, ChildType, NoChild
<1>9. CASE ChildCrash
  BY <1>0, <1>9 DEF ChildCrash, ChildType, NoChild
<1>10. CASE UNCHANGED <<side, child, hup>> /\ moved' \in BOOLEAN
  BY <1>10
<1>11. ASSUME NEW w \in Writers, Boot(w) \/ Mutate(w) \/ Render(w) \/ RenderFails(w)
       PROVE  UNCHANGED <<side, child, hup>> /\ moved' \in BOOLEAN
  BY <1>11 DEF Boot, Mutate, Render, ReadRows, Compare, Ends, Open, Write, Rename, RenameMissing, RenderFails
<1> QED
  BY <1>1, <1>2, <1>3, <1>4, <1>5, <1>6, <1>7, <1>8, <1>9, <1>10, <1>11 DEF Next, vars, Sidecar, Gatekeeper, Crash

LEMMA ChildStep == TypeOK /\ ChildStarted /\ [Next]_vars => ChildStarted'
<1> SUFFICES ASSUME TypeOK, ChildStarted, [Next]_vars PROVE ChildStarted'
  OBVIOUS
<1>0. side \in SideType /\ child \in ChildType
  BY TypedParts DEF SidecarTyped
<1>1. CASE Start \/ RecordStamp \/ RecordDigest \/ Tick \/ Look
  <2>1. side'.pc # "wait"
    BY <1>0, <1>1 DEF Start, RecordStamp, RecordDigest, Tick, Look, SideType
  <2> QED
    BY <2>1 DEF ChildStarted
<1>2. CASE Restart
  BY <1>2 DEF Restart, NoChild, ChildStarted
<1>3. CASE Gatekeeper \/ ReloadFails \/ ChildCrash
  BY <1>3 DEF Gatekeeper, Load, Listen, HangUp, Reload, ReloadFails, ChildCrash, ChildStarted
<1>4. CASE UNCHANGED <<side, child>>
  BY <1>4 DEF ChildStarted
<1> QED
  BY <1>1, <1>2, <1>3, <1>4 DEF Next, vars, Sidecar, Crash, Boot, Mutate, Render, ReadRows, Compare, Ends, Open, Write,
     Rename, RenameMissing, RenderFails

-----------------------------------------------------------------------------
(* The renders *)

\* What a render does to the others: nothing, unless it renames their file.
LEMMA StepRenders == RolloutInv /\ [Next]_vars => WritersRest' /\ RendersAlone' /\ FileFollowsRows'
<1> SUFFICES ASSUME RolloutInv, [Next]_vars PROVE WritersRest' /\ RendersAlone' /\ FileFollowsRows'
  OBVIOUS
<1>0. writer \in [Writers -> WriterType] /\ db \in Configs
  BY Types DEF RolloutInv
<1> USE DEF RolloutInv, disk, router
<1>1. CASE Crash
  <2>1. \A w \in Writers : writer'[w] = Idle
    BY <1>1 DEF Crash
  <2> QED
    BY <1>1, <2>1 DEF Crash, WritersRest, RendersAlone, FileFollowsRows, AllIdle
<1>2. ASSUME NEW w \in Writers, Boot(w) PROVE WritersRest' /\ RendersAlone' /\ FileFollowsRows'
  <2> DEFINE q == [writer[w] EXCEPT !.pc = "read"]
  <2>1. q.pc = "read" /\ q.fd = "none" /\ \A v \in Writers : writer[v] = Idle
    BY <1>0, <1>2, Values DEF Boot, WritersRest, AllIdle, WriterType
  <2>2. writer'[w] = q /\ \A v \in Writers : v # w => writer'[v] = writer[v]
    BY <1>0, <1>2 DEF Boot
  <2>3. api' = "boot"
    BY <1>2 DEF Boot
  <2> HIDE DEF q
  <2> QED
    BY <2>1, <2>2, <2>3 DEF WritersRest, RendersAlone, Alone, FileFollowsRows
<1>3. ASSUME NEW w \in Writers, Mutate(w) PROVE WritersRest' /\ RendersAlone' /\ FileFollowsRows'
  <2> DEFINE q == [writer[w] EXCEPT !.pc = "read"]
  <2>1. q.pc = "read" /\ q.fd = "none" /\ writer[w] = Idle
    BY <1>0, <1>3, Values DEF Mutate, WriterType
  <2>2. writer'[w] = q /\ \A v \in Writers : v # w => writer'[v] = writer[v]
    BY <1>0, <1>3 DEF Mutate
  <2>3. api' = "up" /\ (~overlapped' => AllIdle)
    BY <1>3 DEF Mutate
  <2> HIDE DEF q
  <2>4. WritersRest'
    BY <2>1, <2>2, <2>3 DEF WritersRest
  <2>5. RendersAlone'
    BY <2>1, <2>2, <2>3 DEF RendersAlone, Alone, AllIdle
  <2>6. ~AllIdle'
    BY <2>1, <2>2, Values DEF AllIdle
  <2> QED
    BY <2>4, <2>5, <2>6 DEF FileFollowsRows
<1>4. ASSUME NEW w \in Writers, NEW q \in WriterType, writer' = [writer EXCEPT ![w] = q], writer[w] # Idle, q.pc # "idle",
             UNCHANGED <<db, api, file, overlapped, reported>>,
             (Alone(w) /\ ~overlapped) =>
                 /\ q.fd \in {"none", "tmp"}
                 /\ q.pc \in {"compare", "open", "write", "rename"} => q.rendered = db
                 /\ q.pc = "write" => q.fd = "tmp" /\ tmp' = Torn
                 /\ q.pc = "rename" => tmp' = db
      PROVE  WritersRest' /\ RendersAlone' /\ FileFollowsRows'
  <2>1. writer'[w] = q /\ \A v \in Writers : v # w => writer'[v] = writer[v]
    BY <1>0, <1>4
  <2>2. api # "down"
    BY <1>4 DEF WritersRest, AllIdle
  <2>3. WritersRest'
    BY <1>4, <2>1, <2>2 DEF WritersRest
  <2>4. RendersAlone'
    BY <1>4, <2>1 DEF RendersAlone, Alone
  <2>5. ~AllIdle'
    BY <1>4, <2>1, Values DEF AllIdle
  <2> QED
    BY <2>3, <2>4, <2>5 DEF FileFollowsRows
<1>5. ASSUME NEW w \in Writers, writer[w] # Idle, ReadRows(w) PROVE WritersRest' /\ RendersAlone' /\ FileFollowsRows'
  <2> DEFINE q == [writer[w] EXCEPT !.pc = "compare", !.rendered = db]
  <2>1. q \in WriterType /\ q.pc = "compare" /\ q.rendered = db /\ q.fd = writer[w].fd
    BY <1>0 DEF WriterType
  <2>2. writer' = [writer EXCEPT ![w] = q] /\ UNCHANGED <<db, api, file, overlapped, reported, tmp>>
    BY <1>0, <1>5 DEF ReadRows
  <2> HIDE DEF q
  <2> QED
    BY <1>4, <1>5, <2>1, <2>2 DEF Alone
<1>6. ASSUME NEW w \in Writers, NEW failed \in BOOLEAN, writer[w] # Idle, Ends(w, failed), UNCHANGED disk,
             (Alone(w) /\ ~failed /\ ~overlapped) => file = db
      PROVE  WritersRest' /\ RendersAlone' /\ FileFollowsRows'
  <2>1. writer'[w] = Idle /\ \A v \in Writers : v # w => writer'[v] = writer[v]
    BY <1>0, <1>6 DEF Ends
  <2>2. api' = "up" /\ reported' = failed /\ UNCHANGED <<db, overlapped, tmp, file>>
    BY <1>6 DEF Ends
  <2>3. WritersRest'
    BY <2>1, <2>2 DEF WritersRest
  <2>4. RendersAlone'
    BY <1>6, <2>1, <2>2 DEF RendersAlone, Alone
  <2>5. FileFollowsRows'
    <3>1. CASE failed
      BY <2>2, <3>1 DEF FileFollowsRows
    <3>2. CASE ~failed /\ ~overlapped
      BY <1>6, <2>2, <3>2 DEF FileFollowsRows, RendersAlone
    <3>3. CASE overlapped
      BY <2>2, <3>3 DEF FileFollowsRows
    <3> QED
      BY <3>1, <3>2, <3>3
  <2> QED
    BY <2>3, <2>4, <2>5
<1>7. ASSUME NEW w \in Writers, writer[w] # Idle, Compare(w) PROVE WritersRest' /\ RendersAlone' /\ FileFollowsRows'
  <2>1. CASE file = writer[w].rendered
    <3>1. Ends(w, FALSE) /\ UNCHANGED disk
      BY <1>7, <2>1 DEF Compare
    <3>2. Alone(w) => file = db
      BY <1>7, <2>1 DEF Compare, Alone
    <3> QED
      BY <1>6, <1>7, <3>1, <3>2
  <2>2. CASE file # writer[w].rendered
    <3> DEFINE q == [writer[w] EXCEPT !.pc = "open"]
    <3>1. q \in WriterType /\ q.pc = "open" /\ q.rendered = writer[w].rendered /\ q.fd = writer[w].fd
      BY <1>0 DEF WriterType
    <3>2. writer' = [writer EXCEPT ![w] = q] /\ UNCHANGED <<db, api, file, overlapped, reported, tmp>>
      BY <1>7, <2>2 DEF Compare
    <3>3. writer[w].pc = "compare"
      BY <1>7 DEF Compare
    <3> HIDE DEF q
    <3> QED
      BY <1>4, <1>7, <3>1, <3>2, <3>3 DEF Alone
  <2> QED
    BY <2>1, <2>2
<1>8. ASSUME NEW w \in Writers, writer[w] # Idle, Open(w) PROVE WritersRest' /\ RendersAlone' /\ FileFollowsRows'
  <2> DEFINE q == [writer[w] EXCEPT !.pc = "write", !.fd = "tmp"]
  <2>1. q \in WriterType /\ q.pc = "write" /\ q.rendered = writer[w].rendered /\ q.fd = "tmp"
    BY <1>0 DEF WriterType
  <2>2. writer' = [writer EXCEPT ![w] = q] /\ tmp' = Torn /\ UNCHANGED <<db, api, file, overlapped, reported>>
    BY <1>0, <1>8 DEF Open
  <2>3. writer[w].pc = "open"
    BY <1>8 DEF Open
  <2> HIDE DEF q
  <2> QED
    BY <1>4, <1>8, <2>1, <2>2, <2>3 DEF Alone
<1>9. ASSUME NEW w \in Writers, writer[w] # Idle, Write(w) PROVE WritersRest' /\ RendersAlone' /\ FileFollowsRows'
  <2> DEFINE q == [writer[w] EXCEPT !.pc = "rename"]
  <2>1. q \in WriterType /\ q.pc = "rename" /\ q.rendered = writer[w].rendered /\ q.fd = writer[w].fd
    BY <1>0 DEF WriterType
  <2>2. writer' = [writer EXCEPT ![w] = q] /\ writer[w].pc = "write" /\ UNCHANGED <<db, api, overlapped, reported>>
    BY <1>9 DEF Write
  <2> HIDE DEF q
  <2>3. CASE Alone(w) /\ ~overlapped
    <3>1. writer[w].fd = "tmp" /\ tmp = Torn /\ writer[w].rendered = db
      BY <2>2, <2>3 DEF Alone
    <3>2. tmp' = db /\ UNCHANGED file
      BY <1>9, <3>1, WritesWhole DEF Write
    <3> QED
      BY <1>4, <1>9, <2>1, <2>2, <3>1, <3>2
  <2>4. CASE overlapped
    <3>1. writer'[w] = q /\ \A v \in Writers : v # w => writer'[v] = writer[v]
      BY <1>0, <2>2
    <3>2. api # "down"
      BY <1>9 DEF WritersRest, AllIdle
    <3> QED
      BY <2>1, <2>2, <2>4, <3>1, <3>2 DEF WritersRest, RendersAlone, FileFollowsRows
  <2> QED
    BY <1>9, <2>3, <2>4 DEF RendersAlone
<1>10. ASSUME NEW w \in Writers, writer[w] # Idle, Rename(w) PROVE WritersRest' /\ RendersAlone' /\ FileFollowsRows'
  <2>1. /\ writer[w].pc = "rename" /\ file' = tmp /\ api' = "up" /\ UNCHANGED <<db, overlapped>>
        /\ writer'[w] = Idle
        /\ \A v \in Writers : v # w =>
               writer'[v] = [writer[v] EXCEPT !.fd = IF @ = "tmp" THEN "file" ELSE IF @ = "file" THEN "gone" ELSE @]
    BY <1>10 DEF Rename
  <2>2. \A v \in Writers : v # w /\ writer[v] = Idle => writer'[v] = Idle
    BY <1>0, <2>1 DEF Idle
  <2>3. \A v \in Writers : v # w => writer'[v].pc = writer[v].pc
    BY <1>0, <2>1 DEF WriterType
  <2>4. WritersRest'
    BY <2>1, <2>2, <2>3 DEF WritersRest
  <2>5. CASE ~overlapped
    <3>1. Alone(w)
      BY <1>10, <2>5 DEF RendersAlone
    <3>2. \A v \in Writers : writer'[v] = Idle
      BY <2>1, <2>2, <3>1 DEF Alone
    <3>3. file' = db'
      BY <2>1, <3>1 DEF Alone
    <3> QED
      BY <2>4, <3>2, <3>3 DEF RendersAlone, FileFollowsRows
  <2>6. CASE overlapped
    BY <2>1, <2>4, <2>6 DEF RendersAlone, FileFollowsRows
  <2> QED
    BY <2>5, <2>6
<1>11. ASSUME NEW w \in Writers, RenderFails(w) \/ (writer[w] # Idle /\ RenameMissing(w))
       PROVE  WritersRest' /\ RendersAlone' /\ FileFollowsRows'
  BY <1>6, <1>11 DEF RenderFails, RenameMissing
<1>12. CASE UNCHANGED <<router, disk>>
  BY <1>12 DEF WritersRest, RendersAlone, Alone, FileFollowsRows, AllIdle
<1>13. ASSUME NEW w \in Writers, Render(w) PROVE writer[w] # Idle
  BY <1>13, Values DEF Render, ReadRows, Compare, Open, Write, Rename, RenameMissing
<1> QED
  BY <1>1, <1>2, <1>3, <1>5, <1>7, <1>8, <1>9, <1>10, <1>11, <1>12, <1>13 DEF Next, Render, vars, Sidecar, Start,
     RecordStamp, RecordDigest, Tick, Look, Restart, Gatekeeper, Load, Listen, HangUp, Reload, ReloadFails, ChildCrash

\* A render that has the temporary file to itself never leaves half a file.
LEMMA StepWhole == RolloutInv /\ [Next]_vars => [file' = Torn /\ file # Torn => overlapped]_vars
<1> SUFFICES ASSUME RolloutInv, [Next]_vars, file' = Torn, file # Torn, ~overlapped PROVE FALSE
  OBVIOUS
<1>0. db \in Configs /\ db # Torn
  BY Types, Values DEF RolloutInv
<1>1. ASSUME NEW w \in Writers, Write(w) PROVE FALSE
  <2>1. writer[w] # Idle
    BY <1>1, Values DEF Write
  <2>2. Alone(w)
    BY <2>1 DEF RolloutInv, RendersAlone
  <2> QED
    BY <1>1, <2>2 DEF Write, Alone
<1>2. ASSUME NEW w \in Writers, Rename(w) PROVE FALSE
  <2>1. writer[w] # Idle
    BY <1>2, Values DEF Rename
  <2>2. Alone(w)
    BY <2>1 DEF RolloutInv, RendersAlone
  <2> QED
    BY <1>0, <1>2, <2>2 DEF Rename, Alone
<1> QED
  BY <1>1, <1>2 DEF Next, vars, disk, router, Crash, Boot, Mutate, Render, ReadRows, Compare, Ends, Open, RenameMissing,
     RenderFails, Sidecar, Start, RecordStamp, RecordDigest, Tick, Look, Restart, Gatekeeper, Load, Listen, HangUp,
     Reload, ReloadFails, ChildCrash

-----------------------------------------------------------------------------
(* Theorems *)

LEMMA InitInv == Init => RolloutInv
<1> SUFFICES ASSUME Init PROVE RolloutInv
  OBVIOUS
<1>1. RouterTyped
  <2>1. db \in past /\ past \subseteq Configs /\ tmp \in Contents /\ file \in Contents /\ api \in {"down", "boot", "up"}
    BY Values DEF Init, Contents
  <2>2. edits \in 0 .. MaxEdits
    BY RolloutAssumption DEF Init
  <2>3. writer \in [Writers -> WriterType]
    BY Values DEF Init
  <2>4. overlapped \in BOOLEAN /\ reported \in BOOLEAN
    BY Zenon DEF Init
  <2> QED
    BY <2>1, <2>2, <2>3, <2>4, Zenon DEF RouterTyped
<1>2. SidecarTyped
  <2>1. side \in SideType /\ child \in ChildType
    BY DEF Init, Waiting, NoChild, SideType, ChildType, Contents
  <2>2. moved \in BOOLEAN /\ hup \in BOOLEAN /\ ~hup
    BY Zenon DEF Init
  <2> QED
    BY <2>1, <2>2, Zenon DEF SidecarTyped
<1>3. crashes \in 0 .. MaxCrashes
  BY RolloutAssumption DEF Init
<1>4. ChildStarted
  BY DEF Init, ChildStarted, NoChild
<1>5. WritersRest /\ RendersAlone /\ FileFollowsRows
  BY DEF Init, WritersRest, RendersAlone, FileFollowsRows, AllIdle
<1> QED
  BY <1>1, <1>2, <1>3, <1>4, <1>5, TypedParts DEF RolloutInv

\* The inductive invariant holds of every run, whatever fails and restarts.
THEOREM RolloutInvariant == Spec => []RolloutInv
<1>1. RolloutInv /\ [Next]_vars => RolloutInv'
  <2> SUFFICES ASSUME RolloutInv, [Next]_vars PROVE RolloutInv'
    OBVIOUS
  <2>1. RouterTyped' /\ SidecarTyped' /\ crashes' \in 0 .. MaxCrashes
    BY TypedParts, RouterStepTyped, SidecarStepTyped, CrashesCounted DEF RolloutInv
  <2>2. TypeOK'
    BY <2>1 DEF TypeOK, RouterTyped, SidecarTyped, WriterType, SideType, ChildType
  <2> QED
    BY <2>2, ChildStep, StepRenders DEF RolloutInv
<1> QED
  BY <1>1, InitInv, PTL DEF Spec

\* Every variable keeps its type, and only a child that listens has a signal
\* waiting.
THEOREM TypeCorrect == Spec => []TypeOK
<1>1. RolloutInv => TypeOK
  BY DEF RolloutInv
<1> QED
  BY <1>1, RolloutInvariant, PTL

\* Renders that do not overlap leave the file equal to the rows, through
\* crashes and failing calls (sidecar-config-writer.service.ts, render).
THEOREM RendersFollowRows == Spec => []FileFollowsRows
<1>1. RolloutInv => FileFollowsRows
  BY DEF RolloutInv
<1> QED
  BY <1>1, RolloutInvariant, PTL

\* A render that has the temporary file to itself never leaves half a file to
\* a reader (writeFile to `.tmp`, then rename).
THEOREM WholeFiles == Spec => NeverHalf
BY RolloutInvariant, StepWhole, PTL DEF Spec, NeverHalf
=============================================================================
