--------------------------- MODULE EndpointProofs ---------------------------
(***************************************************************************)
(* Proofs about Endpoint, for every number of goroutines, requests,        *)
(* connections, restarts and reloads: one verification runs at a time, no  *)
(* verdict outlives a teardown, no loop is orphaned, a request is admitted *)
(* only by a verdict formed since the teardown before its listener, and    *)
(* what the endpoint does to its pool the specification of Pool allows.    *)
(***************************************************************************)
EXTENDS Endpoint, TLAPS

\* What is proved of the pool holds of the one the endpoint drives.
PP == INSTANCE PoolProofs

MaybeVerdict == Verdicts \cup {Nil}

TaskType ==
    [st : TaskStates, kind : Kinds, own : 0 .. MaxGeneration, want : 0 .. MaxReload, gen : 0 .. MaxGeneration,
     by : 0 .. MaxReload, ret : MaybeVerdict, cancelled : BOOLEAN, late : BOOLEAN]

ReqType ==
    [st : ReqStates, own : 0 .. MaxGeneration, held : MaybeVerdict, conn : Conns \cup {Nil},
     task : Tasks \cup {Nil}, replayed : BOOLEAN]

TornType == [gen : 1 .. MaxGeneration, phase : {"drain", "cancel", "join"}]

\* A goroutine that moves the data plane has a verdict to move it to, and only
\* a loop waits for its timer.
AppliesVerdict ==
    \A t \in Tasks : /\ task[t].st \in {"apply", "sweep"} => task[t].ret \in Verdicts
                     /\ task[t].st = "timer" => task[t].kind = "loop"

\* A request that waits for its own re-check holds a denial; the goroutine it
\* waits for is its alone, and what that one brings back was formed since the
\* teardown before the request's listener.
Awaited(k, g) == /\ k.st # "idle" /\ k.kind = "onDemand"
                 /\ k.st = "verify" => k.gen >= g
                 /\ k.ret # Nil => k.ret.gen >= g - 1
RetryAwaits ==
    /\ \A r \in Requests : req[r].st = "retry" =>
           /\ req[r].task \in Tasks
           /\ Awaited(task[req[r].task], req[r].own)
           /\ req[r].held # Nil => ~req[r].held.admitted
    /\ \A r, s \in Requests : req[r].st = "retry" /\ req[s].st = "retry" /\ req[r].task = req[s].task => r = s

\* A request belongs to a listener that has been up, and has a connection only
\* while it is being forwarded.
RequestsOwned ==
    \A r \in Requests :
        /\ req[r].own <= generation
        /\ req[r].conn # Nil => req[r].st \in {"dial", "carry", "reuse"}

\* The inductive invariant.
Attested ==
    /\ SingleFlight
    /\ NoStaleGeneration
    /\ NoOrphanLoop
    /\ AppliesVerdict
    /\ RetryAwaits
    /\ RequestsOwned
    /\ AdmittedSinceTeardown

EndpointInv == TypeOK /\ Attested /\ PP!PoolInv

-----------------------------------------------------------------------------
(* The operators of the model *)

LEMMA Constants ==
  /\ OnDemandRetry \in Nat /\ VerdictCacheTTL \in Nat /\ MaxAge \in Nat /\ MaxGeneration \in Nat /\ MaxReload \in Nat
  /\ NoPin \notin Leaves /\ Nil \notin Conns /\ Attestable \subseteq Leaves
BY EndpointAssumption

\* The types, by name.
LEMMA Types ==
  ASSUME TypeOK
  PROVE  /\ task \in [Tasks -> TaskType] /\ req \in [Requests -> ReqType] /\ torn \subseteq TornType
         /\ verdict \in MaybeVerdict
         /\ generation \in Nat /\ running \in BOOLEAN
BY Constants DEF TypeOK, TaskType, ReqType, TornType, MaybeVerdict

\* A goroutine that enters attest.
LEMMA NewTask ==
  /\ NoTask \in TaskType /\ NoTask.st = "idle"
  /\ \A kind \in Kinds : /\ Task(kind) \in TaskType /\ Task(kind).st = "call" /\ Task(kind).kind = kind
                         /\ Task(kind).ret = Nil
<1>1. NoTask \in TaskType /\ NoTask.ret = Nil
  BY Constants DEF NoTask, TaskType, TaskStates, Kinds, MaybeVerdict
<1> QED
  BY <1>1 DEF NoTask, Task, TaskType, TaskStates

\* What attest returns to each kind of caller.
LEMMA Returns ==
  ASSUME TypeOK, NEW t \in Tasks, NEW v \in MaybeVerdict
  PROVE  /\ Return(t, v) \in TaskType
         /\ Return(t, v).st \in {"idle", "timer", "returned"}
         /\ task[t].kind = "loop" => Return(t, v).kind = "loop" /\ Return(t, v).own = task[t].own
         /\ task[t].kind # "loop" => Return(t, v).st # "timer" /\ Return(t, v).kind # "loop"
         /\ task[t].kind = "onDemand" =>
                Return(t, v).st = "returned" /\ Return(t, v).kind = "onDemand" /\ Return(t, v).ret = v
<1>1. task[t] \in TaskType /\ NoTask \in TaskType
  BY Types, NewTask
<1>2. CASE task[t].kind = "loop"
  <2>1. Return(t, v) = [NoTask EXCEPT !.st = "timer", !.kind = "loop", !.own = task[t].own, !.cancelled = task[t].cancelled]
    BY <1>2 DEF Return
  <2> QED
    BY <1>1, <1>2, <2>1 DEF TaskType, TaskStates, Kinds
<1>3. CASE task[t].kind \in {"onDemand", "reload"}
  <2>1. Return(t, v) = [NoTask EXCEPT !.st = "returned", !.kind = task[t].kind, !.want = task[t].want, !.ret = v]
    BY <1>3 DEF Return
  <2> QED
    BY <1>1, <1>3, <2>1 DEF TaskType, TaskStates, Kinds
<1>4. CASE task[t].kind \notin {"loop", "onDemand", "reload"}
  <2>1. Return(t, v) = NoTask
    BY <1>4 DEF Return
  <2> QED
    BY <1>1, <1>4, <2>1 DEF NoTask
<1> QED
  BY <1>2, <1>3, <1>4

\* The end of a flight moves those that joined it and nobody else.
LEMMA Wakes ==
  ASSUME NEW f \in [Tasks -> TaskType]
  PROVE  /\ WakeAll(f) \in [Tasks -> TaskType]
         /\ \A u \in Tasks :
                /\ WakeAll(f)[u].st = IF f[u].st = "wait" THEN "woken" ELSE f[u].st
                /\ f[u].st # "wait" => WakeAll(f)[u] = f[u]
                /\ WakeAll(f)[u].kind = f[u].kind /\ WakeAll(f)[u].own = f[u].own
                /\ WakeAll(f)[u].gen = f[u].gen /\ WakeAll(f)[u].ret = f[u].ret
BY DEF WakeAll, TaskType, TaskStates

\* What a verification can find.
LEMMA ResultsTyped ==
  ASSUME TypeOK, NEW t \in Tasks, NEW v \in Results(t)
  PROVE  v \in Verdicts /\ v.gen = task[t].gen
<1>1. task[t].gen \in 0 .. MaxGeneration /\ task[t].by \in 0 .. MaxReload
  BY Types DEF TaskType
<1> QED
  BY <1>1, Constants DEF Results, Verdicts, Pins

\* What ServeHTTP decides on the verdict it holds.
LEMMA Decides ==
  ASSUME TypeOK, NEW r \in Requests, NEW v \in MaybeVerdict
  PROVE  /\ Decided(r, v) \in ReqType
         /\ Decided(r, v).st \in {"idle", "open", "dial"}
         /\ Decided(r, v).own \in {0, req[r].own}
         /\ Decided(r, v).conn \in {Nil, req[r].conn}
         /\ Decided(r, v).st = "dial" =>
                v # Nil /\ v.admitted /\ Decided(r, v).held = v /\ Decided(r, v).own = req[r].own
<1>1. req[r] \in ReqType /\ NoReq \in ReqType
  BY Types, Constants DEF NoReq, ReqType, ReqStates, MaybeVerdict
<1>2. CASE v # Nil /\ v.admitted
  <2>1. Decided(r, v) = [req[r] EXCEPT !.st = "dial", !.held = v, !.task = Nil]
    BY <1>2 DEF Decided
  <2> QED
    BY <1>1, <1>2, <2>1 DEF ReqType, ReqStates
<1>3. CASE ~(v # Nil /\ v.admitted) /\ failMode = "open"
  <2>1. Decided(r, v) = [req[r] EXCEPT !.st = "open", !.held = v, !.task = Nil]
    BY <1>3 DEF Decided
  <2> QED
    BY <1>1, <1>3, <2>1 DEF ReqType, ReqStates
<1>4. CASE ~(v # Nil /\ v.admitted) /\ failMode # "open"
  <2>1. Decided(r, v) = NoReq
    BY <1>4 DEF Decided
  <2> QED
    BY <1>1, <1>4, <2>1 DEF NoReq
<1> QED
  BY <1>2, <1>3, <1>4

\* No request: its slot is free.
LEMMA NoRequest == NoReq \in ReqType /\ NoReq.st = "idle" /\ NoReq.conn = Nil /\ NoReq.own = 0
BY Constants DEF NoReq, ReqType, ReqStates, MaybeVerdict

-----------------------------------------------------------------------------
(* The pool *)

\* Each step of the endpoint is a step of its pool, or leaves the pool alone.
LEMMA PoolStep == EndpointInv /\ [Next]_vars => [AdmittedPool!PoolNext]_poolVars
<1> SUFFICES ASSUME EndpointInv, [Next]_vars PROVE AdmittedPool!PoolNext \/ UNCHANGED poolVars
  OBVIOUS
<1> USE DEF EndpointInv, Attested
<1>1. ASSUME NEW d \in torn, Release(d) PROVE AdmittedPool!PoolNext \/ UNCHANGED poolVars
  BY <1>1 DEF Release, AdmittedPool!PoolNext
<1>2. ASSUME NEW t \in Tasks, Apply(t) PROVE AdmittedPool!PoolNext
  <2>1. task[t].ret.leaf \in AdmittedPool!Pins
    BY <1>2 DEF Apply, AppliesVerdict, Verdicts, Pins, AdmittedPool!Pins
  <2> QED
    BY <1>2, <2>1 DEF Apply, AdmittedPool!PoolNext
<1>3. ASSUME NEW t \in Tasks, Sweep(t) PROVE AdmittedPool!PoolNext
  BY <1>3 DEF Sweep, AdmittedPool!PoolNext
<1>4. ASSUME NEW r \in Requests, RequestDials(r) PROVE AdmittedPool!PoolNext
  BY <1>4 DEF RequestDials, AdmittedPool!PoolNext, AdmittedPool!ConnStep
<1>5. ASSUME NEW r \in Requests, RequestReplays(r) PROVE AdmittedPool!PoolNext
  <2> DEFINE idle == {c \in AdmittedPool!OpenConns : Owner(c) = {}}
  <2>1. AdmittedPool!ForgetIdle(idle)
    BY <1>5 DEF RequestReplays
  <2>2. idle \cap conns \in SUBSET conns /\ conns \ idle = conns \ (idle \cap conns)
    OBVIOUS
  <2>3. AdmittedPool!ForgetIdle(idle \cap conns)
    BY <2>1, <2>2 DEF AdmittedPool!ForgetIdle
  <2> QED
    BY <2>2, <2>3 DEF AdmittedPool!PoolNext
<1>6. ASSUME NEW c \in Conns, ConnHandshake(c) PROVE AdmittedPool!PoolNext
  BY <1>6 DEF ConnHandshake, AdmittedPool!PoolNext, AdmittedPool!ConnStep
<1>7. ASSUME NEW c \in Conns, ConnRegister(c) PROVE AdmittedPool!PoolNext
  BY <1>7 DEF ConnRegister, AdmittedPool!PoolNext, AdmittedPool!ConnStep
<1>8. ASSUME NEW c \in Conns, ConnRefused(c) PROVE AdmittedPool!PoolNext
  BY <1>8 DEF ConnRefused, AdmittedPool!PoolNext, AdmittedPool!ConnStep
<1>9. ASSUME NEW c \in Conns, ConnLost(c) PROVE AdmittedPool!PoolNext
  BY <1>9 DEF ConnLost, AdmittedPool!PoolNext, AdmittedPool!ConnStep
<1>10. ASSUME NEW c \in Conns, ConnForget(c) PROVE AdmittedPool!PoolNext
  BY <1>10 DEF ConnForget, AdmittedPool!PoolNext, AdmittedPool!ConnStep
<1>11. CASE UNCHANGED poolVars
  BY <1>11
<1> QED
  BY <1>1, <1>2, <1>3, <1>4, <1>5, <1>6, <1>7, <1>8, <1>9, <1>10, <1>11 DEF Next, AttestStep, StartListener, Stop,
     ServeFailed, TearDown, Drained, Cancel, AttestReuse, AttestJoin, AttestWake, AttestBegin, AttestDiscard,
     AttestInstall, LoopTick, LoopExit, Reap, Reattest, ReloadSwap, ReloadAttest, Tick, Arrive, AdmitDecides,
     AdmitRetries, RetryAnswered, RetryTimesOut, RequestReuses, RequestDone, vars

\* The steps of the pool are those PoolProofs is about.
LEMMA SamePool ==
  /\ AdmittedPool!PoolNext <=> PP!PoolNext
  /\ AdmittedPool!PoolInit <=> PP!PoolInit
  /\ AdmittedPool!PoolTypeOK <=> PP!PoolTypeOK
  /\ AdmittedPool!PinnedConns <=> PP!PinnedConns
<1>1. AdmittedPool!PoolNext <=> PP!PoolNext
  BY DEF AdmittedPool!PoolNext, PP!PoolNext, AdmittedPool!ConnStep, PP!ConnStep, AdmittedPool!SetPin, PP!SetPin,
     AdmittedPool!CloseAll, PP!CloseAll, AdmittedPool!ForgetIdle, PP!ForgetIdle, AdmittedPool!Pins, PP!Pins,
     AdmittedPool!DialStart, PP!DialStart, AdmittedPool!DialFails, PP!DialFails, AdmittedPool!Handshake, PP!Handshake,
     AdmittedPool!HandshakeMismatch, PP!HandshakeMismatch, AdmittedPool!Register, PP!Register,
     AdmittedPool!RegisterMismatch, PP!RegisterMismatch, AdmittedPool!Forget, PP!Forget, AdmittedPool!Closed, PP!Closed,
     AdmittedPool!Closing, PP!Closing, AdmittedPool!OpenConns, PP!OpenConns, AdmittedPool!NoDial, PP!NoDial,
     AdmittedPool!PinStillCovers, PP!PinStillCovers
<1>2. AdmittedPool!PoolInit <=> PP!PoolInit
  BY DEF AdmittedPool!PoolInit, PP!PoolInit, AdmittedPool!NoDial, PP!NoDial
<1>3. AdmittedPool!PoolTypeOK <=> PP!PoolTypeOK
  BY DEF AdmittedPool!PoolTypeOK, PP!PoolTypeOK, AdmittedPool!Pins, PP!Pins, AdmittedPool!DialStates, PP!DialStates
<1>4. AdmittedPool!PinnedConns <=> PP!PinnedConns
  BY DEF AdmittedPool!PinnedConns, PP!PinnedConns
<1> QED
  BY <1>1, <1>2, <1>3, <1>4

LEMMA PoolInvStep ==
  ASSUME PP!PoolInv, [AdmittedPool!PoolNext]_poolVars
  PROVE  PP!PoolInv'
BY SamePool, PP!PoolStepInv, EndpointAssumption DEF PP!poolVars, poolVars

-----------------------------------------------------------------------------
(* Types *)

\* The part of TypeOK outside the pool.
EndpointTyped ==
    /\ failMode \in FailModes
    /\ running \in BOOLEAN
    /\ generation \in 0 .. MaxGeneration
    /\ verdict \in MaybeVerdict
    /\ age \in 0 .. MaxAge
    /\ attesting \in BOOLEAN
    /\ verifier \in 0 .. MaxReload
    /\ reloading \in BOOLEAN
    /\ task \in [Tasks -> TaskType]
    /\ torn \subseteq TornType
    /\ req \in [Requests -> ReqType]

LEMMA TypedParts == TypeOK <=> EndpointTyped /\ AdmittedPool!PoolTypeOK
BY DEF TypeOK, EndpointTyped, TaskType, ReqType, TornType, MaybeVerdict

\* One goroutine moves.
LEMMA TaskTyped ==
  ASSUME EndpointTyped, NEW t \in Tasks, NEW k \in TaskType, task' = [task EXCEPT ![t] = k]
  PROVE  task' \in [Tasks -> TaskType]
BY DEF EndpointTyped

\* One request moves.
LEMMA ReqTyped ==
  ASSUME EndpointTyped, NEW r \in Requests, NEW q \in ReqType, req' = [req EXCEPT ![r] = q]
  PROVE  req' \in [Requests -> ReqType]
BY DEF EndpointTyped

LEMMA StepTyped == EndpointInv /\ [Next]_vars => EndpointTyped'
<1> SUFFICES ASSUME EndpointInv, [Next]_vars PROVE EndpointTyped'
  OBVIOUS
<1>0. TypeOK /\ EndpointTyped /\ task \in [Tasks -> TaskType] /\ req \in [Requests -> ReqType]
  BY TypedParts DEF EndpointInv, EndpointTyped
<1> USE DEF listener, judged, reload, poolVars
<1>1. CASE StartListener
  <2>1. PICK t \in IdleTasks : task' = [task EXCEPT ![t] = [Task("loop") EXCEPT !.own = generation + 1]]
    BY <1>1 DEF StartListener
  <2>2. t \in Tasks /\ generation + 1 \in 0 .. MaxGeneration
    BY <1>0, <1>1, Constants DEF IdleTasks, EndpointTyped, StartListener
  <2>3. [Task("loop") EXCEPT !.own = generation + 1] \in TaskType
    BY <2>2, NewTask DEF TaskType, Kinds
  <2> QED
    BY <1>0, <1>1, <2>1, <2>2, <2>3, TaskTyped DEF EndpointTyped, StartListener
<1>2. CASE Stop \/ ServeFailed
  <2>1. PICK phase \in {"drain", "cancel"} : TearDown(phase)
    BY <1>2 DEF Stop, ServeFailed
  <2>2. generation + 1 \in 1 .. MaxGeneration /\ 0 \in 0 .. MaxAge
    BY <1>0, <2>1, Constants DEF EndpointTyped, TearDown
  <2> QED
    <3>1. [gen |-> generation + 1, phase |-> phase] \in TornType /\ Nil \in MaybeVerdict
      BY <2>2 DEF TornType, MaybeVerdict
    <3>2. generation' \in 0 .. MaxGeneration /\ torn' \subseteq TornType /\ verdict' \in MaybeVerdict /\ age' \in 0 .. MaxAge
      BY <1>0, <2>1, <2>2, <3>1 DEF EndpointTyped, TearDown
    <3> QED
      BY <1>0, <2>1, <3>2 DEF EndpointTyped, TearDown
<1>3. ASSUME NEW d \in torn, Drained(d) PROVE EndpointTyped'
  <2>1. d \in TornType
    BY <1>0 DEF EndpointTyped
  <2> QED
    BY <1>0, <1>3, <2>1 DEF EndpointTyped, Drained, TornType
<1>4. ASSUME NEW d \in torn, Cancel(d) PROVE EndpointTyped'
  <2>1. d \in TornType
    BY <1>0 DEF EndpointTyped
  <2>2. task' \in [Tasks -> TaskType]
    BY <1>0, <1>4 DEF Cancel, TaskType
  <2> QED
    BY <1>0, <1>4, <2>1, <2>2 DEF EndpointTyped, Cancel, TornType
<1>5. ASSUME NEW d \in torn, Release(d) PROVE EndpointTyped'
  BY <1>0, <1>5 DEF EndpointTyped, Release
<1>6. ASSUME NEW t \in Tasks, AttestReuse(t) \/ AttestWake(t) PROVE EndpointTyped'
  <2>1. Return(t, verdict) \in TaskType
    BY <1>0, Returns DEF EndpointTyped
  <2> QED
    BY <1>0, <1>6, <2>1, TaskTyped DEF EndpointTyped, AttestReuse, AttestWake
<1>7. ASSUME NEW t \in Tasks, AttestJoin(t) PROVE EndpointTyped'
  <2>1. [task[t] EXCEPT !.st = "wait"] \in TaskType
    BY <1>0 DEF TaskType, TaskStates
  <2> QED
    BY <1>0, <1>7, <2>1, TaskTyped DEF EndpointTyped, AttestJoin
<1>8. ASSUME NEW t \in Tasks, AttestBegin(t) PROVE EndpointTyped'
  <2>1. [task[t] EXCEPT !.st = "verify", !.gen = generation, !.by = verifier, !.late = task[t].cancelled] \in TaskType
    BY <1>0 DEF TaskType, TaskStates, EndpointTyped
  <2> QED
    BY <1>0, <1>8, <2>1, TaskTyped DEF EndpointTyped, AttestBegin
<1>9. ASSUME NEW t \in Tasks, AttestDiscard(t) PROVE EndpointTyped'
  <2>1. PICK result \in Results(t) : task' = WakeAll([task EXCEPT ![t] = Return(t, result)])
    BY <1>9 DEF AttestDiscard
  <2>2. Return(t, result) \in TaskType
    BY <1>0, ResultsTyped, Returns DEF MaybeVerdict
  <2>3. task' \in [Tasks -> TaskType]
    BY <1>0, <2>1, <2>2, Wakes
  <2> QED
    BY <1>0, <1>9, <2>3 DEF EndpointTyped, AttestDiscard
<1>10. ASSUME NEW t \in Tasks, AttestInstall(t) PROVE EndpointTyped'
  <2>1. PICK result \in Results(t) :
            verdict' = result /\ task' = WakeAll([task EXCEPT ![t].st = "apply", ![t].ret = result])
    BY <1>10 DEF AttestInstall
  <2>2. result \in Verdicts
    BY <1>0, ResultsTyped
  <2>3. [task[t] EXCEPT !.st = "apply", !.ret = result] \in TaskType
    <3>1. task[t] \in TaskType /\ result \in MaybeVerdict
      BY <1>0, <2>2 DEF MaybeVerdict
    <3> QED
      BY <3>1 DEF TaskType, TaskStates
  <2>4. task' \in [Tasks -> TaskType]
    <3>1. [task EXCEPT ![t] = [task[t] EXCEPT !.st = "apply", !.ret = result]] \in [Tasks -> TaskType]
      BY <1>0, <2>3
    <3>2. [task EXCEPT ![t].st = "apply", ![t].ret = result]
              = [task EXCEPT ![t] = [task[t] EXCEPT !.st = "apply", !.ret = result]]
      BY <1>0
    <3> QED
      BY <2>1, <3>1, <3>2, Wakes
  <2>5. verdict' \in MaybeVerdict
    BY <2>1, <2>2 DEF MaybeVerdict
  <2>6. age' \in 0 .. MaxAge /\ attesting' \in BOOLEAN
    <3>1. age' = 0
      BY <1>10 DEF AttestInstall
    <3>2. attesting' = FALSE
      BY <1>10 DEF AttestInstall
    <3>3. age' \in 0 .. MaxAge
      BY <3>1, Constants
    <3>4. attesting' \in BOOLEAN
      BY <3>2
    <3> QED
      BY <3>3, <3>4
  <2> QED
    BY <1>0, <1>10, <2>4, <2>5, <2>6 DEF EndpointTyped, AttestInstall
<1>11. ASSUME NEW t \in Tasks, Apply(t) \/ Sweep(t) PROVE EndpointTyped'
  <2>1. [task[t] EXCEPT !.st = "sweep"] \in TaskType /\ task[t].ret \in MaybeVerdict
    BY <1>0 DEF TaskType, TaskStates
  <2>2. Return(t, task[t].ret) \in TaskType
    BY <1>0, <2>1, Returns
  <2> QED
    BY <1>0, <1>11, <2>1, <2>2, TaskTyped DEF EndpointTyped, Apply, Sweep
<1>12. ASSUME NEW t \in Tasks, LoopTick(t) PROVE EndpointTyped'
  <2>1. [task[t] EXCEPT !.st = "call"] \in TaskType
    BY <1>0 DEF TaskType, TaskStates
  <2> QED
    BY <1>0, <1>12, <2>1, TaskTyped DEF EndpointTyped, LoopTick
<1>13. ASSUME NEW t \in Tasks, LoopExit(t) \/ Reap(t) PROVE EndpointTyped'
  BY <1>0, <1>13, NewTask, TaskTyped DEF EndpointTyped, LoopExit, Reap
<1>14. CASE Reattest
  BY <1>0, <1>14, NewTask, TaskTyped DEF EndpointTyped, Reattest, IdleTasks, Kinds
<1>15. CASE ReloadSwap
  BY <1>0, <1>15, Constants DEF EndpointTyped, ReloadSwap
<1>16. CASE ReloadAttest
  <2>1. [Task("reload") EXCEPT !.want = verifier] \in TaskType
    BY <1>0, NewTask DEF TaskType, Kinds, EndpointTyped
  <2> QED
    BY <1>0, <1>16, <2>1, TaskTyped DEF EndpointTyped, ReloadAttest, IdleTasks
<1>17. CASE Tick
  BY <1>0, <1>17, Constants DEF EndpointTyped, Tick
<1>18. ASSUME NEW r \in Requests, Arrive(r) PROVE EndpointTyped'
  <2>1. [NoReq EXCEPT !.st = "admit", !.own = generation] \in ReqType
    BY <1>0, NoRequest DEF ReqType, ReqStates, EndpointTyped
  <2> QED
    BY <1>0, <1>18, <2>1, ReqTyped DEF EndpointTyped, Arrive
<1>19. ASSUME NEW r \in Requests, AdmitDecides(r) PROVE EndpointTyped'
  <2>1. Decided(r, verdict) \in ReqType
    BY <1>0, Decides DEF EndpointTyped
  <2> QED
    BY <1>0, <1>19, <2>1, ReqTyped DEF EndpointTyped, AdmitDecides
<1>20. ASSUME NEW r \in Requests, AdmitRetries(r) PROVE EndpointTyped'
  <2>1. PICK t \in IdleTasks :
            /\ task' = [task EXCEPT ![t] = Task("onDemand")]
            /\ req' = [req EXCEPT ![r] =
                          IF failMode = "open" THEN Decided(r, verdict)
                          ELSE [req[r] EXCEPT !.st = "retry", !.held = verdict, !.task = t]]
    BY <1>20 DEF AdmitRetries
  <2>2. t \in Tasks /\ Task("onDemand") \in TaskType /\ verdict \in MaybeVerdict
    BY <1>0, NewTask DEF IdleTasks, Kinds, EndpointTyped
  <2>3. Decided(r, verdict) \in ReqType
    BY <1>0, <2>2, Decides
  <2>4. [req[r] EXCEPT !.st = "retry", !.held = verdict, !.task = t] \in ReqType
    <3>1. req[r] \in ReqType
      BY <1>0
    <3> QED
      BY <2>2, <3>1 DEF ReqType, ReqStates
  <2> QED
    BY <1>0, <1>20, <2>1, <2>2, <2>3, <2>4, TaskTyped, ReqTyped DEF EndpointTyped, AdmitRetries
<1>21. ASSUME NEW r \in Requests, RetryAnswered(r) PROVE EndpointTyped'
  <2> DEFINE t == req[r].task
             v == IF task[t].ret = Nil THEN req[r].held ELSE task[t].ret
  <2>1. t \in Tasks
    BY <1>21 DEF RetryAnswered, EndpointInv, Attested, RetryAwaits
  <2>2. v \in MaybeVerdict
    BY <1>0, <2>1 DEF TaskType, ReqType
  <2>3. Decided(r, v) \in ReqType
    BY <1>0, <2>2, Decides
  <2>4. req' = [req EXCEPT ![r] = Decided(r, v)] /\ task' = [task EXCEPT ![t] = NoTask]
    BY <1>21 DEF RetryAnswered
  <2> QED
    BY <1>0, <1>21, <2>1, <2>3, <2>4, TaskTyped, ReqTyped, NewTask DEF EndpointTyped, RetryAnswered
<1>22. ASSUME NEW r \in Requests, RetryTimesOut(r) PROVE EndpointTyped'
  <2>1. Decided(r, req[r].held) \in ReqType
    BY <1>0, Decides DEF ReqType
  <2> QED
    BY <1>0, <1>22, <2>1, ReqTyped DEF EndpointTyped, RetryTimesOut
<1>23. ASSUME NEW r \in Requests, RequestDials(r) PROVE EndpointTyped'
  <2>1. \A c \in Conns : [req[r] EXCEPT !.conn = c] \in ReqType
    BY <1>0 DEF ReqType
  <2> QED
    BY <1>0, <1>23, <2>1, ReqTyped DEF EndpointTyped, RequestDials
<1>24. ASSUME NEW r \in Requests, RequestReuses(r) PROVE EndpointTyped'
  <2>1. \A c \in AdmittedPool!OpenConns : [req[r] EXCEPT !.st = "reuse", !.conn = c] \in ReqType
    BY <1>0 DEF ReqType, ReqStates, AdmittedPool!OpenConns
  <2> QED
    BY <1>0, <1>24, <2>1, ReqTyped DEF EndpointTyped, RequestReuses
<1>25. ASSUME NEW r \in Requests, RequestReplays(r) PROVE EndpointTyped'
  <2>1. [req[r] EXCEPT !.st = "dial", !.replayed = TRUE] \in ReqType
    BY <1>0 DEF ReqType, ReqStates
  <2> QED
    BY <1>0, <1>25, <2>1, ReqTyped DEF EndpointTyped, RequestReplays
<1>26. ASSUME NEW r \in Requests, RequestDone(r) PROVE EndpointTyped'
  BY <1>0, <1>26, NoRequest, ReqTyped DEF EndpointTyped, RequestDone
<1>27. ASSUME NEW c \in Conns, ConnHandshake(c) \/ ConnForget(c) PROVE EndpointTyped'
  BY <1>0, <1>27 DEF EndpointTyped, ConnHandshake, ConnForget, endpointVars
<1>28. ASSUME NEW c \in Conns, ConnRegister(c) PROVE EndpointTyped'
  <2>1. req' \in [Requests -> ReqType]
    BY <1>0, <1>28 DEF ConnRegister, ReqType, ReqStates
  <2> QED
    BY <1>0, <1>28, <2>1 DEF EndpointTyped, ConnRegister
<1>29. ASSUME NEW c \in Conns, ConnRefused(c) PROVE EndpointTyped'
  <2>1. req' \in [Requests -> ReqType]
    BY <1>0, <1>29, NoRequest DEF ConnRefused
  <2>2. task' \in [Tasks -> TaskType]
    BY <1>0, <1>29, NewTask, TaskTyped DEF ConnRefused, IdleTasks, Kinds
  <2> QED
    BY <1>0, <1>29, <2>1, <2>2 DEF EndpointTyped, ConnRefused
<1>30. ASSUME NEW c \in Conns, ConnLost(c) PROVE EndpointTyped'
  <2>1. \A r \in Requests : Failed(r) \subseteq ReqType
    <3> TAKE r \in Requests
    <3>1. req[r] \in ReqType
      BY <1>0
    <3>2. [req[r] EXCEPT !.st = "replay", !.conn = Nil] \in ReqType
      BY <3>1 DEF ReqType, ReqStates
    <3> QED
      BY <3>2, NoRequest DEF Failed
  <2>2. req' \in [Requests -> ReqType]
    BY <1>0, <1>30, <2>1, ReqTyped DEF ConnLost, Owner
  <2> QED
    BY <1>0, <1>30, <2>2 DEF EndpointTyped, ConnLost
<1>31. CASE UNCHANGED vars
  BY <1>0, <1>31 DEF EndpointTyped, vars, endpointVars
<1> QED
  BY <1>1, <1>2, <1>3, <1>4, <1>5, <1>6, <1>7, <1>8, <1>9, <1>10, <1>11, <1>12, <1>13, <1>14, <1>15, <1>16, <1>17,
     <1>18, <1>19, <1>20, <1>21, <1>22, <1>23, <1>24, <1>25, <1>26, <1>27, <1>28, <1>29, <1>30, <1>31
     DEF Next, AttestStep

-----------------------------------------------------------------------------
(* Moves of one goroutine or of one request *)

\* The verdict in force is recent enough for every request there is.
LEMMA VerdictRecent ==
  ASSUME EndpointInv, verdict # Nil
  PROVE  verdict \in Verdicts /\ \A r \in Requests : verdict.gen >= req[r].own - 1
<1>1. verdict \in Verdicts /\ verdict.gen \in Int /\ generation \in Int
  BY Types DEF EndpointInv, MaybeVerdict, Verdicts
<1>2. \A r \in Requests : req[r].own \in Int /\ req[r].own <= generation
  BY Types DEF EndpointInv, Attested, RequestsOwned, ReqType
<1> QED
  BY <1>1, <1>2 DEF EndpointInv, Attested, NoStaleGeneration

\* What a re-check brings back to the request that waits for it.
LEMMA ReturnAwaited ==
  ASSUME EndpointInv, NEW t \in Tasks, NEW v \in MaybeVerdict, NEW r \in Requests,
         req[r].st = "retry", req[r].task = t, v # Nil => v.gen >= req[r].own - 1
  PROVE  Awaited(Return(t, v), req[r].own)
<1>1. task[t].kind = "onDemand"
  BY DEF EndpointInv, Attested, RetryAwaits, Awaited
<1> QED
  BY <1>1, Returns DEF EndpointInv, Awaited

Still == UNCHANGED <<running, generation, verdict, attesting, torn>>

\* A goroutine goes on: it stays the loop it was, and the one a request awaits.
Runs(t, k) ==
    /\ k.st # "idle" /\ k.kind = "loop" => task[t].st # "idle" /\ task[t].kind = "loop" /\ task[t].own = k.own
    /\ k.st \in {"apply", "sweep"} => k.ret \in Verdicts
    /\ k.st = "timer" => k.kind = "loop"

Continues(t, k) == Runs(t, k) /\ \A r \in Requests : req[r].st = "retry" /\ req[r].task = t => Awaited(k, req[r].own)

\* A goroutine goes on without beginning or ending a flight.
LEMMA TaskRuns ==
  ASSUME EndpointInv, Still, NEW t \in Tasks, NEW k, task' = [task EXCEPT ![t] = k],
         task[t].st # "verify", k.st # "verify", Runs(t, k)
  PROVE  SingleFlight' /\ NoStaleGeneration' /\ NoOrphanLoop' /\ AppliesVerdict'
<1>0. task'[t] = k /\ \A u \in Tasks : u # t => task'[u] = task[u]
  BY Types DEF EndpointInv
<1>1. Verifying' = Verifying
  BY <1>0 DEF Verifying
<1>2. SingleFlight'
  BY <1>1 DEF EndpointInv, Attested, SingleFlight, Still
<1>3. NoStaleGeneration'
  BY DEF EndpointInv, Attested, NoStaleGeneration, Still
<1>4. NoOrphanLoop'
  BY <1>0 DEF EndpointInv, Attested, NoOrphanLoop, Still, Runs
<1>5. AppliesVerdict'
  BY <1>0 DEF EndpointInv, Attested, AppliesVerdict, Runs
<1> QED
  BY <1>2, <1>3, <1>4, <1>5

LEMMA TaskMoves ==
  ASSUME EndpointInv, Still, req' = req, NEW t \in Tasks, NEW k, task' = [task EXCEPT ![t] = k],
         task[t].st # "verify", k.st # "verify", Continues(t, k)
  PROVE  Attested'
<1>1. SingleFlight' /\ NoStaleGeneration' /\ NoOrphanLoop' /\ AppliesVerdict'
  BY TaskRuns DEF Continues
<1>2. RequestsOwned' /\ AdmittedSinceTeardown'
  BY DEF EndpointInv, Attested, RequestsOwned, AdmittedSinceTeardown, Still
<1>3. RetryAwaits'
  <2>1. task'[t] = k /\ \A u \in Tasks : u # t => task'[u] = task[u]
    BY Types DEF EndpointInv
  <2> QED
    BY <2>1 DEF EndpointInv, Attested, RetryAwaits, Continues
<1> QED
  BY <1>1, <1>2, <1>3 DEF Attested

\* What a request is moved to: it belongs to a listener that has been up, and
\* is forwarded only on a verdict formed since the teardown before that one.
Served(q) ==
    /\ q.own <= generation
    /\ q.conn # Nil => q.st \in {"dial", "carry", "reuse"}
    /\ q.st \in {"dial", "carry", "reuse", "replay"} => q.held.gen >= q.own - 1

\* Requests go on.
LEMMA ReqsServed ==
  ASSUME EndpointInv, Still, \A r \in Requests : req'[r] = req[r] \/ Served(req'[r])
  PROVE  RequestsOwned' /\ AdmittedSinceTeardown'
BY DEF EndpointInv, Attested, RequestsOwned, AdmittedSinceTeardown, Served, Still

\* Requests go on that do not begin to wait for a re-check.
LEMMA ReqsMove ==
  ASSUME EndpointInv, Still, task' = task,
         \A r \in Requests : req'[r] = req[r] \/ (Served(req'[r]) /\ req'[r].st # "retry")
  PROVE  Attested'
<1>1. SingleFlight' /\ NoStaleGeneration' /\ NoOrphanLoop' /\ AppliesVerdict'
  BY DEF EndpointInv, Attested, SingleFlight, Verifying, NoStaleGeneration, NoOrphanLoop, AppliesVerdict, Still
<1>2. RequestsOwned' /\ AdmittedSinceTeardown'
  BY ReqsServed
<1>3. RetryAwaits'
  BY DEF EndpointInv, Attested, RetryAwaits
<1> QED
  BY <1>1, <1>2, <1>3 DEF Attested

\* One request goes on, and does not begin to wait for a re-check.
LEMMA ReqMoves ==
  ASSUME EndpointInv, Still, task' = task, NEW r \in Requests, NEW q, req' = [req EXCEPT ![r] = q],
         Served(q), q.st # "retry"
  PROVE  Attested'
<1>1. req'[r] = q /\ \A s \in Requests : s # r => req'[s] = req[s]
  BY Types DEF EndpointInv
<1> QED
  BY <1>1, ReqsMove

\* A goroutine that is started is awaited by nobody yet.
LEMMA TaskStarts ==
  ASSUME EndpointInv, Still, req' = req, NEW t \in IdleTasks, NEW k \in TaskType, task' = [task EXCEPT ![t] = k],
         k.st = "call", k.kind # "loop"
  PROVE  Attested'
<1>1. t \in Tasks /\ task[t].st = "idle"
  BY DEF IdleTasks
<1>2. \A r \in Requests : ~(req[r].st = "retry" /\ req[r].task = t)
  BY <1>1 DEF EndpointInv, Attested, RetryAwaits, Awaited
<1>3. Continues(t, k)
  BY <1>2 DEF Continues, Runs
<1> QED
  BY <1>1, <1>3, TaskMoves

-----------------------------------------------------------------------------
(* The steps *)

LEMMA StepAttested == EndpointInv /\ [Next]_vars => Attested'
<1> SUFFICES ASSUME EndpointInv, [Next]_vars PROVE Attested'
  OBVIOUS
<1>0. TypeOK /\ Attested /\ task \in [Tasks -> TaskType] /\ req \in [Requests -> ReqType] /\ generation \in Nat
      /\ verdict \in MaybeVerdict /\ torn \subseteq TornType
  BY Types DEF EndpointInv
<1> USE DEF listener, judged, reload, poolVars, Still
<1>1. CASE StartListener
  <2>1. PICK t \in IdleTasks : task' = [task EXCEPT ![t] = [Task("loop") EXCEPT !.own = generation + 1]]
    BY <1>1 DEF StartListener
  <2> DEFINE k == [Task("loop") EXCEPT !.own = generation + 1]
  <2>2. t \in Tasks /\ task[t].st = "idle"
    BY DEF IdleTasks
  <2>3. k.st = "call" /\ k.own = generation + 1
    BY NewTask DEF TaskType, Kinds
  <2> HIDE DEF k
  <2>4. task'[t] = k /\ \A u \in Tasks : u # t => task'[u] = task[u]
    BY <1>0, <2>1, <2>2 DEF k
  <2>5. ~running /\ running' /\ generation' = generation + 1 /\ UNCHANGED <<verdict, attesting, torn, req>>
    BY <1>1 DEF StartListener
  <2>6. SingleFlight'
    <3>1. Verifying' = Verifying
      BY <2>2, <2>3, <2>4 DEF Verifying
    <3> QED
      BY <1>0, <2>5, <3>1 DEF Attested, SingleFlight
  <2>7. NoStaleGeneration'
    BY <1>0, <2>5 DEF Attested, NoStaleGeneration
  <2>8. NoOrphanLoop'
    BY <1>0, <2>3, <2>4, <2>5 DEF Attested, NoOrphanLoop
  <2>9. AppliesVerdict'
    BY <1>0, <2>3, <2>4 DEF Attested, AppliesVerdict
  <2>10. RetryAwaits'
    BY <1>0, <2>2, <2>4, <2>5 DEF Attested, RetryAwaits, Awaited
  <2>11. RequestsOwned' /\ AdmittedSinceTeardown'
    BY <1>0, <2>5 DEF Attested, RequestsOwned, AdmittedSinceTeardown, ReqType
  <2> QED
    BY <2>6, <2>7, <2>8, <2>9, <2>10, <2>11 DEF Attested
<1>2. CASE Stop \/ ServeFailed
  <2>1. PICK phase \in {"drain", "cancel"} : TearDown(phase)
    BY <1>2 DEF Stop, ServeFailed
  <2>2. /\ generation' = generation + 1 /\ verdict' = Nil /\ UNCHANGED <<attesting, task, req>>
        /\ torn' = torn \cup {[gen |-> generation + 1, phase |-> phase]}
    BY <2>1 DEF TearDown
  <2>3. SingleFlight' /\ NoStaleGeneration' /\ AppliesVerdict' /\ RetryAwaits'
    BY <1>0, <2>2 DEF Attested, SingleFlight, Verifying, NoStaleGeneration, AppliesVerdict, RetryAwaits
  <2>4. RequestsOwned' /\ AdmittedSinceTeardown'
    BY <1>0, <2>2 DEF Attested, RequestsOwned, AdmittedSinceTeardown, ReqType
  <2>5. NoOrphanLoop'
    <3>1. [gen |-> generation + 1, phase |-> phase] \in torn' /\ [gen |-> generation + 1, phase |-> phase].gen = generation + 1
      BY <2>2
    <3> QED
      BY <1>0, <2>2, <3>1 DEF Attested, NoOrphanLoop
  <2> QED
    BY <2>3, <2>4, <2>5 DEF Attested
<1>3. ASSUME NEW d \in torn, NEW phase \in {"cancel", "join"},
             torn' = (torn \ {d}) \cup {[d EXCEPT !.phase = phase]},
             \A t \in Tasks : /\ task'[t].st = task[t].st /\ task'[t].kind = task[t].kind /\ task'[t].own = task[t].own
                              /\ task'[t].gen = task[t].gen /\ task'[t].ret = task[t].ret,
             UNCHANGED <<running, generation, verdict, attesting, req>>
      PROVE  Attested'
  <2>1. SingleFlight' /\ NoStaleGeneration' /\ AppliesVerdict' /\ RequestsOwned' /\ AdmittedSinceTeardown'
    BY <1>0, <1>3 DEF Attested, SingleFlight, Verifying, NoStaleGeneration, AppliesVerdict, RequestsOwned, AdmittedSinceTeardown
  <2>2. RetryAwaits'
    BY <1>0, <1>3 DEF Attested, RetryAwaits, Awaited
  <2>3. NoOrphanLoop'
    <3>1. [d EXCEPT !.phase = phase].gen = d.gen
      BY <1>0 DEF TornType
    <3>2. \A e \in torn : \E x \in torn' : x.gen = e.gen
      BY <1>3, <3>1
    <3> QED
      BY <1>0, <1>3, <3>2 DEF Attested, NoOrphanLoop
  <2> QED
    BY <2>1, <2>2, <2>3 DEF Attested
<1>4. ASSUME NEW d \in torn, Drained(d) PROVE Attested'
  BY <1>3, <1>4 DEF Drained
<1>5. ASSUME NEW d \in torn, Cancel(d) PROVE Attested'
  <2>1. \A t \in Tasks : /\ task'[t].st = task[t].st /\ task'[t].kind = task[t].kind /\ task'[t].own = task[t].own
                         /\ task'[t].gen = task[t].gen /\ task'[t].ret = task[t].ret
    BY <1>0, <1>5 DEF Cancel, TaskType
  <2> QED
    BY <1>3, <1>5, <2>1 DEF Cancel
<1>6. ASSUME NEW d \in torn, Release(d) PROVE Attested'
  <2>1. LoopOf(d) = {} /\ torn' = torn \ {d} /\ UNCHANGED <<running, generation, verdict, attesting, task, req>>
    BY <1>6 DEF Release
  <2>2. SingleFlight' /\ NoStaleGeneration' /\ AppliesVerdict' /\ RetryAwaits' /\ RequestsOwned' /\ AdmittedSinceTeardown'
    BY <1>0, <2>1 DEF Attested, SingleFlight, Verifying, NoStaleGeneration, AppliesVerdict, RetryAwaits,
       RequestsOwned, AdmittedSinceTeardown
  <2>3. NoOrphanLoop'
    <3> SUFFICES ASSUME NEW t \in Tasks, task[t].st # "idle", task[t].kind = "loop",
                        ~(running /\ task[t].own = generation)
                 PROVE  \E e \in torn \ {d} : e.gen = task[t].own + 1
      BY <2>1 DEF NoOrphanLoop
    <3>1. PICK e \in torn : e.gen = task[t].own + 1
      BY <1>0 DEF Attested, NoOrphanLoop
    <3>2. task[t].own \in Int
      BY <1>0 DEF TaskType
    <3>3. e # d
      BY <2>1, <3>1, <3>2 DEF LoopOf
    <3> QED
      BY <3>1, <3>3
  <2> QED
    BY <2>2, <2>3 DEF Attested
<1>7. ASSUME NEW t \in Tasks, AttestReuse(t) \/ AttestWake(t) PROVE Attested'
  <2>1. \A r \in Requests : req[r].st = "retry" /\ req[r].task = t => Awaited(Return(t, verdict), req[r].own)
    BY <1>0, ReturnAwaited, VerdictRecent
  <2>2. task' = [task EXCEPT ![t] = Return(t, verdict)] /\ task[t].st \in {"call", "woken", "wait"} /\ Still /\ req' = req
    BY <1>7 DEF AttestReuse, AttestWake
  <2> QED
    <3>1. Continues(t, Return(t, verdict)) /\ Return(t, verdict).st # "verify"
      BY <1>0, <2>1, <2>2, Returns DEF Continues, Runs
    <3> QED
      BY <2>2, <3>1, TaskMoves
<1>8. ASSUME NEW t \in Tasks, AttestJoin(t) PROVE Attested'
  <2> DEFINE k == [task[t] EXCEPT !.st = "wait"]
  <2>1. k \in TaskType /\ k.st = "wait" /\ k.kind = task[t].kind /\ k.own = task[t].own /\ k.ret = task[t].ret
    BY <1>0 DEF TaskType, TaskStates
  <2>2. task' = [task EXCEPT ![t] = k] /\ task[t].st = "call" /\ Still /\ req' = req
    BY <1>8 DEF AttestJoin
  <2> HIDE DEF k
  <2>3. \A r \in Requests : req[r].st = "retry" /\ req[r].task = t => Awaited(k, req[r].own)
    BY <1>0, <2>1 DEF Attested, RetryAwaits, Awaited
  <2>4. Continues(t, k)
    BY <2>1, <2>2, <2>3 DEF Continues, Runs
  <2> QED
    BY <2>1, <2>2, <2>4, TaskMoves
<1>9. ASSUME NEW t \in Tasks, AttestBegin(t) PROVE Attested'
  <2> DEFINE k == [task[t] EXCEPT !.st = "verify", !.gen = generation, !.by = verifier, !.late = task[t].cancelled]
  <2>1. k.st = "verify" /\ k.gen = generation /\ k.kind = task[t].kind /\ k.own = task[t].own /\ k.ret = task[t].ret
    BY <1>0 DEF TaskType
  <2>2. task' = [task EXCEPT ![t] = k] /\ task[t].st = "call"
    BY <1>9 DEF AttestBegin
  <2>3. ~attesting /\ attesting' /\ UNCHANGED <<running, generation, verdict, torn, req>>
    BY <1>9 DEF AttestBegin
  <2> HIDE DEF k
  <2>4. task'[t] = k /\ \A u \in Tasks : u # t => task'[u] = task[u]
    BY <1>0, <2>2
  <2>5. SingleFlight'
    <3>1. Verifying = {}
      BY <1>0, <2>3 DEF Attested, SingleFlight
    <3>2. Verifying' = {t}
      BY <2>1, <2>4, <3>1 DEF Verifying
    <3> QED
      BY <2>3, <3>2 DEF SingleFlight
  <2>6. NoStaleGeneration' /\ RequestsOwned' /\ AdmittedSinceTeardown'
    BY <1>0, <2>3 DEF Attested, NoStaleGeneration, RequestsOwned, AdmittedSinceTeardown
  <2>7. NoOrphanLoop' /\ AppliesVerdict'
    BY <1>0, <2>1, <2>2, <2>3, <2>4 DEF Attested, NoOrphanLoop, AppliesVerdict
  <2>8. RetryAwaits'
    BY <1>0, <2>1, <2>3, <2>4 DEF Attested, RetryAwaits, Awaited, RequestsOwned
  <2> QED
    BY <2>5, <2>6, <2>7, <2>8 DEF Attested
<1>10. ASSUME NEW t \in Tasks, NEW k \in TaskType, task[t].st = "verify",
              task' = WakeAll([task EXCEPT ![t] = k]), attesting' = FALSE, NoStaleGeneration',
              k.st \notin {"verify", "wait"}, Continues(t, k), UNCHANGED <<running, generation, torn, req>>
       PROVE  Attested'
  <2> DEFINE f == [task EXCEPT ![t] = k]
  <2>1. f \in [Tasks -> TaskType] /\ f[t] = k /\ \A u \in Tasks : u # t => f[u] = task[u]
    BY <1>0
  <2>2. task' = WakeAll(f)
    BY <1>10
  <2> HIDE DEF f
  <2>3. \A u \in Tasks :
            /\ task'[u].st = f[u].st \/ (f[u].st = "wait" /\ task'[u].st = "woken")
            /\ task'[u].kind = f[u].kind /\ task'[u].own = f[u].own
            /\ task'[u].gen = f[u].gen /\ task'[u].ret = f[u].ret
    BY <2>1, <2>2, Wakes
  <2>4. k.st # "verify" /\ k.st # "wait" /\ Continues(t, k) /\ UNCHANGED <<running, generation, torn, req>>
    BY <1>10
  <2>5. SingleFlight'
    <3>1. Verifying = {t}
      BY <1>0, <1>10 DEF Attested, SingleFlight, Verifying
    <3>2. Verifying' = {}
      BY <2>1, <2>3, <2>4, <3>1 DEF Verifying
    <3>3. attesting' = FALSE
      BY <1>10
    <3>4. attesting' = (Verifying' # {})
      BY <3>2, <3>3
    <3> QED
      BY <3>2, <3>4 DEF SingleFlight
  <2>6. RequestsOwned' /\ AdmittedSinceTeardown'
    BY <1>0, <2>4 DEF Attested, RequestsOwned, AdmittedSinceTeardown
  <2>7. NoOrphanLoop'
    BY <1>0, <2>1, <2>3, <2>4 DEF Attested, NoOrphanLoop, Continues, Runs
  <2>8. AppliesVerdict'
    BY <1>0, <2>1, <2>3, <2>4 DEF Attested, AppliesVerdict, Continues, Runs
  <2>9. RetryAwaits'
    BY <1>0, <2>1, <2>3, <2>4 DEF Attested, RetryAwaits, Awaited, Continues, Runs
  <2> QED
    BY <1>10, <2>5, <2>6, <2>7, <2>8, <2>9 DEF Attested
<1>11. ASSUME NEW t \in Tasks, task[t].st = "verify", NEW r \in Requests, req[r].st = "retry", req[r].task = t
       PROVE  task[t].kind = "onDemand" /\ task[t].gen >= req[r].own - 1
  BY <1>0, <1>11 DEF Attested, RetryAwaits, Awaited, TaskType, ReqType
<1>12. ASSUME NEW t \in Tasks, AttestDiscard(t) PROVE Attested'
  <2>1. PICK result \in Results(t) : task' = WakeAll([task EXCEPT ![t] = Return(t, result)])
    BY <1>12 DEF AttestDiscard
  <2>2. result \in MaybeVerdict /\ result.gen = task[t].gen
    BY <1>0, ResultsTyped DEF MaybeVerdict
  <2>3. task[t].st = "verify" /\ attesting' = FALSE /\ UNCHANGED <<running, generation, verdict, torn, req>>
    BY <1>12 DEF AttestDiscard
  <2>4. \A r \in Requests : req[r].st = "retry" /\ req[r].task = t => Awaited(Return(t, result), req[r].own)
    BY <1>11, <2>2, <2>3, ReturnAwaited
  <2>5. NoStaleGeneration'
    BY <1>0, <2>3 DEF Attested, NoStaleGeneration
  <2> QED
    <3>1. Return(t, result) \in TaskType /\ Return(t, result).st \notin {"verify", "wait"}
      BY <1>0, <2>2, Returns
    <3>2. Continues(t, Return(t, result))
      BY <1>0, <2>2, <2>3, <2>4, Returns DEF Continues, Runs
    <3> QED
      BY <1>10, <2>1, <2>3, <2>5, <3>1, <3>2
<1>13. ASSUME NEW t \in Tasks, AttestInstall(t) PROVE Attested'
  <2>1. PICK result \in Results(t) :
            verdict' = result /\ task' = WakeAll([task EXCEPT ![t].st = "apply", ![t].ret = result])
    BY <1>13 DEF AttestInstall
  <2> DEFINE k == [task[t] EXCEPT !.st = "apply", !.ret = result]
  <2>2. result \in Verdicts /\ result.gen = task[t].gen
    BY <1>0, ResultsTyped
  <2>3. task[t].st = "verify" /\ attesting' = FALSE /\ generation = task[t].gen /\ UNCHANGED <<running, generation, torn, req>>
    BY <1>13 DEF AttestInstall
  <2>4. k \in TaskType /\ k.st = "apply" /\ k.ret = result /\ k.kind = task[t].kind /\ k.own = task[t].own
    <3>1. task[t] \in TaskType /\ result \in MaybeVerdict
      BY <1>0, <2>2 DEF MaybeVerdict
    <3> QED
      BY <3>1 DEF TaskType, TaskStates
  <2>5. [task EXCEPT ![t].st = "apply", ![t].ret = result] = [task EXCEPT ![t] = k]
    BY <1>0
  <2> HIDE DEF k
  <2>6. \A r \in Requests : req[r].st = "retry" /\ req[r].task = t => Awaited(k, req[r].own)
    BY <1>11, <2>2, <2>3, <2>4 DEF Awaited
  <2>7. NoStaleGeneration'
    BY <2>1, <2>2, <2>3 DEF NoStaleGeneration
  <2> QED
    <3>1. Continues(t, k)
      BY <2>2, <2>3, <2>4, <2>6 DEF Continues, Runs
    <3> QED
      BY <1>10, <2>1, <2>3, <2>4, <2>5, <2>7, <3>1
<1>14. ASSUME NEW t \in Tasks, Apply(t) \/ Sweep(t) PROVE Attested'
  <2> DEFINE k == [task[t] EXCEPT !.st = "sweep"]
             v == task[t].ret
  <2>1. k \in TaskType /\ k.st = "sweep" /\ k.kind = task[t].kind /\ k.own = task[t].own /\ k.ret = v
    BY <1>0 DEF TaskType, TaskStates
  <2>2. /\ task' = [task EXCEPT ![t] = k] \/ task' = [task EXCEPT ![t] = Return(t, v)]
        /\ task[t].st \in {"apply", "sweep"} /\ Still /\ req' = req
    BY <1>14 DEF Apply, Sweep
  <2>3. v \in Verdicts /\ v \in MaybeVerdict
    BY <1>0, <2>2 DEF Attested, AppliesVerdict, MaybeVerdict
  <2> HIDE DEF k
  <2>4. \A r \in Requests : req[r].st = "retry" /\ req[r].task = t =>
            Awaited(k, req[r].own) /\ (v # Nil => v.gen >= req[r].own - 1)
    BY <1>0, <2>1 DEF Attested, RetryAwaits, Awaited
  <2>5. CASE task' = [task EXCEPT ![t] = k]
    <3>1. Continues(t, k)
      BY <2>1, <2>2, <2>3, <2>4 DEF Continues, Runs
    <3> QED
      BY <2>1, <2>2, <2>5, <3>1, TaskMoves
  <2>6. CASE task' = [task EXCEPT ![t] = Return(t, v)]
    <3>1. \A r \in Requests : req[r].st = "retry" /\ req[r].task = t => Awaited(Return(t, v), req[r].own)
      BY <2>3, <2>4, ReturnAwaited
    <3>2. Continues(t, Return(t, v)) /\ Return(t, v).st # "verify"
      BY <1>0, <2>2, <2>3, <3>1, Returns DEF Continues, Runs
    <3> HIDE DEF v
    <3> QED
      BY <2>2, <2>6, <3>2, TaskMoves
  <2> QED
    BY <2>2, <2>5, <2>6
<1>15. ASSUME NEW t \in Tasks, LoopTick(t) PROVE Attested'
  <2> DEFINE k == [task[t] EXCEPT !.st = "call"]
  <2>1. k \in TaskType /\ k.st = "call" /\ k.kind = task[t].kind /\ k.own = task[t].own /\ k.ret = task[t].ret
    BY <1>0 DEF TaskType, TaskStates
  <2>2. task' = [task EXCEPT ![t] = k] /\ task[t].st = "timer" /\ Still /\ req' = req
    BY <1>15 DEF LoopTick
  <2> HIDE DEF k
  <2>3. \A r \in Requests : req[r].st = "retry" /\ req[r].task = t => Awaited(k, req[r].own)
    BY <1>0, <2>1 DEF Attested, RetryAwaits, Awaited
  <2>4. Continues(t, k)
    BY <2>1, <2>2, <2>3 DEF Continues, Runs
  <2> QED
    BY <2>1, <2>2, <2>4, TaskMoves
<1>16. ASSUME NEW t \in Tasks, LoopExit(t) \/ Reap(t) PROVE Attested'
  <2>1. task' = [task EXCEPT ![t] = NoTask] /\ task[t].st \in {"timer", "returned"} /\ Still /\ req' = req
    BY <1>16 DEF LoopExit, Reap
  <2>2. \A r \in Requests : ~(req[r].st = "retry" /\ req[r].task = t)
    <3>1. CASE task[t].st = "timer"
      BY <1>0, <3>1 DEF Attested, RetryAwaits, Awaited, AppliesVerdict
    <3>2. CASE Reap(t)
      BY <3>2 DEF Reap
    <3> QED
      BY <1>16, <3>1, <3>2 DEF LoopExit
  <2> QED
    <3>1. Continues(t, NoTask) /\ NoTask.st # "verify"
      BY <2>2, NewTask DEF Continues, Runs
    <3> QED
      BY <2>1, <3>1, TaskMoves
<1>17. CASE Reattest
  BY <1>17, NewTask, TaskStarts DEF Reattest, Kinds
<1>18. CASE ReloadSwap \/ Tick
  BY <1>0, <1>18 DEF ReloadSwap, Tick, Attested, SingleFlight, Verifying, NoStaleGeneration, NoOrphanLoop,
     AppliesVerdict, RetryAwaits, RequestsOwned, AdmittedSinceTeardown
<1>19. CASE ReloadAttest
  <2> DEFINE k == [Task("reload") EXCEPT !.want = verifier]
  <2>1. k \in TaskType /\ k.st = "call" /\ k.kind = "reload"
    BY <1>0, NewTask DEF TaskType, Kinds, TypeOK
  <2>2. Still /\ req' = req /\ (task' = task \/ \E t \in IdleTasks : task' = [task EXCEPT ![t] = k])
    BY <1>19 DEF ReloadAttest
  <2> HIDE DEF k
  <2>3. CASE task' = task
    BY <1>0, <2>2, <2>3 DEF Attested, SingleFlight, Verifying, NoStaleGeneration, NoOrphanLoop,
       AppliesVerdict, RetryAwaits, RequestsOwned, AdmittedSinceTeardown
  <2> QED
    BY <2>1, <2>2, <2>3, TaskStarts
<1>20. ASSUME NEW r \in Requests, Arrive(r) PROVE Attested'
  <2> DEFINE q == [NoReq EXCEPT !.st = "admit", !.own = generation]
  <2>1. q.st = "admit" /\ q.own = generation /\ q.conn = Nil
    BY NoRequest DEF ReqType
  <2>2. req' = [req EXCEPT ![r] = q] /\ Still /\ task' = task
    BY <1>20 DEF Arrive
  <2> HIDE DEF q
  <2>3. Served(q)
    BY <1>0, <2>1 DEF Served
  <2> QED
    BY <2>1, <2>2, <2>3, ReqMoves
<1>21. ASSUME NEW r \in Requests, req[r].st \in {"admit", "retry"}, NEW v \in MaybeVerdict,
              v # Nil /\ v.admitted => v.gen >= req[r].own - 1
       PROVE  Served(Decided(r, v)) /\ Decided(r, v).st # "retry"
  <2>1. req[r].own \in 0 .. MaxGeneration /\ req[r].own <= generation /\ req[r].conn = Nil
    BY <1>0, <1>21 DEF Attested, RequestsOwned, ReqType
  <2> QED
    BY <1>0, <1>21, <2>1, Decides DEF Served
<1>22. ASSUME NEW r \in Requests, AdmitDecides(r) PROVE Attested'
  <2>1. Served(Decided(r, verdict)) /\ Decided(r, verdict).st # "retry"
    BY <1>0, <1>21, <1>22, VerdictRecent DEF AdmitDecides
  <2> QED
    BY <1>22, <2>1, ReqMoves DEF AdmitDecides
<1>23. ASSUME NEW r \in Requests, RetryTimesOut(r) PROVE Attested'
  <2>1. req[r].st = "retry" /\ req[r].held \in MaybeVerdict /\ (req[r].held # Nil => ~req[r].held.admitted)
    BY <1>0, <1>23 DEF RetryTimesOut, Attested, RetryAwaits, ReqType
  <2>2. Served(Decided(r, req[r].held)) /\ Decided(r, req[r].held).st # "retry"
    BY <1>21, <2>1
  <2> QED
    BY <1>23, <2>2, ReqMoves DEF RetryTimesOut
<1>24. ASSUME NEW r \in Requests, AdmitRetries(r) PROVE Attested'
  <2>1. PICK t \in IdleTasks :
            /\ task' = [task EXCEPT ![t] = Task("onDemand")]
            /\ req' = [req EXCEPT ![r] =
                          IF failMode = "open" THEN Decided(r, verdict)
                          ELSE [req[r] EXCEPT !.st = "retry", !.held = verdict, !.task = t]]
    BY <1>24 DEF AdmitRetries
  <2> DEFINE k == Task("onDemand")
             q == IF failMode = "open" THEN Decided(r, verdict)
                  ELSE [req[r] EXCEPT !.st = "retry", !.held = verdict, !.task = t]
  <2>2. t \in Tasks /\ task[t].st = "idle" /\ k.st = "call" /\ k.kind = "onDemand" /\ k.ret = Nil
    BY NewTask DEF IdleTasks, Kinds
  <2>3. req[r].st = "admit" /\ ~verdict.admitted /\ verdict # Nil /\ Still
    BY <1>24 DEF AdmitRetries, Retries
  <2>4. Served(q) /\ (q.st = "retry" => q.task = t /\ q.held = verdict)
    <3>1. CASE failMode = "open"
      BY <1>0, <1>21, <2>3, <3>1, VerdictRecent
    <3>2. CASE failMode # "open"
      <4>1. q = [req[r] EXCEPT !.st = "retry", !.held = verdict, !.task = t]
        BY <3>2
      <4>2. q.st = "retry" /\ q.task = t /\ q.held = verdict /\ q.own = req[r].own /\ q.conn = req[r].conn
        BY <1>0, <4>1 DEF ReqType
      <4>3. req[r].own <= generation /\ req[r].conn = Nil
        BY <1>0, <2>3 DEF Attested, RequestsOwned
      <4> HIDE DEF q
      <4> QED
        BY <4>2, <4>3 DEF Served
    <3> QED
      BY <3>1, <3>2
  <2>5. task' = [task EXCEPT ![t] = k] /\ req' = [req EXCEPT ![r] = q]
    BY <2>1
  <2> HIDE DEF k, q
  <2>6. /\ task'[t] = k /\ \A u \in Tasks : u # t => task'[u] = task[u]
        /\ req'[r] = q /\ \A s \in Requests : s # r => req'[s] = req[s]
    BY <1>0, <2>2, <2>5
  <2>7. SingleFlight' /\ NoStaleGeneration' /\ NoOrphanLoop' /\ AppliesVerdict'
    <3>1. Runs(t, k)
      BY <2>2 DEF Runs
    <3> QED
      BY <2>2, <2>3, <2>5, <3>1, TaskRuns
  <2>8. RequestsOwned' /\ AdmittedSinceTeardown'
    BY <2>3, <2>4, <2>6, ReqsServed
  <2>9. RetryAwaits'
    <3>1. \A s \in Requests : ~(req[s].st = "retry" /\ req[s].task = t)
      BY <1>0, <2>2 DEF Attested, RetryAwaits, Awaited
    <3>2. \A g : Awaited(k, g)
      BY <2>2 DEF Awaited
    <3> QED
      BY <1>0, <2>2, <2>3, <2>4, <2>6, <3>1, <3>2 DEF Attested, RetryAwaits
  <2> QED
    BY <2>7, <2>8, <2>9 DEF Attested
<1>25. ASSUME NEW r \in Requests, RetryAnswered(r) PROVE Attested'
  <2> DEFINE t == req[r].task
             v == IF task[t].ret = Nil THEN req[r].held ELSE task[t].ret
             q == Decided(r, v)
  <2>1. /\ req[r].st = "retry" /\ t \in Tasks /\ task[t].st = "returned"
        /\ Awaited(task[t], req[r].own) /\ (req[r].held # Nil => ~req[r].held.admitted)
    BY <1>0, <1>25 DEF RetryAnswered, Attested, RetryAwaits
  <2>2. v \in MaybeVerdict /\ (v # Nil /\ v.admitted => v.gen >= req[r].own - 1)
    BY <1>0, <2>1 DEF TaskType, ReqType, Awaited
  <2>3. Served(q) /\ q.st # "retry"
    BY <1>21, <2>1, <2>2
  <2>4. req' = [req EXCEPT ![r] = q] /\ task' = [task EXCEPT ![t] = NoTask] /\ Still
    BY <1>25 DEF RetryAnswered
  <2> HIDE DEF q, t
  <2>5. /\ task'[t] = NoTask /\ \A u \in Tasks : u # t => task'[u] = task[u]
        /\ req'[r] = q /\ \A s \in Requests : s # r => req'[s] = req[s]
    BY <1>0, <2>1, <2>4
  <2>6. SingleFlight' /\ NoStaleGeneration' /\ NoOrphanLoop' /\ AppliesVerdict'
    <3>1. Runs(t, NoTask) /\ NoTask.st # "verify" /\ task[t].st # "verify"
      BY <2>1, NewTask DEF Runs
    <3> QED
      BY <2>1, <2>4, <3>1, TaskRuns
  <2>7. RequestsOwned' /\ AdmittedSinceTeardown'
    BY <2>3, <2>4, <2>5, ReqsServed
  <2>8. RetryAwaits'
    <3>1. \A s \in Requests : s # r /\ req[s].st = "retry" => req[s].task # t
      BY <1>0, <2>1 DEF Attested, RetryAwaits, t
    <3> QED
      BY <1>0, <2>3, <2>5, <3>1 DEF Attested, RetryAwaits
  <2> QED
    BY <2>6, <2>7, <2>8 DEF Attested
<1>26. ASSUME NEW r \in Requests, NEW q, req' = [req EXCEPT ![r] = q], Still, task' = task,
              req[r].st \in {"dial", "carry", "reuse", "replay"}, q.st \in {"dial", "carry", "reuse", "replay"},
              q.own = req[r].own, q.held = req[r].held, q.st = "replay" => q.conn = Nil
       PROVE  Attested'
  <2>1. Served(q) /\ q.st # "retry"
    BY <1>0, <1>26 DEF Attested, RequestsOwned, AdmittedSinceTeardown, Served
  <2> QED
    BY <1>26, <2>1, ReqMoves
<1>27. ASSUME NEW r \in Requests, RequestDials(r) \/ RequestReuses(r) \/ RequestReplays(r) PROVE Attested'
  <2>1. CASE RequestDials(r)
    <3>1. PICK c \in Conns : req' = [req EXCEPT ![r].conn = c]
      BY <2>1 DEF RequestDials
    <3> DEFINE q == [req[r] EXCEPT !.conn = c]
    <3>2. q.st = "dial" /\ q.own = req[r].own /\ q.held = req[r].held /\ req[r].st = "dial"
      BY <1>0, <2>1 DEF RequestDials, ReqType
    <3>3. req' = [req EXCEPT ![r] = q] /\ Still /\ task' = task
      BY <2>1, <3>1 DEF RequestDials
    <3> HIDE DEF q
    <3> QED
      BY <1>26, <3>2, <3>3
  <2>2. CASE RequestReuses(r)
    <3>1. PICK c \in AdmittedPool!OpenConns : req' = [req EXCEPT ![r].st = "reuse", ![r].conn = c]
      BY <2>2 DEF RequestReuses
    <3> DEFINE q == [req[r] EXCEPT !.st = "reuse", !.conn = c]
    <3>2. q.st = "reuse" /\ q.own = req[r].own /\ q.held = req[r].held /\ req[r].st = "dial"
      BY <1>0, <2>2 DEF RequestReuses, ReqType
    <3>3. req' = [req EXCEPT ![r] = q] /\ Still /\ task' = task
      BY <1>0, <2>2, <3>1 DEF RequestReuses
    <3> HIDE DEF q
    <3> QED
      BY <1>26, <3>2, <3>3
  <2>3. CASE RequestReplays(r)
    <3> DEFINE q == [req[r] EXCEPT !.st = "dial", !.replayed = TRUE]
    <3>1. q.st = "dial" /\ q.own = req[r].own /\ q.held = req[r].held /\ req[r].st = "replay"
      BY <1>0, <2>3 DEF RequestReplays, ReqType
    <3>2. req' = [req EXCEPT ![r] = q] /\ Still /\ task' = task
      BY <1>0, <2>3 DEF RequestReplays
    <3> HIDE DEF q
    <3> QED
      BY <1>26, <3>1, <3>2
  <2> QED
    BY <1>27, <2>1, <2>2, <2>3
<1>28. Served(NoReq) /\ NoReq.st # "retry"
  BY <1>0, NoRequest DEF Served
<1>29. ASSUME NEW r \in Requests, RequestDone(r) PROVE Attested'
  BY <1>28, <1>29, ReqMoves DEF RequestDone
<1>30. ASSUME UNCHANGED endpointVars PROVE Attested'
  BY <1>0, <1>30 DEF endpointVars, Attested, SingleFlight, Verifying, NoStaleGeneration, NoOrphanLoop,
     AppliesVerdict, RetryAwaits, RequestsOwned, AdmittedSinceTeardown
<1>31. ASSUME NEW c \in Conns, ConnRegister(c) PROVE Attested'
  <2>1. /\ req' = [r \in Requests |-> IF r \in Owner(c) THEN [req[r] EXCEPT !.st = "carry"] ELSE req[r]]
        /\ Still /\ task' = task
    BY <1>31 DEF ConnRegister
  <2>2. ASSUME NEW r \in Owner(c) PROVE Served(req'[r]) /\ req'[r].st # "retry"
    <3>1. r \in Requests /\ req[r].conn # Nil /\ req[r].st \in {"dial", "carry", "reuse"}
      BY <1>0, Constants DEF Owner, Attested, RequestsOwned
    <3>2. req'[r] = [req[r] EXCEPT !.st = "carry"]
      BY <2>1, <3>1
    <3>3. req'[r].st = "carry" /\ req'[r].own = req[r].own /\ req'[r].held = req[r].held /\ req'[r].conn = req[r].conn
      BY <1>0, <3>1, <3>2 DEF ReqType
    <3> QED
      BY <1>0, <3>1, <3>3 DEF Served, Attested, RequestsOwned, AdmittedSinceTeardown
  <2>3. \A r \in Requests : r \notin Owner(c) => req'[r] = req[r]
    BY <2>1
  <2> QED
    BY <2>1, <2>2, <2>3, ReqsMove
<1>32. ASSUME NEW c \in Conns, ConnRefused(c) PROVE Attested'
  <2>1. req' = [r \in Requests |-> IF r \in Owner(c) THEN NoReq ELSE req[r]] /\ Still
    BY <1>32 DEF ConnRefused
  <2>2. \A r \in Requests : req'[r] = req[r] \/ (Served(req'[r]) /\ req'[r].st # "retry")
    BY <1>28, <2>1
  <2>3. CASE task' = task
    BY <2>1, <2>2, <2>3, ReqsMove
  <2>4. CASE \E t \in IdleTasks : task' = [task EXCEPT ![t] = Task("mismatch")]
    <3>1. PICK t \in IdleTasks : task' = [task EXCEPT ![t] = Task("mismatch")]
      BY <2>4
    <3> DEFINE k == Task("mismatch")
    <3>2. t \in Tasks /\ task[t].st = "idle" /\ k.st = "call" /\ k.kind = "mismatch"
      BY NewTask DEF IdleTasks, Kinds
    <3>3. task' = [task EXCEPT ![t] = k]
      BY <3>1
    <3> HIDE DEF k
    <3>4. SingleFlight' /\ NoStaleGeneration' /\ NoOrphanLoop' /\ AppliesVerdict'
      <4>1. Runs(t, k) /\ k.st # "verify"
        BY <3>2 DEF Runs
      <4> QED
        BY <2>1, <3>2, <3>3, <4>1, TaskRuns
    <3>5. RequestsOwned' /\ AdmittedSinceTeardown'
      BY <2>1, <2>2, ReqsServed
    <3>6. RetryAwaits'
      <4>1. \A u \in Tasks : u # t => task'[u] = task[u]
        BY <1>0, <3>3
      <4>2. \A s \in Requests : req'[s].st = "retry" => req'[s] = req[s]
        BY <2>2
      <4> QED
        BY <1>0, <3>2, <4>1, <4>2 DEF Attested, RetryAwaits, Awaited
    <3> QED
      BY <3>4, <3>5, <3>6 DEF Attested
  <2> QED
    BY <1>32, <2>3, <2>4 DEF ConnRefused
<1>33. ASSUME NEW c \in Conns, ConnLost(c) PROVE Attested'
  <2>1. Still /\ task' = task
    BY <1>33 DEF ConnLost
  <2>2. CASE req' = req
    BY <2>1, <2>2, ReqsMove
  <2>3. CASE \E r \in Owner(c) : \E q \in Failed(r) : req' = [req EXCEPT ![r] = q]
    <3>0. PICK r \in Owner(c) : \E q \in Failed(r) : req' = [req EXCEPT ![r] = q]
      BY <2>3
    <3>1. PICK q \in Failed(r) : req' = [req EXCEPT ![r] = q]
      BY <3>0
    <3>2. r \in Requests /\ req[r].conn # Nil /\ req[r].st \in {"dial", "carry", "reuse"}
      BY <1>0, Constants DEF Owner, Attested, RequestsOwned
    <3>3. CASE q = NoReq
      BY <1>28, <2>1, <3>1, <3>2, <3>3, ReqMoves
    <3>4. CASE q = [req[r] EXCEPT !.st = "replay", !.conn = Nil]
      <4>1. q.st = "replay" /\ q.conn = Nil /\ q.own = req[r].own /\ q.held = req[r].held
        BY <1>0, <3>2, <3>4 DEF ReqType
      <4> QED
        BY <1>26, <2>1, <3>1, <3>2, <4>1
    <3> QED
      BY <3>1, <3>3, <3>4 DEF Failed
  <2> QED
    BY <1>33, <2>2, <2>3 DEF ConnLost
<1>34. CASE UNCHANGED vars
  BY <1>30, <1>34 DEF vars
<1> QED
  BY <1>1, <1>2, <1>4, <1>5, <1>6, <1>7, <1>8, <1>9, <1>12, <1>13, <1>14, <1>15, <1>16, <1>17, <1>18, <1>19, <1>20,
     <1>22, <1>23, <1>24, <1>25, <1>27, <1>29, <1>30, <1>31, <1>32, <1>33, <1>34
     DEF Next, AttestStep, ConnHandshake, ConnForget

-----------------------------------------------------------------------------
(* Theorems *)

LEMMA InitInv == Init => EndpointInv
<1> SUFFICES ASSUME Init PROVE EndpointInv
  OBVIOUS
<1>1. PP!PoolInv /\ AdmittedPool!PoolTypeOK
  BY SamePool, PP!PoolInitInv, EndpointAssumption DEF Init, PP!PoolInv
<1>2. EndpointTyped
  <2>1. task \in [Tasks -> TaskType] /\ req \in [Requests -> ReqType] /\ torn \subseteq TornType /\ verdict \in MaybeVerdict
    BY NewTask, NoRequest DEF Init, MaybeVerdict
  <2>2. generation \in 0 .. MaxGeneration /\ age \in 0 .. MaxAge /\ verifier \in 0 .. MaxReload
    BY Constants DEF Init
  <2>3. running \in BOOLEAN /\ attesting \in BOOLEAN /\ reloading \in BOOLEAN /\ failMode \in FailModes
    BY Zenon DEF Init
  <2> QED
    BY <2>1, <2>2, <2>3, Zenon DEF EndpointTyped
<1>3. Attested
  <2>1. \A t \in Tasks : task[t].st = "idle"
    BY NewTask DEF Init
  <2>2. \A r \in Requests : req[r].st = "idle" /\ req[r].conn = Nil /\ req[r].own = 0
    BY NoRequest DEF Init
  <2>3. generation = 0 /\ verdict = Nil
    BY DEF Init
  <2>4. SingleFlight
    <3>1. Verifying = {}
      BY <2>1 DEF Verifying
    <3>2. attesting = (Verifying # {})
      BY <3>1, Zenon DEF Init
    <3> QED
      BY <3>1, <3>2 DEF SingleFlight
  <2> QED
    BY <2>1, <2>2, <2>3, <2>4 DEF Attested, NoStaleGeneration, NoOrphanLoop, AppliesVerdict, RetryAwaits,
       RequestsOwned, AdmittedSinceTeardown
<1> QED
  BY <1>1, <1>2, <1>3, TypedParts DEF EndpointInv

\* The inductive invariant holds of every run of an endpoint, whatever its
\* goroutines, requests, restarts and reloads (endpoint.go, handler.go).
THEOREM EndpointInvariant == Spec => []EndpointInv
<1>1. EndpointInv /\ [Next]_vars => EndpointInv'
  <2> SUFFICES ASSUME EndpointInv, [Next]_vars PROVE EndpointInv'
    OBVIOUS
  <2>1. PP!PoolInv'
    BY PoolStep, PoolInvStep DEF EndpointInv
  <2>2. AdmittedPool!PoolTypeOK'
    BY <2>1 DEF PP!PoolInv, AdmittedPool!PoolTypeOK, PP!PoolTypeOK, AdmittedPool!Pins, PP!Pins,
       AdmittedPool!DialStates, PP!DialStates
  <2>3. TypeOK'
    BY <2>2, StepTyped DEF TypeOK, EndpointTyped, TaskType, ReqType, TornType, MaybeVerdict
  <2> QED
    BY <2>1, <2>3, StepAttested DEF EndpointInv
<1> QED
  BY <1>1, InitInv, PTL DEF Spec

\* Every variable keeps its type.
THEOREM TypeCorrect == Spec => []TypeOK
<1>1. EndpointInv => TypeOK
  BY DEF EndpointInv
<1> QED
  BY <1>1, EndpointInvariant, PTL

\* At most one verification of the endpoint runs at a time, and the flag that
\* says so is set exactly while it does (attesting and attestDone in attest).
THEOREM OneFlight == Spec => []SingleFlight
<1>1. EndpointInv => SingleFlight
  BY DEF EndpointInv, Attested
<1> QED
  BY <1>1, EndpointInvariant, PTL

\* No verification that a teardown overtook is ever in force (the generation
\* guard of attest).
THEOREM VerdictOutlivesNoTeardown == Spec => []NoStaleGeneration
<1>1. EndpointInv => NoStaleGeneration
  BY DEF EndpointInv, Attested
<1> QED
  BY <1>1, EndpointInvariant, PTL

\* Every loop is that of the listener that is up or is waited for by the
\* teardown of its own (startListener, stop, serveFailed).
THEOREM LoopsJoined == Spec => []NoOrphanLoop
<1>1. EndpointInv => NoOrphanLoop
  BY DEF EndpointInv, Attested
<1> QED
  BY <1>1, EndpointInvariant, PTL

\* A request is forwarded as admitted only on a verdict formed since the
\* teardown before its own listener (ServeHTTP, retryDenied).
THEOREM AdmittedOnRecentVerdict == Spec => []AdmittedSinceTeardown
<1>1. EndpointInv => AdmittedSinceTeardown
  BY DEF EndpointInv, Attested
<1> QED
  BY <1>1, EndpointInvariant, PTL

\* What the endpoint does to its connections, the pool's specification allows
\* (applyVerdict, release and the forwarding transport drive upstream.go).
THEOREM EndpointRefinesPool == Spec => RefinesPool
<1>1. Init => AdmittedPool!PoolInit
  BY DEF Init
<1> QED
  BY <1>1, PoolStep, EndpointInvariant, PTL DEF Spec, RefinesPool, AdmittedPool!PoolSpec, AdmittedPool!poolVars, poolVars

\* Every tracked connection of a pinned endpoint is to the leaf it is pinned
\* to: what PoolProofs shows of the pool holds of the one the endpoint drives.
THEOREM EndpointPinned == Spec => []AdmittedPool!PinnedConns
<1>1. EndpointInv => AdmittedPool!PinnedConns
  BY SamePool DEF EndpointInv, PP!PoolInv
<1> QED
  BY <1>1, EndpointInvariant, PTL
=============================================================================
