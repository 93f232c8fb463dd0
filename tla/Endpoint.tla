------------------------------ MODULE Endpoint ------------------------------
(***************************************************************************)
(* One endpoint of the gatekeeper at run time: its listener generations,   *)
(* its verdict, the single-flight verification, the loop that re-attests   *)
(* it, and the requests that are admitted against the verdict              *)
(* (apps/gatekeeper/pkg/proxy: endpoint.go, handler.go, upstream.go and    *)
(* the parts of supervisor.go that reach one endpoint).                    *)
(*                                                                         *)
(* The lock `endpoint.mu` is held for short sections only; each section is *)
(* one action.  The steps that run with the lock released (the             *)
(* verification itself, applyVerdict, the tail of a stop) are actions of   *)
(* their own, because other goroutines run in between.                     *)
(*                                                                         *)
(* A member of Tasks is a goroutine that is inside endpoint.attest: the    *)
(* loop of some listener generation, or a caller that came from a request, *)
(* a reload or an operator.  Time is the age of the verdict in force, in   *)
(* ticks that stop counting at MaxAge.                                     *)
(***************************************************************************)
EXTENDS Integers, FiniteSets

CONSTANTS
    Tasks,            \* goroutines that can be inside attest at a time
    Requests,         \* client requests being served at a time
    Conns,            \* upstream connections of the admitted pool
    Leaves,           \* leaf certificates the upstream can present
    Attestable,       \* those of them a verification can admit
    NoPin,            \* the empty pin, and the leaf of a denial
    Nil,              \* no verdict
    FailModes,        \* config.FailClosed, config.FailOpen
    OnDemandRetry,    \* onDemandRetry, in ticks
    VerdictCacheTTL,  \* tuning.VerdictCacheTTL, in ticks
    MaxAge,           \* ages are counted up to here
    MaxGeneration,    \* bound: starts and stops of the listener
    MaxReload         \* bound: configuration reloads

ASSUME EndpointAssumption ==
    /\ NoPin \notin Leaves
    /\ Nil \notin Conns
    /\ Attestable \subseteq Leaves
    /\ FailModes \subseteq {"closed", "open"}
    /\ OnDemandRetry \in Nat \ {0}
    /\ VerdictCacheTTL \in Nat
    /\ MaxAge \in Nat
    /\ OnDemandRetry <= MaxAge /\ VerdictCacheTTL <= MaxAge
    /\ MaxGeneration \in Nat
    /\ MaxReload \in Nat

VARIABLES
    failMode,     \* endpoint.spec.FailMode
    running,      \* endpoint.running
    generation,   \* endpoint.generation: odd while a listener is up
    verdict,      \* endpoint.verdict, with the generation and the verifier behind it
    age,          \* now - verdict.At, in ticks
    attesting,    \* endpoint.attesting
    verifier,     \* Supervisor.verifier: the number of reloads behind it
    reloading,    \* a Reload has swapped the verifier and not yet re-attested
    task,         \* task[t]: where goroutine t is in attest
    torn,         \* teardowns (stop, serveFailed) still on their way
    req,          \* req[r]: where request r is in ServeHTTP
    pin, dial, conns   \* admittedPool

AdmittedPool == INSTANCE Pool

listener == <<running, generation>>
judged == <<verdict, age>>
reload == <<failMode, verifier, reloading>>
endpointVars == <<listener, judged, attesting, reload, task, torn, req>>
poolVars == <<pin, dial, conns>>
vars == <<endpointVars, poolVars>>

-----------------------------------------------------------------------------
(* Values *)

Pins == Leaves \cup {NoPin}

\* A verdict reduced to what admission needs.  `gen` is the generation that
\* was in force when its verification began, `by` the verifier that formed it.
Verdicts == [admitted : BOOLEAN, leaf : Pins, gen : 0 .. MaxGeneration,
             by : 0 .. MaxReload]

\* "call": about to take the lock.  "verify": leads the flight.  "wait":
\* joined a flight; "woken": that flight has ended.  "apply", "sweep": moving
\* the data plane to the verdict it installed.  "timer": a loop between two
\* checks.  "returned": attest has returned `ret`, which nobody has read yet.
TaskStates == {"idle", "call", "verify", "wait", "woken", "apply", "sweep",
               "timer", "returned"}

\* Who called attest: the loop, Reattest, Reload, retryDenied, upstreamFailed.
Kinds == {"loop", "forced", "reload", "onDemand", "mismatch"}

\* `own`: the listener generation a loop belongs to.  `want`: the verifier a
\* reload installed before it asked for a check.  `gen`, `by`: the generation
\* and the verifier read at the start of the verification.  `late`: the
\* verification began on a context that was already cancelled.
NoTask == [st |-> "idle", kind |-> "forced", own |-> 0, want |-> 0, gen |-> 0,
           by |-> 0, ret |-> Nil, cancelled |-> FALSE, late |-> FALSE]

Task(kind) == [NoTask EXCEPT !.st = "call", !.kind = kind]

\* "admit": reading the verdict.  "retry": waiting for its own re-check.
\* "dial": forwarding under an admitted verdict, on its way to a connection.
\* "carry": the request is on connection `conn` of the admitted pool, which it
\* dialled; "reuse": on one that was idle there.  "replay": to be sent again.
\* "open": forwarded over the unpinned pool, without a verdict.
ReqStates == {"idle", "admit", "retry", "dial", "carry", "reuse", "replay", "open"}

NoReq == [st |-> "idle", own |-> 0, held |-> Nil, conn |-> Nil, task |-> Nil,
          replayed |-> FALSE]

\* How young the verdict in force has to be for the check to be skipped.
Reuse(kind) == CASE kind = "onDemand" -> OnDemandRetry
                 [] kind = "mismatch" -> VerdictCacheTTL
                 [] OTHER             -> 0

IdleTasks == {t \in Tasks : task[t].st = "idle"}

Owner(c) == {r \in Requests : req[r].conn = c}

-----------------------------------------------------------------------------
Init ==
    /\ failMode \in FailModes
    /\ running = FALSE
    /\ generation = 0
    /\ verdict = Nil
    /\ age = 0
    /\ attesting = FALSE
    /\ verifier = 0
    /\ reloading = FALSE
    /\ task = [t \in Tasks |-> NoTask]
    /\ torn = {}
    /\ req = [r \in Requests |-> NoReq]
    /\ AdmittedPool!PoolInit

-----------------------------------------------------------------------------
(* The listener: startListener, stop, serveFailed, release. *)

\* startListener after a successful bind (a failed one changes nothing that
\* is kept here).  The loop it starts belongs to the new generation.
StartListener ==
    /\ ~running
    /\ generation < MaxGeneration
    /\ running' = TRUE
    /\ generation' = generation + 1
    /\ \E t \in IdleTasks :
           task' = [task EXCEPT ![t] = [Task("loop") EXCEPT !.own = generation + 1]]
    /\ UNCHANGED <<judged, attesting, reload, torn, req, poolVars>>

\* The locked half of stop and of serveFailed.
TearDownMutant(phase) ==
    /\ running
    /\ generation < MaxGeneration
    /\ running' = FALSE
    /\ generation' = generation + 1
    /\ torn' = torn \cup {[gen |-> generation + 1, phase |-> phase]}
    /\ UNCHANGED <<judged, attesting, reload, task, req, poolVars>>

TearDown(phase) ==
    /\ running
    /\ generation < MaxGeneration
    /\ running' = FALSE
    /\ generation' = generation + 1
    /\ verdict' = Nil
    /\ age' = 0
    /\ torn' = torn \cup {[gen |-> generation + 1, phase |-> phase]}
    /\ UNCHANGED <<attesting, reload, task, req, poolVars>>

\* stop drains the requests in flight before it cancels the loop.
Stop == TearDown("drain")

\* serveFailed: Serve returned on its own; there is nothing to drain.
ServeFailed == TearDown("cancel")

\* server.Shutdown returned, with every request answered or the budget spent.
Drained(d) ==
    /\ d.phase = "drain"
    /\ torn' = (torn \ {d}) \cup {[d EXCEPT !.phase = "cancel"]}
    /\ UNCHANGED <<listener, judged, attesting, reload, task, req, poolVars>>

\* The loop of the generation that a teardown ended.
LoopOf(d) == {t \in Tasks : /\ task[t].st # "idle"
                            /\ task[t].kind = "loop"
                            /\ task[t].own = d.gen - 1}

\* cancel(): the loop of that generation is told to exit.  Its context is also
\* the one of the requests that listener still serves (see Cancelled).
CancelMutant(d) ==
    /\ d.phase = "cancel"
    /\ torn' = (torn \ {d}) \cup {[d EXCEPT !.phase = "join"]}
    /\ UNCHANGED <<listener, judged, attesting, reload, task, req, poolVars>>

Cancel(d) ==
    /\ d.phase = "cancel"
    /\ torn' = (torn \ {d}) \cup {[d EXCEPT !.phase = "join"]}
    /\ task' = [t \in Tasks |-> IF t \in LoopOf(d)
                                THEN [task[t] EXCEPT !.cancelled = TRUE] ELSE task[t]]
    /\ UNCHANGED <<listener, judged, attesting, reload, req, poolVars>>

\* The context of listener generation g is cancelled.
Cancelled(g) == g < generation /\ ~ \E d \in torn : /\ d.gen = g + 1
                                                    /\ d.phase \in {"drain", "cancel"}

\* <-loopDone, then release: the pool is emptied unless a newer listener has
\* come up in the meantime, in which case its connections are that one's.
ReleaseMutant(d) ==
    /\ d.phase = "join"
    /\ torn' = torn \ {d}
    /\ IF generation = d.gen THEN AdmittedPool!CloseAll ELSE UNCHANGED poolVars
    /\ UNCHANGED <<listener, judged, attesting, reload, task, req>>

Release(d) ==
    /\ d.phase = "join"
    /\ LoopOf(d) = {}
    /\ torn' = torn \ {d}
    /\ IF generation = d.gen THEN AdmittedPool!CloseAll ELSE UNCHANGED poolVars
    /\ UNCHANGED <<listener, judged, attesting, reload, task, req>>

-----------------------------------------------------------------------------
(* attest and applyVerdict *)

\* What a goroutine does with the verdict attest returned to it: the loop
\* arms its timer, a check that was asked for keeps the answer to be read, and
\* any other caller is done.
Return(t, v) ==
    CASE task[t].kind = "loop" -> [NoTask EXCEPT !.st = "timer", !.kind = "loop",
                                       !.own = task[t].own, !.cancelled = task[t].cancelled]
      [] task[t].kind \in {"onDemand", "reload"} ->
             [NoTask EXCEPT !.st = "returned", !.kind = task[t].kind,
                            !.want = task[t].want, !.ret = v]
      [] OTHER -> NoTask

MayReuse(t) == verdict # Nil /\ age < Reuse(task[t].kind)

\* The verdict in force is young enough for this caller.
AttestReuse(t) ==
    /\ task[t].st = "call"
    /\ MayReuse(t)
    /\ task' = [task EXCEPT ![t] = Return(t, verdict)]
    /\ UNCHANGED <<listener, judged, attesting, reload, torn, req, poolVars>>

\* Single flight: join the verification that is already running.
AttestJoin(t) ==
    /\ task[t].st = "call"
    /\ ~MayReuse(t)
    /\ attesting
    /\ task' = [task EXCEPT ![t].st = "wait"]
    /\ UNCHANGED <<listener, judged, attesting, reload, torn, req, poolVars>>

\* The flight ended, or the caller's own context did; either way the caller
\* gets the verdict in force by then.
AttestWake(t) ==
    /\ \/ task[t].st = "woken"
       \/ task[t].st = "wait" /\ task[t].cancelled
    /\ task' = [task EXCEPT ![t] = Return(t, verdict)]
    /\ UNCHANGED <<listener, judged, attesting, reload, torn, req, poolVars>>

\* Lead a new flight.  The verifier is read just after the lock is released
\* (Supervisor.verify), before anything is asked of the upstream.
AttestBeginMutant(t) ==
    /\ task[t].st = "call"
    /\ ~MayReuse(t)
    /\ attesting' = TRUE
    /\ task' = [task EXCEPT ![t].st = "verify", ![t].gen = generation,
                            ![t].by = verifier, ![t].late = task[t].cancelled]
    /\ UNCHANGED <<listener, judged, reload, torn, req, poolVars>>

AttestBegin(t) ==
    /\ task[t].st = "call"
    /\ ~MayReuse(t)
    /\ ~attesting
    /\ attesting' = TRUE
    /\ task' = [task EXCEPT ![t].st = "verify", ![t].gen = generation,
                            ![t].by = verifier, ![t].late = task[t].cancelled]
    /\ UNCHANGED <<listener, judged, reload, torn, req, poolVars>>

\* close(attestDone): every caller that joined this flight goes on.
WakeAll(f) == [t \in Tasks |-> IF f[t].st = "wait" THEN [f[t] EXCEPT !.st = "woken"] ELSE f[t]]

\* The outcomes of a verification: admitted over the leaf its own handshake
\* observed, or a denial.  A verifier that errors, times out or runs on a
\* cancelled context is a denial.
Results(t) ==
    [admitted : {FALSE}, leaf : {NoPin}, gen : {task[t].gen}, by : {task[t].by}]
    \cup IF task[t].late THEN {}
         ELSE [admitted : {TRUE}, leaf : Attestable, gen : {task[t].gen}, by : {task[t].by}]

\* The listener was stopped or restarted meanwhile: the answer is dropped.
AttestDiscardMutant(t) ==
    /\ task[t].st = "verify"
    /\ generation # task[t].gen
    /\ \E result \in Results(t) :
           task' = WakeAll([task EXCEPT ![t] = Return(t, result)])
    /\ UNCHANGED <<listener, judged, attesting, reload, torn, req, poolVars>>

AttestDiscard(t) ==
    /\ task[t].st = "verify"
    /\ generation # task[t].gen
    /\ attesting' = FALSE
    /\ \E result \in Results(t) :
           task' = WakeAll([task EXCEPT ![t] = Return(t, result)])
    /\ UNCHANGED <<listener, judged, reload, torn, req, poolVars>>

\* The verdict is installed under the lock; the data plane follows later.
AttestInstallMutant(t) ==
    /\ task[t].st = "verify"
    /\ attesting' = FALSE
    /\ \E result \in Results(t) :
           /\ verdict' = result
           /\ task' = WakeAll([task EXCEPT ![t].st = "apply", ![t].ret = result])
    /\ age' = 0
    /\ UNCHANGED <<listener, reload, torn, req, poolVars>>

AttestInstall(t) ==
    /\ task[t].st = "verify"
    /\ generation = task[t].gen
    /\ attesting' = FALSE
    /\ \E result \in Results(t) :
           /\ verdict' = result
           /\ task' = WakeAll([task EXCEPT ![t].st = "apply", ![t].ret = result])
    /\ age' = 0
    /\ UNCHANGED <<listener, reload, torn, req, poolVars>>

\* applyVerdict, first call: re-pin the admitted pool.
ApplyMutant(t) ==
    /\ task[t].st = "apply"
    /\ pin' = task[t].ret.leaf
    /\ task' = [task EXCEPT ![t] = Return(t, task[t].ret)]
    /\ UNCHANGED <<listener, judged, attesting, reload, torn, req, dial, conns>>

Apply(t) ==
    /\ task[t].st = "apply"
    /\ AdmittedPool!SetPin(task[t].ret.leaf)
    /\ task' = [task EXCEPT ![t] = IF ~task[t].ret.admitted /\ failMode = "closed"
                                   THEN [task[t] EXCEPT !.st = "sweep"]
                                   ELSE Return(t, task[t].ret)]
    /\ UNCHANGED <<listener, judged, attesting, reload, torn, req>>

\* applyVerdict, second call: a denial under failMode closed drops everything.
Sweep(t) ==
    /\ task[t].st = "sweep"
    /\ AdmittedPool!CloseAll
    /\ task' = [task EXCEPT ![t] = Return(t, task[t].ret)]
    /\ UNCHANGED <<listener, judged, attesting, reload, torn, req>>

-----------------------------------------------------------------------------
(* The callers of attest: attestLoop, Reattest, Reload. *)

\* The timer fired.  A loop whose context is done at the same moment may
\* still take this branch of its select.
LoopTickMutant(t) ==
    /\ task[t].st = "timer"
    /\ verdict = Nil
    /\ task' = [task EXCEPT ![t].st = "call"]
    /\ UNCHANGED <<listener, judged, attesting, reload, torn, req, poolVars>>

LoopTick(t) ==
    /\ task[t].st = "timer"
    /\ task' = [task EXCEPT ![t].st = "call"]
    /\ UNCHANGED <<listener, judged, attesting, reload, torn, req, poolVars>>

LoopExit(t) ==
    /\ task[t].st = "timer"
    /\ task[t].cancelled
    /\ task' = [task EXCEPT ![t] = NoTask]
    /\ UNCHANGED <<listener, judged, attesting, reload, torn, req, poolVars>>

\* Supervisor.Reattest: asked for by name, whether or not the listener is up.
Reattest ==
    /\ \E t \in IdleTasks : task' = [task EXCEPT ![t] = Task("forced")]
    /\ UNCHANGED <<listener, judged, attesting, reload, torn, req, poolVars>>

\* Supervisor.Reload of an endpoint whose spec did not change: the verifier
\* is swapped under Supervisor.mu ...
ReloadSwap ==
    /\ ~reloading
    /\ verifier < MaxReload
    /\ verifier' = verifier + 1
    /\ reloading' = TRUE
    /\ UNCHANGED <<failMode, listener, judged, attesting, task, torn, req, poolVars>>

\* ... and a running endpoint is re-attested in the background.
ReloadAttest ==
    /\ reloading
    /\ reloading' = FALSE
    /\ IF running
       THEN \E t \in IdleTasks :
                task' = [task EXCEPT ![t] = [Task("reload") EXCEPT !.want = verifier]]
       ELSE UNCHANGED task
    /\ UNCHANGED <<listener, judged, attesting, failMode, verifier, torn, req, poolVars>>

\* A caller that nobody waits for any more is done.
Reap(t) ==
    /\ task[t].st = "returned"
    /\ \A r \in Requests : req[r].task # t
    /\ task' = [task EXCEPT ![t] = NoTask]
    /\ UNCHANGED <<listener, judged, attesting, reload, torn, req, poolVars>>

\* The clock: the verdict in force gets older.
Tick ==
    /\ verdict # Nil
    /\ age < MaxAge
    /\ age' = age + 1
    /\ UNCHANGED <<listener, verdict, attesting, reload, task, torn, req, poolVars>>

AttestStep(t) ==
    \/ AttestReuse(t) \/ AttestJoin(t) \/ AttestWake(t) \/ AttestBegin(t)
    \/ AttestDiscard(t) \/ AttestInstall(t) \/ Apply(t) \/ Sweep(t)

-----------------------------------------------------------------------------
(* Requests: ServeHTTP, retryDenied and the forwarding transport. *)

Arrive(r) ==
    /\ running
    /\ req[r].st = "idle"
    /\ req' = [req EXCEPT ![r] = [NoReq EXCEPT !.st = "admit", !.own = generation]]
    /\ UNCHANGED <<listener, judged, attesting, reload, task, torn, poolVars>>

\* The switch at the end of ServeHTTP, on the verdict v the request holds.
Decided(r, v) ==
    IF v # Nil /\ v.admitted  THEN [req[r] EXCEPT !.st = "dial", !.held = v, !.task = Nil]
    ELSE IF failMode = "open" THEN [req[r] EXCEPT !.st = "open", !.held = v, !.task = Nil]
    ELSE NoReq

\* A denial old enough makes the request ask for a new check.
Retries == verdict # Nil /\ ~verdict.admitted /\ age >= OnDemandRetry

\* await returned a verdict that decides, or none within initialTimeout.  The
\* wait for a first verdict ends when one is installed, when the timer fires
\* or when the client hangs up, and all three read the verdict in force.
AdmitDecides(r) ==
    /\ req[r].st = "admit"
    /\ ~Retries
    /\ req' = [req EXCEPT ![r] = Decided(r, verdict)]
    /\ UNCHANGED <<listener, judged, attesting, reload, task, torn, poolVars>>

\* retryDenied: under failMode open the check runs behind the request.
AdmitRetries(r) ==
    /\ req[r].st = "admit"
    /\ Retries
    /\ \E t \in IdleTasks :
           /\ task' = [task EXCEPT ![t] = Task("onDemand")]
           /\ req' = [req EXCEPT ![r] =
                         IF failMode = "open" THEN Decided(r, verdict)
                         ELSE [req[r] EXCEPT !.st = "retry", !.held = verdict, !.task = t]]
    /\ UNCHANGED <<listener, judged, attesting, reload, torn, poolVars>>

\* The re-check answered in time.
RetryAnswered(r) ==
    /\ req[r].st = "retry"
    /\ task[req[r].task].st = "returned"
    /\ LET fresh == task[req[r].task].ret
       IN  req' = [req EXCEPT ![r] = Decided(r, IF fresh = Nil THEN req[r].held ELSE fresh)]
    /\ task' = [task EXCEPT ![req[r].task] = NoTask]
    /\ UNCHANGED <<listener, judged, attesting, reload, torn, poolVars>>

\* It did not: the request is answered on the verdict it held before.
RetryTimesOut(r) ==
    /\ req[r].st = "retry"
    /\ req' = [req EXCEPT ![r] = Decided(r, req[r].held)]
    /\ UNCHANGED <<listener, judged, attesting, reload, task, torn, poolVars>>

\* The transport opens a connection for the request ...
RequestDials(r) ==
    /\ req[r].st = "dial"
    /\ req[r].conn = Nil
    /\ ~Cancelled(req[r].own)
    /\ \E c \in Conns : /\ Owner(c) = {}
                        /\ AdmittedPool!DialStart(c)
                        /\ req' = [req EXCEPT ![r].conn = c]
    /\ UNCHANGED <<listener, judged, attesting, reload, task, torn>>

\* ... or hands it an idle one, which may be about to be closed.
RequestReuses(r) ==
    /\ req[r].st = "dial"
    /\ req[r].conn = Nil
    /\ ~Cancelled(req[r].own)
    /\ \E c \in AdmittedPool!OpenConns :
           /\ Owner(c) = {}
           /\ req' = [req EXCEPT ![r].st = "reuse", ![r].conn = c]
    /\ UNCHANGED <<listener, judged, attesting, reload, task, torn, poolVars>>

\* RoundTrip's second attempt: the idle connections are dropped first, so that
\* the request goes out on a fresh dial.
RequestReplays(r) ==
    /\ req[r].st = "replay"
    /\ AdmittedPool!ForgetIdle({c \in AdmittedPool!OpenConns : Owner(c) = {}})
    /\ req' = [req EXCEPT ![r].st = "dial", ![r].replayed = TRUE]
    /\ UNCHANGED <<listener, judged, attesting, reload, task, torn>>

\* The exchange is over and its connection stays in the pool; or the client
\* hung up, or the listener's context was cancelled, at any point.
RequestDone(r) ==
    /\ req[r].st # "idle"
    /\ req' = [req EXCEPT ![r] = NoReq]
    /\ UNCHANGED <<listener, judged, attesting, reload, task, torn, poolVars>>

\* An attempt that got no connection, or an idle one on which no byte moved,
\* never reached the upstream and is sent once more; otherwise the answer is 502.
Failed(r) ==
    {NoReq} \cup IF req[r].st = "carry" \/ req[r].replayed \/ Cancelled(req[r].own) THEN {}
                 ELSE {[req[r] EXCEPT !.st = "replay", !.conn = Nil]}

ConnHandshake(c) ==
    /\ \E l \in Leaves : AdmittedPool!Handshake(c, l)
    /\ UNCHANGED endpointVars

ConnRegister(c) ==
    /\ AdmittedPool!Register(c)
    /\ req' = [r \in Requests |-> IF r \in Owner(c) THEN [req[r] EXCEPT !.st = "carry"] ELSE req[r]]
    /\ UNCHANGED <<listener, judged, attesting, reload, task, torn>>

\* leafMismatchError: never replayed; the request is answered as a denial and
\* a re-check of the endpoint is started behind it.
ConnRefused(c) ==
    /\ \/ \E l \in Leaves : AdmittedPool!HandshakeMismatch(c, l)
       \/ AdmittedPool!RegisterMismatch(c)
    /\ req' = [r \in Requests |-> IF r \in Owner(c) THEN NoReq ELSE req[r]]
    /\ IF Owner(c) = {} THEN UNCHANGED task
       ELSE \E t \in IdleTasks : task' = [task EXCEPT ![t] = Task("mismatch")]
    /\ UNCHANGED <<listener, judged, attesting, reload, torn>>

\* The dial failed, or the connection was closed under the request.
ConnLost(c) ==
    /\ AdmittedPool!DialFails(c) \/ AdmittedPool!Closed(c)
    /\ \/ Owner(c) = {} /\ UNCHANGED req
       \/ \E r \in Owner(c) : \E next \in Failed(r) : req' = [req EXCEPT ![r] = next]
    /\ UNCHANGED <<listener, judged, attesting, reload, task, torn>>

\* The transport closes a connection (idle for too long, or broken).
ConnForget(c) ==
    /\ AdmittedPool!Forget(c)
    /\ UNCHANGED endpointVars

-----------------------------------------------------------------------------
Next ==
    \/ StartListener \/ Stop \/ ServeFailed
    \/ \E d \in torn : Drained(d) \/ Cancel(d) \/ Release(d)
    \/ \E t \in Tasks : AttestStep(t) \/ LoopTick(t) \/ LoopExit(t) \/ Reap(t)
    \/ Reattest \/ ReloadSwap \/ ReloadAttest \/ Tick
    \/ \E r \in Requests :
           \/ Arrive(r) \/ AdmitDecides(r) \/ AdmitRetries(r) \/ RetryAnswered(r)
           \/ RetryTimesOut(r) \/ RequestDials(r) \/ RequestReuses(r) \/ RequestReplays(r)
           \/ RequestDone(r)
    \/ \E c \in Conns :
           ConnHandshake(c) \/ ConnRegister(c) \/ ConnRefused(c) \/ ConnLost(c) \/ ConnForget(c)

Spec == Init /\ [][Next]_vars

\* Goroutines are scheduled, a verification is bounded by initialTimeout, a
\* drain by its budget, a dial and an exchange by the transport.  The timer of
\* a loop fires, and a loop that finds its context done each time it waits
\* exits in the end (select picks at random among ready cases).  Starting a
\* goroutine is never refused by Go: that a free member of Tasks may be
\* missing for a while is the bound's doing, hence SF for ReloadAttest.
Fairness ==
    /\ \A t \in Tasks : /\ WF_vars(AttestStep(t))
                        /\ WF_vars(LoopTick(t) \/ LoopExit(t))
                        /\ SF_vars(LoopExit(t))
                        /\ WF_vars(Reap(t))
    /\ \A g \in 1 .. MaxGeneration :
           WF_vars(\E d \in torn : d.gen = g /\ (Drained(d) \/ Cancel(d) \/ Release(d)))
    /\ SF_vars(ReloadAttest)

FairSpec == Spec /\ Fairness

-----------------------------------------------------------------------------
(* Properties *)

TypeOK ==
    /\ failMode \in FailModes
    /\ running \in BOOLEAN
    /\ generation \in 0 .. MaxGeneration
    /\ verdict \in Verdicts \cup {Nil}
    /\ age \in 0 .. MaxAge
    /\ attesting \in BOOLEAN
    /\ verifier \in 0 .. MaxReload
    /\ reloading \in BOOLEAN
    /\ task \in [Tasks -> [st : TaskStates, kind : Kinds, own : 0 .. MaxGeneration,
                           want : 0 .. MaxReload, gen : 0 .. MaxGeneration,
                           by : 0 .. MaxReload, ret : Verdicts \cup {Nil},
                           cancelled : BOOLEAN, late : BOOLEAN]]
    /\ torn \subseteq [gen : 1 .. MaxGeneration, phase : {"drain", "cancel", "join"}]
    /\ req \in [Requests -> [st : ReqStates, own : 0 .. MaxGeneration,
                             held : Verdicts \cup {Nil}, conn : Conns \cup {Nil},
                             task : Tasks \cup {Nil}, replayed : BOOLEAN]]
    /\ AdmittedPool!PoolTypeOK

Verifying == {t \in Tasks : task[t].st = "verify"}

\* However the loop, operators, reloads and requests overlap, at most one
\* verification of the endpoint runs at a time, and the flag that says so is
\* never left set without one (attesting and attestDone in attest): a flag
\* left behind would make every later caller wait for ever.
SingleFlight ==
    /\ attesting = (Verifying # {})
    /\ \A t, u \in Verifying : t = u

\* A verdict in force was formed after the last teardown: no verification
\* that a stop or a dead listener overtook is ever installed (the generation
\* guard of attest).  A running listener may hold one formed just before it
\* came up.
NoStaleGeneration ==
    verdict # Nil => \/ verdict.gen = generation
                     \/ running /\ verdict.gen = generation - 1

\* A request is forwarded as admitted only on a verdict formed since the
\* teardown before its own listener, even when the check it waited for
\* outlived that listener (retryDenied, attest's early return).
AdmittedSinceTeardown ==
    \A r \in Requests :
        req[r].st \in {"dial", "carry", "reuse", "replay"} => req[r].held.gen >= req[r].own - 1

\* A loop that is left over from an earlier generation is being waited for by
\* the teardown of that generation: no loop is orphaned (startListener, stop,
\* serveFailed and their loopDone channel).
NoOrphanLoop ==
    \A t \in Tasks :
        (task[t].st # "idle" /\ task[t].kind = "loop")
            => \/ running /\ task[t].own = generation
               \/ \E d \in torn : d.gen = task[t].own + 1

\* What a request is carried over satisfies the pool's own specification.
RefinesPool == AdmittedPool!PoolSpec

\* Every teardown ends: the loop notices its context and release runs (stop
\* and serveFailed wait on loopDone).
TeardownCompletes == \A g \in 1 .. MaxGeneration : (\E d \in torn : d.gen = g) ~> ~ \E d \in torn : d.gen = g

\* A listener that stays up gets a verdict (attestLoop, attest).
RunningGetsVerdict == running ~> (verdict # Nil \/ ~running)

\* A listener that stays up is judged by the reloaded verifier in the end, even
\* if the check the reload asked for joined an older one (Reload, attestLoop).
ReloadTakesHold ==
    \A n \in 1 .. MaxReload :
        (running /\ verifier >= n) ~> (~running \/ (verdict # Nil /\ verdict.by >= n))

-----------------------------------------------------------------------------
(* What comments and documents say of this code and it does not keep *)

\* verdict.Leaf: "Every proxied connection is held to it."  The verdict is in
\* force from the moment it is installed, and the pool is pinned only later, so
\* a request it admits can be carried over a connection to another leaf.
CarriedOverAttestedLeaf ==
    \A r \in Requests :
        (req[r].st = "carry" /\ req[r].held = verdict) => dial[req[r].conn].leaf = verdict.leaf
=============================================================================
