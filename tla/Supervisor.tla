----------------------------- MODULE Supervisor -----------------------------
(***************************************************************************)
(* The supervisor of the gatekeeper: which endpoint objects exist, which   *)
(* of them are wanted, and which hold a listener                           *)
(* (apps/gatekeeper/pkg/proxy/supervisor.go, with startListener, stop and  *)
(* serveFailed of endpoint.go reduced to the socket they hold).            *)
(*                                                                         *)
(* Four kinds of threads share it: callers of Start and Stop by name (the  *)
(* boot sequence and the dashboard), the SIGHUP handler that reloads, the  *)
(* reconcile loop, and Close.  Each looks an endpoint up under             *)
(* Supervisor.mu and then works on the object with that lock released, so  *)
(* the object it holds may meanwhile have been retired.                    *)
(*                                                                         *)
(* An object is named by its endpoint name and by the reload that made it. *)
(***************************************************************************)
EXTENDS Integers, FiniteSets

CONSTANTS
    Names,       \* endpoint names
    Addresses,   \* listen addresses
    Configs,     \* configurations: sets of specs with distinct names and addresses
    Callers,     \* threads that call Start and Stop
    MaxReload    \* bound: reloads

Specs == UNION Configs

ASSUME SupervisorAssumption ==
    /\ MaxReload \in Nat
    /\ \A s \in Specs : s.name \in Names /\ s.listen \in Addresses
    /\ \A cfg \in Configs : \A s, t \in cfg :
           (s.name = t.name \/ s.listen = t.listen) => s = t

VARIABLES
    reloads,    \* how many configurations have been put in force since the first
    endpoints,  \* Supervisor.endpoints
    spec,       \* spec[o]: what object o was built from
    wanted,     \* the objects with endpoint.wanted
    running,    \* the objects with endpoint.running
    held,       \* the objects whose socket is open
    call,       \* call[p]: where caller p is in Start or Stop
    reload,     \* where Reload is
    pass,       \* where the reconcile pass is
    close,      \* where Close is
    binder,     \* history: binder[o]: who brought up the listener o has
    revived     \* history: retired objects that a Start made wanted again

vars == <<reloads, endpoints, spec, wanted, running, held, call, reload, pass, close, binder, revived>>

-----------------------------------------------------------------------------
Objects == Names \X (0 .. MaxReload)

NameOf(o) == o[1]

NoSpec == [name |-> "", listen |-> "", upstream |-> ""]

Idle == [pc |-> "idle"]

Built(cfg, k) == {<<s.name, k>> : s \in cfg}

SpecIn(cfg, o) == CHOOSE s \in cfg : s.name = NameOf(o)

TypeOK ==
    /\ reloads \in 0 .. MaxReload
    /\ endpoints \subseteq Objects
    /\ spec \in [Objects -> Specs \cup {NoSpec}]
    /\ wanted \subseteq Objects
    /\ held \subseteq Objects
    /\ running \subseteq Objects
    /\ revived \subseteq Objects
    /\ binder \in [Objects -> {"nobody", "start", "reload", "pass"}]
    /\ call \in [Callers -> {Idle} \cup [pc : {"want", "start", "unwant", "stop", "closing"}, obj : Objects]]
    /\ close.pc \in {"idle", "waiting", "stopping", "closing", "done"}

Init ==
    /\ reloads = 0
    /\ \E cfg \in Configs :
           /\ endpoints = Built(cfg, 0)
           /\ spec = [o \in Objects |-> IF o \in endpoints THEN SpecIn(cfg, o) ELSE NoSpec]
    /\ wanted = endpoints
    /\ running = {}
    /\ held = {}
    /\ call = [p \in Callers |-> Idle]
    /\ reload = Idle
    /\ pass = Idle
    /\ close = Idle
    /\ binder = [o \in Objects |-> "nobody"]
    /\ revived = {}

closed == close.pc # "idle"

-----------------------------------------------------------------------------
(* The two sections of an endpoint object that touch its socket. *)

Free(o) == \A p \in held : spec[p].listen # spec[o].listen

\* startListener: a no-op on a running endpoint; a bind that fails leaves it
\* as it was.
StartListener(o, who) ==
    IF o \notin running /\ Free(o)
    THEN /\ running' = running \cup {o}
         /\ held' = held \cup {o}
         /\ binder' = [binder EXCEPT ![o] = who]
    ELSE UNCHANGED <<running, held, binder>>

NotRunning(o) ==
    /\ running' = running \ {o}
    /\ binder' = [binder EXCEPT ![o] = "nobody"]

\* retry: the same, but only on intent that still stands (onlyIfWanted).
RetryMutant(o) == StartListener(o, "pass")
Retry(o) == IF o \in wanted THEN StartListener(o, "pass") ELSE UNCHANGED <<running, held, binder>>

\* Serve returned an error: the socket is gone and serveFailed says so.
ServeFailed(o) ==
    /\ o \in running
    /\ NotRunning(o)
    /\ held' = held \ {o}
    /\ UNCHANGED <<reloads, endpoints, spec, wanted, call, reload, pass, close, revived>>

-----------------------------------------------------------------------------
(* Start and Stop, by name. *)

Lookup(p, n) ==
    /\ call[p].pc = "idle"
    /\ \E o \in endpoints :
           /\ NameOf(o) = n
           /\ \/ call' = [call EXCEPT ![p] = [pc |-> "want", obj |-> o]]
              \/ call' = [call EXCEPT ![p] = [pc |-> "unwant", obj |-> o]]
    /\ UNCHANGED <<reloads, endpoints, spec, wanted, running, held, reload, pass, close, binder, revived>>

\* The intent is recorded before the attempt.
SetDesired(p) ==
    /\ \/ /\ call[p].pc = "want"
          /\ wanted' = wanted \cup {call[p].obj}
          /\ call' = [call EXCEPT ![p].pc = "start"]
          /\ revived' = revived \cup ({call[p].obj} \ endpoints)
       \/ /\ call[p].pc = "unwant"
          /\ wanted' = wanted \ {call[p].obj}
          /\ call' = [call EXCEPT ![p].pc = "stop"]
          /\ UNCHANGED revived
    /\ UNCHANGED <<reloads, endpoints, spec, running, held, reload, pass, close, binder>>

CallStart(p) ==
    /\ call[p].pc = "start"
    /\ StartListener(call[p].obj, "start")
    /\ call' = [call EXCEPT ![p] = Idle]
    /\ UNCHANGED <<reloads, endpoints, spec, wanted, reload, pass, close, revived>>

\* stop marks the endpoint as not running and then closes the socket; on one
\* that is not running there is nothing to do.
CallStop(p) ==
    /\ call[p].pc = "stop"
    /\ NotRunning(call[p].obj)
    /\ call' = [call EXCEPT ![p] = IF call[p].obj \in running
                                   THEN [call[p] EXCEPT !.pc = "closing"] ELSE Idle]
    /\ UNCHANGED <<reloads, endpoints, spec, wanted, held, reload, pass, close, revived>>

CallClosed(p) ==
    /\ call[p].pc = "closing"
    /\ held' = held \ {call[p].obj}
    /\ call' = [call EXCEPT ![p] = Idle]
    /\ UNCHANGED <<reloads, endpoints, spec, wanted, running, reload, pass, close, binder, revived>>

-----------------------------------------------------------------------------
(* Reload *)

\* Endpoints whose spec is unchanged keep their object; the others are built
\* anew, wanted, and the objects no longer named are to be retired.
Kept(cfg) == {o \in endpoints : spec[o] \in cfg}
Added(cfg) == {<<s.name, reloads + 1>> : s \in {t \in cfg : \A o \in Kept(cfg) : NameOf(o) # t.name}}

ReloadSwap ==
    /\ reload.pc = "idle"
    /\ reloads < MaxReload
    /\ \E cfg \in Configs :
           /\ endpoints' = Kept(cfg) \cup Added(cfg)
           /\ spec' = [o \in Objects |-> IF o \in Added(cfg) THEN SpecIn(cfg, o) ELSE spec[o]]
           /\ wanted' = wanted \cup Added(cfg)
           /\ reload' = [pc |-> "retire", retired |-> endpoints \ Kept(cfg),
                         added |-> {o \in Added(cfg) :
                                       \E r \in endpoints \ Kept(cfg) : NameOf(r) = NameOf(o)}]
    /\ reloads' = reloads + 1
    /\ UNCHANGED <<running, held, call, pass, close, binder, revived>>

\* For each retired object: setDesired(false), then stop.
RetireUnwantMutant(o) ==
    /\ reload.pc = "retire"
    /\ o \in reload.retired
    /\ reload' = [pc |-> "stop", obj |-> o, retired |-> reload.retired \ {o}, added |-> reload.added]
    /\ UNCHANGED <<reloads, endpoints, spec, wanted, running, held, call, pass, close, binder, revived>>

RetireUnwant(o) ==
    /\ reload.pc = "retire"
    /\ o \in reload.retired
    /\ wanted' = wanted \ {o}
    /\ reload' = [pc |-> "stop", obj |-> o, retired |-> reload.retired \ {o}, added |-> reload.added]
    /\ UNCHANGED <<reloads, endpoints, spec, running, held, call, pass, close, binder, revived>>

RetireStop ==
    /\ reload.pc = "stop"
    /\ NotRunning(reload.obj)
    /\ reload' = [reload EXCEPT !.pc = IF reload.obj \in running THEN "closing" ELSE "retire"]
    /\ UNCHANGED <<reloads, endpoints, spec, wanted, held, call, pass, close, revived>>

RetireClosed ==
    /\ reload.pc = "closing"
    /\ held' = held \ {reload.obj}
    /\ reload' = [reload EXCEPT !.pc = "draining"]
    /\ UNCHANGED <<reloads, endpoints, spec, wanted, running, call, pass, close, binder, revived>>

\* The requests in flight have ended.  The drain of a reload has no deadline.
RetireDrained ==
    /\ reload.pc = "draining"
    /\ reload' = [reload EXCEPT !.pc = "retire"]
    /\ UNCHANGED <<reloads, endpoints, spec, wanted, running, held, call, pass, close, binder, revived>>

\* Only then are the replacements started; a name that is new is left to the
\* reconcile loop.
StartAdded(o) ==
    /\ reload.pc = "retire"
    /\ reload.retired = {}
    /\ o \in reload.added
    /\ StartListener(o, "reload")
    /\ reload' = [reload EXCEPT !.added = @ \ {o}]
    /\ UNCHANGED <<reloads, endpoints, spec, wanted, call, pass, close, revived>>

ReloadDone ==
    /\ reload.pc = "retire"
    /\ reload.retired = {}
    /\ reload.added = {}
    /\ reload' = Idle
    /\ UNCHANGED <<reloads, endpoints, spec, wanted, running, held, call, pass, close, binder, revived>>

-----------------------------------------------------------------------------
(* reconcile, one pass at a time *)

PassBeginMutant ==
    /\ pass.pc = "idle"
    /\ ~closed
    /\ pass' = [pc |-> "filter", todo |-> {o \in endpoints : o[2] = 0}]
    /\ UNCHANGED <<reloads, endpoints, spec, wanted, running, held, call, reload, close, binder, revived>>

PassBegin ==
    /\ pass.pc = "idle"
    /\ ~closed
    /\ pass' = [pc |-> "filter", todo |-> endpoints]
    /\ UNCHANGED <<reloads, endpoints, spec, wanted, running, held, call, reload, close, binder, revived>>

\* desired and isRunning: a cheap filter, stale as soon as it is read.
PassFilter(o) ==
    /\ pass.pc = "filter"
    /\ o \in pass.todo
    /\ pass' = IF o \in wanted /\ o \notin running
               THEN [pc |-> "declared", todo |-> pass.todo \ {o}, obj |-> o]
               ELSE [pc |-> "filter", todo |-> pass.todo \ {o}]
    /\ UNCHANGED <<reloads, endpoints, spec, wanted, running, held, call, reload, close, binder, revived>>

\* Still the object the configuration in force declares?
PassDeclared ==
    /\ pass.pc = "declared"
    /\ pass' = IF pass.obj \in endpoints THEN [pass EXCEPT !.pc = "retry"]
                                         ELSE [pc |-> "filter", todo |-> pass.todo]
    /\ UNCHANGED <<reloads, endpoints, spec, wanted, running, held, call, reload, close, binder, revived>>

PassRetry ==
    /\ pass.pc = "retry"
    /\ Retry(pass.obj)
    /\ pass' = [pc |-> "filter", todo |-> pass.todo]
    /\ UNCHANGED <<reloads, endpoints, spec, wanted, call, reload, close, revived>>

PassEnd ==
    /\ pass.pc = "filter"
    /\ pass.todo = {}
    /\ pass' = Idle
    /\ UNCHANGED <<reloads, endpoints, spec, wanted, running, held, call, reload, close, binder, revived>>

-----------------------------------------------------------------------------
(* Close *)

CloseBegin ==
    /\ ~closed
    /\ close' = [pc |-> "waiting", todo |-> endpoints]
    /\ UNCHANGED <<reloads, endpoints, spec, wanted, running, held, call, reload, pass, binder, revived>>

\* The loops are waited for before anything is stopped.
CloseLoopsDoneMutant ==
    /\ close.pc = "waiting"
    /\ close' = [close EXCEPT !.pc = "stopping"]
    /\ UNCHANGED <<reloads, endpoints, spec, wanted, running, held, call, reload, pass, binder, revived>>

CloseLoopsDone ==
    /\ close.pc = "waiting"
    /\ pass.pc = "idle"
    /\ close' = [close EXCEPT !.pc = "stopping"]
    /\ UNCHANGED <<reloads, endpoints, spec, wanted, running, held, call, reload, pass, binder, revived>>

CloseStop(o) ==
    /\ close.pc = "stopping"
    /\ o \in close.todo
    /\ NotRunning(o)
    /\ held' = IF o \in running THEN held \ {o} ELSE held
    /\ close' = [close EXCEPT !.todo = @ \ {o}]
    /\ UNCHANGED <<reloads, endpoints, spec, wanted, call, reload, pass, revived>>

CloseDone ==
    /\ close.pc = "stopping"
    /\ close.todo = {}
    /\ close' = [close EXCEPT !.pc = "done"]
    /\ UNCHANGED <<reloads, endpoints, spec, wanted, running, held, call, reload, pass, binder, revived>>

-----------------------------------------------------------------------------
CallStep(p) == SetDesired(p) \/ CallStart(p) \/ CallStop(p) \/ CallClosed(p)

ReloadStep ==
    \/ \E o \in Objects : RetireUnwant(o) \/ StartAdded(o)
    \/ RetireStop \/ RetireClosed \/ RetireDrained \/ ReloadDone

PassStep == (\E o \in Objects : PassFilter(o)) \/ PassDeclared \/ PassRetry \/ PassEnd

CloseStep == CloseLoopsDone \/ (\E o \in Objects : CloseStop(o)) \/ CloseDone

Next ==
    \/ \E o \in Objects : ServeFailed(o)
    \/ \E p \in Callers : (\E n \in Names : Lookup(p, n)) \/ CallStep(p)
    \/ ReloadSwap \/ ReloadStep
    \/ PassBegin \/ PassStep
    \/ CloseBegin \/ CloseStep

Spec == Init /\ [][Next]_vars

\* Every thread runs on, and the ticker starts a pass again and again.  A drain
\* ends because every response does.
Fairness ==
    /\ \A p \in Callers : WF_vars(CallStep(p))
    /\ WF_vars(ReloadStep)
    /\ WF_vars(PassBegin)
    /\ WF_vars(PassStep)
    /\ WF_vars(CloseStep)

FairSpec == Spec /\ Fairness

-----------------------------------------------------------------------------
(* Properties *)

\* Somebody has decided to stop o and is about to.
BeingStopped(o) ==
    \/ \E p \in Callers : call[p].pc = "stop" /\ call[p].obj = o
    \/ reload.pc = "stop" /\ reload.obj = o
    \/ reload.pc # "idle" /\ o \in reload.retired

\* A listener that no snapshot shows and that nobody is about to stop.
Invisible(o) == o \in running /\ o \notin endpoints /\ ~BeingStopped(o)

\* An endpoint that reports running holds an open socket, also after its
\* listener has died on its own (serveFailed).
RunningHasSocket == running \subseteq held

\* A stop is not undone by a reconcile pass that looked before it: a listener
\* the pass brought up is wanted, or the thread that withdrew the intent is
\* about to stop it (the onlyIfWanted check of startListener).
ReconcileKeepsIntent ==
    \A o \in running : binder[o] = "pass" => o \in wanted \/ BeingStopped(o)

\* Neither a reconcile pass nor a reload leaves a retired object running, in
\* whatever order they work on it (the comment on setDesired(false) in Reload
\* and the look-up of reconcile): only a Start that found the object before
\* the reload can.
OnlyStartRevives == \A o \in Objects : Invisible(o) => binder[o] = "start" \/ o \in revived

\* Nothing the reconcile loop brought up outlives Close, which waits for the
\* loop before it stops the endpoints, except what a Start revived.
CloseOutlastsReconcile ==
    close.pc = "done" => \A o \in running : binder[o] = "pass" => BeingStopped(o) \/ o \in revived

\* What the configuration declares ends up served, whatever happened to its
\* listener or to the first attempt to bind it (reconcileLoop), unless an
\* invisible listener keeps its address.
DeclaredIsServed ==
    \A o \in Objects :
        (o \in endpoints /\ o \in wanted)
            ~> \/ o \in running
               \/ o \notin wanted \/ o \notin endpoints \/ closed
               \/ \E p \in Objects : Invisible(p) /\ spec[p].listen = spec[o].listen

-----------------------------------------------------------------------------
(* What comments and documents say of this code and it does not keep *)

\* Reload withdraws the intent first, because a retired object brought back
\* would be "an invisible listener".  A Start that looked the object up before
\* the reload brings it back after it.
NoInvisibleListener == \A o \in Objects : ~Invisible(o)
=============================================================================
