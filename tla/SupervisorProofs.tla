-------------------------- MODULE SupervisorProofs --------------------------
(***************************************************************************)
(* Proofs about Supervisor, for every set of names, of configurations and  *)
(* of callers and every number of reloads: a reconcile pass does not undo  *)
(* a stop, only a Start brings a retired endpoint back, and nothing the    *)
(* loop brought up outlives Close.                                         *)
(***************************************************************************)
EXTENDS Supervisor, TLAPS

\* The types, with what TypeOK leaves open: what Reload, the pass and Close
\* carry at each of their steps.
Reloading ==
    [pc : {"retire"}, retired : SUBSET Objects, added : SUBSET Objects]
        \cup [pc : {"retire", "stop", "closing", "draining"}, obj : Objects,
              retired : SUBSET Objects, added : SUBSET Objects]

Passing ==
    [pc : {"filter"}, todo : SUBSET Objects]
        \cup [pc : {"declared", "retry"}, todo : SUBSET Objects, obj : Objects]

Calling == [pc : {"want", "start", "unwant", "stop", "closing"}, obj : Objects]

Typed ==
    /\ TypeOK
    /\ reload \in {Idle} \cup Reloading
    /\ pass \in {Idle} \cup Passing
    /\ close \in {Idle} \cup [pc : {"waiting", "stopping", "closing", "done"}, todo : SUBSET Objects]

\* What a reload has still to retire.
Retiring(o) == reload # Idle /\ o \in reload.retired

\* Intent outlives an object only until its reload withdraws it, or because a
\* Start restored it.
WantedIsDeclared == \A o \in wanted : o \in endpoints \/ o \in revived \/ Retiring(o)

\* A reload starts only objects of the configuration it put in force.
AddedIsDeclared == reload # Idle => reload.added \subseteq endpoints

\* The objects declared, and those the pass has still to look at, were built by
\* a configuration that has been in force.
InPass(o) == pass # Idle /\ (o \in pass.todo \/ (pass.pc # "filter" /\ o = pass.obj))
BuiltBefore == \A o \in Objects : o \in endpoints \/ InPass(o) => o[2] <= reloads

\* Close stops whatever the pass may still bring up, and then there is no pass.
PassBeforeClose ==
    /\ closed => \A o \in endpoints : InPass(o) => o \in close.todo
    /\ close.pc \in {"stopping", "done"} => pass = Idle
    /\ close.pc = "done" => close.todo = {}

\* What the pass brought up Close stops, or somebody else, or a Start revived it.
CloseCovers ==
    closed => \A o \in running : binder[o] = "pass" => o \in close.todo \/ BeingStopped(o) \/ o \in revived

\* Whoever is closing the socket of an object marked it as down; until it is
\* closed nobody can bind it again, so nobody else is closing it.
Closes(p, o) == call[p].pc = "closing" /\ call[p].obj = o
ReloadCloses(o) == reload.pc = "closing" /\ reload.obj = o
SocketsOwned ==
    /\ RunningHasSocket
    /\ \A o \in Objects : \A p \in Callers :
           Closes(p, o) => o \in held \ running /\ ~ReloadCloses(o) /\ \A q \in Callers : Closes(q, o) => p = q
    /\ \A o \in Objects : ReloadCloses(o) => o \in held \ running

\* The inductive invariant.
SupervisorInv ==
    /\ Typed
    /\ ReconcileKeepsIntent
    /\ OnlyStartRevives
    /\ WantedIsDeclared
    /\ AddedIsDeclared
    /\ BuiltBefore
    /\ PassBeforeClose
    /\ CloseCovers
    /\ SocketsOwned

-----------------------------------------------------------------------------
(* Types *)

\* The object built for a spec of a configuration.
LEMMA BuiltObjects ==
  ASSUME NEW cfg \in Configs, NEW k \in 0 .. MaxReload
  PROVE  /\ Built(cfg, k) \subseteq Objects
         /\ \A o \in Built(cfg, k) : SpecIn(cfg, o) \in Specs /\ o[2] = k
<1>1. \A s \in cfg : s \in Specs /\ s.name \in Names
  BY SupervisorAssumption DEF Specs
<1>2. \A o \in Built(cfg, k) : (\E s \in cfg : s.name = NameOf(o)) /\ o[2] = k
  BY DEF Built, NameOf
<1>3. \A o \in Built(cfg, k) : SpecIn(cfg, o) \in cfg
  BY <1>2 DEF SpecIn
<1> QED
  BY <1>1, <1>2, <1>3 DEF Built, Objects

\* What a reload adds are objects it builds, numbered after every earlier one.
LEMMA AddedObjects ==
  ASSUME Typed, reloads < MaxReload, NEW cfg \in Configs
  PROVE  /\ reloads + 1 \in 0 .. MaxReload
         /\ Added(cfg) \subseteq Objects
         /\ \A o \in Added(cfg) : SpecIn(cfg, o) \in Specs /\ o[2] = reloads + 1
<1>1. reloads + 1 \in 0 .. MaxReload
  BY SupervisorAssumption DEF Typed, TypeOK
<1>2. Added(cfg) \subseteq Built(cfg, reloads + 1)
  BY DEF Added, Built
<1> QED
  BY <1>1, <1>2, BuiltObjects

LEMMA InitTyped == Init => Typed
<1> SUFFICES ASSUME Init PROVE Typed
  OBVIOUS
<1>1. PICK cfg \in Configs :
          /\ endpoints = Built(cfg, 0)
          /\ spec = [o \in Objects |-> IF o \in endpoints THEN SpecIn(cfg, o) ELSE NoSpec]
  BY DEF Init
<1>2. endpoints \subseteq Objects /\ spec \in [Objects -> Specs \cup {NoSpec}]
  BY <1>1, BuiltObjects, SupervisorAssumption
<1>3. reloads \in 0 .. MaxReload
  BY SupervisorAssumption DEF Init
<1> QED
  BY <1>2, <1>3 DEF Init, Typed, TypeOK, Idle

\* A caller that is not idle carries an object.
LEMMA CallOf ==
  ASSUME Typed, NEW p \in Callers, call[p].pc # "idle"
  PROVE  call[p] \in Calling
BY DEF Typed, TypeOK, Calling, Idle

LEMMA ReloadOf ==
  ASSUME Typed
  PROVE  /\ reload.pc = "idle" <=> reload = Idle
         /\ reload # Idle => reload \in Reloading /\ reload.retired \subseteq Objects /\ reload.added \subseteq Objects
         /\ reload.pc \in {"stop", "closing", "draining"} =>
                reload \in [pc : {"retire", "stop", "closing", "draining"}, obj : Objects,
                            retired : SUBSET Objects, added : SUBSET Objects]
BY DEF Typed, Reloading, Idle

LEMMA PassOf ==
  ASSUME Typed
  PROVE  /\ pass.pc = "idle" <=> pass = Idle
         /\ pass # Idle => pass \in Passing /\ pass.todo \subseteq Objects
         /\ pass.pc \in {"declared", "retry"} => pass \in [pc : {"declared", "retry"}, todo : SUBSET Objects, obj : Objects]
BY DEF Typed, Passing, Idle

LEMMA CloseOf ==
  ASSUME Typed
  PROVE  /\ closed <=> close # Idle
         /\ closed => close \in [pc : {"waiting", "stopping", "closing", "done"}, todo : SUBSET Objects]
BY DEF Typed, closed, Idle

\* Bringing a listener up, and marking one as down, keep the types.
LEMMA ListenerTyped ==
  ASSUME Typed, NEW o \in Objects, NEW who \in {"start", "reload", "pass"}
  PROVE  /\ StartListener(o, who) =>
                /\ running' \subseteq Objects /\ held' \subseteq Objects
                /\ binder' \in [Objects -> {"nobody", "start", "reload", "pass"}]
         /\ NotRunning(o) => running' \subseteq Objects /\ binder' \in [Objects -> {"nobody", "start", "reload", "pass"}]
BY DEF Typed, TypeOK, StartListener, NotRunning

LEMMA StepTyped == Typed /\ [Next]_vars => Typed'
<1> SUFFICES ASSUME Typed, [Next]_vars PROVE Typed'
  OBVIOUS
<1>1. ASSUME NEW o \in Objects, ServeFailed(o) PROVE Typed'
  BY <1>1, ListenerTyped DEF ServeFailed, Typed, TypeOK
<1>2. ASSUME NEW p \in Callers, NEW n \in Names, Lookup(p, n) PROVE Typed'
  <2>1. PICK o \in endpoints : \/ call' = [call EXCEPT ![p] = [pc |-> "want", obj |-> o]]
                               \/ call' = [call EXCEPT ![p] = [pc |-> "unwant", obj |-> o]]
    BY <1>2 DEF Lookup
  <2>2. o \in Objects
    BY DEF Typed, TypeOK
  <2> QED
    BY <1>2, <2>1, <2>2 DEF Lookup, Typed, TypeOK
<1>3. ASSUME NEW p \in Callers, SetDesired(p) PROVE Typed'
  <2>1. call[p] \in Calling
    BY <1>3, CallOf DEF SetDesired
  <2>2. [call[p] EXCEPT !.pc = "start"] \in Calling /\ [call[p] EXCEPT !.pc = "stop"] \in Calling /\ call[p].obj \in Objects
    BY <2>1 DEF Calling
  <2> QED
    <3>1. call' \in [Callers -> {Idle} \cup Calling]
      BY <1>3, <2>2 DEF SetDesired, Typed, TypeOK, Calling
    <3>2. wanted' \subseteq Objects /\ revived' \subseteq Objects
      BY <1>3, <2>2 DEF SetDesired, Typed, TypeOK
    <3> QED
      BY <1>3, <3>1, <3>2 DEF SetDesired, Typed, TypeOK, Calling
<1>4. ASSUME NEW p \in Callers, CallStart(p) PROVE Typed'
  <2>1. call[p].obj \in Objects
    BY <1>4, CallOf DEF CallStart, Calling
  <2> QED
    BY <1>4, <2>1, ListenerTyped DEF CallStart, Typed, TypeOK
<1>5. ASSUME NEW p \in Callers, CallStop(p) PROVE Typed'
  <2>1. call[p] \in Calling
    BY <1>5, CallOf DEF CallStop
  <2>2. [call[p] EXCEPT !.pc = "closing"] \in Calling /\ call[p].obj \in Objects
    BY <2>1 DEF Calling
  <2> QED
    BY <1>5, <2>2, ListenerTyped DEF CallStop, Typed, TypeOK, Calling
<1>6. ASSUME NEW p \in Callers, CallClosed(p) PROVE Typed'
  BY <1>6 DEF CallClosed, Typed, TypeOK
<1>7. CASE ReloadSwap
  <2>1. PICK cfg \in Configs :
            /\ endpoints' = Kept(cfg) \cup Added(cfg)
            /\ spec' = [o \in Objects |-> IF o \in Added(cfg) THEN SpecIn(cfg, o) ELSE spec[o]]
            /\ wanted' = wanted \cup Added(cfg)
            /\ reload' = [pc |-> "retire", retired |-> endpoints \ Kept(cfg),
                          added |-> {o \in Added(cfg) :
                                        \E r \in endpoints \ Kept(cfg) : NameOf(r) = NameOf(o)}]
    BY <1>7 DEF ReloadSwap
  <2>2. reloads' \in 0 .. MaxReload /\ Added(cfg) \subseteq Objects /\ \A o \in Added(cfg) : SpecIn(cfg, o) \in Specs
    BY <1>7, AddedObjects DEF ReloadSwap
  <2>3. Kept(cfg) \subseteq Objects /\ endpoints \subseteq Objects
    BY DEF Kept, Typed, TypeOK
  <2>4. spec' \in [Objects -> Specs \cup {NoSpec}]
    BY <2>1, <2>2 DEF Typed, TypeOK
  <2>5. reload' \in Reloading
    BY <2>1, <2>2, <2>3 DEF Reloading
  <2> QED
    BY <1>7, <2>1, <2>2, <2>3, <2>4, <2>5 DEF ReloadSwap, Typed, TypeOK
<1>8. ASSUME NEW o \in Objects, RetireUnwant(o) PROVE Typed'
  BY <1>8, ReloadOf DEF RetireUnwant, Typed, TypeOK, Reloading, Idle
<1>9. CASE RetireStop
  <2>1. reload.obj \in Objects /\ reload' \in Reloading
    BY <1>9, ReloadOf DEF RetireStop, Reloading
  <2> QED
    BY <1>9, <2>1, ListenerTyped DEF RetireStop, Typed, TypeOK
<1>10. CASE RetireClosed
  <2>1. reload' \in Reloading
    BY <1>10, ReloadOf DEF RetireClosed, Reloading
  <2> QED
    BY <1>10, <2>1 DEF RetireClosed, Typed, TypeOK
<1>11. CASE RetireDrained
  <2>1. reload' \in Reloading
    BY <1>11, ReloadOf DEF RetireDrained, Reloading
  <2> QED
    BY <1>11, <2>1 DEF RetireDrained, Typed, TypeOK
<1>12. ASSUME NEW o \in Objects, StartAdded(o) PROVE Typed'
  <2>1. reload \in Reloading
    BY <1>12, ReloadOf DEF StartAdded, Idle
  <2>2. reload' \in Reloading
    BY <1>12, <2>1 DEF StartAdded, Reloading
  <2> QED
    BY <1>12, <2>2, ListenerTyped DEF StartAdded, Typed, TypeOK
<1>13. CASE ReloadDone
  BY <1>13 DEF ReloadDone, Typed, TypeOK
<1>14. CASE PassBegin
  BY <1>14 DEF PassBegin, Typed, TypeOK, Passing
<1>15. ASSUME NEW o \in Objects, PassFilter(o) PROVE Typed'
  BY <1>15, PassOf DEF PassFilter, Typed, TypeOK, Passing, Idle
<1>16. CASE PassDeclared
  <2>1. pass' \in Passing
    BY <1>16, PassOf DEF PassDeclared, Passing
  <2> QED
    BY <1>16, <2>1 DEF PassDeclared, Typed, TypeOK
<1>17. CASE PassRetry
  <2>1. pass' \in Passing /\ pass.obj \in Objects
    BY <1>17, PassOf DEF PassRetry, Passing
  <2> QED
    BY <1>17, <2>1, ListenerTyped DEF PassRetry, Retry, Typed, TypeOK
<1>18. CASE PassEnd
  BY <1>18 DEF PassEnd, Typed, TypeOK
<1>19. CASE CloseBegin
  BY <1>19 DEF CloseBegin, Typed, TypeOK
<1>20. CASE CloseLoopsDone
  BY <1>20, CloseOf DEF CloseLoopsDone, Typed, TypeOK, closed
<1>21. ASSUME NEW o \in Objects, CloseStop(o) PROVE Typed'
  BY <1>21, CloseOf, ListenerTyped DEF CloseStop, Typed, TypeOK, closed
<1>22. CASE CloseDone
  BY <1>22, CloseOf DEF CloseDone, Typed, TypeOK, closed
<1>23. CASE UNCHANGED vars
  BY <1>23 DEF vars, Typed, TypeOK
<1> QED
  BY <1>1, <1>2, <1>3, <1>4, <1>5, <1>6, <1>7, <1>8, <1>9, <1>10, <1>11, <1>12, <1>13, <1>14, <1>15, <1>16, <1>17,
     <1>18, <1>19, <1>20, <1>21, <1>22, <1>23 DEF Next, CallStep, ReloadStep, PassStep, CloseStep

-----------------------------------------------------------------------------
(* What a step can do to one object *)

\* An object that is running was, and was brought up by the same thread, or has
\* been started in this step by a caller, by the reload or by the pass.
StartedBy(o) ==
    \/ o \in running /\ binder'[o] = binder[o]
    \/ binder'[o] = "start"
    \/ /\ binder'[o] = "reload"
       /\ reload # Idle /\ o \in reload.added
       /\ UNCHANGED <<endpoints, call, close, pass, wanted, revived>>
    \/ /\ binder'[o] = "pass"
       /\ pass.pc = "retry" /\ o = pass.obj /\ o \in wanted
       /\ UNCHANGED <<endpoints, call, reload, close, wanted, revived>>

LEMMA Starts ==
  ASSUME Typed, [Next]_vars, NEW o \in Objects, o \in running'
  PROVE  StartedBy(o)
<1>0. binder \in [Objects -> {"nobody", "start", "reload", "pass"}]
  BY DEF Typed, TypeOK
<1>1. ASSUME NEW x \in Objects, NotRunning(x) PROVE StartedBy(o)
  BY <1>0, <1>1 DEF StartedBy, NotRunning
<1>2. ASSUME NEW x \in Objects, NEW who, StartListener(x, who)
      PROVE  \/ o \in running /\ binder'[o] = binder[o]
             \/ o = x /\ binder'[o] = who
  BY <1>0, <1>2 DEF StartListener
<1>3. ASSUME NEW p \in Callers, CallStart(p) PROVE StartedBy(o)
  <2>1. call[p].obj \in Objects
    BY <1>3, CallOf DEF CallStart, Calling
  <2> QED
    BY <1>2, <1>3, <2>1 DEF StartedBy, CallStart
<1>4. ASSUME NEW p \in Callers, CallStop(p) PROVE StartedBy(o)
  <2>1. call[p].obj \in Objects
    BY <1>4, CallOf DEF CallStop, Calling
  <2> QED
    BY <1>1, <1>4, <2>1 DEF StartedBy, CallStop
<1>5. CASE RetireStop
  <2>1. reload.obj \in Objects
    BY <1>5, ReloadOf DEF RetireStop
  <2> QED
    BY <1>1, <1>5, <2>1 DEF StartedBy, RetireStop
<1>6. ASSUME NEW x \in Objects, StartAdded(x) PROVE StartedBy(o)
  <2>1. reload # Idle
    BY <1>6 DEF StartAdded, Idle
  <2> QED
    BY <1>2, <1>6, <2>1 DEF StartedBy, StartAdded
<1>7. CASE PassRetry
  <2>1. pass.obj \in Objects
    BY <1>7, PassOf DEF PassRetry
  <2> QED
    BY <1>2, <1>7, <2>1 DEF StartedBy, PassRetry, Retry
<1>8. ASSUME NEW x \in Objects, ServeFailed(x) \/ CloseStop(x) PROVE StartedBy(o)
  BY <1>1, <1>8 DEF StartedBy, ServeFailed, CloseStop
<1>9. CASE UNCHANGED <<running, binder>>
  BY <1>9 DEF StartedBy
<1> QED
  BY <1>3, <1>4, <1>5, <1>6, <1>7, <1>8, <1>9 DEF Next, CallStep, ReloadStep, PassStep, CloseStep, Lookup, SetDesired,
     CallClosed, ReloadSwap, RetireUnwant, RetireClosed, RetireDrained, ReloadDone, PassBegin, PassFilter, PassDeclared,
     PassEnd, CloseBegin, CloseLoopsDone, CloseDone, vars

\* A stop that was decided stays decided until it is carried out.
LEMMA StoppedStays ==
  ASSUME Typed, [Next]_vars, NEW o \in Objects, BeingStopped(o), o \in running'
  PROVE  BeingStopped(o)'
<1>0. call \in [Callers -> {Idle} \cup Calling]
  BY DEF Typed, TypeOK, Calling
<1>1. ASSUME NEW p \in Callers, \A q \in Callers : q # p => call'[q] = call[q],
             ~(call[p].pc = "stop" /\ call[p].obj = o), reload' = reload
      PROVE  BeingStopped(o)'
  BY <1>1 DEF BeingStopped
<1>2. ASSUME NEW p \in Callers, NEW n \in Names, Lookup(p, n) PROVE BeingStopped(o)'
  BY <1>0, <1>1, <1>2 DEF Lookup
<1>3. ASSUME NEW p \in Callers, SetDesired(p) PROVE BeingStopped(o)'
  BY <1>0, <1>1, <1>3 DEF SetDesired
<1>4. ASSUME NEW p \in Callers, CallStart(p) PROVE BeingStopped(o)'
  BY <1>0, <1>1, <1>4 DEF CallStart
<1>5. ASSUME NEW p \in Callers, CallStop(p) PROVE BeingStopped(o)'
  BY <1>0, <1>1, <1>5 DEF CallStop, NotRunning
<1>6. ASSUME NEW p \in Callers, CallClosed(p) PROVE BeingStopped(o)'
  BY <1>0, <1>1, <1>6 DEF CallClosed
<1>7. CASE ReloadSwap
  BY <1>7, ReloadOf DEF ReloadSwap, BeingStopped
<1>8. ASSUME NEW x \in Objects, RetireUnwant(x) PROVE BeingStopped(o)'
  BY <1>8 DEF RetireUnwant, BeingStopped
<1>9. CASE RetireStop
  <2>1. o # reload.obj
    BY <1>9 DEF RetireStop, NotRunning
  <2>2. reload \in [pc : {"retire", "stop", "closing", "draining"}, obj : Objects,
                    retired : SUBSET Objects, added : SUBSET Objects]
    BY <1>9, ReloadOf DEF RetireStop
  <2>3. reload'.retired = reload.retired /\ reload'.pc # "idle"
    BY <1>9, <2>2 DEF RetireStop
  <2> QED
    BY <1>9, <2>1, <2>3 DEF RetireStop, BeingStopped
<1>10. CASE RetireClosed \/ RetireDrained
  <2>1. reload \in [pc : {"retire", "stop", "closing", "draining"}, obj : Objects,
                    retired : SUBSET Objects, added : SUBSET Objects]
    BY <1>10, ReloadOf DEF RetireClosed, RetireDrained
  <2>2. reload'.retired = reload.retired /\ reload'.pc # "idle" /\ reload.pc # "stop"
    BY <1>10, <2>1 DEF RetireClosed, RetireDrained
  <2> QED
    BY <1>10, <2>2 DEF RetireClosed, RetireDrained, BeingStopped
<1>11. ASSUME NEW x \in Objects, StartAdded(x) PROVE BeingStopped(o)'
  BY <1>11 DEF StartAdded, BeingStopped
<1>12. CASE ReloadDone
  BY <1>12 DEF ReloadDone, BeingStopped
<1>13. CASE UNCHANGED <<call, reload>>
  BY <1>13 DEF BeingStopped
<1> QED
  BY <1>2, <1>3, <1>4, <1>5, <1>6, <1>7, <1>8, <1>9, <1>10, <1>11, <1>12, <1>13 DEF Next, CallStep, ReloadStep,
     PassStep, CloseStep, ServeFailed, PassBegin, PassFilter, PassDeclared, PassRetry, PassEnd, CloseBegin,
     CloseLoopsDone, CloseStop, CloseDone, vars

\* What a step does to the intent of an object, and to what retires it.
IntentStep(o) ==
    /\ o \in wanted /\ o \notin wanted' => BeingStopped(o)'
    /\ o \in wanted' /\ o \notin wanted => o \in endpoints' \/ o \in revived'
    /\ o \in endpoints /\ o \notin endpoints' => Retiring(o)'
    /\ Retiring(o) /\ o \in wanted' => Retiring(o)'
    /\ o \in revived => o \in revived'

LEMMA Wants ==
  ASSUME Typed, [Next]_vars, NEW o \in Objects
  PROVE  IntentStep(o)
<1>1. ASSUME NEW p \in Callers, SetDesired(p) PROVE IntentStep(o)
  <2>1. call[p] \in Calling /\ call \in [Callers -> {Idle} \cup Calling]
    BY <1>1, CallOf DEF SetDesired, Typed, TypeOK, Calling
  <2>2. o \in wanted /\ o \notin wanted' => call'[p].pc = "stop" /\ call'[p].obj = o
    BY <1>1, <2>1 DEF SetDesired, Calling
  <2> QED
    BY <1>1, <2>2 DEF SetDesired, BeingStopped, Retiring, IntentStep
<1>2. CASE ReloadSwap
  <2>1. reload = Idle /\ reload' # Idle
    BY <1>2, ReloadOf DEF ReloadSwap, Idle
  <2> QED
    BY <1>2, <2>1 DEF ReloadSwap, Retiring, IntentStep
<1>3. ASSUME NEW x \in Objects, RetireUnwant(x) PROVE IntentStep(o)
  <2>1. reload' # Idle
    BY <1>3 DEF RetireUnwant, Idle
  <2> QED
    BY <1>3, <2>1 DEF RetireUnwant, BeingStopped, Retiring, IntentStep
<1>4. CASE RetireStop \/ RetireClosed \/ RetireDrained
  <2>1. reload \in [pc : {"retire", "stop", "closing", "draining"}, obj : Objects,
                    retired : SUBSET Objects, added : SUBSET Objects]
    BY <1>4, ReloadOf DEF RetireStop, RetireClosed, RetireDrained
  <2>2. reload'.retired = reload.retired /\ reload' # Idle
    BY <1>4, <2>1 DEF RetireStop, RetireClosed, RetireDrained, Idle
  <2> QED
    BY <1>4, <2>2 DEF RetireStop, RetireClosed, RetireDrained, Retiring, IntentStep
<1>5. ASSUME NEW x \in Objects, StartAdded(x) PROVE IntentStep(o)
  BY <1>5 DEF StartAdded, Retiring, IntentStep
<1>6. CASE ReloadDone
  BY <1>6 DEF ReloadDone, Retiring, IntentStep
<1>7. CASE UNCHANGED <<wanted, endpoints, reload, revived>>
  BY <1>7 DEF Retiring, IntentStep
<1> QED
  BY <1>1, <1>2, <1>3, <1>4, <1>5, <1>6, <1>7 DEF Next, CallStep, ReloadStep, PassStep, CloseStep, ServeFailed, Lookup,
     CallStart, CallStop, CallClosed, PassBegin, PassFilter, PassDeclared, PassRetry, PassEnd, CloseBegin,
     CloseLoopsDone, CloseStop, CloseDone, vars

\* What a step does to the pass and to Close.
LoopsStep(o) ==
    /\ InPass(o)' => InPass(o) \/ (~closed /\ ~closed' /\ o \in endpoints /\ UNCHANGED endpoints)
    /\ ~closed /\ closed' => close'.todo = endpoints /\ close'.pc = "waiting" /\ UNCHANGED <<endpoints, running, binder, call, reload, revived, pass>>
    /\ closed => closed'
    /\ closed /\ o \in close.todo => o \in close'.todo \/ (close.pc = "stopping" /\ o \notin running')
    /\ closed /\ pass = Idle => pass' = Idle
    /\ closed => \/ close'.pc = close.pc /\ close'.todo \subseteq close.todo
                 \/ close'.pc = "stopping" /\ pass' = Idle
                 \/ close'.pc = "done" /\ pass' = pass /\ close.pc = "stopping" /\ close'.todo = {}

LEMMA Loops ==
  ASSUME Typed, [Next]_vars, NEW o
  PROVE  LoopsStep(o)
<1>1. CASE PassBegin
  BY <1>1, PassOf DEF PassBegin, InPass, closed, LoopsStep
<1>2. ASSUME NEW x \in Objects, PassFilter(x) PROVE LoopsStep(o)
  BY <1>2 DEF PassFilter, InPass, closed, LoopsStep, Idle
<1>3. CASE PassDeclared
  <2>1. pass \in [pc : {"declared", "retry"}, todo : SUBSET Objects, obj : Objects] /\ pass # Idle
    BY <1>3, PassOf DEF PassDeclared, Idle
  <2>2. pass'.todo = pass.todo /\ (pass'.pc # "filter" => pass'.obj = pass.obj)
    BY <1>3, <2>1 DEF PassDeclared
  <2> QED
    BY <1>3, <2>1, <2>2 DEF PassDeclared, InPass, closed, LoopsStep
<1>4. CASE PassRetry
  BY <1>4 DEF PassRetry, InPass, closed, LoopsStep, Idle
<1>5. CASE PassEnd
  BY <1>5 DEF PassEnd, InPass, closed, LoopsStep
<1>6. CASE CloseBegin
  BY <1>6, CloseOf DEF CloseBegin, InPass, closed, LoopsStep, Idle
<1>7. CASE CloseLoopsDone
  BY <1>7, CloseOf, PassOf DEF CloseLoopsDone, InPass, closed, LoopsStep
<1>8. ASSUME NEW x \in Objects, CloseStop(x) PROVE LoopsStep(o)
  BY <1>8, CloseOf DEF CloseStop, NotRunning, InPass, closed, LoopsStep
<1>9. CASE CloseDone
  BY <1>9, CloseOf DEF CloseDone, InPass, closed, LoopsStep
<1>10. CASE UNCHANGED <<pass, close>>
  BY <1>10 DEF InPass, closed, LoopsStep
<1> QED
  BY <1>1, <1>2, <1>3, <1>4, <1>5, <1>6, <1>7, <1>8, <1>9, <1>10 DEF Next, CallStep, ReloadStep, PassStep, CloseStep,
     ServeFailed, Lookup, SetDesired, CallStart, CallStop, CallClosed, ReloadSwap, RetireUnwant, RetireStop,
     RetireClosed, RetireDrained, StartAdded, ReloadDone, vars

\* A configuration is put in force by ReloadSwap alone, with new objects.
LEMMA Declares ==
  ASSUME Typed, [Next]_vars
  PROVE  \/ UNCHANGED <<endpoints, reloads>> /\ (reload' # Idle => reload # Idle /\ reload'.added \subseteq reload.added)
         \/ /\ reloads' = reloads + 1 /\ UNCHANGED <<pass, close>>
            /\ \A o \in endpoints' : o \in endpoints \/ o[2] = reloads + 1
            /\ reload'.added \subseteq endpoints'
<1> DEFINE Same == UNCHANGED <<endpoints, reloads>> /\ (reload' # Idle => reload # Idle /\ reload'.added \subseteq reload.added)
<1>1. CASE ReloadSwap
  <2>1. PICK cfg \in Configs :
            /\ endpoints' = Kept(cfg) \cup Added(cfg)
            /\ reload' = [pc |-> "retire", retired |-> endpoints \ Kept(cfg),
                          added |-> {o \in Added(cfg) :
                                        \E r \in endpoints \ Kept(cfg) : NameOf(r) = NameOf(o)}]
    BY <1>1 DEF ReloadSwap
  <2>2. \A o \in Added(cfg) : o[2] = reloads + 1
    BY <1>1, AddedObjects DEF ReloadSwap
  <2> QED
    BY <1>1, <2>1, <2>2 DEF ReloadSwap, Kept
<1>2. ASSUME NEW x \in Objects, RetireUnwant(x) PROVE Same
  BY <1>2 DEF RetireUnwant, Idle
<1>3. CASE RetireStop \/ RetireClosed \/ RetireDrained
  <2>1. reload \in [pc : {"retire", "stop", "closing", "draining"}, obj : Objects,
                    retired : SUBSET Objects, added : SUBSET Objects] /\ reload # Idle
    BY <1>3, ReloadOf DEF RetireStop, RetireClosed, RetireDrained, Idle
  <2>2. reload'.added = reload.added
    BY <1>3, <2>1 DEF RetireStop, RetireClosed, RetireDrained
  <2> QED
    BY <1>3, <2>1, <2>2 DEF RetireStop, RetireClosed, RetireDrained
<1>4. ASSUME NEW x \in Objects, StartAdded(x) PROVE Same
  <2>1. reload # Idle /\ reload \in Reloading
    BY <1>4, ReloadOf DEF StartAdded, Idle
  <2>2. reload'.added \subseteq reload.added
    BY <1>4, <2>1 DEF StartAdded, Reloading
  <2> QED
    BY <1>4, <2>1, <2>2 DEF StartAdded
<1>5. CASE ReloadDone
  BY <1>5 DEF ReloadDone
<1>6. CASE UNCHANGED <<endpoints, reloads, reload>>
  BY <1>6
<1> QED
  BY <1>1, <1>2, <1>3, <1>4, <1>5, <1>6 DEF Next, CallStep, ReloadStep, PassStep, CloseStep, ServeFailed, Lookup,
     SetDesired, CallStart, CallStop, CallClosed, PassBegin, PassFilter, PassDeclared, PassRetry, PassEnd, CloseBegin,
     CloseLoopsDone, CloseStop, CloseDone, vars

-----------------------------------------------------------------------------
(* The parts of the invariant *)

LEMMA StepInv ==
  ASSUME SupervisorInv, [Next]_vars
  PROVE  /\ ReconcileKeepsIntent' /\ OnlyStartRevives' /\ WantedIsDeclared' /\ AddedIsDeclared'
         /\ BuiltBefore' /\ PassBeforeClose' /\ CloseCovers'
<1> USE DEF SupervisorInv
<1>0. Typed'
  BY StepTyped
<1>1. /\ running \subseteq Objects /\ running' \subseteq Objects /\ wanted \subseteq Objects /\ wanted' \subseteq Objects
      /\ endpoints \subseteq Objects /\ endpoints' \subseteq Objects /\ reloads \in Nat
  BY <1>0, SupervisorAssumption DEF Typed, TypeOK
<1>2. \A o \in Objects : Retiring(o)' => BeingStopped(o)'
  BY <1>0, ReloadOf DEF Retiring, BeingStopped, Typed, Reloading, Idle
<1>3. \A o \in Objects : Retiring(o) => BeingStopped(o)
  BY ReloadOf DEF Retiring, BeingStopped
<1>4. ReconcileKeepsIntent'
  <2> SUFFICES ASSUME NEW o \in Objects, o \in running', binder'[o] = "pass"
               PROVE  o \in wanted' \/ BeingStopped(o)'
    BY <1>1 DEF ReconcileKeepsIntent
  <2>1. StartedBy(o) /\ IntentStep(o) /\ (BeingStopped(o) => BeingStopped(o)')
    BY Starts, Wants, StoppedStays
  <2> QED
    BY <2>1 DEF StartedBy, IntentStep, ReconcileKeepsIntent
<1>5. WantedIsDeclared'
  <2> SUFFICES ASSUME NEW o \in Objects, o \in wanted' PROVE o \in endpoints' \/ o \in revived' \/ Retiring(o)'
    BY <1>1 DEF WantedIsDeclared
  <2> QED
    BY Wants DEF IntentStep, WantedIsDeclared
<1>6. OnlyStartRevives'
  <2> SUFFICES ASSUME NEW o \in Objects, o \in running', o \notin endpoints', ~BeingStopped(o)'
               PROVE  binder'[o] = "start" \/ o \in revived'
    BY DEF OnlyStartRevives, Invisible
  <2>1. IntentStep(o) /\ (BeingStopped(o) => BeingStopped(o)')
    BY Wants, StoppedStays
  <2>2. CASE o \in running /\ binder'[o] = binder[o]
    BY <1>2, <2>1, <2>2 DEF IntentStep, OnlyStartRevives, Invisible
  <2>3. CASE reload # Idle /\ o \in reload.added /\ UNCHANGED endpoints
    BY <2>3 DEF AddedIsDeclared
  <2>4. CASE o \in wanted /\ UNCHANGED <<endpoints, reload, revived>>
    BY <1>3, <2>1, <2>4 DEF WantedIsDeclared
  <2> QED
    BY <2>2, <2>3, <2>4, Starts DEF StartedBy
<1>7. AddedIsDeclared'
  BY Declares DEF AddedIsDeclared
<1>8. BuiltBefore'
  <2> SUFFICES ASSUME NEW o \in Objects, o \in endpoints' \/ InPass(o)' PROVE o[2] <= reloads'
    BY DEF BuiltBefore
  <2>1. o \in endpoints \/ InPass(o) => o[2] <= reloads
    BY DEF BuiltBefore
  <2>2. o[2] \in Int
    BY DEF Objects
  <2>3. InPass(o)' => InPass(o) \/ o \in endpoints
    BY Loops DEF LoopsStep
  <2> QED
    BY <1>1, <2>1, <2>2, <2>3, Declares
<1>9. PassBeforeClose'
  <2>1. ASSUME closed', NEW o \in endpoints', InPass(o)' PROVE o \in close'.todo
    <3>1. o \in Objects /\ LoopsStep(o) /\ o[2] \in Int
      BY <1>1, Loops DEF Objects
    <3>2. InPass(o)
      BY <2>1, <3>1 DEF LoopsStep
    <3>3. o \in endpoints
      BY <1>1, <3>1, <3>2, Declares DEF BuiltBefore
    <3>4. CASE ~closed
      BY <2>1, <3>1, <3>3, <3>4 DEF LoopsStep
    <3>5. CASE closed
      <4>1. o \in close.todo /\ pass # Idle
        BY <3>2, <3>3, <3>5 DEF PassBeforeClose, InPass
      <4> QED
        BY <3>1, <3>5, <4>1 DEF LoopsStep, PassBeforeClose
    <3> QED
      BY <3>4, <3>5
  <2>2. /\ close'.pc \in {"stopping", "done"} => pass' = Idle
        /\ close'.pc = "done" => close'.todo = {}
    <3>1. LoopsStep(0)
      BY Loops
    <3>2. CASE ~closed
      BY <3>1, <3>2 DEF LoopsStep, closed
    <3>3. CASE closed
      BY <3>1, <3>3 DEF LoopsStep, PassBeforeClose
    <3> QED
      BY <3>2, <3>3
  <2> QED
    BY <2>1, <2>2 DEF PassBeforeClose
<1>10. CloseCovers'
  <2> SUFFICES ASSUME closed', NEW o \in Objects, o \in running', binder'[o] = "pass"
               PROVE  o \in close'.todo \/ BeingStopped(o)' \/ o \in revived'
    BY <1>1 DEF CloseCovers
  <2>1. LoopsStep(o) /\ IntentStep(o) /\ (BeingStopped(o) => BeingStopped(o)')
    BY Loops, Wants, StoppedStays
  <2>2. CASE ~closed
    <3>1. close'.todo = endpoints /\ o \in running /\ binder[o] = "pass"
      BY <2>1, <2>2 DEF LoopsStep
    <3> QED
      BY <2>1, <3>1 DEF OnlyStartRevives, Invisible, IntentStep
  <2>3. CASE closed /\ o \in running /\ binder'[o] = binder[o]
    BY <2>1, <2>3 DEF CloseCovers, LoopsStep, IntentStep
  <2>4. CASE closed /\ pass.pc = "retry" /\ o = pass.obj /\ o \in wanted /\ UNCHANGED <<endpoints, reload, close, revived>>
    <3>1. InPass(o)
      BY <2>4, PassOf DEF InPass, Idle
    <3>2. o \in endpoints => o \in close'.todo
      BY <2>4, <3>1 DEF PassBeforeClose
    <3> QED
      BY <1>3, <2>1, <2>4, <3>2 DEF WantedIsDeclared
  <2> QED
    BY <2>2, <2>3, <2>4, Starts DEF StartedBy
<1> QED
  BY <1>4, <1>5, <1>6, <1>7, <1>8, <1>9, <1>10

\* The sockets: nobody binds an object whose socket is still being closed.
LEMMA StepSockets == Typed /\ SocketsOwned /\ [Next]_vars => SocketsOwned'
<1> SUFFICES ASSUME Typed, SocketsOwned, [Next]_vars PROVE SocketsOwned'
  OBVIOUS
<1> USE DEF SocketsOwned, RunningHasSocket, Closes, ReloadCloses
<1>0. call \in [Callers -> {Idle} \cup Calling] /\ running \subseteq Objects
  BY DEF Typed, TypeOK, Calling
<1>1. ASSUME NEW x \in Objects, NEW who, StartListener(x, who)
      PROVE  /\ running' \subseteq held'
             /\ \A o \in held \ running : o \in held' \ running'
  BY <1>1 DEF StartListener, Free
<1>2. ASSUME NEW o \in Objects, ServeFailed(o) PROVE SocketsOwned'
  BY <1>2 DEF ServeFailed, NotRunning
<1>3. ASSUME NEW p \in Callers, NEW n \in Names, Lookup(p, n) PROVE SocketsOwned'
  <2>1. /\ UNCHANGED <<running, held, reload>>
        /\ \A q \in Callers : call'[q].pc = "closing" => call'[q] = call[q]
    BY <1>0, <1>3 DEF Lookup
  <2> QED
    BY <2>1
<1>4. ASSUME NEW p \in Callers, SetDesired(p) PROVE SocketsOwned'
  <2>1. call[p] \in Calling
    BY <1>4, CallOf DEF SetDesired
  <2>2. /\ UNCHANGED <<running, held, reload>>
        /\ \A q \in Callers : call'[q].pc = "closing" => call'[q] = call[q]
    BY <1>0, <1>4, <2>1 DEF SetDesired, Calling
  <2> QED
    BY <2>2
<1>5. ASSUME NEW p \in Callers, CallStart(p) PROVE SocketsOwned'
  <2>1. call[p].obj \in Objects
    BY <1>5, CallOf DEF CallStart, Calling
  <2>2. UNCHANGED reload /\ \A q \in Callers : call'[q].pc = "closing" => call'[q] = call[q]
    BY <1>0, <1>5 DEF CallStart, Idle
  <2> QED
    BY <1>1, <1>5, <2>1, <2>2 DEF CallStart
<1>6. ASSUME NEW p \in Callers, CallStop(p) PROVE SocketsOwned'
  <2>1. call[p] \in Calling
    BY <1>6, CallOf DEF CallStop
  <2>2. \A q \in Callers : q # p => call'[q] = call[q]
    BY <1>0, <1>6 DEF CallStop
  <2>3. call'[p].pc = "closing" => call'[p].obj = call[p].obj /\ call[p].obj \in running
    BY <1>0, <1>6, <2>1 DEF CallStop, Calling, Idle
  <2>4. UNCHANGED <<held, reload>> /\ running' = running \ {call[p].obj}
    BY <1>6 DEF CallStop, NotRunning
  <2> QED
    BY <2>2, <2>3, <2>4
<1>7. ASSUME NEW p \in Callers, CallClosed(p) PROVE SocketsOwned'
  <2>1. call[p] \in Calling /\ call[p].obj \in Objects
    BY <1>7, CallOf DEF CallClosed, Calling
  <2>2. \A q \in Callers : call'[q].pc = "closing" => q # p /\ call'[q] = call[q]
    BY <1>0, <1>7 DEF CallClosed, Idle
  <2> QED
    BY <1>7, <2>1, <2>2 DEF CallClosed
<1>8. CASE RetireStop
  <2>1. reload \in [pc : {"retire", "stop", "closing", "draining"}, obj : Objects,
                    retired : SUBSET Objects, added : SUBSET Objects]
    BY <1>8, ReloadOf DEF RetireStop
  <2>2. reload'.pc = "closing" => reload'.obj = reload.obj /\ reload.obj \in running
    BY <1>8, <2>1 DEF RetireStop
  <2>3. UNCHANGED <<held, call>> /\ running' = running \ {reload.obj}
    BY <1>8 DEF RetireStop, NotRunning
  <2> QED
    BY <2>2, <2>3
<1>9. CASE RetireClosed
  <2>1. reload \in [pc : {"retire", "stop", "closing", "draining"}, obj : Objects,
                    retired : SUBSET Objects, added : SUBSET Objects]
    BY <1>9, ReloadOf DEF RetireClosed
  <2>2. reload'.pc # "closing"
    BY <1>9, <2>1 DEF RetireClosed
  <2> QED
    BY <1>9, <2>1, <2>2 DEF RetireClosed
<1>10. CASE ReloadSwap \/ RetireDrained \/ ReloadDone \/ \E o \in Objects : RetireUnwant(o)
  <2>1. reload'.pc # "closing" /\ UNCHANGED <<running, held, call>>
    BY <1>10, ReloadOf DEF ReloadSwap, RetireDrained, ReloadDone, RetireUnwant, Idle
  <2> QED
    BY <2>1
<1>11. ASSUME NEW o \in Objects, StartAdded(o) PROVE SocketsOwned'
  <2>1. reload \in Reloading
    BY <1>11, ReloadOf DEF StartAdded, Idle
  <2>2. reload'.pc # "closing"
    BY <1>11, <2>1 DEF StartAdded, Reloading
  <2> QED
    BY <1>1, <1>11, <2>2 DEF StartAdded
<1>12. CASE PassRetry
  <2>1. pass.obj \in Objects
    BY <1>12, PassOf DEF PassRetry
  <2> QED
    BY <1>1, <1>12, <2>1 DEF PassRetry, Retry
<1>13. ASSUME NEW o \in Objects, CloseStop(o) PROVE SocketsOwned'
  BY <1>13 DEF CloseStop, NotRunning
<1>14. CASE UNCHANGED <<running, held, call, reload>>
  BY <1>14
<1> QED
  BY <1>2, <1>3, <1>4, <1>5, <1>6, <1>7, <1>8, <1>9, <1>10, <1>11, <1>12, <1>13, <1>14 DEF Next, CallStep, ReloadStep,
     PassStep, CloseStep, PassBegin, PassFilter, PassDeclared, PassEnd, CloseBegin, CloseLoopsDone, CloseDone, vars

-----------------------------------------------------------------------------
(* The theorems *)

\* The invariant is inductive: no interleaving of Start and Stop, Reload, the
\* reconcile loop and Close breaks it.
THEOREM SupervisorInvariant == Spec => []SupervisorInv
<1>1. Init => SupervisorInv
  <2> SUFFICES ASSUME Init PROVE SupervisorInv
    OBVIOUS
  <2>1. Typed
    BY InitTyped
  <2>2. /\ running = {} /\ wanted = endpoints /\ reload = Idle /\ pass = Idle /\ close = Idle /\ reloads = 0
        /\ \A p \in Callers : call[p] = Idle
    BY DEF Init
  <2>3. \A o \in endpoints : o[2] = 0
    BY BuiltObjects, SupervisorAssumption DEF Init
  <2> QED
    BY <2>1, <2>2, <2>3 DEF SupervisorInv, ReconcileKeepsIntent, OnlyStartRevives, Invisible, WantedIsDeclared,
       AddedIsDeclared, BuiltBefore, InPass, PassBeforeClose, CloseCovers, SocketsOwned, RunningHasSocket, Closes,
       ReloadCloses, closed, Idle
<1>2. SupervisorInv /\ [Next]_vars => SupervisorInv'
  BY StepTyped, StepInv, StepSockets DEF SupervisorInv
<1> QED
  BY <1>1, <1>2, PTL DEF Spec

\* The types hold (TypeOK).
THEOREM TypeCorrect == Spec => []TypeOK
<1>1. SupervisorInv => TypeOK
  BY DEF SupervisorInv, Typed
<1> QED
  BY <1>1, SupervisorInvariant, PTL

\* A reconcile pass does not undo a stop that was decided while it was looking
\* (the onlyIfWanted check of startListener).
THEOREM IntentKept == Spec => []ReconcileKeepsIntent
<1>1. SupervisorInv => ReconcileKeepsIntent
  BY DEF SupervisorInv
<1> QED
  BY <1>1, SupervisorInvariant, PTL

\* Neither the reconcile loop nor a reload leaves a retired endpoint running:
\* only a Start can (Reload, reconcile).
THEOREM RevivedByStartOnly == Spec => []OnlyStartRevives
<1>1. SupervisorInv => OnlyStartRevives
  BY DEF SupervisorInv
<1> QED
  BY <1>1, SupervisorInvariant, PTL

\* Nothing the loop brought up is left when Close has returned, except what a
\* Stop is about to take down or a Start revived (Close).
THEOREM NothingOutlivesClose == Spec => []CloseOutlastsReconcile
<1>1. SupervisorInv => CloseOutlastsReconcile
  BY DEF SupervisorInv, PassBeforeClose, CloseCovers, CloseOutlastsReconcile, closed
<1> QED
  BY <1>1, SupervisorInvariant, PTL

\* An endpoint that reports running holds its socket, whoever stops, restarts
\* and closes it at the same time (startListener, stop, serveFailed).
THEOREM RunningServes == Spec => []RunningHasSocket
<1>1. SupervisorInv => RunningHasSocket
  BY DEF SupervisorInv, SocketsOwned
<1> QED
  BY <1>1, SupervisorInvariant, PTL
=============================================================================
