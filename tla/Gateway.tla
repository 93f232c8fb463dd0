------------------------------- MODULE Gateway -------------------------------
(***************************************************************************)
(* The inference gateway (apps/router-api/src/app/api/v1): one request     *)
(* from its API key to its metering row.  gateway.service.ts (handle),     *)
(* gateway-policy.service.ts and rate-limit.service.ts (admission),        *)
(* upstream-fetch.ts (the call, its deadline and its one retry),           *)
(* stream-relay.ts (the keep-alive opening and the relay), and             *)
(* metering.service.ts (row, spend, debit, first request).                 *)
(*                                                                         *)
(* An action is what runs between two awaits.  The client's socket and the *)
(* upstream are external: the client may leave at any moment, and whether  *)
(* anything notices depends on which `close` listener is attached then.    *)
(* The clock stands still: buckets are not refilled, so the instance shows *)
(* what happens within one minute of the budgets.                          *)
(***************************************************************************)
EXTENDS Integers, Sequences, FiniteSets

CONSTANTS
    Requests,
    Silent,         \* requests whose upstream may go silent with no timer to end it
    SpendLimit,     \* api_keys.spendLimitMicros, in generations
    Credit,         \* the workspace's balance plus its overdraft, in generations
    BucketLimit,    \* limit of each bucket: requests, and generations' worth of tokens
    Faults          \* the database may refuse a write of the meter

ASSUME GatewayAssumption ==
    /\ Silent \subseteq Requests
    /\ SpendLimit \in Nat /\ Credit \in Nat /\ Faults \in BOOLEAN
    /\ BucketLimit \in [{"reqKey", "reqWs", "tokKey", "tokWs"} -> Nat \ {0}]

VARIABLES
    req,        \* req[r]: the state of handle(r)
    client,     \* client[r]: "here" or "left"
    wire,       \* wire[r]: what the client has been sent, repeated data collapsed
    bucket,     \* requests charged to, and generations' tokens debited from, a bucket
    meter,      \* meter[r]: the statuses of the generations rows of r
    spent,      \* generations added to api_keys.spentTotalMicros
    debited,    \* generations debited from the balance
    first       \* requests that reported first_request_sent

tally == <<bucket, spent, debited, first>>
vars == <<req, client, wire, bucket, meter, spent, debited, first>>

-----------------------------------------------------------------------------
(* Values *)

Buckets == <<"reqKey", "reqWs", "tokKey", "tokWs">>

\* `over`: a budget was used up when the request came in.  `seen`: the spend
\* that authenticate read.  `answer`: what fetch has resolved or rejected with
\* and handle has not looked at yet.  `ran`: how often the
\* upstream has taken the request.  `code`: the errorCode of the outcome.
\* `lost`: why the request may end without a row.
NewRequest == [pc |-> "idle", stream |-> FALSE, over |-> FALSE, seen |-> 0,
               bucket |-> 1, attempt |-> 1, ran |-> 0, answer |-> "none", opened |-> FALSE,
               clientLeft |-> FALSE, abort |-> FALSE, sawDone |-> FALSE, aborted |-> FALSE,
               leftAfterDone |-> FALSE, failure |-> FALSE, revoked |-> FALSE, status |-> "none",
               code |-> FALSE, used |-> FALSE, lost |-> FALSE]

Ended == {"refused", "done", "crashed"}
Metering == {"settle", "insert", "spend", "debit", "report"}

Init ==
    /\ req = [r \in Requests |-> NewRequest]
    /\ client = [r \in Requests |-> "here"]
    /\ wire = [r \in Requests |-> << >>]
    /\ bucket = [b \in DOMAIN BucketLimit |-> 0]
    /\ meter = [r \in Requests |-> << >>]
    /\ spent = {} /\ debited = {} /\ first = {}

\* response.write on a socket nobody reads is dropped; repeated data collapses.
Emit(w, r, events) ==
    IF client[r] = "left" THEN w
    ELSE [w EXCEPT ![r] = IF Len(@) > 0 /\ <<@[Len(@)]>> = events THEN @ ELSE @ \o events]

\* writeStreamHeaders is idempotent.
HeadersSent(r) == wire[r] # << >>
Preamble(r) == IF HeadersSent(r) THEN << >> ELSE <<"head">>

In(e, s) == \E i \in 1 .. Len(s) : s[i] = e

Step(r, f) == req' = [req EXCEPT ![r] = f]

-----------------------------------------------------------------------------
(* Admission *)

OverBudget ==
    \/ Cardinality(spent) >= SpendLimit \/ Cardinality(debited) >= Credit
    \/ \E b \in {"tokKey", "tokWs"} : bucket[b] >= BucketLimit[b]

\* ApiKeyGuard and the refusals of resolve and of the completions bridge: the
\* key as it is now travels with the request.
Authenticate(r) ==
    /\ req[r].pc = "idle"
    /\ \E stream, ok \in BOOLEAN :
           Step(r, IF ok THEN [NewRequest EXCEPT !.pc = "admit", !.stream = stream,
                                                 !.over = OverBudget, !.seen = Cardinality(spent)]
                   ELSE [NewRequest EXCEPT !.pc = "refused"])
    /\ UNCHANGED <<client, wire, meter, tally>>

\* GatewayPolicyService.admit: credit now, the spend limit against the key
\* that authenticate loaded.
Spendable(r) == Cardinality(debited) < Credit /\ req[r].seen < SpendLimit

Admit(r) ==
    /\ req[r].pc = "admit"
    /\ Step(r, IF Spendable(r) THEN [req[r] EXCEPT !.pc = "limit", !.seen = 0] ELSE [NewRequest EXCEPT !.pc = "refused"])
    /\ UNCHANGED <<client, wire, meter, tally>>

\* RateLimitService.admit: a request bucket is charged, a token bucket is only
\* asked whether anything is left.
AffordsMutant(b) == bucket[b] < BucketLimit[b] \/ b \in {"tokKey", "tokWs"}

Affords(b) == bucket[b] < BucketLimit[b]

Limit(r) ==
    /\ req[r].pc = "limit"
    /\ LET b == Buckets[req[r].bucket]
           ok == Affords(b)
       IN /\ bucket' = [bucket EXCEPT ![b] = IF ok /\ b \in {"reqKey", "reqWs"} THEN @ + 1 ELSE @]
          /\ Step(r, IF ~ok THEN [NewRequest EXCEPT !.pc = "refused"]
                     ELSE IF req[r].bucket = 4 THEN [req[r] EXCEPT !.pc = "send", !.bucket = 1]
                     ELSE [req[r] EXCEPT !.bucket = @ + 1])
    /\ UNCHANGED <<client, wire, meter, spent, debited, first>>

\* A read of the database fails on the way: the filter answers, and what was
\* charged to a bucket stays charged.
AdmissionFails(r) ==
    /\ Faults /\ req[r].pc \in {"admit", "limit"}
    /\ Step(r, [NewRequest EXCEPT !.pc = "refused"])
    /\ UNCHANGED <<client, wire, meter, tally>>

-----------------------------------------------------------------------------
(* The client hangs up.  While handle waits for the upstream, and while the   *)
(* relay runs, a streamed response has a listener; at other times nobody      *)
(* notices.                                                                   *)

HandleListens(r) == req[r].stream /\ req[r].pc = "send"
RelayListens(r) == req[r].pc = "relay"

\* onClose of the relay: after [DONE] the generation is over.
RelayClosedMutant(q) == [q EXCEPT !.abort = TRUE, !.aborted = TRUE]

RelayClosedNoAbort(q) == [q EXCEPT !.leftAfterDone = q.sawDone, !.aborted = ~q.sawDone]

RelayClosed(q) == [q EXCEPT !.abort = TRUE, !.leftAfterDone = q.sawDone, !.aborted = ~q.sawDone]

ClientLeaves(r) ==
    /\ client[r] = "here" /\ req[r].pc \notin Ended \cup {"idle"} /\ ~In("end", wire[r])
    /\ client' = [client EXCEPT ![r] = "left"]
    /\ Step(r, CASE HandleListens(r) -> [req[r] EXCEPT !.clientLeft = TRUE, !.abort = TRUE]
                 [] RelayListens(r) -> RelayClosed(req[r])
                 [] OTHER -> req[r])
    /\ UNCHANGED <<wire, meter, tally>>

-----------------------------------------------------------------------------
(* The call: postToUpstream, and the keep-alive that opens a slow stream.     *)

Pending(r) == req[r].pc = "send" /\ req[r].answer = "none"

Answer(r, a, sent) == Step(r, [req[r] EXCEPT !.answer = a, !.ran = @ + sent])

\* The stored key of an external endpoint does not open: nothing is sent.
KeySealed(r) ==
    /\ Pending(r) /\ req[r].attempt = 1
    /\ Answer(r, "error", 0)
    /\ UNCHANGED <<client, wire, meter, tally>>

\* The upstream takes the request and sends headers, 2xx or not.
Headers(r) ==
    /\ Pending(r) /\ ~req[r].abort
    /\ \E a \in {"ok", "notOk"} : Answer(r, a, 1)
    /\ UNCHANGED <<client, wire, meter, tally>>

\* isConnectionError: refused before the request was sent, or reset, which may
\* have been after it.
Retries(r) == req[r].attempt < 2

ConnectionError(r) ==
    /\ Pending(r) /\ ~req[r].abort
    /\ \E sent \in {0, 1} :
           IF Retries(r) THEN Step(r, [req[r] EXCEPT !.attempt = @ + 1, !.ran = @ + sent])
           ELSE Answer(r, "error", sent)
    /\ UNCHANGED <<client, wire, meter, tally>>

\* The response deadline of the attempt, or a failure that is not one of the
\* connection: no second attempt.
Deadline(r) ==
    /\ Pending(r) /\ ~req[r].abort
    /\ \E sent \in {0, 1} : Answer(r, "error", sent)
    /\ UNCHANGED <<client, wire, meter, tally>>

\* The caller's abort rejects the fetch and ends the attempts.
FetchAbortedMutant(r) ==
    /\ Pending(r) /\ req[r].abort /\ req[r].attempt = 1
    /\ \E sent \in {0, 1} : Answer(r, "error", sent)
    /\ UNCHANGED <<client, wire, meter, tally>>

FetchAborted(r) ==
    /\ Pending(r) /\ req[r].abort
    /\ \E sent \in {0, 1} : Answer(r, "error", sent)
    /\ UNCHANGED <<client, wire, meter, tally>>

\* openStreamIfSlow: the timer fires before the upstream has answered.
OpenIfSlow(r) ==
    /\ Pending(r) /\ req[r].stream /\ ~req[r].opened
    /\ client[r] = "here"
    /\ Step(r, [req[r] EXCEPT !.opened = TRUE])
    /\ wire' = Emit(wire, r, Preamble(r))
    /\ UNCHANGED <<client, meter, tally>>

-----------------------------------------------------------------------------
(* handle, once the fetch has settled: the socket is released first.          *)

\* What handle hands to the recorder: the rest of its state is gone.
Outcome(pc, status, code) ==
    [NewRequest EXCEPT !.pc = pc, !.status = status, !.code = code]

\* recordAbandoned: aborted, no error, no tokens.
Abandoned(r) ==
    /\ req[r].pc = "send" /\ req[r].answer # "none" /\ req[r].clientLeft
    /\ Step(r, Outcome("insert", "aborted", FALSE))
    /\ UNCHANGED <<client, wire, meter, tally>>

\* endBeforeTokens: by the stream when it is open, by the status line (after
\* the row is written) when it is not.
EndBeforeTokensMutant(r) ==
    /\ Step(r, Outcome("insert", "error", TRUE))
    /\ wire' = IF req[r].opened THEN Emit(wire, r, <<"error", "end">>) ELSE wire

EndBeforeTokens(r) ==
    /\ Step(r, Outcome("insert", "error", TRUE))
    /\ wire' = IF req[r].opened THEN Emit(wire, r, <<"error", "done", "end">>) ELSE wire

SendFailed(r) ==
    /\ req[r].pc = "send" /\ req[r].answer = "error" /\ ~req[r].clientLeft
    /\ EndBeforeTokens(r)
    /\ UNCHANGED <<client, meter, tally>>

\* mapFailure reads the body of the refusal, with nobody watching the socket.
UpstreamRefused(r) ==
    /\ req[r].pc = "send" /\ req[r].answer = "notOk" /\ ~req[r].clientLeft
    /\ Step(r, [req[r] EXCEPT !.pc = "map"])
    /\ UNCHANGED <<client, wire, meter, tally>>

FailureMapped(r) ==
    /\ req[r].pc = "map"
    /\ EndBeforeTokens(r)
    /\ UNCHANGED <<client, meter, tally>>

Relay(r) ==
    /\ req[r].pc = "send" /\ req[r].answer = "ok" /\ ~req[r].clientLeft
    /\ Step(r, [req[r] EXCEPT !.pc = IF req[r].stream THEN "relay" ELSE "body"])
    /\ wire' = IF req[r].stream THEN Emit(wire, r, Preamble(r)) ELSE wire
    /\ UNCHANGED <<client, meter, tally>>

-----------------------------------------------------------------------------
(* relayStream *)

\* An event of the upstream goes out as it arrives; [DONE] is remembered.  The
\* upstream is taken to send no event after it.
Chunk(r) ==
    /\ req[r].pc = "relay" /\ ~req[r].abort /\ ~req[r].sawDone
    /\ \E e \in {"data", "done"} :
           /\ wire' = Emit(wire, r, <<e>>)
           /\ Step(r, [req[r] EXCEPT !.sawDone = (e = "done")])
    /\ UNCHANGED <<client, meter, tally>>

\* The end of the relay: the terminator unless it has been sent or nobody is
\* left, and the outcome with the tokens counted so far.
Terminator(q) == IF q.sawDone \/ q.aborted THEN << >> ELSE <<"done">>

\* The read loop is over.  A failure that the relay's own cancellation after
\* [DONE] caused is none; any other, with the client still there, is mapped.
LoopOver(r, failed) ==
    LET q == [req[r] EXCEPT !.failure = failed /\ ~req[r].leftAfterDone]
    IN IF q.failure /\ ~q.aborted
       THEN Step(r, [q EXCEPT !.pc = "mapStream"]) /\ UNCHANGED wire
       ELSE /\ Step(r, Outcome("settle", IF q.aborted THEN "aborted" ELSE "ok", FALSE))
            /\ wire' = Emit(wire, r, Terminator(q) \o <<"end">>)

BodyEnds(r) ==
    /\ req[r].pc = "relay" /\ ~req[r].abort
    /\ LoopOver(r, FALSE)
    /\ UNCHANGED <<client, meter, tally>>

\* The upstream breaks, or sends nothing for readTimeout and is aborted.
BodyBreaks(r) ==
    /\ req[r].pc = "relay" /\ ~req[r].abort
    /\ LoopOver(r, TRUE)
    /\ UNCHANGED <<client, meter, tally>>

\* The cancellation that onClose asked for surfaces as a read error.
ReadAborted(r) ==
    /\ req[r].pc = "relay" /\ req[r].abort
    /\ LoopOver(r, TRUE)
    /\ UNCHANGED <<client, meter, tally>>

\* classifyStreamFailure: an external leg asks the sidecar whether the verdict
\* was withdrawn; another leg never is.
StreamFailureMapped(r) ==
    /\ req[r].pc = "mapStream"
    /\ \E revoked \in BOOLEAN :
           Step(r, [Outcome("settle", IF revoked THEN "aborted" ELSE "error", TRUE) EXCEPT !.revoked = revoked])
    /\ wire' = Emit(wire, r, <<"error">> \o Terminator(req[r]) \o <<"end">>)
    /\ UNCHANGED <<client, meter, tally>>

-----------------------------------------------------------------------------
(* completeOnce *)

BodyRead(r) ==
    /\ req[r].pc = "body"
    /\ \/ /\ Step(r, Outcome("settle", "ok", FALSE))
          /\ wire' = Emit(wire, r, <<"json", "end">>)
       \/ /\ Step(r, Outcome("insert", "error", TRUE))  \* not JSON
          /\ UNCHANGED wire
    /\ UNCHANGED <<client, meter, tally>>

\* `await upstream.text()` rejects outside any try: the filter answers, and
\* nothing is metered.
BodyBroken(r) ==
    /\ req[r].pc = "body"
    /\ Step(r, [NewRequest EXCEPT !.pc = "crashed"])
    /\ wire' = Emit(wire, r, <<"status", "end">>)
    /\ UNCHANGED <<client, meter, tally>>

-----------------------------------------------------------------------------
(* policy.settle, recorder.finish, MeteringService.record *)

\* debit: floored, so an overshoot costs no more than the bucket holds.
Debited(tokens) ==
    [b \in DOMAIN bucket |-> IF b \in {"tokKey", "tokWs"} /\ bucket[b] < BucketLimit[b]
                             THEN bucket[b] + tokens ELSE bucket[b]]

\* An answer that was relayed may have used no tokens: nothing is charged.
Settle(r) ==
    /\ req[r].pc = "settle"
    /\ \E tokens \in {0, 1} :
           /\ bucket' = Debited(tokens)
           /\ Step(r, [req[r] EXCEPT !.pc = "insert", !.used = (tokens = 1)])
    /\ UNCHANGED <<client, wire, meter, spent, debited, first>>

InsertMutant(r) ==
    /\ req[r].pc = "insert"
    /\ meter' = [meter EXCEPT ![r] = Append(@, req[r].status)]
    /\ \E pc \in {"insert", "spend"} : Step(r, [req[r] EXCEPT !.pc = pc])
    /\ UNCHANGED <<client, wire, tally>>

Insert(r) ==
    /\ req[r].pc = "insert"
    /\ meter' = [meter EXCEPT ![r] = Append(@, req[r].status)]
    /\ Step(r, [req[r] EXCEPT !.pc = "spend"])
    /\ UNCHANGED <<client, wire, tally>>

Charged(r) == IF req[r].used THEN {r} ELSE {}

RecordSpend(r) ==
    /\ req[r].pc = "spend"
    /\ spent' = spent \cup Charged(r)
    /\ Step(r, [req[r] EXCEPT !.pc = "debit"])
    /\ UNCHANGED <<client, wire, meter, bucket, debited, first>>

Debit(r) ==
    /\ req[r].pc = "debit"
    /\ debited' = debited \cup Charged(r)
    /\ Step(r, [req[r] EXCEPT !.pc = "report", !.used = FALSE])
    /\ UNCHANGED <<client, wire, meter, bucket, spent, first>>

\* A write of the meter fails: logged, and the rest of record is skipped.
MeterFails(r) ==
    /\ Faults /\ req[r].pc \in {"insert", "spend", "debit", "report"}
    /\ Step(r, [req[r] EXCEPT !.pc = "answer", !.used = FALSE, !.lost = (req[r].pc = "insert")])
    /\ UNCHANGED <<client, wire, meter, tally>>

\* reportFirstRequest claims workspaces.firstRequestAt with one UPDATE.
Claims == first = {}

ReportFirst(r) ==
    /\ req[r].pc = "report"
    /\ first' = IF Claims THEN first \cup {r} ELSE first
    /\ Step(r, [req[r] EXCEPT !.pc = "answer"])
    /\ UNCHANGED <<client, wire, meter, bucket, spent, debited>>

\* An error thrown after its row was written is the status line.
Finish(r) ==
    /\ req[r].pc = "answer"
    /\ Step(r, [req[r] EXCEPT !.pc = "done", !.status = "none"])
    /\ wire' = IF req[r].code /\ ~HeadersSent(r) THEN Emit(wire, r, <<"status", "end">>) ELSE wire
    /\ UNCHANGED <<client, meter, tally>>

-----------------------------------------------------------------------------
\* The router's own steps: they wait for nobody.
Router(r) ==
    \/ Admit(r) \/ Limit(r) \/ FetchAborted(r) \/ Abandoned(r) \/ SendFailed(r)
    \/ UpstreamRefused(r) \/ FailureMapped(r) \/ Relay(r) \/ ReadAborted(r)
    \/ StreamFailureMapped(r) \/ Settle(r) \/ Insert(r) \/ RecordSpend(r) \/ Debit(r)
    \/ ReportFirst(r) \/ Finish(r)

\* What ends a wait for the upstream: its answer, or a timer (the response
\* deadline, the idle timer of the relay, the body timeout of fetch).
Upstream(r) ==
    \/ KeySealed(r) \/ Headers(r) \/ ConnectionError(r) \/ Deadline(r)
    \/ BodyEnds(r) \/ BodyBreaks(r) \/ BodyRead(r) \/ BodyBroken(r)

Next ==
    \/ \E r \in Requests : Authenticate(r) \/ ClientLeaves(r) \/ OpenIfSlow(r) \/ Chunk(r)
                          \/ AdmissionFails(r) \/ MeterFails(r) \/ Router(r) \/ Upstream(r)

Spec == Init /\ [][Next]_vars

FairSpec ==
    /\ Spec
    /\ \A r \in Requests : WF_vars(Router(r))
    /\ \A r \in Requests \ Silent : WF_vars(Upstream(r))

-----------------------------------------------------------------------------
(* Properties *)

TypeOK ==
    /\ \A r \in Requests :
           /\ req[r].pc \in {"idle", "admit", "limit", "send", "map", "relay", "mapStream", "body", "answer"}
                             \cup Ended \cup Metering
           /\ req[r].status \in {"none", "ok", "error", "aborted"}
           /\ wire[r] \in Seq({"head", "data", "done", "error", "json", "status", "end"})
    /\ client \in [Requests -> {"here", "left"}]
    /\ \A b \in DOMAIN BucketLimit : bucket[b] \in 0 .. BucketLimit[b]
    /\ spent \cup debited \cup first \subseteq Requests

\* gateway.service.ts:40: a request that was forwarded ends with exactly one
\* row, whichever way it ended and however often it was sent, except where the
\* body of a whole answer broke or the insert failed; one that was refused
\* leaves none.  Whichever write of the meter fails, what is debited was added
\* to the spend before, and what was spent has its row.
OneRow ==
    /\ \A r \in Requests :
           /\ Len(meter[r]) <= 1
           /\ req[r].pc = "done" /\ ~req[r].lost => Len(meter[r]) = 1
           /\ req[r].pc = "refused" => meter[r] = << >> /\ req[r].ran = 0
    /\ debited \subseteq spent
    /\ \A r \in spent : Len(meter[r]) = 1

\* A client that stayed gets an end it can see: a stream, also one opened
\* before the upstream failed, carries exactly one terminator and is closed.
StreamTerminated ==
    \A r \in Requests :
        req[r].pc = "done" /\ client[r] = "here" =>
            /\ In("end", wire[r])
            /\ In("head", wire[r]) => Cardinality({i \in 1 .. Len(wire[r]) : wire[r][i] = "done"}) = 1

\* router-api.md, "aborted": the row says aborted without an error only of a
\* client that left before [DONE], and ok only when nothing failed in its sight.
StatusTruthful ==
    \A r \in Requests : meter[r] # << >> =>
        /\ meter[r][1] = "aborted" /\ ~req[r].revoked => client[r] = "left" /\ ~In("done", wire[r])
        /\ meter[r][1] = "ok" => ~In("error", wire[r]) /\ (client[r] = "here" => In("end", wire[r]))
        /\ meter[r][1] = "error" => req[r].code

\* A request that came in when its key's spend limit, the credit or a token
\* bucket was used up is never forwarded, whatever it races with.
BudgetRefuses ==
    \A r \in Requests : req[r].over => req[r].ran = 0

\* router-api.md:210: "`[DONE]` is also where the generation *ends*, for
\* metering".  The relay reads on after it, and a failure then is a row of its own.
DoneEndsGeneration ==
    \A r \in Requests :
        req[r].pc = "done" /\ meter[r] = <<"error">> =>
            \A i, j \in 1 .. Len(wire[r]) : wire[r][i] = "done" /\ wire[r][j] = "error" => j < i

\* A streamed request whose client leaves while a listener is attached (the
\* wait of handle, or the relay) ends although the upstream never says another
\* word and no timer fires: the hang-up itself ends the call.
HangUpEnds ==
    \A r \in Requests :
        (req[r].clientLeft \/ req[r].aborted \/ req[r].leftAfterDone) ~> (req[r].pc \in Ended)

\* Where every wait for the upstream is bounded, an admitted request ends,
\* whatever its client does and however long another request waits.
RequestsEnd ==
    \A r \in Requests \ Silent : (req[r].pc = "send") ~> (req[r].pc \in Ended)
=============================================================================
