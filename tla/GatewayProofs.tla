---------------------------- MODULE GatewayProofs ----------------------------
(***************************************************************************)
(* Proofs about Gateway, for every number of requests in flight, every     *)
(* limit, credit and bucket size, with and without failing writes: a       *)
(* request that came in over its budget is never forwarded, a forwarded    *)
(* one leaves one row, the row tells the truth about it, and a client that *)
(* stayed sees its answer end.                                             *)
(***************************************************************************)
EXTENDS Gateway, FiniteSetTheorems, TLAPS

Events == {"head", "data", "done", "error", "json", "status", "end"}
Statuses == {"none", "ok", "error", "aborted"}
Tokens == {"tokKey", "tokWs"}

\* Where handle may stand: before the call, in it, in the relay, after it.
Asking == {"idle", "admit", "limit", "refused"}
Calling == {"send", "map"}
Relaying == {"relay", "mapStream"}
Outcomes == Metering \cup {"answer"}

ReqType ==
    [pc : Asking \cup Calling \cup Relaying \cup {"body"} \cup Outcomes \cup {"done", "crashed"},
     stream : BOOLEAN, over : BOOLEAN, seen : Nat, bucket : 1 .. 4, attempt : 1 .. 2, ran : Nat,
     answer : {"none", "ok", "notOk", "error"}, opened : BOOLEAN, clientLeft : BOOLEAN, abort : BOOLEAN,
     sawDone : BOOLEAN, aborted : BOOLEAN, leftAfterDone : BOOLEAN, failure : BOOLEAN, revoked : BOOLEAN,
     status : Statuses, code : BOOLEAN, used : BOOLEAN, lost : BOOLEAN]

Typed ==
    /\ req \in [Requests -> ReqType]
    /\ client \in [Requests -> {"here", "left"}]
    /\ wire \in [Requests -> Seq(Events)]
    /\ meter \in [Requests -> Seq(Statuses)]
    /\ bucket \in [DOMAIN BucketLimit -> Nat]
    /\ \A b \in DOMAIN BucketLimit : bucket[b] <= BucketLimit[b]
    /\ spent \subseteq Requests /\ debited \subseteq spent /\ first \subseteq Requests
    /\ IsFiniteSet(spent)

\* A token bucket that a request has still to ask is empty.
Stops(q) == \E i \in 3 .. 4 : q.bucket <= i /\ bucket[Buckets[i]] >= BucketLimit[Buckets[i]]

\* A request over its budget has yet to meet the check that will stop it, and
\* nothing lets it through meanwhile: the budgets only shrink.
Budgeted(q) ==
    /\ q.pc \in Asking => q.ran = 0
    /\ q.pc \notin {"admit", "limit"} => ~q.over
    /\ q.pc = "admit" => q.bucket = 1
    /\ q.pc = "admit" /\ q.over => q.seen >= SpendLimit \/ Cardinality(debited) >= Credit \/ Stops(q)
    /\ q.pc = "limit" /\ q.over => Stops(q)

\* The rows of a request follow its program counter; the spend follows its row
\* and the debit its spend.
Recorded(q, r) ==
    /\ q.pc \notin {"spend", "debit", "report", "answer", "done"} => meter[r] = << >>
    /\ q.pc \in {"spend", "debit", "report"} => Len(meter[r]) = 1
    /\ q.pc \in {"answer", "done"} => (Len(meter[r]) = 1 \/ (q.lost /\ meter[r] = << >>))
    /\ r \in spent => Len(meter[r]) = 1
    /\ q.pc = "debit" /\ q.used => r \in spent

\* What a row with status s says is true.
Told(s, q, c, w) ==
    /\ s = "aborted" /\ ~q.revoked => c = "left" /\ ~In("done", w)
    /\ s = "ok" => ~q.code /\ ~In("error", w) /\ (c = "here" => In("end", w))
    /\ s = "error" => q.code

\* Exactly one terminator.
OneDone(w) == \E i \in 1 .. Len(w) : w[i] = "done" /\ \A j \in 1 .. Len(w) : w[j] = "done" => j = i

\* Before the call is answered the client has seen the headers at most.
Waiting(q, c, w) ==
    q.pc \in Asking \cup Calling =>
        /\ w = IF q.opened THEN <<"head">> ELSE << >>
        /\ q.opened => q.stream /\ q.pc \in Calling
        /\ ~q.sawDone /\ ~q.aborted
        /\ q.clientLeft => c = "left"
        /\ q.abort => q.clientLeft

\* The relay has sent no end, and the terminator if and only if it remembers it;
\* it takes the generation for aborted only when the client left before it.
Streaming(q, c, w) ==
    q.pc \in Relaying =>
        /\ ~In("end", w) /\ ~In("error", w)
        /\ ~q.sawDone => ~In("done", w)
        /\ q.sawDone /\ c = "here" => OneDone(w)
        /\ q.aborted => q.abort /\ c = "left" /\ ~q.sawDone

\* Once there is an outcome, a client that stayed has its end or is owed a
\* status line.
Closing(q, c, w) ==
    /\ q.pc = "body" => w = << >>
    /\ q.pc \in {"settle", "insert"} => Told(q.status, q, c, w)
    /\ q.pc \in Outcomes \cup {"done"} /\ c = "here" =>
           /\ In("end", w) \/ (q.pc # "done" /\ q.code /\ w = << >>)
           /\ In("head", w) => OneDone(w)

Talks(q, c, w) == Waiting(q, c, w) /\ Streaming(q, c, w) /\ Closing(q, c, w)

Truthful(r) == meter[r] # << >> => Told(meter[r][1], req[r], client[r], wire[r])

\* The inductive invariant.
Budgets == \A r \in Requests : Budgeted(req[r])
Rows == \A r \in Requests : Recorded(req[r], r)
Talk == \A r \in Requests : Talks(req[r], client[r], wire[r]) /\ Truthful(r)
GatewayInv == Typed /\ Budgets /\ Rows /\ Talk

-----------------------------------------------------------------------------
(* The operators of the model *)

LEMMA Limits ==
  /\ SpendLimit \in Nat /\ Credit \in Nat
  /\ DOMAIN BucketLimit = {"reqKey", "reqWs", "tokKey", "tokWs"}
  /\ \A b \in DOMAIN BucketLimit : BucketLimit[b] \in Nat /\ BucketLimit[b] > 0
BY GatewayAssumption

LEMMA Ladder ==
  /\ Buckets[1] = "reqKey" /\ Buckets[2] = "reqWs" /\ Buckets[3] = "tokKey" /\ Buckets[4] = "tokWs"
  /\ \A i \in 1 .. 4 : Buckets[i] \in DOMAIN BucketLimit
  /\ \A i \in 3 .. 4 : Buckets[i] \in Tokens
  /\ \A b \in Tokens : \E i \in 3 .. 4 : b = Buckets[i]
<1>1. Buckets[1] = "reqKey" /\ Buckets[2] = "reqWs" /\ Buckets[3] = "tokKey" /\ Buckets[4] = "tokWs"
  BY DEF Buckets
<1>2. \A i \in 1 .. 4 : i = 1 \/ i = 2 \/ i = 3 \/ i = 4
  OBVIOUS
<1>3. \A i \in 3 .. 4 : i = 3 \/ i = 4
  OBVIOUS
<1> QED
  BY <1>1, <1>2, <1>3, Limits DEF Tokens

\* What is in a sequence that was made longer.
LEMMA InCat ==
  ASSUME NEW s \in Seq(Events), NEW t \in Seq(Events), NEW e
  PROVE  In(e, s \o t) <=> In(e, s) \/ In(e, t)
<1>1. /\ Len(s \o t) = Len(s) + Len(t) /\ Len(s) \in Nat /\ Len(t) \in Nat
      /\ \A i \in 1 .. Len(s) : (s \o t)[i] = s[i]
      /\ \A i \in 1 .. Len(t) : (s \o t)[Len(s) + i] = t[i]
  OBVIOUS
<1>2. ASSUME NEW i \in 1 .. Len(s \o t), (s \o t)[i] = e PROVE In(e, s) \/ In(e, t)
  <2>1. CASE i <= Len(s)
    BY <1>1, <1>2, <2>1 DEF In
  <2>2. CASE i > Len(s)
    <3>1. i - Len(s) \in 1 .. Len(t) /\ t[i - Len(s)] = e
      BY <1>1, <1>2, <2>2
    <3> QED
      BY <3>1 DEF In
  <2> QED
    BY <1>1, <2>1, <2>2
<1>3. In(e, s) => In(e, s \o t)
  BY <1>1 DEF In
<1>4. ASSUME NEW i \in 1 .. Len(t), t[i] = e PROVE In(e, s \o t)
  <2>1. Len(s) + i \in 1 .. Len(s \o t) /\ (s \o t)[Len(s) + i] = e
    BY <1>1, <1>4
  <2> QED
    BY <2>1 DEF In
<1> QED
  BY <1>2, <1>3, <1>4 DEF In

\* One terminator before, or one after, is one terminator.
LEMMA OneDoneCat ==
  ASSUME NEW s \in Seq(Events), NEW t \in Seq(Events)
  PROVE  /\ OneDone(s) /\ ~In("done", t) => OneDone(s \o t)
         /\ ~In("done", s) /\ OneDone(t) => OneDone(s \o t)
<1>1. /\ Len(s \o t) = Len(s) + Len(t) /\ Len(s) \in Nat /\ Len(t) \in Nat
      /\ \A i \in 1 .. Len(s) : (s \o t)[i] = s[i]
      /\ \A i \in 1 .. Len(t) : (s \o t)[Len(s) + i] = t[i]
  OBVIOUS
<1>2. \A j \in 1 .. Len(s \o t) : j \in 1 .. Len(s) \/ (j - Len(s) \in 1 .. Len(t) /\ (s \o t)[j] = t[j - Len(s)])
  BY <1>1
<1>3. ASSUME OneDone(s), ~In("done", t) PROVE OneDone(s \o t)
  <2>1. PICK i \in 1 .. Len(s) : s[i] = "done" /\ \A j \in 1 .. Len(s) : s[j] = "done" => j = i
    BY <1>3 DEF OneDone
  <2>2. i \in 1 .. Len(s \o t) /\ (s \o t)[i] = "done"
    BY <1>1, <2>1
  <2>3. ASSUME NEW j \in 1 .. Len(s \o t), (s \o t)[j] = "done" PROVE j = i
    BY <1>1, <1>2, <1>3, <2>1, <2>3 DEF In
  <2> QED
    BY <2>2, <2>3 DEF OneDone
<1>4. ASSUME ~In("done", s), OneDone(t) PROVE OneDone(s \o t)
  <2>1. PICK i \in 1 .. Len(t) : t[i] = "done" /\ \A j \in 1 .. Len(t) : t[j] = "done" => j = i
    BY <1>4 DEF OneDone
  <2>2. Len(s) + i \in 1 .. Len(s \o t) /\ (s \o t)[Len(s) + i] = "done"
    BY <1>1, <2>1
  <2>3. ASSUME NEW j \in 1 .. Len(s \o t), (s \o t)[j] = "done" PROVE j = Len(s) + i
    <3>1. j - Len(s) \in 1 .. Len(t) /\ t[j - Len(s)] = "done"
      BY <1>1, <1>2, <1>4, <2>3 DEF In
    <3>2. j - Len(s) = i
      BY <2>1, <3>1
    <3> QED
      BY <1>1, <3>2
  <2> QED
    BY <2>2, <2>3 DEF OneDone
<1> QED
  BY <1>3, <1>4

LEMMA CountDone ==
  ASSUME NEW w \in Seq(Events), OneDone(w)
  PROVE  Cardinality({i \in 1 .. Len(w) : w[i] = "done"}) = 1
<1>1. PICK i \in 1 .. Len(w) : w[i] = "done" /\ \A j \in 1 .. Len(w) : w[j] = "done" => j = i
  BY DEF OneDone
<1>2. {j \in 1 .. Len(w) : w[j] = "done"} = {i}
  BY <1>1
<1> QED
  BY <1>2, FS_Singleton

\* What the router sends: each thing it writes at once.
LEMMA Writes ==
  /\ \A e \in Events : <<e>> \in Seq(Events) /\ Len(<<e>>) = 1 /\ \A x : In(x, <<e>>) <=> x = e
  /\ \A e, f \in Events : <<e, f>> \in Seq(Events) /\ Len(<<e, f>>) = 2 /\ \A x : In(x, <<e, f>>) <=> x \in {e, f}
  /\ << >> \in Seq(Events) /\ Len(<< >>) = 0 /\ \A x : ~In(x, << >>)
  /\ OneDone(<<"done">>) /\ OneDone(<<"done", "end">>)
<1>1. ASSUME NEW e \in Events PROVE <<e>> \in Seq(Events) /\ Len(<<e>>) = 1 /\ \A x : In(x, <<e>>) <=> x = e
  BY DEF In
<1>2. ASSUME NEW e \in Events, NEW f \in Events
      PROVE  <<e, f>> \in Seq(Events) /\ Len(<<e, f>>) = 2 /\ \A x : In(x, <<e, f>>) <=> x \in {e, f}
  <2>1. <<e, f>> \in Seq(Events) /\ Len(<<e, f>>) = 2 /\ <<e, f>>[1] = e /\ <<e, f>>[2] = f
    OBVIOUS
  <2>2. \A i \in 1 .. 2 : i = 1 \/ i = 2
    OBVIOUS
  <2>3. 1 \in 1 .. 2 /\ 2 \in 1 .. 2
    OBVIOUS
  <2> QED
    BY <2>1, <2>2, <2>3 DEF In
<1>3. << >> \in Seq(Events) /\ Len(<< >>) = 0 /\ \A x : ~In(x, << >>)
  BY DEF In
<1>4. OneDone(<<"done">>)
  BY DEF OneDone
<1>5. OneDone(<<"done", "end">>)
  BY DEF OneDone
<1> QED
  BY <1>1, <1>2, <1>3, <1>4, <1>5

\* The end of a relay, with its terminator or without, after an error or not.
Ending(q) == Terminator(q) \o <<"end">>
Breaking(q) == <<"error">> \o Terminator(q) \o <<"end">>
Terminated(q) == q.sawDone \/ q.aborted

LEMMA Endings ==
  ASSUME NEW q
  PROVE  /\ Ending(q) \in Seq(Events) /\ Breaking(q) \in Seq(Events)
         /\ Len(Ending(q)) # 1 \/ Ending(q)[1] = "end"
         /\ Len(Breaking(q)) # 1
         /\ In("end", Ending(q)) /\ In("end", Breaking(q)) /\ ~In("error", Ending(q))
         /\ Terminated(q) => ~In("done", Ending(q)) /\ ~In("done", Breaking(q))
         /\ ~Terminated(q) => OneDone(Ending(q)) /\ OneDone(Breaking(q))
<1> DEFINE m == Terminator(q)
           e == <<"error">> \o m
<1>1. /\ "end" \in Events /\ "error" \in Events /\ "done" \in Events
      /\ <<"end">> \in Seq(Events) /\ <<"error">> \in Seq(Events) /\ Len(<<"end">>) = 1 /\ Len(<<"error">>) = 1
  BY Writes DEF Events
<1>2. /\ m \in Seq(Events) /\ (\A x : In(x, m) => x = "done")
      /\ Terminated(q) => ~In("done", m)
      /\ ~Terminated(q) => OneDone(m)
      /\ Len(m) = 0 \/ Len(m) = 1
  BY <1>1, Writes DEF Terminator, Terminated
<1>3. Ending(q) = m \o <<"end">> /\ Breaking(q) = e \o <<"end">>
  BY DEF Ending, Breaking
<1> HIDE DEF m
<1>4. /\ Ending(q) \in Seq(Events) /\ Len(Ending(q)) = Len(m) + 1 /\ (Len(m) = 0 => Ending(q)[1] = "end")
      /\ e \in Seq(Events) /\ Len(e) = 1 + Len(m)
  BY <1>1, <1>2, <1>3
<1>5. \A x : /\ In(x, <<"end">>) <=> x = "end"
             /\ In(x, <<"error">>) <=> x = "error"
  BY <1>1, Writes
<1>6. \A x : In(x, Ending(q)) <=> In(x, m) \/ In(x, <<"end">>)
  BY <1>1, <1>2, <1>3, InCat
<1>7. \A x : In(x, e) <=> In(x, <<"error">>) \/ In(x, m)
  BY <1>1, <1>2, InCat
<1>8. ~Terminated(q) => OneDone(Ending(q)) /\ OneDone(e)
  <2>1. OneDone(m) /\ ~In("done", <<"end">>) => OneDone(m \o <<"end">>)
    BY <1>1, <1>2, OneDoneCat
  <2>2. ~In("done", <<"error">>) /\ OneDone(m) => OneDone(<<"error">> \o m)
    BY <1>1, <1>2, OneDoneCat
  <2> QED
    BY <1>2, <1>3, <1>5, <2>1, <2>2
<1> HIDE DEF e
<1>9. Breaking(q) \in Seq(Events) /\ Len(Breaking(q)) = Len(e) + 1
  <2>1. \A s, t \in Seq(Events) : s \o t \in Seq(Events) /\ Len(s \o t) = Len(s) + Len(t)
    OBVIOUS
  <2> QED
    BY <1>1, <1>3, <1>4, <2>1
<1>10. \A x : In(x, Breaking(q)) <=> In(x, e) \/ In(x, <<"end">>)
  <2>1. \A x : In(x, e \o <<"end">>) <=> In(x, e) \/ In(x, <<"end">>)
    BY <1>1, <1>4, InCat
  <2> QED
    BY <1>3, <2>1
<1>11. ~Terminated(q) => OneDone(Breaking(q))
  <2>1. OneDone(e) /\ ~In("done", <<"end">>) => OneDone(e \o <<"end">>)
    BY <1>1, <1>4, OneDoneCat
  <2> QED
    BY <1>3, <1>5, <1>8, <2>1
<1>12. Len(Ending(q)) # 1 \/ Ending(q)[1] = "end"
  BY <1>2, <1>4
<1>13. Len(Breaking(q)) # 1
  BY <1>2, <1>4, <1>9
<1>14. In("end", Ending(q)) /\ In("end", Breaking(q)) /\ ~In("error", Ending(q))
  BY <1>2, <1>5, <1>6, <1>10
<1>15. Terminated(q) => ~In("done", Ending(q)) /\ ~In("done", Breaking(q))
  BY <1>2, <1>5, <1>6, <1>7, <1>10
<1> QED
  BY <1>4, <1>8, <1>9, <1>11, <1>12, <1>13, <1>14, <1>15

\* response.write: nothing for a client that left, and for one that stayed the
\* events, unless they repeat the last one.
LEMMA Sends ==
  ASSUME Typed, NEW r \in Requests, NEW ev \in Seq(Events)
  PROVE  /\ Emit(wire, r, ev) \in [Requests -> Seq(Events)]
         /\ \A s \in Requests \ {r} : Emit(wire, r, ev)[s] = wire[s]
         /\ client[r] = "left" => Emit(wire, r, ev) = wire
         /\ Emit(wire, r, ev)[r] = wire[r] \/ Emit(wire, r, ev)[r] = wire[r] \o ev
         /\ client[r] = "here" /\ (Len(ev) # 1 \/ ~In(ev[1], wire[r])) => Emit(wire, r, ev)[r] = wire[r] \o ev
<1>1. wire \in [Requests -> Seq(Events)] /\ wire[r] \in Seq(Events) /\ wire[r] \o ev \in Seq(Events)
  BY DEF Typed
<1>2. CASE client[r] = "left"
  BY <1>1, <1>2 DEF Emit
<1>3. CASE client[r] # "left"
  <2>1. Emit(wire, r, ev) = [wire EXCEPT ![r] = IF Len(wire[r]) > 0 /\ <<wire[r][Len(wire[r])]>> = ev THEN wire[r] ELSE wire[r] \o ev]
    BY <1>3 DEF Emit
  <2>2. Len(wire[r]) > 0 /\ <<wire[r][Len(wire[r])]>> = ev => Len(ev) = 1 /\ In(ev[1], wire[r])
    BY <1>1 DEF In
  <2> QED
    BY <1>1, <1>3, <2>1, <2>2
<1> QED
  BY <1>2, <1>3

-----------------------------------------------------------------------------
(* Types *)

\* A step of the gateway is a step of one request.
Act(r) ==
    \/ Authenticate(r) \/ ClientLeaves(r) \/ OpenIfSlow(r) \/ Chunk(r) \/ AdmissionFails(r) \/ MeterFails(r)
    \/ Router(r) \/ Upstream(r)

LEMMA Steps ==
  ASSUME Typed, NEW r \in Requests, NEW f \in ReqType, Step(r, f)
  PROVE  req' \in [Requests -> ReqType] /\ req'[r] = f /\ \A s \in Requests \ {r} : req'[s] = req[s]
BY DEF Typed, Step

LEMMA FreshRequest ==
  NewRequest \in ReqType /\ \A pc \in {"refused", "crashed"} : [NewRequest EXCEPT !.pc = pc] \in ReqType
<1>1. 0 \in Nat /\ 1 \in 1 .. 4 /\ 1 \in 1 .. 2
  OBVIOUS
<1>2. NewRequest \in ReqType
  BY <1>1 DEF NewRequest, ReqType, Asking, Statuses
<1> QED
  BY <1>2 DEF ReqType, Asking

LEMMA FreshOutcome ==
  ASSUME NEW pc \in {"settle", "insert"}, NEW status \in Statuses, NEW code \in BOOLEAN
  PROVE  /\ Outcome(pc, status, code) \in ReqType
         /\ Outcome(pc, status, code).pc = pc /\ Outcome(pc, status, code).status = status
         /\ Outcome(pc, status, code).code = code /\ Outcome(pc, status, code).revoked = FALSE
         /\ Outcome(pc, status, code).over = FALSE /\ Outcome(pc, status, code).lost = FALSE
         /\ Outcome(pc, status, code).used = FALSE
<1>1. NewRequest.revoked = FALSE /\ NewRequest.over = FALSE /\ NewRequest.lost = FALSE /\ NewRequest.used = FALSE
  BY DEF NewRequest
<1> QED
  BY <1>1, FreshRequest DEF Outcome, ReqType, Outcomes, Metering

\* What a step of r leaves of r.
LEMMA StepReq ==
  ASSUME Typed, NEW r \in Requests, Act(r)
  PROVE  req' \in [Requests -> ReqType] /\ \A s \in Requests \ {r} : req'[s] = req[s]
<1> DEFINE q == req[r]
<1>0. q \in ReqType /\ spent \subseteq Requests /\ Cardinality(spent) \in Nat
  BY FS_CardinalityType DEF Typed
<1>1. ASSUME \E f \in ReqType : Step(r, f) PROVE req' \in [Requests -> ReqType] /\ \A s \in Requests \ {r} : req'[s] = req[s]
  BY <1>1, Steps
<1>2. CASE Authenticate(r)
  <2>1. PICK stream, ok \in BOOLEAN :
            Step(r, IF ok THEN [NewRequest EXCEPT !.pc = "admit", !.stream = stream,
                                                  !.over = OverBudget, !.seen = Cardinality(spent)]
                    ELSE [NewRequest EXCEPT !.pc = "refused"])
    BY <1>2 DEF Authenticate
  <2>2. OverBudget \in BOOLEAN
    BY DEF OverBudget
  <2>3. [NewRequest EXCEPT !.pc = "admit", !.stream = stream, !.over = OverBudget, !.seen = Cardinality(spent)] \in ReqType
    BY <1>0, <2>2, FreshRequest DEF ReqType, Asking
  <2> QED
    BY <1>1, <2>1, <2>3, FreshRequest
<1>3. CASE Admit(r) \/ AdmissionFails(r)
  <2>1. [q EXCEPT !.pc = "limit", !.seen = 0] \in ReqType
    BY <1>0 DEF ReqType, Asking
  <2> QED
    BY <1>1, <1>3, <2>1, FreshRequest DEF Admit, AdmissionFails
<1>4. CASE Limit(r)
  <2>1. [q EXCEPT !.pc = "send", !.bucket = 1] \in ReqType
    <3>1. \A b \in 1 .. 4 : [q EXCEPT !.pc = "send", !.bucket = b] \in ReqType
      BY <1>0 DEF ReqType, Calling
    <3> QED
      BY <3>1
  <2>2. q.bucket # 4 => q.bucket + 1 \in 1 .. 4
    <3>1. q.bucket \in 1 .. 4
      BY <1>0 DEF ReqType
    <3> QED
      BY <3>1
  <2>3. q.bucket # 4 => [q EXCEPT !.bucket = @ + 1] \in ReqType
    <3>1. \A b \in 1 .. 4 : [q EXCEPT !.bucket = b] \in ReqType
      BY <1>0 DEF ReqType
    <3> QED
      BY <2>2, <3>1
  <2> QED
    BY <1>1, <1>4, <2>1, <2>3, FreshRequest DEF Limit
<1>5. CASE ClientLeaves(r)
  <2>1. [q EXCEPT !.clientLeft = TRUE, !.abort = TRUE] \in ReqType
    BY <1>0 DEF ReqType
  <2>2. RelayClosed(q) \in ReqType
    <3>1. q.sawDone \in BOOLEAN /\ (~q.sawDone) \in BOOLEAN
      BY <1>0 DEF ReqType
    <3>2. \A a, b \in BOOLEAN : [q EXCEPT !.abort = TRUE, !.leftAfterDone = a, !.aborted = b] \in ReqType
      BY <1>0 DEF ReqType
    <3> QED
      BY <3>1, <3>2 DEF RelayClosed
  <2> QED
    BY <1>0, <1>1, <1>5, <2>1, <2>2 DEF ClientLeaves
<1>6. \A a \in {"ok", "notOk", "error"}, sent \in {0, 1} : [q EXCEPT !.answer = a, !.ran = @ + sent] \in ReqType
  <2>1. \A sent \in {0, 1} : q.ran + sent \in Nat
    BY <1>0 DEF ReqType
  <2>2. \A a \in {"ok", "notOk", "error"}, n \in Nat : [q EXCEPT !.answer = a, !.ran = n] \in ReqType
    BY <1>0 DEF ReqType
  <2> QED
    BY <2>1, <2>2
<1>7. CASE KeySealed(r) \/ Headers(r) \/ Deadline(r) \/ FetchAborted(r)
  BY <1>1, <1>6, <1>7 DEF KeySealed, Headers, Deadline, FetchAborted, Answer
<1>8. CASE ConnectionError(r)
  <2>1. Retries(r) => \A sent \in {0, 1} : [q EXCEPT !.attempt = @ + 1, !.ran = @ + sent] \in ReqType
    <3>1. \A sent \in {0, 1} : q.ran + sent \in Nat
      BY <1>0 DEF ReqType
    <3>2. Retries(r) => q.attempt + 1 \in 1 .. 2
      BY <1>0 DEF Retries, ReqType
    <3>3. \A a \in 1 .. 2, n \in Nat : [q EXCEPT !.attempt = a, !.ran = n] \in ReqType
      BY <1>0 DEF ReqType
    <3> QED
      BY <3>1, <3>2, <3>3
  <2> QED
    BY <1>1, <1>6, <1>8, <2>1 DEF ConnectionError, Answer
<1>9. CASE OpenIfSlow(r) \/ UpstreamRefused(r) \/ Relay(r) \/ Finish(r)
  <2>1. [q EXCEPT !.opened = TRUE] \in ReqType /\ [q EXCEPT !.pc = "done", !.status = "none"] \in ReqType
    BY <1>0 DEF ReqType, Statuses
  <2>2. \A pc \in {"map", "relay", "body"} : [q EXCEPT !.pc = pc] \in ReqType
    BY <1>0 DEF ReqType, Calling, Relaying
  <2> QED
    BY <1>1, <1>9, <2>1, <2>2 DEF OpenIfSlow, UpstreamRefused, Relay, Finish
<1>10. CASE Abandoned(r) \/ SendFailed(r) \/ FailureMapped(r)
  BY <1>1, <1>10, FreshOutcome DEF Abandoned, SendFailed, FailureMapped, EndBeforeTokens, Statuses
<1>11. CASE Chunk(r)
  <2>1. \A e \in {"data", "done"} : (e = "done") \in BOOLEAN
    OBVIOUS
  <2>2. \A b \in BOOLEAN : [q EXCEPT !.sawDone = b] \in ReqType
    BY <1>0 DEF ReqType
  <2> QED
    BY <1>1, <1>11, <2>1, <2>2 DEF Chunk
<1>12. CASE BodyEnds(r) \/ BodyBreaks(r) \/ ReadAborted(r)
  <2>1. PICK failed \in BOOLEAN : LoopOver(r, failed)
    BY <1>12 DEF BodyEnds, BodyBreaks, ReadAborted
  <2>2. (failed /\ ~q.leftAfterDone) \in BOOLEAN
    BY <1>0 DEF ReqType
  <2>3. \A b \in BOOLEAN : [[q EXCEPT !.failure = b] EXCEPT !.pc = "mapStream"] \in ReqType
    BY <1>0 DEF ReqType, Relaying
  <2> QED
    BY <1>1, <2>1, <2>2, <2>3, FreshOutcome DEF LoopOver, Statuses
<1>13. CASE StreamFailureMapped(r)
  <2>1. PICK revoked \in BOOLEAN :
            Step(r, [Outcome("settle", IF revoked THEN "aborted" ELSE "error", TRUE) EXCEPT !.revoked = revoked])
    BY <1>13 DEF StreamFailureMapped
  <2>2. Outcome("settle", IF revoked THEN "aborted" ELSE "error", TRUE) \in ReqType
    BY FreshOutcome DEF Statuses
  <2>3. \A o \in ReqType : [o EXCEPT !.revoked = revoked] \in ReqType
    BY DEF ReqType
  <2> QED
    BY <1>1, <2>1, <2>2, <2>3
<1>14. CASE BodyRead(r) \/ BodyBroken(r)
  BY <1>1, <1>14, FreshRequest, FreshOutcome DEF BodyRead, BodyBroken, Statuses
<1>15. CASE Settle(r)
  <2>1. \A tokens \in {0, 1} : (tokens = 1) \in BOOLEAN
    OBVIOUS
  <2>2. \A b \in BOOLEAN : [q EXCEPT !.pc = "insert", !.used = b] \in ReqType
    BY <1>0 DEF ReqType, Outcomes, Metering
  <2> QED
    BY <1>1, <1>15, <2>1, <2>2 DEF Settle
<1>16. CASE Insert(r) \/ RecordSpend(r) \/ Debit(r) \/ ReportFirst(r)
  <2>1. \A pc \in {"spend", "debit", "answer"} : [q EXCEPT !.pc = pc] \in ReqType
    BY <1>0 DEF ReqType, Outcomes, Metering
  <2>2. [q EXCEPT !.pc = "report", !.used = FALSE] \in ReqType
    BY <1>0 DEF ReqType, Outcomes, Metering
  <2> QED
    BY <1>1, <1>16, <2>1, <2>2 DEF Insert, RecordSpend, Debit, ReportFirst
<1>17. CASE MeterFails(r)
  <2>1. (q.pc = "insert") \in BOOLEAN
    OBVIOUS
  <2>2. \A b \in BOOLEAN : [q EXCEPT !.pc = "answer", !.used = FALSE, !.lost = b] \in ReqType
    BY <1>0 DEF ReqType, Outcomes
  <2> QED
    BY <1>1, <1>17, <2>1, <2>2 DEF MeterFails
<1> QED
  BY <1>2, <1>3, <1>4, <1>5, <1>7, <1>8, <1>9, <1>10, <1>11, <1>12, <1>13, <1>14, <1>15, <1>16, <1>17 DEF Act, Router, Upstream

\* What a step of r writes to its client.
LEMMA StepWire ==
  ASSUME Typed, NEW r \in Requests, Act(r)
  PROVE  /\ wire' \in [Requests -> Seq(Events)] /\ \A s \in Requests \ {r} : wire'[s] = wire[s]
         /\ client' \in [Requests -> {"here", "left"}] /\ \A s \in Requests \ {r} : client'[s] = client[s]
<1>1. ASSUME UNCHANGED wire \/ \E ev \in Seq(Events) : wire' = Emit(wire, r, ev)
      PROVE  wire' \in [Requests -> Seq(Events)] /\ \A s \in Requests \ {r} : wire'[s] = wire[s]
  <2>1. CASE UNCHANGED wire
    BY <2>1 DEF Typed
  <2>2. ASSUME NEW ev \in Seq(Events), wire' = Emit(wire, r, ev)
        PROVE  wire' \in [Requests -> Seq(Events)] /\ \A s \in Requests \ {r} : wire'[s] = wire[s]
    BY <2>2, Sends
  <2> QED
    BY <1>1, <2>1, <2>2
<1>2. Preamble(r) \in Seq(Events)
  BY Writes DEF Preamble, Events
<1>4. \A q : Terminator(q) \o <<"end">> \in Seq(Events) /\ <<"error">> \o Terminator(q) \o <<"end">> \in Seq(Events)
  BY Endings DEF Ending, Breaking
<1>5. /\ <<"error", "done", "end">> \in Seq(Events) /\ <<"status", "end">> \in Seq(Events)
      /\ <<"json", "end">> \in Seq(Events) /\ \A e \in {"data", "done"} : <<e>> \in Seq(Events)
  BY DEF Events
<1>6. CASE OpenIfSlow(r) \/ Chunk(r) \/ SendFailed(r) \/ FailureMapped(r) \/ Relay(r)
  <2>1. UNCHANGED wire \/ \E ev \in Seq(Events) : wire' = Emit(wire, r, ev)
    BY <1>2, <1>5, <1>6 DEF OpenIfSlow, Chunk, SendFailed, FailureMapped, Relay, EndBeforeTokens
  <2> QED
    BY <1>1, <1>6, <2>1 DEF OpenIfSlow, Chunk, SendFailed, FailureMapped, Relay, Typed
<1>7. CASE BodyEnds(r) \/ BodyBreaks(r) \/ ReadAborted(r) \/ StreamFailureMapped(r)
  <2>1. UNCHANGED wire \/ \E ev \in Seq(Events) : wire' = Emit(wire, r, ev)
    BY <1>4, <1>7 DEF BodyEnds, BodyBreaks, ReadAborted, StreamFailureMapped, LoopOver
  <2> QED
    BY <1>1, <1>7, <2>1 DEF BodyEnds, BodyBreaks, ReadAborted, StreamFailureMapped, Typed
<1>8. CASE BodyRead(r) \/ BodyBroken(r) \/ Finish(r)
  <2>1. UNCHANGED wire \/ \E ev \in Seq(Events) : wire' = Emit(wire, r, ev)
    BY <1>5, <1>8 DEF BodyRead, BodyBroken, Finish
  <2> QED
    BY <1>1, <1>8, <2>1 DEF BodyRead, BodyBroken, Finish, Typed
<1>9. CASE ClientLeaves(r)
  BY <1>1, <1>9 DEF ClientLeaves, Typed
<1>10. CASE \/ Authenticate(r) \/ AdmissionFails(r) \/ MeterFails(r) \/ Admit(r) \/ Limit(r) \/ FetchAborted(r)
            \/ Abandoned(r) \/ UpstreamRefused(r) \/ Settle(r) \/ Insert(r) \/ RecordSpend(r) \/ Debit(r)
            \/ ReportFirst(r) \/ KeySealed(r) \/ Headers(r) \/ ConnectionError(r) \/ Deadline(r)
  <2>1. UNCHANGED <<wire, client>>
    BY <1>10 DEF Authenticate, AdmissionFails, MeterFails, Admit, Limit, FetchAborted, Abandoned, UpstreamRefused,
       Settle, Insert, RecordSpend, Debit, ReportFirst, KeySealed, Headers, ConnectionError, Deadline
  <2> QED
    BY <1>1, <2>1 DEF Typed
<1> QED
  BY <1>6, <1>7, <1>8, <1>9, <1>10 DEF Act, Router, Upstream

LEMMA Untouched ==
  ASSUME NEW r, Act(r)
  PROVE  \/ Limit(r) \/ Settle(r)
         \/ ((Insert(r) \/ RecordSpend(r) \/ Debit(r) \/ ReportFirst(r)) /\ UNCHANGED <<bucket, wire, client>>)
         \/ UNCHANGED <<bucket, meter, spent, debited, first>>
<1>1. CASE Insert(r) \/ RecordSpend(r) \/ Debit(r) \/ ReportFirst(r)
  BY <1>1 DEF Insert, RecordSpend, Debit, ReportFirst, tally
<1>2. CASE \/ Authenticate(r) \/ AdmissionFails(r) \/ MeterFails(r) \/ Admit(r) \/ ClientLeaves(r) \/ OpenIfSlow(r)
           \/ Abandoned(r) \/ SendFailed(r) \/ UpstreamRefused(r) \/ FailureMapped(r) \/ Relay(r)
  BY <1>2 DEF Authenticate, AdmissionFails, MeterFails, Admit, ClientLeaves, OpenIfSlow, Abandoned, SendFailed,
     UpstreamRefused, FailureMapped, Relay, tally
<1>3. CASE \/ KeySealed(r) \/ Headers(r) \/ ConnectionError(r) \/ Deadline(r) \/ FetchAborted(r) \/ Chunk(r)
           \/ BodyEnds(r) \/ BodyBreaks(r) \/ ReadAborted(r) \/ StreamFailureMapped(r) \/ BodyRead(r) \/ BodyBroken(r)
           \/ Finish(r)
  BY <1>3 DEF KeySealed, Headers, ConnectionError, Deadline, FetchAborted, Chunk, BodyEnds, BodyBreaks, ReadAborted,
     StreamFailureMapped, BodyRead, BodyBroken, Finish, tally
<1> QED
  BY <1>1, <1>2, <1>3 DEF Act, Router, Upstream

\* Of the accounts, a step touches one at most, and none ever shrinks.
LEMMA StepAccounts ==
  ASSUME Typed, Rows, NEW r \in Requests, Act(r)
  PROVE  /\ meter' \in [Requests -> Seq(Statuses)] /\ \A s \in Requests \ {r} : meter'[s] = meter[s]
         /\ bucket' \in [DOMAIN BucketLimit -> Nat]
         /\ \A b \in DOMAIN BucketLimit : bucket'[b] <= BucketLimit[b] /\ bucket[b] <= bucket'[b]
         /\ spent' = spent \/ (spent' = spent \cup {r} /\ req[r].pc = "spend")
         /\ debited' = debited \/ debited' = debited \cup {r}
         /\ debited' \subseteq spent' /\ first' \subseteq Requests
<1>0. /\ meter \in [Requests -> Seq(Statuses)] /\ bucket \in [DOMAIN BucketLimit -> Nat]
      /\ \A b \in DOMAIN BucketLimit : bucket[b] \in Nat /\ bucket[b] <= BucketLimit[b] /\ BucketLimit[b] \in Nat
      /\ debited \subseteq spent /\ first \subseteq Requests /\ req[r] \in ReqType
  BY Limits DEF Typed
<1>1. CASE Limit(r)
  <2> DEFINE b == Buckets[req[r].bucket]
  <2>1. b \in DOMAIN BucketLimit
    BY <1>0, Ladder DEF ReqType
  <2>2. bucket' = [bucket EXCEPT ![b] = IF Affords(b) /\ b \in {"reqKey", "reqWs"} THEN @ + 1 ELSE @]
    BY <1>1 DEF Limit
  <2>3. UNCHANGED <<meter, spent, debited, first>>
    BY <1>1 DEF Limit
  <2> HIDE DEF b
  <2>4. /\ bucket' \in [DOMAIN BucketLimit -> Nat]
        /\ \A x \in DOMAIN BucketLimit : bucket'[x] <= BucketLimit[x] /\ bucket[x] <= bucket'[x]
    BY <1>0, <2>1, <2>2 DEF Affords
  <2> QED
    BY <1>0, <2>3, <2>4
<1>2. CASE Settle(r)
  <2>1. PICK tokens \in {0, 1} : bucket' = Debited(tokens)
    BY <1>2 DEF Settle
  <2>2. UNCHANGED <<meter, spent, debited, first>>
    BY <1>2 DEF Settle
  <2>3. DOMAIN bucket = DOMAIN BucketLimit
    BY <1>0
  <2>4. /\ bucket' \in [DOMAIN BucketLimit -> Nat]
        /\ \A x \in DOMAIN BucketLimit : bucket'[x] <= BucketLimit[x] /\ bucket[x] <= bucket'[x]
    BY <1>0, <2>1, <2>3 DEF Debited
  <2> QED
    BY <1>0, <2>2, <2>4
<1>3. CASE UNCHANGED bucket
  <2>1. /\ bucket' \in [DOMAIN BucketLimit -> Nat]
        /\ \A x \in DOMAIN BucketLimit : bucket'[x] <= BucketLimit[x] /\ bucket[x] <= bucket'[x]
    BY <1>0, <1>3
  <2>2. CASE Insert(r)
    <3>1. Append(meter[r], req[r].status) \in Seq(Statuses)
      BY <1>0 DEF ReqType
    <3> QED
      BY <1>0, <2>1, <2>2, <3>1 DEF Insert, tally
  <2>3. CASE RecordSpend(r)
    BY <1>0, <2>1, <2>3 DEF RecordSpend, Charged
  <2>4. CASE Debit(r)
    <3>1. req[r].used => r \in spent
      BY <2>4 DEF Debit, Rows, Recorded
    <3> QED
      BY <1>0, <2>1, <2>4, <3>1 DEF Debit, Charged
  <2>5. CASE ReportFirst(r)
    BY <1>0, <2>1, <2>5 DEF ReportFirst
  <2>6. CASE UNCHANGED <<meter, spent, debited, first>>
    BY <1>0, <2>1, <2>6
  <2> QED
    BY <2>2, <2>3, <2>4, <2>5, <2>6, <1>1, <1>2, Untouched
<1> QED
  BY <1>1, <1>2, <1>3, Untouched

LEMMA StepTyped ==
  ASSUME Typed, Rows, NEW r \in Requests, Act(r)
  PROVE  Typed'
<1>1. spent' \subseteq Requests /\ IsFiniteSet(spent')
  <2>1. IsFiniteSet(spent) /\ IsFiniteSet(spent \cup {r}) /\ spent \subseteq Requests
    BY FS_AddElement DEF Typed
  <2> QED
    BY <2>1, StepAccounts
<1> QED
  BY <1>1, StepReq, StepWire, StepAccounts DEF Typed

-----------------------------------------------------------------------------
(* How the record of a request moves *)

Serving == {"send", "map", "relay", "mapStream", "body"}

\* Admission.
Ask(r) == Authenticate(r) \/ Admit(r) \/ Limit(r) \/ AdmissionFails(r)

LEMMA Asks ==
  ASSUME Typed, NEW r \in Requests, Ask(r)
  PROVE  /\ req[r].pc \in {"idle", "admit", "limit"} /\ req'[r].pc \in {"admit", "limit", "send", "refused"}
         /\ req'[r].opened = req[r].opened \/ req'[r].opened = FALSE
         /\ req'[r].sawDone = req[r].sawDone \/ req'[r].sawDone = FALSE
         /\ req'[r].aborted = req[r].aborted \/ req'[r].aborted = FALSE
         /\ \/ req'[r].clientLeft = req[r].clientLeft /\ req'[r].abort = req[r].abort
            \/ req'[r].clientLeft = FALSE /\ req'[r].abort = FALSE
         /\ UNCHANGED <<client, wire>>
<1>0. req \in [Requests -> ReqType] /\ req[r] \in ReqType
  BY DEF Typed
<1>1. ASSUME NEW f, Step(r, f) PROVE req'[r] = f
  BY <1>0, <1>1 DEF Step
<1>2. req[r].pc \in {"idle", "admit", "limit"} /\ UNCHANGED <<client, wire>>
  BY DEF Ask, Authenticate, Admit, Limit, AdmissionFails
<1>3. \/ \E st, ov, se : req'[r] = [NewRequest EXCEPT !.pc = "admit", !.stream = st, !.over = ov, !.seen = se]
      \/ req'[r] = [NewRequest EXCEPT !.pc = "refused"]
      \/ req'[r] = [req[r] EXCEPT !.pc = "limit", !.seen = 0]
      \/ req'[r] = [req[r] EXCEPT !.pc = "send", !.bucket = 1]
      \/ (req[r].pc = "limit" /\ \E b : req'[r] = [req[r] EXCEPT !.bucket = b])
  <2>1. CASE Authenticate(r)
    <3>1. PICK stream, ok \in BOOLEAN :
              req'[r] = IF ok THEN [NewRequest EXCEPT !.pc = "admit", !.stream = stream,
                                                      !.over = OverBudget, !.seen = Cardinality(spent)]
                        ELSE [NewRequest EXCEPT !.pc = "refused"]
      BY <1>1, <2>1 DEF Authenticate
    <3> QED
      BY <3>1
  <2>2. CASE Admit(r) \/ AdmissionFails(r)
    BY <1>1, <2>2 DEF Admit, AdmissionFails
  <2>3. CASE Limit(r)
    BY <1>1, <2>3 DEF Limit
  <2> QED
    BY <2>1, <2>2, <2>3 DEF Ask
<1>4. req'[r].pc \in {"admit", "limit", "send", "refused"}
  BY <1>0, <1>3 DEF NewRequest, ReqType
<1>5. /\ req'[r].opened = req[r].opened \/ req'[r].opened = FALSE
      /\ req'[r].sawDone = req[r].sawDone \/ req'[r].sawDone = FALSE
      /\ req'[r].aborted = req[r].aborted \/ req'[r].aborted = FALSE
      /\ \/ req'[r].clientLeft = req[r].clientLeft /\ req'[r].abort = req[r].abort
         \/ req'[r].clientLeft = FALSE /\ req'[r].abort = FALSE
  BY <1>0, <1>3 DEF NewRequest, ReqType
<1> QED
  BY <1>2, <1>4, <1>5

\* From the call to the outcome.
Serve(r) ==
    \/ KeySealed(r) \/ Headers(r) \/ ConnectionError(r) \/ Deadline(r) \/ FetchAborted(r) \/ OpenIfSlow(r)
    \/ Abandoned(r) \/ SendFailed(r) \/ UpstreamRefused(r) \/ FailureMapped(r) \/ Relay(r) \/ Chunk(r)
    \/ BodyEnds(r) \/ BodyBreaks(r) \/ ReadAborted(r) \/ StreamFailureMapped(r) \/ BodyRead(r) \/ BodyBroken(r)

LEMMA Serves ==
  ASSUME Typed, NEW r \in Requests, Serve(r)
  PROVE  /\ req[r].pc \in Serving /\ req'[r].pc \in Serving \cup {"settle", "insert", "crashed"}
         /\ req'[r].over = req[r].over \/ req'[r].over = FALSE
         /\ UNCHANGED <<meter, bucket, spent, debited, first>>
<1>0. req \in [Requests -> ReqType] /\ req[r] \in ReqType
  BY DEF Typed
<1>1. ASSUME NEW f, Step(r, f) PROVE req'[r] = f
  BY <1>0, <1>1 DEF Step
<1>2. CASE KeySealed(r) \/ Headers(r) \/ ConnectionError(r) \/ Deadline(r) \/ FetchAborted(r)
  <2>1. req[r].pc = "send" /\ UNCHANGED <<meter, tally>>
    BY <1>2 DEF KeySealed, Headers, ConnectionError, Deadline, FetchAborted, Pending
  <2>2. \E a, n, t : \/ req'[r] = [req[r] EXCEPT !.answer = a, !.ran = n]
                     \/ req'[r] = [req[r] EXCEPT !.attempt = t, !.ran = n]
    BY <1>1, <1>2 DEF KeySealed, Headers, ConnectionError, Deadline, FetchAborted, Answer
  <2>3. req'[r].pc = req[r].pc /\ req'[r].over = req[r].over
    BY <1>0, <2>2 DEF ReqType
  <2> QED
    BY <2>1, <2>3 DEF Serving, tally
<1>3. CASE OpenIfSlow(r) \/ UpstreamRefused(r) \/ Relay(r)
  <2>1. req[r].pc = "send" /\ UNCHANGED <<meter, tally>>
    BY <1>3 DEF OpenIfSlow, UpstreamRefused, Relay, Pending
  <2>2. \/ req'[r] = [req[r] EXCEPT !.opened = TRUE]
        \/ \E pc \in {"map", "relay", "body"} : req'[r] = [req[r] EXCEPT !.pc = pc]
    BY <1>1, <1>3 DEF OpenIfSlow, UpstreamRefused, Relay
  <2>3. req'[r].pc \in Serving /\ req'[r].over = req[r].over
    BY <1>0, <2>1, <2>2 DEF ReqType, Serving
  <2> QED
    BY <2>1, <2>3 DEF Serving, tally
<1>4. CASE Abandoned(r) \/ SendFailed(r) \/ FailureMapped(r)
  <2>1. req[r].pc \in {"send", "map"} /\ UNCHANGED <<meter, tally>>
    BY <1>4 DEF Abandoned, SendFailed, FailureMapped
  <2>2. req'[r] = Outcome("insert", "aborted", FALSE) \/ req'[r] = Outcome("insert", "error", TRUE)
    BY <1>1, <1>4 DEF Abandoned, SendFailed, FailureMapped, EndBeforeTokens
  <2>3. /\ Outcome("insert", "aborted", FALSE).pc = "insert" /\ Outcome("insert", "aborted", FALSE).over = FALSE
        /\ Outcome("insert", "error", TRUE).pc = "insert" /\ Outcome("insert", "error", TRUE).over = FALSE
    BY DEF Outcome, NewRequest
  <2> QED
    BY <2>1, <2>2, <2>3 DEF Serving, tally
<1>5. CASE Chunk(r)
  <2>1. \E b : req'[r] = [req[r] EXCEPT !.sawDone = b]
    BY <1>1, <1>5 DEF Chunk
  <2>2. req'[r].pc = req[r].pc /\ req'[r].over = req[r].over
    BY <1>0, <2>1 DEF ReqType
  <2> QED
    BY <1>5, <2>2 DEF Chunk, Serving, tally
<1>6. CASE BodyEnds(r) \/ BodyBreaks(r) \/ ReadAborted(r)
  <2>1. PICK failed \in BOOLEAN : LoopOver(r, failed)
    BY <1>6 DEF BodyEnds, BodyBreaks, ReadAborted
  <2>2. \/ \E b : req'[r] = [[req[r] EXCEPT !.failure = b] EXCEPT !.pc = "mapStream"]
        \/ \E st \in {"aborted", "ok"} : req'[r] = Outcome("settle", st, FALSE)
    BY <1>1, <2>1 DEF LoopOver
  <2>3. req'[r].pc \in {"mapStream", "settle"} /\ (req'[r].over = req[r].over \/ req'[r].over = FALSE)
    <3>1. \A b : LET f == [[req[r] EXCEPT !.failure = b] EXCEPT !.pc = "mapStream"]
                 IN  f.pc = "mapStream" /\ f.over = req[r].over
      BY <1>0 DEF ReqType
    <3>2. \A st \in {"aborted", "ok"} : Outcome("settle", st, FALSE).pc = "settle" /\ Outcome("settle", st, FALSE).over = FALSE
      BY DEF Outcome, NewRequest
    <3> QED
      BY <2>2, <3>1, <3>2
  <2>4. req[r].pc = "relay" /\ UNCHANGED <<meter, tally>>
    BY <1>6 DEF BodyEnds, BodyBreaks, ReadAborted
  <2> QED
    BY <2>3, <2>4 DEF Serving, tally
<1>7. CASE StreamFailureMapped(r)
  <2>1. PICK revoked \in BOOLEAN :
            req'[r] = [Outcome("settle", IF revoked THEN "aborted" ELSE "error", TRUE) EXCEPT !.revoked = revoked]
    BY <1>1, <1>7 DEF StreamFailureMapped
  <2>2. PICK st \in {"aborted", "error"} : req'[r] = [Outcome("settle", st, TRUE) EXCEPT !.revoked = revoked]
    BY <2>1
  <2>3. Outcome("settle", st, TRUE) \in ReqType /\ Outcome("settle", st, TRUE).pc = "settle"
        /\ Outcome("settle", st, TRUE).over = FALSE
    <3>1. Outcome("settle", st, TRUE) \in ReqType
      BY FreshOutcome DEF Statuses
    <3> QED
      BY <3>1 DEF Outcome, NewRequest
  <2>4. req'[r].pc = "settle" /\ req'[r].over = FALSE
    <3>1. \A o \in ReqType : /\ [o EXCEPT !.revoked = revoked].pc = o.pc
                             /\ [o EXCEPT !.revoked = revoked].over = o.over
      BY DEF ReqType
    <3> QED
      BY <2>2, <2>3, <3>1
  <2> QED
    BY <1>7, <2>4 DEF StreamFailureMapped, Serving, tally
<1>8. CASE BodyRead(r) \/ BodyBroken(r)
  <2>1. \/ req'[r] = Outcome("settle", "ok", FALSE) \/ req'[r] = Outcome("insert", "error", TRUE)
        \/ req'[r] = [NewRequest EXCEPT !.pc = "crashed"]
    BY <1>1, <1>8 DEF BodyRead, BodyBroken
  <2>2. [NewRequest EXCEPT !.pc = "crashed"].pc = "crashed" /\ [NewRequest EXCEPT !.pc = "crashed"].over = FALSE
    BY DEF NewRequest
  <2>3. /\ Outcome("settle", "ok", FALSE).pc = "settle" /\ Outcome("settle", "ok", FALSE).over = FALSE
        /\ Outcome("insert", "error", TRUE).pc = "insert" /\ Outcome("insert", "error", TRUE).over = FALSE
    BY DEF Outcome, NewRequest
  <2>4. req[r].pc = "body" /\ UNCHANGED <<meter, tally>>
    BY <1>8 DEF BodyRead, BodyBroken
  <2> QED
    BY <2>1, <2>2, <2>3, <2>4 DEF Serving, tally
<1> QED
  BY <1>2, <1>3, <1>4, <1>5, <1>6, <1>7, <1>8 DEF Serve

\* A client that leaves changes what the request knows of it, and nothing else.
LEMMA Leaves ==
  ASSUME Typed, NEW r \in Requests, ClientLeaves(r)
  PROVE  /\ req'[r].pc = req[r].pc /\ req'[r].over = req[r].over /\ req'[r].seen = req[r].seen
         /\ req'[r].bucket = req[r].bucket /\ req'[r].ran = req[r].ran
         /\ req'[r].used = req[r].used /\ req'[r].lost = req[r].lost
         /\ req'[r].status = req[r].status /\ req'[r].code = req[r].code /\ req'[r].revoked = req[r].revoked
         /\ UNCHANGED <<meter, bucket, spent, debited, first>>
<1>0. req \in [Requests -> ReqType] /\ req[r] \in ReqType
  BY DEF Typed
<1>1. \/ req'[r] = [req[r] EXCEPT !.clientLeft = TRUE, !.abort = TRUE]
      \/ req'[r] = RelayClosed(req[r]) \/ req'[r] = req[r]
  BY <1>0 DEF ClientLeaves, Step
<1> QED
  BY <1>0, <1>1 DEF RelayClosed, ReqType, ClientLeaves, tally

\* From the outcome to the end.
Close(r) ==
    Settle(r) \/ Insert(r) \/ RecordSpend(r) \/ Debit(r) \/ ReportFirst(r) \/ MeterFails(r) \/ Finish(r)

LEMMA Closes ==
  ASSUME Typed, NEW r \in Requests, Close(r)
  PROVE  /\ req[r].pc \in Outcomes /\ req'[r].pc \in Outcomes \cup {"done"}
         /\ req'[r].over = req[r].over /\ req'[r].code = req[r].code /\ req'[r].revoked = req[r].revoked
         /\ req'[r].status = req[r].status \/ (req[r].pc = "answer" /\ req'[r].pc = "done")
         /\ client'[r] = client[r]
<1>0. req \in [Requests -> ReqType] /\ req[r] \in ReqType
  BY DEF Typed
<1>1. ASSUME NEW f, Step(r, f) PROVE req'[r] = f
  BY <1>0, <1>1 DEF Step
<1>2. \/ \E u : /\ req[r].pc = "settle"
                /\ req'[r] = [req[r] EXCEPT !.pc = "insert", !.used = u]
      \/ (req[r].pc = "insert" /\ req'[r] = [req[r] EXCEPT !.pc = "spend"])
      \/ (req[r].pc = "spend" /\ req'[r] = [req[r] EXCEPT !.pc = "debit"])
      \/ (req[r].pc = "debit" /\ req'[r] = [req[r] EXCEPT !.pc = "report", !.used = FALSE])
      \/ (req[r].pc = "report" /\ req'[r] = [req[r] EXCEPT !.pc = "answer"])
      \/ /\ req[r].pc \in {"insert", "spend", "debit", "report"}
         /\ req'[r] = [req[r] EXCEPT !.pc = "answer", !.used = FALSE, !.lost = (req[r].pc = "insert")]
      \/ (req[r].pc = "answer" /\ req'[r] = [req[r] EXCEPT !.pc = "done", !.status = "none"])
  <2>1. CASE Settle(r) \/ Insert(r)
    BY <1>1, <2>1 DEF Settle, Insert
  <2>2. CASE RecordSpend(r) \/ Debit(r) \/ ReportFirst(r)
    BY <1>1, <2>2 DEF RecordSpend, Debit, ReportFirst
  <2>3. CASE MeterFails(r)
    <3>1. req'[r] = [req[r] EXCEPT !.pc = "answer", !.used = FALSE, !.lost = (req[r].pc = "insert")]
      BY <1>1, <2>3 DEF MeterFails
    <3>2. req[r].pc \in {"insert", "spend", "debit", "report"}
      BY <2>3 DEF MeterFails
    <3> QED
      BY <3>1, <3>2
  <2>4. CASE Finish(r)
    BY <1>1, <2>4 DEF Finish
  <2> QED
    BY <2>1, <2>2, <2>3, <2>4 DEF Close
<1>3. UNCHANGED client
  BY DEF Close, Settle, Insert, RecordSpend, Debit, ReportFirst, MeterFails, Finish
<1>4. req[r].pc \in Outcomes /\ req'[r].pc \in Outcomes \cup {"done"}
  BY <1>0, <1>2 DEF ReqType, Outcomes, Metering
<1>5. req'[r].over = req[r].over /\ req'[r].code = req[r].code /\ req'[r].revoked = req[r].revoked
  BY <1>0, <1>2 DEF ReqType
<1>6. req'[r].status = req[r].status \/ (req[r].pc = "answer" /\ req'[r].pc = "done")
  BY <1>0, <1>2 DEF ReqType
<1> QED
  BY <1>3, <1>4, <1>5, <1>6

\* The kinds of step.
LEMMA Kinds ==
  ASSUME NEW r, Act(r)
  PROVE  Ask(r) \/ ClientLeaves(r) \/ Serve(r) \/ Close(r)
BY DEF Act, Router, Upstream, Ask, Serve, Close

-----------------------------------------------------------------------------
(* Budgets *)

\* A budget that is used up stays used up.
LEMMA Shrinks ==
  ASSUME Typed, Rows, NEW r \in Requests, Act(r)
  PROVE  /\ Cardinality(debited) >= Credit => Cardinality(debited') >= Credit
         /\ \A i \in 3 .. 4 : bucket[Buckets[i]] >= BucketLimit[Buckets[i]] => bucket'[Buckets[i]] >= BucketLimit[Buckets[i]]
<1>1. IsFiniteSet(debited) /\ IsFiniteSet(debited')
  <2>1. IsFiniteSet(spent) /\ debited \in SUBSET spent
    BY DEF Typed
  <2>2. IsFiniteSet(spent') /\ debited' \in SUBSET spent'
    BY StepTyped DEF Typed
  <2> QED
    BY <2>1, <2>2, FS_Subset
<1>2. debited \in SUBSET debited'
  BY StepAccounts
<1>3. Cardinality(debited) <= Cardinality(debited') /\ Cardinality(debited) \in Nat /\ Cardinality(debited') \in Nat
  BY <1>1, <1>2, FS_Subset, FS_CardinalityType
<1>4. ASSUME NEW i \in 3 .. 4, bucket[Buckets[i]] >= BucketLimit[Buckets[i]]
      PROVE  bucket'[Buckets[i]] >= BucketLimit[Buckets[i]]
  <2>1. Buckets[i] \in DOMAIN BucketLimit
    BY Ladder
  <2>2. /\ bucket[Buckets[i]] \in Nat /\ bucket'[Buckets[i]] \in Nat /\ BucketLimit[Buckets[i]] \in Nat
        /\ bucket[Buckets[i]] <= bucket'[Buckets[i]]
    BY <2>1, StepAccounts, Limits DEF Typed
  <2> QED
    BY <1>4, <2>2
<1> QED
  BY <1>3, <1>4, Limits

LEMMA StepBudgets ==
  ASSUME Typed, Rows, Budgets, NEW r \in Requests, Act(r)
  PROVE  Budgets'
<1>0. /\ req \in [Requests -> ReqType] /\ req[r] \in ReqType /\ Budgeted(req[r])
      /\ req' \in [Requests -> ReqType] /\ \A s \in Requests \ {r} : req'[s] = req[s]
  BY StepReq DEF Typed, Budgets
<1>1. ASSUME NEW s \in Requests \ {r} PROVE Budgeted(req[s])'
  <2>1. Budgeted(req[s]) /\ req'[s] = req[s]
    BY <1>0 DEF Budgets
  <2> QED
    BY <2>1, Shrinks DEF Budgeted, Stops
<1>2. ASSUME Budgeted(req[r])' PROVE Budgets'
  BY <1>1, <1>2 DEF Budgets
<1>3. ASSUME NEW f, Step(r, f) PROVE req'[r] = f
  BY <1>0, <1>3 DEF Step
<1>4. ASSUME req'[r] = [NewRequest EXCEPT !.pc = "refused"] PROVE Budgeted(req[r])'
  <2>1. req'[r].pc = "refused" /\ req'[r].ran = 0 /\ req'[r].over = FALSE
    BY <1>4 DEF NewRequest
  <2> QED
    BY <2>1 DEF Budgeted
<1>5. CASE AdmissionFails(r)
  BY <1>2, <1>3, <1>4, <1>5 DEF AdmissionFails
<1>6. CASE Authenticate(r)
  <2>1. PICK stream, ok \in BOOLEAN :
            req'[r] = IF ok THEN [NewRequest EXCEPT !.pc = "admit", !.stream = stream,
                                                    !.over = OverBudget, !.seen = Cardinality(spent)]
                      ELSE [NewRequest EXCEPT !.pc = "refused"]
    BY <1>3, <1>6 DEF Authenticate
  <2>2. CASE ~ok
    BY <1>2, <1>4, <2>1, <2>2
  <2>3. CASE ok
    <3>1. /\ req'[r].pc = "admit" /\ req'[r].ran = 0 /\ req'[r].bucket = 1 /\ req'[r].seen = Cardinality(spent)
          /\ req'[r].over = OverBudget
      BY <2>1, <2>3 DEF NewRequest
    <3>2. UNCHANGED <<bucket, debited>>
      BY <1>6 DEF Authenticate, tally
    <3>3. ASSUME OverBudget PROVE req'[r].seen >= SpendLimit \/ Cardinality(debited) >= Credit \/ Stops(req[r])'
      <4>1. CASE \E b \in {"tokKey", "tokWs"} : bucket[b] >= BucketLimit[b]
        <5>1. PICK i \in 3 .. 4 : bucket[Buckets[i]] >= BucketLimit[Buckets[i]]
          BY <4>1, Ladder DEF Tokens
        <5> QED
          BY <3>1, <3>2, <5>1 DEF Stops
      <4> QED
        BY <3>1, <3>3, <4>1 DEF OverBudget
    <3>4. Budgeted(req[r])'
      BY <3>1, <3>2, <3>3 DEF Budgeted
    <3> QED
      BY <1>2, <3>4
  <2> QED
    BY <2>2, <2>3
<1>7. CASE Admit(r)
  <2>1. CASE ~Spendable(r)
    BY <1>2, <1>3, <1>4, <1>7, <2>1 DEF Admit
  <2>2. CASE Spendable(r)
    <3>1. req'[r] = [req[r] EXCEPT !.pc = "limit", !.seen = 0] /\ req[r].pc = "admit"
      BY <1>3, <1>7, <2>2 DEF Admit
    <3>2. req'[r].pc = "limit" /\ req'[r].bucket = req[r].bucket /\ req'[r].ran = req[r].ran /\ req'[r].over = req[r].over
      BY <1>0, <3>1 DEF ReqType
    <3>3. UNCHANGED <<bucket, debited>>
      BY <1>7 DEF Admit, tally
    <3>4. Cardinality(debited) \in Nat /\ req[r].seen \in Nat
      <4>1. IsFiniteSet(debited)
        BY FS_Subset DEF Typed
      <4> QED
        BY <1>0, <4>1, FS_CardinalityType DEF ReqType
    <3>5. ~(Cardinality(debited) >= Credit) /\ ~(req[r].seen >= SpendLimit)
      BY <2>2, <3>4, Limits DEF Spendable
    <3>6. req[r].over => Stops(req[r])
      BY <1>0, <3>1, <3>5 DEF Budgeted
    <3>7. Budgeted(req[r])'
      BY <1>0, <3>1, <3>2, <3>3, <3>6 DEF Budgeted, Stops, Asking
    <3> QED
      BY <1>2, <3>7
  <2> QED
    BY <2>1, <2>2
<1>8. CASE Limit(r)
  <2> DEFINE b == Buckets[req[r].bucket]
  <2>0. req[r].pc = "limit" /\ req[r].bucket \in 1 .. 4 /\ req[r].ran = 0 /\ b \in DOMAIN BucketLimit
    BY <1>0, <1>8, Ladder DEF Limit, Budgeted, Asking, ReqType
  <2>1. CASE ~Affords(b)
    BY <1>2, <1>3, <1>4, <1>8, <2>1 DEF Limit
  <2>2. CASE Affords(b)
    <3>1. ~(bucket[b] >= BucketLimit[b])
      BY <2>0, <2>2, Limits DEF Affords, Typed
    <3>2. ASSUME req[r].over PROVE \E i \in 3 .. 4 : req[r].bucket < i /\ bucket[Buckets[i]] >= BucketLimit[Buckets[i]]
      <4>1. PICK i \in 3 .. 4 : req[r].bucket <= i /\ bucket[Buckets[i]] >= BucketLimit[Buckets[i]]
        BY <1>0, <2>0, <3>2 DEF Budgeted, Stops
      <4>2. req[r].bucket # i
        BY <3>1, <4>1
      <4> QED
        BY <2>0, <4>1, <4>2
    <3>3. CASE req[r].bucket = 4
      <4>1. req'[r] = [req[r] EXCEPT !.pc = "send", !.bucket = 1]
        BY <1>3, <1>8, <2>2, <3>3 DEF Limit
      <4>2. req'[r].pc = "send" /\ req'[r].over = req[r].over
        BY <1>0, <4>1 DEF ReqType
      <4>3. ~req[r].over
        BY <3>2, <3>3
      <4> QED
        BY <1>2, <4>2, <4>3 DEF Budgeted, Asking
    <3>4. CASE req[r].bucket # 4
      <4>1. req'[r] = [req[r] EXCEPT !.bucket = @ + 1]
        BY <1>3, <1>8, <2>2, <3>4 DEF Limit
      <4>2. /\ req'[r].pc = "limit" /\ req'[r].over = req[r].over /\ req'[r].ran = req[r].ran
            /\ req'[r].bucket = req[r].bucket + 1
        BY <1>0, <2>0, <4>1 DEF ReqType
      <4>3. ASSUME req[r].over PROVE Stops(req[r])'
        <5>1. PICK i \in 3 .. 4 : req[r].bucket < i /\ bucket[Buckets[i]] >= BucketLimit[Buckets[i]]
          BY <3>2, <4>3
        <5>2. req'[r].bucket <= i /\ bucket'[Buckets[i]] >= BucketLimit[Buckets[i]]
          BY <2>0, <4>2, <5>1, Shrinks
        <5> QED
          BY <5>2 DEF Stops
      <4>4. Budgeted(req[r])'
        BY <2>0, <4>2, <4>3 DEF Budgeted, Asking
      <4> QED
        BY <1>2, <4>4
    <3> QED
      BY <3>3, <3>4
  <2> QED
    BY <2>1, <2>2
<1>9. CASE ClientLeaves(r)
  <2>1. Budgeted(req[r])'
    BY <1>0, <1>9, Leaves DEF Budgeted, Stops
  <2> QED
    BY <1>2, <2>1
<1>10. CASE Serve(r)
  <2>1. ~req[r].over
    BY <1>0, <1>10, Serves DEF Budgeted, Serving
  <2>2. req'[r].pc \notin Asking /\ ~req'[r].over
    BY <1>10, <2>1, Serves DEF Asking, Serving
  <2> QED
    BY <1>2, <2>2 DEF Budgeted, Asking
<1>11. CASE Close(r)
  <2>1. ~req[r].over
    BY <1>0, <1>11, Closes DEF Budgeted, Outcomes, Metering
  <2>2. req'[r].pc \notin Asking /\ ~req'[r].over
    BY <1>11, <2>1, Closes DEF Asking, Outcomes, Metering
  <2> QED
    BY <1>2, <2>2 DEF Budgeted, Asking
<1> QED
  BY <1>5, <1>6, <1>7, <1>8, <1>9, <1>10, <1>11, Kinds DEF Ask

-----------------------------------------------------------------------------
(* Rows *)

LEMMA StepRows ==
  ASSUME Typed, Rows, NEW r \in Requests, Act(r)
  PROVE  Rows'
<1>0. /\ req \in [Requests -> ReqType] /\ req[r] \in ReqType /\ Recorded(req[r], r)
      /\ meter \in [Requests -> Seq(Statuses)] /\ meter[r] \in Seq(Statuses)
  BY DEF Typed, Rows
<1>1. ASSUME NEW s \in Requests \ {r} PROVE Recorded(req[s], s)'
  <2>1. Recorded(req[s], s) /\ req'[s] = req[s] /\ meter'[s] = meter[s] /\ (s \in spent' <=> s \in spent)
    BY StepReq, StepAccounts DEF Rows
  <2> QED
    BY <2>1 DEF Recorded
<1>2. ASSUME Recorded(req[r], r)' PROVE Rows'
  BY <1>1, <1>2 DEF Rows
<1>3. ASSUME NEW f, Step(r, f) PROVE req'[r] = f
  BY <1>0, <1>3 DEF Step
\* Before the row there is nothing.
<1>5. ASSUME UNCHANGED <<meter, spent>>, req[r].pc \notin {"spend", "debit", "report", "answer", "done"},
             req'[r].pc \notin {"spend", "debit", "report", "answer", "done"}
      PROVE  Rows'
  <2>1. Recorded(req[r], r)'
    BY <1>0, <1>5 DEF Recorded
  <2> QED
    BY <1>2, <2>1
<1>6. CASE Ask(r)
  <2>1. req[r].pc \in {"idle", "admit", "limit"} /\ UNCHANGED <<meter, spent>>
    BY <1>6 DEF Ask, Authenticate, Admit, Limit, AdmissionFails, tally
  <2> QED
    BY <1>5, <1>6, <2>1, Asks
<1>7. CASE Serve(r)
  BY <1>5, <1>7, Serves DEF Serving
<1>8. CASE ClientLeaves(r)
  <2>1. Recorded(req[r], r)'
    BY <1>0, <1>8, Leaves DEF Recorded
  <2> QED
    BY <1>2, <2>1
<1>9. CASE Settle(r)
  <2>1. PICK tokens \in {0, 1} : req'[r] = [req[r] EXCEPT !.pc = "insert", !.used = (tokens = 1)]
    BY <1>3, <1>9 DEF Settle
  <2>2. req[r].pc = "settle" /\ req'[r].pc = "insert" /\ UNCHANGED <<meter, spent>>
    BY <1>0, <1>9, <2>1 DEF Settle, ReqType
  <2> QED
    BY <1>5, <2>2
<1>10. CASE Insert(r)
  <2>1. req[r].pc = "insert" /\ meter'[r] = Append(meter[r], req[r].status) /\ req[r].status \in Statuses
    BY <1>0, <1>10 DEF Insert, ReqType
  <2>2. meter[r] = << >>
    BY <1>0, <2>1 DEF Recorded
  <2>3. Len(meter'[r]) = 1
    BY <1>0, <2>1, <2>2
  <2>4. req'[r].pc = "spend"
    BY <1>0, <1>3, <1>10 DEF Insert, ReqType
  <2>5. Recorded(req[r], r)'
    BY <2>3, <2>4 DEF Recorded
  <2> QED
    BY <1>2, <2>5
<1>11. CASE RecordSpend(r)
  <2>1. req[r].pc = "spend" /\ UNCHANGED meter /\ req'[r] = [req[r] EXCEPT !.pc = "debit"]
        /\ spent' = spent \cup Charged(r)
    BY <1>3, <1>11 DEF RecordSpend
  <2>2. req'[r].pc = "debit" /\ req'[r].used = req[r].used
    BY <1>0, <2>1 DEF ReqType
  <2>3. Len(meter'[r]) = 1 /\ (req'[r].used => r \in spent')
    BY <1>0, <2>1, <2>2 DEF Recorded, Charged
  <2>4. Recorded(req[r], r)'
    BY <2>2, <2>3 DEF Recorded
  <2> QED
    BY <1>2, <2>4
<1>12. CASE Debit(r) \/ ReportFirst(r)
  <2>1. /\ req[r].pc \in {"debit", "report"} /\ UNCHANGED <<meter, spent>>
        /\ \/ req'[r] = [req[r] EXCEPT !.pc = "report", !.used = FALSE]
           \/ req'[r] = [req[r] EXCEPT !.pc = "answer"]
    BY <1>3, <1>12 DEF Debit, ReportFirst
  <2>2. req'[r].pc \in {"report", "answer"} /\ Len(meter'[r]) = 1
    BY <1>0, <2>1 DEF ReqType, Recorded
  <2>3. Recorded(req[r], r)'
    BY <2>2 DEF Recorded
  <2> QED
    BY <1>2, <2>3
<1>13. CASE MeterFails(r)
  <2>1. /\ req[r].pc \in {"insert", "spend", "debit", "report"} /\ UNCHANGED <<meter, spent>>
        /\ req'[r] = [req[r] EXCEPT !.pc = "answer", !.used = FALSE, !.lost = (req[r].pc = "insert")]
    BY <1>3, <1>13 DEF MeterFails, tally
  <2>2. req'[r].pc = "answer" /\ (req[r].pc = "insert" => req'[r].lost)
    BY <1>0, <2>1 DEF ReqType
  <2>3. IF req[r].pc = "insert" THEN meter[r] = << >> ELSE Len(meter[r]) = 1
    BY <1>0, <2>1 DEF Recorded
  <2>4. r \in spent => Len(meter[r]) = 1
    BY <1>0 DEF Recorded
  <2>5. Recorded(req[r], r)'
    BY <2>1, <2>2, <2>3, <2>4 DEF Recorded
  <2> QED
    BY <1>2, <2>5
<1>14. CASE Finish(r)
  <2>1. /\ req[r].pc = "answer" /\ UNCHANGED <<meter, spent>>
        /\ req'[r] = [req[r] EXCEPT !.pc = "done", !.status = "none"]
    BY <1>3, <1>14 DEF Finish, tally
  <2>2. req'[r].pc = "done" /\ req'[r].lost = req[r].lost
    BY <1>0, <2>1 DEF ReqType
  <2>3. Recorded(req[r], r)'
    BY <1>0, <2>1, <2>2 DEF Recorded
  <2> QED
    BY <1>2, <2>3
<1> QED
  BY <1>6, <1>7, <1>8, <1>9, <1>10, <1>11, <1>12, <1>13, <1>14, Kinds DEF Close

-----------------------------------------------------------------------------
(* What the client sees and the row says *)

Unrecorded == Asking \cup Serving \cup {"settle", "insert", "crashed"}

\* An outcome is what its row will say.
Settled(q, c, w) ==
    /\ q.pc \in {"settle", "insert"}
    /\ Told(q.status, q, c, w)
    /\ c = "here" => /\ In("end", w) \/ (q.code /\ w = << >>)
                     /\ In("head", w) => OneDone(w)

LEMMA Settles ==
  ASSUME NEW q, NEW c, NEW w, Settled(q, c, w)
  PROVE  Talks(q, c, w)
BY DEF Settled, Talks, Waiting, Streaming, Closing, Asking, Calling, Relaying, Outcomes, Metering

\* It is enough to look at the request that moved.
LEMMA Moved ==
  ASSUME Typed, Rows, Talk, NEW r \in Requests, Act(r),
         Talks(req[r], client[r], wire[r])',
         req'[r].pc \notin Unrecorded => Truthful(r)'
  PROVE  Talk'
<1>1. ASSUME NEW s \in Requests \ {r} PROVE Talks(req[s], client[s], wire[s])' /\ Truthful(s)'
  <2>1. /\ req'[s] = req[s] /\ client'[s] = client[s] /\ wire'[s] = wire[s] /\ meter'[s] = meter[s]
        /\ Talks(req[s], client[s], wire[s]) /\ Truthful(s)
    BY StepReq, StepWire, StepAccounts DEF Talk
  <2> QED
    BY <2>1 DEF Truthful
<1>2. ASSUME req'[r].pc \in Unrecorded PROVE Truthful(r)'
  <2>1. Recorded(req[r], r)'
    BY StepRows DEF Rows
  <2>2. meter'[r] = << >>
    BY <1>2, <2>1 DEF Recorded, Unrecorded, Asking, Serving
  <2> QED
    BY <2>2 DEF Truthful
<1> QED
  BY <1>1, <1>2 DEF Talk

\* The call.
LEMMA TalkCall ==
  ASSUME Typed, Rows, Talk, NEW r \in Requests, Act(r),
         \/ KeySealed(r) \/ Headers(r) \/ ConnectionError(r) \/ Deadline(r) \/ FetchAborted(r)
         \/ OpenIfSlow(r) \/ UpstreamRefused(r) \/ Relay(r)
  PROVE  Talk'
<1>0. /\ req \in [Requests -> ReqType] /\ req[r] \in ReqType /\ Talks(req[r], client[r], wire[r])
      /\ client[r] \in {"here", "left"} /\ wire[r] \in Seq(Events)
  BY DEF Typed, Talk
<1>1. ASSUME NEW f, Step(r, f) PROVE req'[r] = f
  BY <1>0, <1>1 DEF Step
<1>2. /\ req[r].pc = "send" /\ UNCHANGED client
  BY DEF KeySealed, Headers, ConnectionError, Deadline, FetchAborted, OpenIfSlow, UpstreamRefused, Relay, Pending
<1>3. /\ wire[r] = IF req[r].opened THEN <<"head">> ELSE << >>
      /\ req[r].opened => req[r].stream
      /\ ~req[r].sawDone /\ ~req[r].aborted
      /\ req[r].clientLeft => client[r] = "left"
      /\ req[r].abort => req[r].clientLeft
  BY <1>0, <1>2 DEF Talks, Waiting, Asking, Calling
<1>4. ASSUME UNCHANGED wire, req'[r].pc \in Calling, req'[r].opened = req[r].opened, req'[r].stream = req[r].stream,
             req'[r].sawDone = req[r].sawDone, req'[r].aborted = req[r].aborted,
             req'[r].clientLeft = req[r].clientLeft, req'[r].abort = req[r].abort
      PROVE  Talk'
  <2>1. Talks(req[r], client[r], wire[r])'
    BY <1>2, <1>3, <1>4 DEF Talks, Waiting, Streaming, Closing, Asking, Calling, Relaying, Outcomes, Metering
  <2> QED
    BY <1>4, <2>1, Moved DEF Unrecorded, Serving, Calling
<1>5. CASE KeySealed(r) \/ Headers(r) \/ ConnectionError(r) \/ Deadline(r) \/ FetchAborted(r)
  <2>1. UNCHANGED wire
    BY <1>5 DEF KeySealed, Headers, ConnectionError, Deadline, FetchAborted
  <2>2. \E a, n, t : \/ req'[r] = [req[r] EXCEPT !.answer = a, !.ran = n]
                     \/ req'[r] = [req[r] EXCEPT !.attempt = t, !.ran = n]
    BY <1>1, <1>5 DEF KeySealed, Headers, ConnectionError, Deadline, FetchAborted, Answer
  <2>3. /\ req'[r].pc = req[r].pc /\ req'[r].opened = req[r].opened /\ req'[r].stream = req[r].stream
        /\ req'[r].sawDone = req[r].sawDone /\ req'[r].aborted = req[r].aborted
        /\ req'[r].clientLeft = req[r].clientLeft /\ req'[r].abort = req[r].abort
    BY <1>0, <2>2 DEF ReqType
  <2> QED
    BY <1>2, <1>4, <2>1, <2>3 DEF Calling
<1>6. CASE UpstreamRefused(r)
  <2>1. UNCHANGED wire /\ req'[r] = [req[r] EXCEPT !.pc = "map"]
    BY <1>1, <1>6 DEF UpstreamRefused
  <2>2. /\ req'[r].pc = "map" /\ req'[r].opened = req[r].opened /\ req'[r].stream = req[r].stream
        /\ req'[r].sawDone = req[r].sawDone /\ req'[r].aborted = req[r].aborted
        /\ req'[r].clientLeft = req[r].clientLeft /\ req'[r].abort = req[r].abort
    BY <1>0, <2>1 DEF ReqType
  <2> QED
    BY <1>4, <2>1, <2>2 DEF Calling
<1>7. CASE OpenIfSlow(r)
  <2>1. /\ req[r].stream /\ ~req[r].opened /\ client[r] = "here"
        /\ req'[r] = [req[r] EXCEPT !.opened = TRUE] /\ wire' = Emit(wire, r, Preamble(r))
    BY <1>1, <1>7 DEF OpenIfSlow
  <2>2. /\ req'[r].pc = "send" /\ req'[r].opened = TRUE /\ req'[r].stream = req[r].stream
        /\ req'[r].sawDone = req[r].sawDone /\ req'[r].aborted = req[r].aborted
        /\ req'[r].clientLeft = req[r].clientLeft /\ req'[r].abort = req[r].abort
    BY <1>0, <1>2, <2>1 DEF ReqType
  <2>3. wire[r] = << >> /\ Preamble(r) = <<"head">>
    BY <1>3, <2>1 DEF Preamble, HeadersSent
  <2>4. wire'[r] = wire[r] \o <<"head">>
    <3>1. <<"head">> \in Seq(Events) /\ <<"head">>[1] = "head"
      BY DEF Events
    <3>2. ~In("head", << >>)
      BY Writes
    <3>3. ~In(<<"head">>[1], wire[r])
      BY <2>3, <3>1, <3>2
    <3>4. client[r] = "here" => Emit(wire, r, <<"head">>)[r] = wire[r] \o <<"head">>
      BY <3>1, <3>3, Sends
    <3> QED
      BY <2>1, <2>3, <3>4
  <2>5. wire'[r] = <<"head">>
    BY <2>3, <2>4
  <2>6. Talks(req[r], client[r], wire[r])'
    BY <1>2, <1>3, <2>1, <2>2, <2>5 DEF Talks, Waiting, Streaming, Closing, Asking, Calling, Relaying, Outcomes, Metering
  <2> QED
    BY <2>2, <2>6, Moved DEF Unrecorded, Serving
<1>8. CASE Relay(r)
  <2>1. /\ ~req[r].clientLeft
        /\ req'[r] = [req[r] EXCEPT !.pc = IF req[r].stream THEN "relay" ELSE "body"]
        /\ wire' = IF req[r].stream THEN Emit(wire, r, Preamble(r)) ELSE wire
    BY <1>1, <1>8 DEF Relay
  <2>2. CASE ~req[r].stream
    <3>1. req'[r].pc = "body" /\ wire'[r] = << >>
      BY <1>0, <1>3, <2>1, <2>2 DEF ReqType
    <3>2. Talks(req[r], client[r], wire[r])'
      BY <3>1 DEF Talks, Waiting, Streaming, Closing, Asking, Calling, Relaying, Outcomes, Metering
    <3> QED
      BY <3>1, <3>2, Moved DEF Unrecorded, Serving
  <2>3. CASE req[r].stream
    <3>1. req'[r].pc = "relay" /\ req'[r].sawDone = req[r].sawDone /\ req'[r].aborted = req[r].aborted
      BY <1>0, <2>1, <2>3 DEF ReqType
    <3>2. Preamble(r) = << >> \/ Preamble(r) = <<"head">>
      BY DEF Preamble
    <3>3. \A x : In(x, Preamble(r)) => x = "head"
      BY <3>2, Writes DEF Events
    <3>4. \A x : In(x, wire[r]) => x = "head"
      BY <1>3, Writes DEF Events
    <3>5. Preamble(r) \in Seq(Events)
      BY Writes DEF Preamble, Events
    <3>6. wire'[r] = wire[r] \/ wire'[r] = wire[r] \o Preamble(r)
      BY <2>1, <2>3, <3>5, Sends
    <3>7. \A x : In(x, wire'[r]) => x = "head"
      <4>1. \A x : In(x, wire[r] \o Preamble(r)) <=> In(x, wire[r]) \/ In(x, Preamble(r))
        BY <1>0, <3>5, InCat
      <4> QED
        BY <3>3, <3>4, <3>6, <4>1
    <3>8. ~In("end", wire'[r]) /\ ~In("error", wire'[r]) /\ ~In("done", wire'[r])
      BY <3>7
    <3>9. Talks(req[r], client[r], wire[r])'
      BY <1>3, <3>1, <3>8 DEF Talks, Waiting, Streaming, Closing, Asking, Calling, Relaying, Outcomes, Metering
    <3> QED
      BY <3>1, <3>9, Moved DEF Unrecorded, Serving
  <2> QED
    BY <2>2, <2>3
<1> QED
  BY <1>5, <1>6, <1>7, <1>8

\* The ends before a token: abandoned, refused, failed; and the whole answer.
LEMMA TalkWhole ==
  ASSUME Typed, Rows, Talk, NEW r \in Requests, Act(r),
         Abandoned(r) \/ SendFailed(r) \/ FailureMapped(r) \/ BodyRead(r) \/ BodyBroken(r)
  PROVE  Talk'
<1>0. /\ req \in [Requests -> ReqType] /\ req[r] \in ReqType /\ Talks(req[r], client[r], wire[r])
      /\ client[r] \in {"here", "left"} /\ wire[r] \in Seq(Events)
  BY DEF Typed, Talk
<1>1. ASSUME NEW f, Step(r, f) PROVE req'[r] = f
  BY <1>0, <1>1 DEF Step
<1>2. UNCHANGED client
  BY DEF Abandoned, SendFailed, FailureMapped, BodyRead, BodyBroken
<1>3. ASSUME Settled(req[r], client[r], wire[r])' PROVE Talk'
  <2>1. Talks(req[r], client[r], wire[r])'
    BY <1>3, Settles
  <2>2. req'[r].pc \in Unrecorded
    BY <1>3 DEF Settled, Unrecorded
  <2> QED
    BY <2>1, <2>2, Moved
<1>5. CASE Abandoned(r)
  <2>1. req[r].pc = "send" /\ req[r].clientLeft /\ UNCHANGED wire /\ req'[r] = Outcome("insert", "aborted", FALSE)
    BY <1>1, <1>5 DEF Abandoned
  <2>2. req'[r].pc = "insert" /\ req'[r].status = "aborted"
    BY <2>1 DEF Outcome, NewRequest
  <2>3. client[r] = "left" /\ (wire[r] = << >> \/ wire[r] = <<"head">>)
    BY <1>0, <2>1 DEF Talks, Waiting, Calling
  <2>4. ~In("done", wire[r])
    <3>1. ~In("done", << >>) /\ ~In("done", <<"head">>)
      BY Writes DEF Events
    <3> QED
      BY <2>3, <3>1
  <2>5. Settled(req[r], client[r], wire[r])'
    BY <1>2, <2>1, <2>2, <2>3, <2>4 DEF Settled, Told
  <2> QED
    BY <1>3, <2>5
<1>6. CASE SendFailed(r) \/ FailureMapped(r)
  <2> DEFINE fin == <<"error", "done", "end">>
  <2>1. /\ req[r].pc \in {"send", "map"} /\ req'[r] = Outcome("insert", "error", TRUE)
        /\ wire' = IF req[r].opened THEN Emit(wire, r, fin) ELSE wire
    BY <1>1, <1>6 DEF SendFailed, FailureMapped, EndBeforeTokens
  <2>2. req'[r].pc = "insert" /\ req'[r].status = "error" /\ req'[r].code = TRUE
    BY <2>1 DEF Outcome, NewRequest
  <2>3. wire[r] = IF req[r].opened THEN <<"head">> ELSE << >>
    BY <1>0, <2>1 DEF Talks, Waiting, Calling
  <2>4. CASE client[r] = "left"
    <3>1. Settled(req[r], client[r], wire[r])'
      BY <1>2, <2>2, <2>4 DEF Settled, Told
    <3> QED
      BY <1>3, <3>1
  <2>5. CASE client[r] = "here" /\ ~req[r].opened
    <3>1. wire'[r] = << >>
      BY <2>1, <2>3, <2>5
    <3>2. ~In("head", wire'[r])
      BY <3>1, Writes
    <3>3. Settled(req[r], client[r], wire[r])'
      BY <2>2, <3>1, <3>2 DEF Settled, Told
    <3> QED
      BY <1>3, <3>3
  <2>6. CASE client[r] = "here" /\ req[r].opened
    <3>1. fin \in Seq(Events) /\ Len(fin) = 3 /\ fin[1] = "error" /\ fin[2] = "done" /\ fin[3] = "end"
      BY DEF Events
    <3>2. \A i \in 1 .. 3 : i = 1 \/ i = 2 \/ i = 3
      OBVIOUS
    <3>3. 2 \in 1 .. 3 /\ 3 \in 1 .. 3
      OBVIOUS
    <3> HIDE DEF fin
    <3>4. In("end", fin) /\ OneDone(fin)
      BY <3>1, <3>2, <3>3 DEF In, OneDone
    <3>5. wire[r] = <<"head">> /\ <<"head">> \in Seq(Events) /\ ~In("done", <<"head">>)
      BY <2>3, <2>6, Writes DEF Events
    <3>6. wire'[r] = wire[r] \o fin
      BY <2>1, <2>6, <3>1, Sends
    <3>7. In("end", wire[r] \o fin)
      BY <1>0, <3>1, <3>4, InCat
    <3>8. OneDone(wire[r] \o fin)
      BY <1>0, <3>1, <3>4, <3>5, OneDoneCat
    <3>9. Settled(req[r], client[r], wire[r])'
      BY <2>2, <3>6, <3>7, <3>8 DEF Settled, Told
    <3> QED
      BY <1>3, <3>9
  <2> QED
    BY <1>0, <2>4, <2>5, <2>6
<1>7. ASSUME req[r].pc = "body" PROVE wire[r] = << >> /\ \A x : ~In(x, wire[r])
  BY <1>0, <1>7, Writes DEF Talks, Closing
<1>8. CASE BodyRead(r)
  <2>1. req[r].pc = "body" /\ wire[r] = << >> /\ \A x : ~In(x, wire[r])
    BY <1>7, <1>8 DEF BodyRead
  <2>2. CASE Step(r, Outcome("settle", "ok", FALSE)) /\ wire' = Emit(wire, r, <<"json", "end">>)
    <3>1. req'[r].pc = "settle" /\ req'[r].status = "ok" /\ req'[r].code = FALSE
      BY <1>1, <2>2 DEF Outcome, NewRequest
    <3>2. /\ <<"json", "end">> \in Seq(Events) /\ Len(<<"json", "end">>) = 2
          /\ \A x : In(x, <<"json", "end">>) <=> x \in {"json", "end"}
      BY Writes DEF Events
    <3>3. CASE client[r] = "left"
      <4>1. wire' = wire
        BY <2>2, <3>2, <3>3, Sends
      <4>2. Settled(req[r], client[r], wire[r])'
        BY <1>2, <2>1, <3>1, <3>3, <4>1 DEF Settled, Told
      <4> QED
        BY <1>3, <4>2
    <3>4. CASE client[r] = "here"
      <4>1. wire'[r] = wire[r] \o <<"json", "end">>
        <5>1. Len(<<"json", "end">>) # 1
          BY <3>2
        <5>2. Emit(wire, r, <<"json", "end">>)[r] = wire[r] \o <<"json", "end">>
          BY <3>2, <3>4, <5>1, Sends
        <5> QED
          BY <2>2, <5>2
      <4>2. \A x : In(x, wire[r] \o <<"json", "end">>) <=> In(x, wire[r]) \/ In(x, <<"json", "end">>)
        BY <1>0, <3>2, InCat
      <4>3. In("end", wire'[r]) /\ ~In("error", wire'[r]) /\ ~In("head", wire'[r])
        BY <2>1, <3>2, <4>1, <4>2
      <4>4. Settled(req[r], client[r], wire[r])'
        BY <3>1, <4>3 DEF Settled, Told
      <4> QED
        BY <1>3, <4>4
    <3> QED
      BY <1>0, <3>3, <3>4
  <2>3. CASE Step(r, Outcome("insert", "error", TRUE)) /\ UNCHANGED wire
    <3>1. req'[r].pc = "insert" /\ req'[r].status = "error" /\ req'[r].code = TRUE
      BY <1>1, <2>3 DEF Outcome, NewRequest
    <3>2. Settled(req[r], client[r], wire[r])'
      BY <2>1, <2>3, <3>1 DEF Settled, Told
    <3> QED
      BY <1>3, <3>2
  <2> QED
    BY <1>8, <2>2, <2>3 DEF BodyRead
<1>9. CASE BodyBroken(r)
  <2>1. req'[r].pc = "crashed"
    BY <1>1, <1>9 DEF BodyBroken, NewRequest
  <2>2. Talks(req[r], client[r], wire[r])'
    BY <2>1 DEF Talks, Waiting, Streaming, Closing, Asking, Calling, Relaying, Outcomes, Metering
  <2> QED
    BY <2>1, <2>2, Moved DEF Unrecorded
<1> QED
  BY <1>5, <1>6, <1>8, <1>9

\* The relay.
LEMMA TalkRelay ==
  ASSUME Typed, Rows, Talk, NEW r \in Requests, Act(r),
         Chunk(r) \/ BodyEnds(r) \/ BodyBreaks(r) \/ ReadAborted(r) \/ StreamFailureMapped(r)
  PROVE  Talk'
<1>0. /\ req \in [Requests -> ReqType] /\ req[r] \in ReqType /\ Talks(req[r], client[r], wire[r])
      /\ client[r] \in {"here", "left"} /\ wire[r] \in Seq(Events)
  BY DEF Typed, Talk
<1>1. ASSUME NEW f, Step(r, f) PROVE req'[r] = f
  BY <1>0, <1>1 DEF Step
<1>2. UNCHANGED client /\ req[r].pc \in Relaying
  BY DEF Chunk, BodyEnds, BodyBreaks, ReadAborted, StreamFailureMapped, Relaying
<1>3. /\ ~In("end", wire[r]) /\ ~In("error", wire[r])
      /\ ~req[r].sawDone => ~In("done", wire[r])
      /\ req[r].sawDone /\ client[r] = "here" => OneDone(wire[r])
      /\ req[r].aborted => req[r].abort /\ client[r] = "left" /\ ~req[r].sawDone
  BY <1>0, <1>2 DEF Talks, Streaming
<1>4. ASSUME Settled(req[r], client[r], wire[r])' PROVE Talk'
  <2>1. Talks(req[r], client[r], wire[r])'
    BY <1>4, Settles
  <2>2. req'[r].pc \in Unrecorded
    BY <1>4 DEF Settled, Unrecorded
  <2> QED
    BY <2>1, <2>2, Moved
<1>5. ASSUME req'[r].pc \in Relaying, Streaming(req[r], client[r], wire[r])' PROVE Talk'
  <2>1. Talks(req[r], client[r], wire[r])'
    BY <1>5 DEF Talks, Waiting, Closing, Asking, Calling, Relaying, Outcomes, Metering
  <2> QED
    BY <1>5, <2>1, Moved DEF Unrecorded, Serving, Relaying
<1>6. CASE Chunk(r)
  <2>1. PICK e \in {"data", "done"} : wire' = Emit(wire, r, <<e>>) /\ req'[r] = [req[r] EXCEPT !.sawDone = (e = "done")]
    BY <1>1, <1>6 DEF Chunk
  <2>2. req[r].pc = "relay" /\ ~req[r].abort /\ ~req[r].sawDone
    BY <1>6 DEF Chunk
  <2>3. req'[r].pc = "relay" /\ (req'[r].sawDone <=> e = "done") /\ req'[r].aborted = req[r].aborted
    BY <1>0, <2>1, <2>2 DEF ReqType
  <2>4. ~req[r].aborted /\ ~In("done", wire[r])
    BY <1>3, <2>2
  <2>5. e \in Events /\ <<e>> \in Seq(Events) /\ <<e>>[1] = e /\ (\A x : In(x, <<e>>) <=> x = e)
    BY Writes DEF Events
  <2>6. wire'[r] = wire[r] \/ wire'[r] = wire[r] \o <<e>>
    BY <2>1, <2>5, Sends
  <2>7. \A x : In(x, wire[r] \o <<e>>) <=> In(x, wire[r]) \/ In(x, <<e>>)
    BY <1>0, <2>5, InCat
  <2>8. \A x : In(x, wire'[r]) => In(x, wire[r]) \/ x = e
    BY <2>5, <2>6, <2>7
  <2>9. ASSUME e = "done", client[r] = "here" PROVE OneDone(wire'[r])
    <3>1. ~In(<<e>>[1], wire[r])
      BY <2>4, <2>5, <2>9
    <3>2. Emit(wire, r, <<e>>)[r] = wire[r] \o <<e>>
      BY <2>5, <2>9, <3>1, Sends
    <3>3. OneDone(<<e>>)
      BY <2>9, Writes
    <3>4. OneDone(wire[r] \o <<e>>)
      BY <1>0, <2>4, <2>5, <3>3, OneDoneCat
    <3> QED
      BY <2>1, <3>2, <3>4
  <2>10. ~In("end", wire'[r]) /\ ~In("error", wire'[r]) /\ (e = "data" => ~In("done", wire'[r]))
    BY <1>3, <2>4, <2>8
  <2>11. Streaming(req[r], client[r], wire[r])'
    BY <1>2, <2>3, <2>4, <2>9, <2>10 DEF Streaming
  <2> QED
    BY <1>5, <2>3, <2>11 DEF Relaying
<1>7. CASE BodyEnds(r) \/ BodyBreaks(r) \/ ReadAborted(r)
  <2>1. PICK failed \in BOOLEAN : LoopOver(r, failed)
    BY <1>7 DEF BodyEnds, BodyBreaks, ReadAborted
  <2> DEFINE q == [req[r] EXCEPT !.failure = failed /\ ~req[r].leftAfterDone]
  <2>2. q.sawDone = req[r].sawDone /\ q.aborted = req[r].aborted /\ q.abort = req[r].abort
    BY <1>0 DEF ReqType
  <2>3. CASE q.failure /\ ~q.aborted
    <3>1. req'[r] = [q EXCEPT !.pc = "mapStream"] /\ UNCHANGED wire
      BY <1>1, <2>1, <2>3 DEF LoopOver
    <3>2. [q EXCEPT !.pc = "mapStream"].pc = "mapStream" /\ [q EXCEPT !.pc = "mapStream"].sawDone = req[r].sawDone
          /\ [q EXCEPT !.pc = "mapStream"].aborted = req[r].aborted /\ [q EXCEPT !.pc = "mapStream"].abort = req[r].abort
      BY <1>0 DEF ReqType
    <3> HIDE DEF q
    <3>3. Streaming(req[r], client[r], wire[r])'
      BY <1>2, <1>3, <3>1, <3>2 DEF Streaming
    <3> QED
      BY <1>5, <3>1, <3>2, <3>3 DEF Relaying
  <2>4. CASE ~(q.failure /\ ~q.aborted)
    <3>1. /\ req'[r] = Outcome("settle", IF q.aborted THEN "aborted" ELSE "ok", FALSE)
          /\ wire' = Emit(wire, r, Ending(q))
      BY <1>1, <2>1, <2>4 DEF LoopOver, Ending
    <3> HIDE DEF q
    <3>2. req'[r].pc = "settle" /\ req'[r].code = FALSE /\ req'[r].status = IF q.aborted THEN "aborted" ELSE "ok"
      BY <3>1 DEF Outcome, NewRequest
    <3>3. Ending(q) \in Seq(Events) /\ (Len(Ending(q)) # 1 \/ Ending(q)[1] = "end") /\ In("end", Ending(q))
          /\ ~In("error", Ending(q)) /\ (Terminated(q) => ~In("done", Ending(q))) /\ (~Terminated(q) => OneDone(Ending(q)))
      BY Endings
    <3>4. CASE client[r] = "left"
      <4>1. wire' = wire
        BY <3>1, <3>3, <3>4, Sends
      <4>2. Settled(req[r], client[r], wire[r])'
        BY <1>2, <1>3, <2>2, <3>2, <3>4, <4>1 DEF Settled, Told
      <4> QED
        BY <1>4, <4>2
    <3>5. CASE client[r] = "here"
      <4>1. wire'[r] = wire[r] \o Ending(q)
        <5>1. Len(Ending(q)) # 1 \/ ~In(Ending(q)[1], wire[r])
          BY <1>3, <3>3
        <5>2. Emit(wire, r, Ending(q))[r] = wire[r] \o Ending(q)
          BY <3>3, <3>5, <5>1, Sends
        <5> QED
          BY <3>1, <5>2
      <4>2. \A x : In(x, wire[r] \o Ending(q)) <=> In(x, wire[r]) \/ In(x, Ending(q))
        BY <1>0, <3>3, InCat
      <4>3. ~q.aborted
        BY <1>3, <2>2, <3>5
      <4>4. OneDone(wire[r] \o Ending(q))
        <5>1. /\ OneDone(wire[r]) /\ ~In("done", Ending(q)) => OneDone(wire[r] \o Ending(q))
              /\ ~In("done", wire[r]) /\ OneDone(Ending(q)) => OneDone(wire[r] \o Ending(q))
          BY <1>0, <3>3, OneDoneCat
        <5> QED
          BY <1>3, <2>2, <3>3, <3>5, <4>3, <5>1 DEF Terminated
      <4>5. In("end", wire'[r]) /\ ~In("error", wire'[r]) /\ OneDone(wire'[r])
        BY <1>3, <3>3, <4>1, <4>2, <4>4
      <4>6. Settled(req[r], client[r], wire[r])'
        BY <3>2, <4>3, <4>5 DEF Settled, Told
      <4> QED
        BY <1>4, <4>6
    <3> QED
      BY <1>0, <3>4, <3>5
  <2> QED
    BY <2>3, <2>4
<1>8. CASE StreamFailureMapped(r)
  <2>1. PICK revoked \in BOOLEAN :
            req'[r] = [Outcome("settle", IF revoked THEN "aborted" ELSE "error", TRUE) EXCEPT !.revoked = revoked]
    BY <1>1, <1>8 DEF StreamFailureMapped
  <2>2. wire' = Emit(wire, r, Breaking(req[r]))
    BY <1>8 DEF StreamFailureMapped, Breaking
  <2>3. /\ req'[r].pc = "settle" /\ req'[r].code = TRUE /\ req'[r].revoked = revoked
        /\ req'[r].status = IF revoked THEN "aborted" ELSE "error"
    BY <2>1 DEF Outcome, NewRequest
  <2>4. Told(req'[r].status, req'[r], client'[r], wire'[r])
    BY <2>3 DEF Told
  <2>5. /\ Breaking(req[r]) \in Seq(Events) /\ Len(Breaking(req[r])) # 1 /\ In("end", Breaking(req[r]))
        /\ Terminated(req[r]) => ~In("done", Breaking(req[r]))
        /\ ~Terminated(req[r]) => OneDone(Breaking(req[r]))
    BY Endings
  <2>6. ASSUME client[r] = "here" PROVE In("end", wire'[r]) /\ OneDone(wire'[r])
    <3>1. wire'[r] = wire[r] \o Breaking(req[r])
      BY <2>2, <2>5, <2>6, Sends
    <3>2. In("end", wire[r] \o Breaking(req[r]))
      BY <1>0, <2>5, InCat
    <3>3. /\ OneDone(wire[r]) /\ ~In("done", Breaking(req[r])) => OneDone(wire[r] \o Breaking(req[r]))
          /\ ~In("done", wire[r]) /\ OneDone(Breaking(req[r])) => OneDone(wire[r] \o Breaking(req[r]))
      BY <1>0, <2>5, OneDoneCat
    <3>4. OneDone(wire[r] \o Breaking(req[r]))
      BY <1>3, <2>5, <2>6, <3>3 DEF Terminated
    <3> QED
      BY <3>1, <3>2, <3>4
  <2>7. Settled(req[r], client[r], wire[r])'
    BY <1>2, <2>3, <2>4, <2>6 DEF Settled
  <2> QED
    BY <1>4, <2>7
<1> QED
  BY <1>6, <1>7, <1>8

\* A row stays true when the client leaves.
LEMMA StaysTold ==
  ASSUME NEW s, NEW q, NEW p, NEW w, Told(s, q, "here", w), p.revoked = q.revoked, p.code = q.code
  PROVE  Told(s, p, "left", w)
BY DEF Told

\* Admission, and a client that hangs up.
LEMMA TalkAsk ==
  ASSUME Typed, Rows, Talk, NEW r \in Requests, Act(r), Ask(r)
  PROVE  Talk'
<1>0. Talks(req[r], client[r], wire[r])
  BY DEF Talk
<1>1. /\ wire[r] = << >> /\ ~req[r].opened /\ ~req[r].sawDone /\ ~req[r].aborted
      /\ req[r].clientLeft => client[r] = "left"
      /\ req[r].abort => req[r].clientLeft
  BY <1>0, Asks DEF Talks, Waiting, Asking, Calling
<1>2. Talks(req[r], client[r], wire[r])'
  BY <1>1, Asks DEF Talks, Waiting, Streaming, Closing, Asking, Calling, Relaying, Outcomes, Metering
<1> QED
  BY <1>2, Asks, Moved DEF Unrecorded, Asking, Serving

LEMMA TalkLeaves ==
  ASSUME Typed, Rows, Talk, NEW r \in Requests, Act(r), ClientLeaves(r)
  PROVE  Talk'
<1>0. /\ req \in [Requests -> ReqType] /\ req[r] \in ReqType /\ Talks(req[r], client[r], wire[r]) /\ Truthful(r)
      /\ client \in [Requests -> {"here", "left"}]
  BY DEF Typed, Talk
<1>1. client[r] = "here" /\ client'[r] = "left" /\ UNCHANGED <<wire, meter>>
  BY <1>0 DEF ClientLeaves
<1>2. Truthful(r)'
  <2>1. ASSUME meter'[r] # << >> PROVE Told(meter'[r][1], req'[r], client'[r], wire'[r])
    <3>1. Told(meter[r][1], req[r], "here", wire[r])
      BY <1>0, <1>1, <2>1 DEF Truthful
    <3>2. req'[r].revoked = req[r].revoked /\ req'[r].code = req[r].code
      BY Leaves
    <3> QED
      BY <1>1, <3>1, <3>2, StaysTold
  <2> QED
    BY <2>1 DEF Truthful
<1>3. Closing(req[r], client[r], wire[r])'
  <2>1. ASSUME req'[r].pc \in {"settle", "insert"} PROVE Told(req'[r].status, req'[r], client'[r], wire'[r])
    <3>1. Told(req[r].status, req[r], "here", wire[r])
      BY <1>0, <1>1, <2>1, Leaves DEF Talks, Closing
    <3>2. req'[r].revoked = req[r].revoked /\ req'[r].code = req[r].code /\ req'[r].status = req[r].status
      BY Leaves
    <3> QED
      BY <1>1, <3>1, <3>2, StaysTold
  <2>2. req'[r].pc = "body" => wire'[r] = << >>
    BY <1>0, <1>1, Leaves DEF Talks, Closing
  <2> QED
    BY <1>1, <2>1, <2>2 DEF Closing
<1>4. CASE req[r].pc = "relay"
  <2>1. req'[r] = RelayClosed(req[r])
    BY <1>0, <1>4 DEF ClientLeaves, HandleListens, RelayListens, Step
  <2>2. /\ req'[r].pc = "relay" /\ req'[r].sawDone = req[r].sawDone /\ req'[r].abort = TRUE
        /\ req'[r].aborted = ~req[r].sawDone
    BY <1>0, <1>4, <2>1 DEF RelayClosed, ReqType
  <2>3. Streaming(req[r], client[r], wire[r])'
    BY <1>0, <1>1, <1>4, <2>2 DEF Talks, Streaming, Relaying
  <2>4. Talks(req[r], client[r], wire[r])'
    BY <1>3, <2>2, <2>3 DEF Talks, Waiting, Asking, Calling
  <2> QED
    BY <1>2, <2>4, Moved
<1>5. CASE req[r].pc # "relay"
  <2>1. \/ req'[r] = [req[r] EXCEPT !.clientLeft = TRUE, !.abort = TRUE] /\ req[r].pc = "send"
        \/ req'[r] = req[r]
    BY <1>0, <1>5 DEF ClientLeaves, HandleListens, RelayListens, Step
  <2>2. /\ req'[r].pc = req[r].pc /\ req'[r].opened = req[r].opened /\ req'[r].stream = req[r].stream
        /\ req'[r].sawDone = req[r].sawDone /\ req'[r].aborted = req[r].aborted
        /\ \/ req'[r].clientLeft = TRUE /\ req'[r].abort = TRUE /\ req[r].pc = "send"
           \/ req'[r].clientLeft = req[r].clientLeft /\ req'[r].abort = req[r].abort
    BY <1>0, <2>1 DEF ReqType
  <2>3. Waiting(req[r], client[r], wire[r])'
    BY <1>0, <1>1, <2>2 DEF Talks, Waiting
  <2>4. Streaming(req[r], client[r], wire[r])'
    BY <1>0, <1>1, <2>2 DEF Talks, Streaming, Relaying
  <2>5. Talks(req[r], client[r], wire[r])'
    BY <1>3, <2>3, <2>4 DEF Talks
  <2> QED
    BY <1>2, <2>5, Moved
<1> QED
  BY <1>4, <1>5

\* The meter, and the answer that follows it.
LEMMA TalkClose ==
  ASSUME Typed, Rows, Talk, NEW r \in Requests, Act(r), Close(r)
  PROVE  Talk'
<1>0. /\ req \in [Requests -> ReqType] /\ req[r] \in ReqType /\ Talks(req[r], client[r], wire[r]) /\ Truthful(r)
      /\ meter \in [Requests -> Seq(Statuses)] /\ meter[r] \in Seq(Statuses) /\ Recorded(req[r], r)
      /\ client[r] \in {"here", "left"} /\ wire[r] \in Seq(Events)
  BY DEF Typed, Talk, Rows
<1>1. ASSUME NEW f, Step(r, f) PROVE req'[r] = f
  BY <1>0, <1>1 DEF Step
<1>2. client[r] = "here" => /\ In("end", wire[r]) \/ (req[r].code /\ wire[r] = << >>)
                            /\ In("head", wire[r]) => OneDone(wire[r])
  BY <1>0, Closes DEF Talks, Closing
<1>3. req[r].pc \in {"settle", "insert"} => Told(req[r].status, req[r], client[r], wire[r])
  BY <1>0 DEF Talks, Closing
<1>4. ASSUME NEW s, NEW w, Told(s, req[r], client[r], w) PROVE Told(s, req'[r], client'[r], w)
  BY <1>4, Closes DEF Told
<1>5. req'[r].pc \notin Asking \cup Calling \cup Relaying \cup {"body"}
  BY Closes DEF Asking, Calling, Relaying, Outcomes, Metering
<1>6. CASE Settle(r)
  <2>1. req[r].pc = "settle" /\ UNCHANGED wire /\ \E u : req'[r] = [req[r] EXCEPT !.pc = "insert", !.used = u]
    BY <1>1, <1>6 DEF Settle
  <2>2. req'[r].pc = "insert" /\ req'[r].status = req[r].status
    BY <1>0, <2>1 DEF ReqType
  <2>3. Told(req'[r].status, req'[r], client'[r], wire'[r])
    BY <1>3, <1>4, <2>1, <2>2
  <2>4. Settled(req[r], client[r], wire[r])'
    BY <1>2, <2>1, <2>2, <2>3, Closes DEF Settled
  <2>5. Talks(req[r], client[r], wire[r])'
    BY <2>4, Settles
  <2> QED
    BY <2>2, <2>5, Moved DEF Unrecorded
<1>7. ASSUME UNCHANGED wire, req'[r].pc \in {"spend", "debit", "report", "answer"}
      PROVE  Talks(req[r], client[r], wire[r])'
  <2>1. Closing(req[r], client[r], wire[r])'
    BY <1>2, <1>7, Closes DEF Closing
  <2> QED
    BY <1>5, <2>1 DEF Talks, Waiting, Streaming
<1>8. CASE Insert(r)
  <2>1. /\ req[r].pc = "insert" /\ UNCHANGED wire /\ req'[r] = [req[r] EXCEPT !.pc = "spend"]
        /\ meter'[r] = Append(meter[r], req[r].status) /\ req[r].status \in Statuses
    BY <1>0, <1>1, <1>8 DEF Insert, ReqType
  <2>2. req'[r].pc = "spend"
    BY <1>0, <2>1 DEF ReqType
  <2>3. meter[r] = << >>
    BY <1>0, <2>1 DEF Recorded
  <2>4. meter'[r][1] = req[r].status
    BY <2>1, <2>3
  <2>5. Told(meter'[r][1], req'[r], client'[r], wire'[r])
    BY <1>3, <1>4, <2>1, <2>4
  <2>6. Truthful(r)'
    BY <2>5 DEF Truthful
  <2> QED
    BY <1>7, <2>1, <2>2, <2>6, Moved
<1>9. ASSUME UNCHANGED <<wire, meter>> PROVE Truthful(r)'
  BY <1>0, <1>4, <1>9 DEF Truthful
<1>10. CASE RecordSpend(r) \/ Debit(r) \/ ReportFirst(r) \/ MeterFails(r)
  <2>1. UNCHANGED <<wire, meter>>
    BY <1>10 DEF RecordSpend, Debit, ReportFirst, MeterFails
  <2>2. \/ req'[r] = [req[r] EXCEPT !.pc = "debit"] \/ req'[r] = [req[r] EXCEPT !.pc = "report", !.used = FALSE]
        \/ req'[r] = [req[r] EXCEPT !.pc = "answer"]
        \/ req'[r] = [req[r] EXCEPT !.pc = "answer", !.used = FALSE, !.lost = (req[r].pc = "insert")]
    <3>1. CASE RecordSpend(r) \/ Debit(r) \/ ReportFirst(r)
      BY <1>1, <3>1 DEF RecordSpend, Debit, ReportFirst
    <3>2. CASE MeterFails(r)
      BY <1>1, <3>2 DEF MeterFails
    <3> QED
      BY <1>10, <3>1, <3>2
  <2>3. req'[r].pc \in {"spend", "debit", "report", "answer"}
    BY <1>0, <2>2 DEF ReqType
  <2> QED
    BY <1>7, <1>9, <2>1, <2>3, Moved
<1>11. CASE Finish(r)
  <2>1. /\ req'[r] = [req[r] EXCEPT !.pc = "done", !.status = "none"] /\ UNCHANGED meter
        /\ wire' = IF req[r].code /\ ~HeadersSent(r) THEN Emit(wire, r, <<"status", "end">>) ELSE wire
    BY <1>1, <1>11 DEF Finish
  <2>2. req'[r].pc = "done"
    BY <1>0, <2>1 DEF ReqType
  <2>3. ASSUME UNCHANGED wire, client[r] = "left" \/ ~(req[r].code /\ wire[r] = << >>) PROVE Talk'
    <3>1. Closing(req[r], client[r], wire[r])'
      BY <1>2, <2>2, <2>3, Closes DEF Closing
    <3>2. Talks(req[r], client[r], wire[r])'
      BY <1>5, <3>1 DEF Talks, Waiting, Streaming
    <3> QED
      BY <1>9, <2>1, <2>3, <3>2, Moved
  <2>4. <<"status", "end">> \in Seq(Events) /\ \A x : In(x, <<"status", "end">>) <=> x \in {"status", "end"}
    BY Writes DEF Events
  <2>5. CASE ~(req[r].code /\ wire[r] = << >>)
    BY <2>1, <2>3, <2>5 DEF HeadersSent
  <2>6. CASE client[r] = "left"
    <3>1. wire' = wire
      BY <2>1, <2>4, <2>6, Sends
    <3> QED
      BY <2>3, <2>6, <3>1
  <2>7. CASE client[r] = "here" /\ req[r].code /\ wire[r] = << >>
    <3>1. Len(<<"status", "end">>) # 1
      OBVIOUS
    <3>2. Emit(wire, r, <<"status", "end">>)[r] = wire[r] \o <<"status", "end">>
      BY <2>4, <2>7, <3>1, Sends
    <3>3. wire'[r] = wire[r] \o <<"status", "end">>
      BY <2>1, <2>7, <3>2 DEF HeadersSent
    <3>4. \A x : ~In(x, wire[r])
      BY <2>7, Writes
    <3>5. \A x : In(x, wire[r] \o <<"status", "end">>) <=> In(x, wire[r]) \/ In(x, <<"status", "end">>)
      BY <1>0, <2>4, InCat
    <3>6. In("end", wire'[r]) /\ ~In("head", wire'[r])
      BY <2>4, <3>3, <3>4, <3>5
    <3>7. Closing(req[r], client[r], wire[r])'
      BY <2>2, <3>6 DEF Closing
    <3>8. Talks(req[r], client[r], wire[r])'
      BY <1>5, <3>7 DEF Talks, Waiting, Streaming
    <3>9. Truthful(r)'
      <4>1. ASSUME meter[r] # << >> PROVE Told(meter[r][1], req'[r], client'[r], wire'[r])
        <5>1. Told(meter[r][1], req[r], client[r], wire[r])
          BY <1>0, <4>1 DEF Truthful
        <5> QED
          BY <2>7, <5>1, Closes DEF Told
      <4> QED
        BY <2>1, <4>1 DEF Truthful
    <3> QED
      BY <3>8, <3>9, Moved
  <2> QED
    BY <1>0, <2>5, <2>6, <2>7
<1> QED
  BY <1>6, <1>8, <1>10, <1>11 DEF Close

LEMMA StepTalk ==
  ASSUME Typed, Rows, Talk, NEW r \in Requests, Act(r)
  PROVE  Talk'
BY Kinds, TalkAsk, TalkLeaves, TalkCall, TalkWhole, TalkRelay, TalkClose DEF Serve

-----------------------------------------------------------------------------
(* Theorems *)

LEMMA InitInv == Init => GatewayInv
<1> SUFFICES ASSUME Init PROVE GatewayInv
  OBVIOUS
<1>1. Typed
  <2>1. bucket \in [DOMAIN BucketLimit -> Nat] /\ \A b \in DOMAIN BucketLimit : bucket[b] <= BucketLimit[b]
    BY Limits DEF Init
  <2> QED
    BY <2>1, FreshRequest, FS_EmptySet DEF Init, Typed
<1>2. ASSUME NEW r \in Requests PROVE req[r] = NewRequest /\ wire[r] = << >> /\ meter[r] = << >> /\ r \notin spent
  BY DEF Init
<1>3. /\ NewRequest.pc = "idle" /\ ~NewRequest.over /\ NewRequest.ran = 0 /\ ~NewRequest.opened
      /\ ~NewRequest.sawDone /\ ~NewRequest.aborted /\ ~NewRequest.clientLeft /\ ~NewRequest.abort
  BY DEF NewRequest
<1>4. Budgets
  BY <1>2, <1>3 DEF Budgets, Budgeted
<1>5. Rows
  BY <1>2, <1>3 DEF Rows, Recorded
<1>6. Talk
  <2> SUFFICES ASSUME NEW r \in Requests PROVE Talks(req[r], client[r], wire[r]) /\ Truthful(r)
    BY DEF Talk
  <2> QED
    BY <1>2, <1>3 DEF Talks, Waiting, Streaming, Closing, Truthful, Asking, Calling, Relaying, Outcomes, Metering
<1> QED
  BY <1>1, <1>4, <1>5, <1>6 DEF GatewayInv

\* The inductive invariant holds of every run of the gateway, whatever the
\* clients, the upstreams and the database do (gateway.service.ts, handle).
THEOREM GatewayInvariant == Spec => []GatewayInv
<1>1. GatewayInv /\ [Next]_vars => GatewayInv'
  <2>1. ASSUME GatewayInv, NEW r \in Requests, Act(r) PROVE GatewayInv'
    BY <2>1, StepTyped, StepBudgets, StepRows, StepTalk DEF GatewayInv
  <2>2. ASSUME GatewayInv, UNCHANGED vars PROVE GatewayInv'
    BY <2>2 DEF GatewayInv, vars, Typed, Budgets, Budgeted, Stops, Rows, Recorded, Talk, Truthful
  <2> QED
    BY <2>1, <2>2 DEF Next, Act
<1> QED
  BY <1>1, InitInv, PTL DEF Spec

\* Every variable keeps its type; no bucket is debited past its limit
\* (rate-limit.service.ts, debit).
THEOREM TypeCorrect == Spec => []TypeOK
<1>1. GatewayInv => TypeOK
  <2> SUFFICES ASSUME GatewayInv PROVE TypeOK
    OBVIOUS
  <2>1. Typed
    BY DEF GatewayInv
  <2>2. ASSUME NEW r \in Requests
        PROVE  /\ req[r].pc \in {"idle", "admit", "limit", "send", "map", "relay", "mapStream", "body", "answer"}
                                 \cup Ended \cup Metering
               /\ req[r].status \in {"none", "ok", "error", "aborted"}
               /\ wire[r] \in Seq({"head", "data", "done", "error", "json", "status", "end"})
    BY <2>1 DEF Typed, ReqType, Asking, Calling, Relaying, Outcomes, Ended, Statuses, Events
  <2>3. \A b \in DOMAIN BucketLimit : bucket[b] \in 0 .. BucketLimit[b]
    BY <2>1, Limits DEF Typed
  <2> QED
    BY <2>1, <2>2, <2>3 DEF TypeOK, Typed
<1> QED
  BY <1>1, GatewayInvariant, PTL

\* A request that came in when its key's spend limit, the credit or a token
\* bucket was used up is never forwarded, whatever it races with
\* (gateway-policy.service.ts, admit; rate-limit.service.ts, admit).
THEOREM OverBudgetRefused == Spec => []BudgetRefuses
<1>1. GatewayInv => BudgetRefuses
  BY DEF GatewayInv, Budgets, Budgeted, BudgetRefuses, Asking
<1> QED
  BY <1>1, GatewayInvariant, PTL

\* A forwarded request ends with one row unless its insert failed, a refused one
\* with none; a debit has its spend, and a spend its row (gateway.service.ts:40,
\* metering.service.ts, record).
THEOREM ForwardedOnceRecorded == Spec => []OneRow
<1>1. GatewayInv => OneRow
  <2> SUFFICES ASSUME GatewayInv PROVE OneRow
    OBVIOUS
  <2>1. ASSUME NEW r \in Requests
        PROVE  /\ Len(meter[r]) <= 1
               /\ req[r].pc = "done" /\ ~req[r].lost => Len(meter[r]) = 1
               /\ req[r].pc = "refused" => meter[r] = << >> /\ req[r].ran = 0
    <3>1. Recorded(req[r], r) /\ Budgeted(req[r])
      BY DEF GatewayInv, Rows, Budgets
    <3>2. Len(meter[r]) = 1 \/ meter[r] = << >>
      BY <3>1 DEF Recorded
    <3>3. Len(meter[r]) <= 1
      <4>1. CASE meter[r] = << >>
        <5>1. \A s : s = << >> => Len(s) = 0
          OBVIOUS
        <5> QED
          BY <4>1, <5>1
      <4>2. CASE Len(meter[r]) = 1
        BY <4>2
      <4> QED
        BY <3>2, <4>1, <4>2
    <3>4. /\ req[r].pc = "done" /\ ~req[r].lost => Len(meter[r]) = 1
          /\ req[r].pc = "refused" => meter[r] = << >> /\ req[r].ran = 0
      BY <3>1 DEF Recorded, Budgeted, Asking
    <3> QED
      BY <3>3, <3>4
  <2> QED
    BY <2>1 DEF GatewayInv, Typed, Rows, Recorded, OneRow
<1> QED
  BY <1>1, GatewayInvariant, PTL

\* The status of a row is what happened: aborted without an error only where the
\* client left before [DONE], ok only where nothing failed in its sight
\* (stream-relay.ts, relayStream; gateway.service.ts, recordAbandoned).
THEOREM RowsTellTheTruth == Spec => []StatusTruthful
<1>1. GatewayInv => StatusTruthful
  BY DEF GatewayInv, Talk, Truthful, Told, StatusTruthful
<1> QED
  BY <1>1, GatewayInvariant, PTL

\* A client that stayed sees its answer end, and a stream with exactly one
\* terminator (stream-relay.ts, relayStream; gateway.service.ts, endBeforeTokens).
THEOREM AnswersEnd == Spec => []StreamTerminated
<1>1. GatewayInv => StreamTerminated
  <2> SUFFICES ASSUME GatewayInv, NEW r \in Requests, req[r].pc = "done", client[r] = "here"
               PROVE  /\ In("end", wire[r])
                      /\ In("head", wire[r]) => Cardinality({i \in 1 .. Len(wire[r]) : wire[r][i] = "done"}) = 1
    BY DEF StreamTerminated
  <2>1. wire[r] \in Seq(Events) /\ Talks(req[r], client[r], wire[r])
    BY DEF GatewayInv, Typed, Talk
  <2>2. In("end", wire[r]) /\ (In("head", wire[r]) => OneDone(wire[r]))
    BY <2>1 DEF Talks, Closing
  <2> QED
    BY <2>1, <2>2, CountDone
<1> QED
  BY <1>1, GatewayInvariant, PTL
=============================================================================
