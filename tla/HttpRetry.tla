----------------------------- MODULE HttpRetry -----------------------------
(***************************************************************************)
(* One HTTP call of the SDKs: attempts, backoff, deadline and cancellation *)
(* of retryableFetch() and request() in packages/sdk/src/http.ts, and of   *)
(* _do_request_with_retry() in packages/python-sdk/src/superserve/_http.py *)
(* (and its async twin).                                                   *)
(*                                                                         *)
(* The two differ in one thing that matters: fetch() hands the response    *)
(* over when its headers are in, so TypeScript reads the body outside the  *)
(* attempt; httpx reads the body inside it (InLoop).                       *)
(*                                                                         *)
(* The server (external) carries a request out when it reaches it, which   *)
(* may be after its client has given it up.  A DELETE is kill(): it takes  *)
(* away the one sandbox there is, and a second one finds nothing.          *)
(***************************************************************************)
EXTENDS Naturals, FiniteSets

CONSTANTS
  Calls,
  Method,        \* of each call: "GET", "POST" or "DELETE"
  InLoop,        \* the calls of the Python SDK: the body is read within the attempt
  Abortable,     \* the calls given an AbortSignal (Python has none)
  MaxCalls,      \* bound: how many of the calls are made
  MaxAttempts    \* DEFAULT_MAX_ATTEMPTS, _MAX_ATTEMPTS: 3

ASSUME CallsAssumption ==
  /\ Method \in [Calls -> {"GET", "POST", "DELETE"}]
  /\ InLoop \subseteq Calls /\ Abortable \subseteq Calls \ InLoop
  /\ MaxCalls \in Nat /\ MaxAttempts \in Nat \ {0}

VARIABLES
  pc,        \* "idle", "fetching", "draining", "body", "sleeping" or "done"
  attempt,   \* the attempt a call is at
  answer,    \* what came back for it: "none", a status, or "reset"
  aborted,   \* has the caller's signal fired?
  result,    \* what the call returned or threw
  net,       \* the requests on their way to the server: <<call, attempt>>
  applied,   \* how often the server carried the call out
  present    \* is there still a sandbox to delete?

vars == <<pc, attempt, answer, aborted, result, net, applied, present>>
client == <<pc, attempt, aborted, result>>

Transient == {"busy", "gateway"}   \* 429, 503; 502, 504: the statuses that are retried
Statuses == {"ok", "404", "500"} \cup Transient
Results == Statuses \cup {"network", "timeout", "aborted"}

Init ==
  /\ pc = [c \in Calls |-> "idle"]
  /\ attempt = [c \in Calls |-> 0]
  /\ answer = [c \in Calls |-> "none"]
  /\ aborted = [c \in Calls |-> FALSE]
  /\ result = [c \in Calls |-> "none"]
  /\ net = {} /\ applied = [c \in Calls |-> 0] /\ present = TRUE

-----------------------------------------------------------------------------
(* The server and the network. *)

Waits(c, k) == pc[c] = "fetching" /\ attempt[c] = k /\ answer[c] = "none"

(* A refusal ("busy") comes before the work; a gateway or a crash can fail *)
(* the answer to work already done, and so can the connection.            *)
Serve(c, k) ==
  /\ <<c, k>> \in net
  /\ \E a \in Statuses \cup {"reset"}, done \in BOOLEAN :
       /\ a = "ok" => done
       /\ a \in {"busy", "404"} => ~done
       /\ a = "404" => Method[c] = "DELETE"
       /\ Method[c] = "DELETE" => /\ done => present
                                  /\ a = "404" => ~present
       /\ net' = net \ {<<c, k>>}
       /\ applied' = [applied EXCEPT ![c] = @ + (IF done THEN 1 ELSE 0)]
       /\ present' = (present /\ ~(done /\ Method[c] = "DELETE"))
       /\ answer' = IF Waits(c, k) THEN [answer EXCEPT ![c] = a] ELSE answer
  /\ UNCHANGED client

(* The connection breaks while the request is still on its way. *)
ConnectionResets(c) ==
  /\ Waits(c, attempt[c])
  /\ answer' = [answer EXCEPT ![c] = "reset"]
  /\ UNCHANGED <<client, net, applied, present>>

-----------------------------------------------------------------------------
(* The call. *)

server == <<net, applied, present>>

(* Mutant: every method is retried. *)
RetryAlways(c) == TRUE
Retryable(c) == Method[c] \in {"GET", "DELETE"}

(* Mutant: the last attempt is never made. *)
OneShort(c) == attempt[c] + 1 < MaxAttempts
AttemptsLeft(c) == attempt[c] < MaxAttempts

(* Mutant: a kill() reports the 404 of a sandbox that is gone. *)
PlainStatus(c, a) == a
(* kill() and killById() take a 404 for success. *)
Reported(c, a) == IF Method[c] = "DELETE" /\ a = "404" THEN "ok" ELSE a

(* Mutant: composeSignals() leaves the caller's signal out. *)
Detached(c) == FALSE
Cancelled(c) == aborted[c]

Goto(c, label) == pc' = [pc EXCEPT ![c] = label] /\ UNCHANGED result
End(c, r) == pc' = [pc EXCEPT ![c] = "done"] /\ result' = [result EXCEPT ![c] = r]

Retries(c) == Retryable(c) /\ AttemptsLeft(c)
RetryOr(c, r) == IF Retries(c) THEN Goto(c, "sleeping") ELSE End(c, r)

(* Only MaxCalls of the calls are begun. *)
Room == Cardinality({c \in Calls : pc[c] # "idle"}) < MaxCalls

(* The next attempt.  fetch() sends nothing under a signal that has fired. *)
Fetch(c) ==
  /\ pc[c] = "sleeping" \/ (pc[c] = "idle" /\ Room)
  /\ IF Cancelled(c)
     THEN End(c, "aborted") /\ UNCHANGED <<attempt, answer, net>>
     ELSE /\ Goto(c, "fetching")
          /\ attempt' = [attempt EXCEPT ![c] = @ + 1]
          /\ answer' = [answer EXCEPT ![c] = "none"]
          /\ net' = net \cup {<<c, attempt[c] + 1>>}
  /\ UNCHANGED <<aborted, applied, present>>

(* The headers are in: drain and try again, or go on to the body. *)
Headers(c) ==
  /\ pc[c] = "fetching" /\ answer[c] \in Statuses
  /\ Goto(c, IF c \notin InLoop /\ answer[c] \in Transient /\ Retries(c)
             THEN "draining" ELSE "body")
  /\ UNCHANGED <<attempt, answer, aborted, server>>

NetworkError(c) ==
  /\ pc[c] = "fetching" /\ answer[c] = "reset"
  /\ RetryOr(c, "network")
  /\ UNCHANGED <<attempt, answer, aborted, server>>

Drained(c) ==
  /\ pc[c] = "draining" /\ Goto(c, "sleeping")
  /\ UNCHANGED <<attempt, answer, aborted, server>>

BodyRead(c) ==
  /\ pc[c] = "body"
  /\ IF answer[c] \in Transient
     THEN RetryOr(c, answer[c])
     ELSE End(c, Reported(c, answer[c]))
  /\ UNCHANGED <<attempt, answer, aborted, server>>

(* What a call ends with when r cuts it short: readErrorBody() makes do      *)
(* without the body of an error.                                            *)
CutShort(c, r) ==
  End(c, IF pc[c] = "body" /\ answer[c] # "ok" THEN Reported(c, answer[c]) ELSE r)

(* The connection breaks in the body: TypeScript is past the loop by then. *)
BodyBreaks(c) ==
  /\ pc[c] \in {"body", "draining"}
  /\ IF pc[c] = "draining" THEN Goto(c, "sleeping")
     ELSE IF c \in InLoop THEN RetryOr(c, "network") ELSE CutShort(c, "network")
  /\ UNCHANGED <<attempt, answer, aborted, server>>

(* Mutant: only the first attempt is timed. *)
FirstDeadlineOnly(c) == pc[c] = "fetching" /\ attempt[c] = 1
Timed(c) == pc[c] \in {"fetching", "draining"} \/ (pc[c] = "body" /\ c \in InLoop)

(* timeoutMs is over.  In the drain the abort is swallowed like any error. *)
TimerFires(c) ==
  /\ Timed(c)
  /\ IF pc[c] = "draining" THEN Goto(c, "sleeping") ELSE End(c, "timeout")
  /\ UNCHANGED <<attempt, answer, aborted, server>>

(* The caller's signal fires: fetch() and the read of a good body reject at *)
(* once; the drain and the read of an error's body swallow it; a backoff    *)
(* sleeps on.                                                               *)
UserAbort(c) ==
  /\ c \in Abortable /\ pc[c] # "done" /\ ~aborted[c]
  /\ aborted' = [aborted EXCEPT ![c] = TRUE]
  /\ IF ~Cancelled(c)' \/ pc[c] \in {"idle", "sleeping"} THEN UNCHANGED <<pc, result>>
     ELSE IF pc[c] = "draining" THEN Goto(c, "sleeping")
     ELSE CutShort(c, "aborted")
  /\ UNCHANGED <<attempt, answer, server>>

Next ==
  \E c \in Calls :
    \/ \E k \in 1 .. MaxAttempts : Serve(c, k)
    \/ ConnectionResets(c)
    \/ Fetch(c) \/ Headers(c) \/ NetworkError(c) \/ Drained(c) \/ BodyRead(c)
    \/ BodyBreaks(c) \/ TimerFires(c) \/ UserAbort(c)

Spec == Init /\ [][Next]_vars

(* The client's own steps are fair: its event loop runs and its timers     *)
(* fire.  Nothing is assumed of the server or of the network, but that a    *)
(* Python body does not trickle for ever: httpx times its silences.         *)
Runs(c) == Fetch(c) \/ Headers(c) \/ NetworkError(c) \/ TimerFires(c)
ClientSpec == Spec /\ \A c \in Calls : WF_vars(Runs(c))

(* A server that, besides, ends every body it has begun to send to a       *)
(* TypeScript call.                                                        *)
Ends(c) == Drained(c) \/ BodyRead(c) \/ BodyBreaks(c)
ServedSpec == ClientSpec /\ \A c \in Calls \ InLoop : WF_vars(Ends(c))

-----------------------------------------------------------------------------
TypeOK ==
  /\ pc \in [Calls -> {"idle", "fetching", "draining", "body", "sleeping", "done"}]
  /\ attempt \in [Calls -> 0 .. MaxAttempts]
  /\ answer \in [Calls -> Statuses \cup {"none", "reset"}]
  /\ aborted \in [Calls -> BOOLEAN]
  /\ result \in [Calls -> Results \cup {"none"}]
  /\ net \subseteq Calls \X (1 .. MaxAttempts)
  /\ applied \in [Calls -> Nat]
  /\ present \in BOOLEAN

(* A POST is carried out at most once, and a POST that reports success was  *)
(* carried out: "POST/PATCH are never retried (not idempotent)"             *)
(* (http.ts:230-231).                                                       *)
PostOnce ==
  \A c \in Calls : Method[c] = "POST" =>
    /\ applied[c] <= 1
    /\ result[c] = "ok" => applied[c] = 1

(* A kill() whose first DELETE did its work and lost its answer finds the   *)
(* sandbox gone on the second: that is success, and success means it is     *)
(* gone.                                                                    *)
KillReportsGone ==
  \A c \in Calls : Method[c] = "DELETE" =>
    /\ result[c] # "404"
    /\ result[c] = "ok" => ~present

(* A GET or DELETE reports a refusal of the moment only when every attempt  *)
(* has met with one (docs/sdk-reference/sandbox.mdx:470).                   *)
OnlyLastTransient ==
  \A c \in Calls : Retryable(c) /\ result[c] \in Transient => attempt[c] = MaxAttempts

(* Once the caller's signal has fired no attempt is sent, and a call that   *)
(* was asleep between two attempts ends as aborted, however it had fared.   *)
NothingSentAfterAbort ==
  [][\A c \in Calls : aborted[c] =>
       /\ attempt'[c] = attempt[c]
       /\ pc[c] = "sleeping" /\ pc'[c] # "sleeping" => result'[c] = "aborted"]_vars

(* docs/errors.mdx:99 counts a connection reset among the failures a GET or *)
(* DELETE retries.  Where the body is read within the attempt, one is       *)
(* reported only from the last attempt, in whatever stage it came.          *)
ResetsAreRetried ==
  \A c \in InLoop : Retryable(c) /\ result[c] = "network" => attempt[c] = MaxAttempts

(* A call that may be retried reports a failure of the moment only from its *)
(* last attempt, whatever stage it came in: one retry too few would hide a  *)
(* recovery (http.ts:159-260).                                              *)
RetriesExhausted == OnlyLastTransient /\ ResetsAreRetried

(* Every call ends: on a silent server by its deadline, and in Python also *)
(* on a server that falls silent in the middle of a body.                  *)
CallSettles == \A c \in Calls : pc[c] # "idle" ~> pc[c] = "done"
=============================================================================
