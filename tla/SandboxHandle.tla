--------------------------- MODULE SandboxHandle ---------------------------
(***************************************************************************)
(* One `Sandbox` instance of the TypeScript SDK, used by several           *)
(* asynchronous calls at once: commands and file operations, which all run *)
(* through withTokenRetry (packages/sdk/src/tokenRetry.ts), and explicit   *)
(* resume() calls.  They share the cached access token and the promise of  *)
(* the /activate in flight (packages/sdk/src/Sandbox.ts).                  *)
(*                                                                         *)
(* The code between two awaits is one action.  A request is two: the       *)
(* server's processing and the delivery of its answer, so that answers     *)
(* overtake each other.  pause() and kill() leave the instance's state     *)
(* alone, so they appear as what they do to the sandbox.                   *)
(***************************************************************************)
EXTENDS SandboxServer

CONSTANTS
  Ops,          \* data-plane calls: commands.run, spawn, files.read, ...
  Resumers,     \* calls of Sandbox.resume()
  MaxUpsets     \* bound: pauses of the sandbox, rotations by other clients and
                \* requests lost, timed out or failed while the calls run

Calls == Ops \cup Resumers

ASSUME CallsAssumption ==
  /\ Ops \cap Resumers = {}
  /\ NoCall \notin Calls

ASSUME BoundsAssumption == MaxUpsets \in Nat

VARIABLES
  accessToken,      \* this._accessToken: the generation the instance believes in
  refreshInFlight,  \* this._refreshInFlight: the call whose POST /activate it is
  pc,               \* where each call is
  req,              \* its data-plane request
  join,             \* the call whose activate promise it awaits
  post,             \* the POST /activate or /resume it started itself
  outcome,          \* what its promise settled with
  runs,             \* how often the sandbox carried the operation out
  pauses, foreign, faults   \* environment steps so far

clientVars == <<accessToken, refreshInFlight, pc, req, join, post, outcome>>
envVars == <<pauses, foreign, faults>>
vars == <<serverVars, clientVars, runs, envVars>>

-----------------------------------------------------------------------------
Answers == {"ok", "401", "503", "404", "500", "net"}
Outcomes == {"none"} \cup Answers \cup {"409"}
PostErrors == {"none", "409", "404", "net"}

Requests == [phase : {"none", "sent", "answered"}, tok : Nat,
             ans : Answers \cup {"none"}]
Posts == [phase : {"none", "sent", "claimed", "answered", "settled"},
          err : PostErrors, tok : Nat]

NoReq == [phase |-> "none", tok |-> 0, ans |-> "none"]
NoPost == [phase |-> "none", err |-> "none", tok |-> 0]
SentWith(t) == [phase |-> "sent", tok |-> t, ans |-> "none"]
SentPost == [phase |-> "sent", err |-> "none", tok |-> 0]

(* Mutant: a lost request is taken for a paused sandbox. *)
ResumableWhenLost(a) == a \in {"401", "503", "net"}

(* isResumable: 401/403 or 503; nothing else is cured by /activate. *)
Resumable(a) == a \in {"401", "503"}

(* A rotation whose promise has not settled yet. *)
Flying(c) == post[c].phase \in {"sent", "claimed", "answered"}

Init ==
  /\ ServerInit
  /\ accessToken = 0
  /\ refreshInFlight = NoCall
  /\ pc = [c \in Calls |-> "idle"]
  /\ req = [c \in Ops |-> NoReq]
  /\ join = [c \in Calls |-> NoCall]
  /\ post = [c \in Calls |-> NoPost]
  /\ outcome = [c \in Calls |-> "none"]
  /\ runs = [c \in Ops |-> 0]
  /\ pauses = 0 /\ foreign = 0 /\ faults = 0

-----------------------------------------------------------------------------
(* withTokenRetry *)

(* The first attempt goes out with the live token. *)
Start(o) ==
  /\ pc[o] = "idle"
  /\ pc' = [pc EXCEPT ![o] = "first"]
  /\ req' = [req EXCEPT ![o] = SentWith(accessToken)]
  /\ UNCHANGED <<serverVars, accessToken, refreshInFlight, join, post, outcome,
                 runs, envVars>>

End(c, result) ==
  /\ pc' = [pc EXCEPT ![c] = "ended"]
  /\ outcome' = [outcome EXCEPT ![c] = result]

(* Mutant: the caller awaits a promise of its own that nobody settles. *)
JoinNothing(o) ==
  /\ refreshInFlight # NoCall
  /\ join' = [join EXCEPT ![o] = o]
  /\ UNCHANGED <<refreshInFlight, post>>

(* Mutant: every caller posts its own activate. *)
StartAlways(o) ==
  /\ refreshInFlight' = o
  /\ post' = [post EXCEPT ![o] = SentPost]
  /\ join' = [join EXCEPT ![o] = o]

(* _refreshActivate: join the activate in flight, or start one. *)
JoinRefresh(o) ==
  /\ refreshInFlight # NoCall
  /\ join' = [join EXCEPT ![o] = refreshInFlight]
  /\ UNCHANGED <<refreshInFlight, post>>

StartRefresh(o) ==
  /\ refreshInFlight = NoCall
  /\ refreshInFlight' = o
  /\ post' = [post EXCEPT ![o] = SentPost]
  /\ join' = [join EXCEPT ![o] = o]

RefreshActivate(o) == JoinRefresh(o) \/ StartRefresh(o)

(* The answer of an attempt arrives: return it, activate, or throw. *)
Receive(o) ==
  /\ req[o].phase = "answered"
  /\ req' = [req EXCEPT ![o].phase = "none"]
  /\ IF pc[o] = "first" /\ Resumable(req[o].ans)
     THEN /\ pc' = [pc EXCEPT ![o] = "refresh"]
          /\ RefreshActivate(o)
          /\ UNCHANGED outcome
     ELSE /\ End(o, req[o].ans)
          /\ UNCHANGED <<refreshInFlight, post, join>>
  /\ UNCHANGED <<serverVars, accessToken, runs, envVars>>

(* Mutant: the retry repeats the token of the first attempt. *)
RetryWithStale(o) ==
  /\ pc[o] = "refresh"
  /\ post[join[o]].phase = "settled"
  /\ IF post[join[o]].err = "none"
     THEN /\ pc' = [pc EXCEPT ![o] = "retry"]
          /\ req' = [req EXCEPT ![o] = SentWith(req[o].tok)]
          /\ UNCHANGED outcome
     ELSE End(o, post[join[o]].err) /\ UNCHANGED req
  /\ UNCHANGED <<serverVars, accessToken, refreshInFlight, join, post, runs,
                 envVars>>

(* The awaited activate has settled: retry once with its token, or throw. *)
RetryWithFresh(o) ==
  /\ pc[o] = "refresh"
  /\ post[join[o]].phase = "settled"
  /\ IF post[join[o]].err = "none"
     THEN /\ pc' = [pc EXCEPT ![o] = "retry"]
          /\ req' = [req EXCEPT ![o] = SentWith(post[join[o]].tok)]
          /\ UNCHANGED outcome
     ELSE End(o, post[join[o]].err) /\ UNCHANGED req
  /\ UNCHANGED <<serverVars, accessToken, refreshInFlight, join, post, runs,
                 envVars>>

-----------------------------------------------------------------------------
(* resume(): its own POST /resume, not coalesced with the activate. *)
Resume(r) ==
  /\ pc[r] = "idle"
  /\ pc' = [pc EXCEPT ![r] = "refresh"]
  /\ join' = [join EXCEPT ![r] = r]
  /\ post' = [post EXCEPT ![r] = SentPost]
  /\ UNCHANGED <<serverVars, accessToken, refreshInFlight, req, outcome, runs,
                 envVars>>

ResumeReturns(r) ==
  /\ pc[r] = "refresh"
  /\ post[r].phase = "settled"
  /\ End(r, IF post[r].err = "none" THEN "ok" ELSE post[r].err)
  /\ UNCHANGED <<serverVars, accessToken, refreshInFlight, req, join, post, runs,
                 envVars>>

(* Mutant: `then` for `finally`, a failed activate is never cleared. *)
SettleKeepsFailure(c) ==
  /\ post[c].phase = "answered"
  /\ post' = [post EXCEPT ![c].phase = "settled"]
  /\ accessToken' = IF post[c].err = "none" THEN post[c].tok ELSE accessToken
  /\ refreshInFlight' = IF c \in Ops /\ post[c].err = "none" THEN NoCall
                        ELSE refreshInFlight
  /\ UNCHANGED <<serverVars, pc, req, join, outcome, runs, envVars>>

(***************************************************************************)
(* _postAndRotateToken gets its answer: the token is cached, and the       *)
(* activate's `finally` clears the promise, whatever the result.  Between  *)
(* the two only microtasks run: a call that joins there gets the same      *)
(* token it would get by joining just before.                              *)
(***************************************************************************)
Settle(c) ==
  /\ post[c].phase = "answered"
  /\ post' = [post EXCEPT ![c].phase = "settled"]
  /\ accessToken' = IF post[c].err = "none" THEN post[c].tok ELSE accessToken
  /\ refreshInFlight' = IF c \in Ops THEN NoCall ELSE refreshInFlight
  /\ UNCHANGED <<serverVars, pc, req, join, outcome, runs, envVars>>

-----------------------------------------------------------------------------
(* The server processes requests in any order. *)

ServeData(o) ==
  /\ req[o].phase = "sent"
  /\ \E a \in DataAnswers(req[o].tok) :
       /\ req' = [req EXCEPT ![o].phase = "answered", ![o].ans = a]
       /\ runs' = IF a = "ok" THEN [runs EXCEPT ![o] = @ + 1] ELSE runs
  /\ UNCHANGED <<serverVars, accessToken, refreshInFlight, pc, join, post,
                 outcome, envVars>>

Answer(c, error, t) ==
  post' = [post EXCEPT ![c] = [phase |-> "answered", err |-> error, tok |-> t]]

ServePost(c) ==
  /\ post[c].phase = "sent"
  /\ \/ /\ ClaimResume(c)
        /\ post' = [post EXCEPT ![c].phase = "claimed"]
     \/ c \in Ops /\ Rotate /\ Answer(c, "none", gen + 1)
     \/ /\ status = "resuming" \/ (status = "active" /\ c \in Resumers)
        /\ Answer(c, "409", 0)
        /\ UNCHANGED serverVars
     \/ status = "deleted" /\ Answer(c, "404", 0) /\ UNCHANGED serverVars
  /\ UNCHANGED <<accessToken, refreshInFlight, pc, req, join, outcome, runs,
                 envVars>>

(* The claimed resume ends; whoever still waits for the answer gets it. *)
FinishClaim(c) ==
  /\ claim = c
  /\ FinishResume
  /\ IF post[c].phase = "claimed" THEN Answer(c, "none", gen + 1)
                                  ELSE UNCHANGED post
  /\ UNCHANGED <<accessToken, refreshInFlight, pc, req, join, outcome, runs,
                 envVars>>

-----------------------------------------------------------------------------
(* The environment: MaxUpsets pauses, foreign rotations and faults in all. *)
Calm == pauses + foreign + faults < MaxUpsets

Pause ==
  /\ Calm
  /\ PauseSandbox
  /\ pauses' = pauses + 1
  /\ UNCHANGED <<clientVars, runs, foreign, faults>>

Kill ==
  /\ Calm
  /\ DeleteSandbox
  /\ pauses' = pauses + 1
  /\ UNCHANGED <<clientVars, runs, foreign, faults>>

(* Another client activates the sandbox: its claim is not one of ours. *)
ForeignActivate ==
  /\ Calm
  /\ Rotate \/ ClaimResume(NoCall)
  /\ foreign' = foreign + 1
  /\ UNCHANGED <<clientVars, runs, pauses, faults>>

ForeignFinish ==
  /\ claim = NoCall
  /\ FinishResume
  /\ UNCHANGED <<clientVars, runs, envVars>>

(* A request fails with a 500, is lost, or times out before or after the
   server has processed it. *)
FaultData(o) ==
  /\ Calm
  /\ req[o].phase \in {"sent", "answered"}
  /\ \E a \in {"500", "net"} :
       req' = [req EXCEPT ![o].phase = "answered", ![o].ans = a]
  /\ faults' = faults + 1
  /\ UNCHANGED <<serverVars, accessToken, refreshInFlight, pc, join, post,
                 outcome, runs, pauses, foreign>>

FaultPost(c) ==
  /\ Calm
  /\ Flying(c)
  /\ Answer(c, "net", 0)
  /\ faults' = faults + 1
  /\ UNCHANGED <<serverVars, accessToken, refreshInFlight, pc, req, join,
                 outcome, runs, pauses, foreign>>

-----------------------------------------------------------------------------
OpStep(o) == Start(o) \/ Receive(o) \/ RetryWithFresh(o) \/ ServeData(o)
ResumerStep(r) == Resume(r) \/ ResumeReturns(r)
PostStep(c) == Settle(c) \/ ServePost(c) \/ FinishClaim(c)
EnvStep ==
  \/ Pause \/ Kill \/ ForeignActivate \/ ForeignFinish
  \/ \E o \in Ops : FaultData(o)
  \/ \E c \in Calls : FaultPost(c)

Next ==
  \/ \E o \in Ops : OpStep(o)
  \/ \E r \in Resumers : ResumerStep(r)
  \/ \E c \in Calls : PostStep(c)
  \/ EnvStep

Spec == Init /\ [][Next]_vars

(* Every request has a timeout, the event loop runs what is ready, and the
   server answers; nobody has to make a call. *)
Fairness ==
  /\ \A o \in Ops : WF_vars(ServeData(o)) /\ WF_vars(Receive(o))
                    /\ WF_vars(RetryWithFresh(o))
  /\ \A r \in Resumers : WF_vars(ResumeReturns(r))
  /\ \A c \in Calls : WF_vars(ServePost(c)) /\ WF_vars(FinishClaim(c))
                      /\ WF_vars(Settle(c))

FairSpec == Spec /\ Fairness

-----------------------------------------------------------------------------
(* Properties *)

TypeOK ==
  /\ status \in Statuses
  /\ gen \in Nat
  /\ claim \in Calls \cup {NoCall}
  /\ accessToken \in Nat
  /\ refreshInFlight \in Ops \cup {NoCall}
  /\ pc \in [Calls -> {"idle", "first", "refresh", "retry", "ended"}]
  /\ req \in [Ops -> Requests]
  /\ join \in [Calls -> Calls \cup {NoCall}]
  /\ post \in [Calls -> Posts]
  /\ outcome \in [Calls -> Outcomes]
  /\ runs \in [Ops -> Nat]
  /\ pauses \in Nat /\ foreign \in Nat /\ faults \in Nat

(***************************************************************************)
(* _refreshInFlight is exactly the activate in flight: at most one, never  *)
(* forgotten while it flies and never kept once it has settled, and every  *)
(* call that awaits one awaits it or one that has settled (Sandbox.ts:     *)
(* 136-142).  A kept promise would hand every later call a stale token; a  *)
(* forgotten one would claim the paused sandbox twice.                     *)
(***************************************************************************)
SingleActivation ==
  /\ \A o \in Ops : Flying(o) <=> refreshInFlight = o
  /\ \A o \in Ops : pc[o] = "refresh" =>
       /\ join[o] \in Ops
       /\ join[o] = refreshInFlight \/ post[join[o]].phase = "settled"

(* Until the first explicit resume(). *)
NoResume == \A r \in Resumers : pc[r] = "idle"

(***************************************************************************)
(* The calls of one instance never lose a resume claim to each other ("so  *)
(* a paused-sandbox resume isn't claimed twice (the loser gets 409)",      *)
(* Sandbox.ts:133-134): as long as nobody else activates the sandbox and   *)
(* no activate is abandoned half-way, no activate is answered 409.         *)
(***************************************************************************)
NoSelfConflict ==
  (NoResume /\ foreign = 0 /\ faults = 0) =>
    \A c \in Calls : post[c].err # "409"

(***************************************************************************)
(* A call is carried out at most once, whatever is retried: the answers    *)
(* that make withTokenRetry send again (tokenRetry.ts:29-33, 45-49) are    *)
(* answers of a sandbox that has not run the command.  A call that returns *)
(* normally was carried out.                                               *)
(***************************************************************************)
AtMostOnce ==
  \A o \in Ops : runs[o] <= 1 /\ (outcome[o] = "ok" => runs[o] = 1)

(***************************************************************************)
(* Until an explicit resume() the cached token never goes back to an       *)
(* older generation: a rotation is only requested when the previous one    *)
(* has settled, so their answers cannot overtake each other.               *)
(***************************************************************************)
TokenNeverRegresses == [][NoResume => accessToken' >= accessToken]_vars

(***************************************************************************)
(* Calls can rotate the token from under each other, but not all of them:  *)
(* of calls on an undisturbed paused sandbox at least one succeeds.        *)
(***************************************************************************)
Undisturbed == NoResume /\ pauses = 0 /\ foreign = 0 /\ faults = 0

SomeoneGetsThrough ==
  (Undisturbed /\ Ops # {} /\ \A o \in Ops : pc[o] = "ended") =>
    \E o \in Ops : outcome[o] = "ok"

(***************************************************************************)
(* "a command/file op auto-resumes a paused sandbox" (tokenRetry.ts:8-9):  *)
(* on an undisturbed sandbox every call that ends has succeeded.           *)
(***************************************************************************)
AutoResume ==
  Undisturbed => \A o \in Ops : outcome[o] \in {"none", "ok"}

(* No call hangs: neither on its request, nor on the promise of an activate
   that another call started (Sandbox.ts:136-142, tokenRetry.ts:44-50). *)
CallsSettle == \A c \in Calls : (pc[c] # "idle") ~> (pc[c] = "ended")

(***************************************************************************)
(* The instance implements SingleFlight: the flight is the activate, its   *)
(* leader the call that posted it, and a call has got its result when the  *)
(* promise it joined has settled.                                          *)
(***************************************************************************)
Landed(o) == join[o] # NoCall /\ post[join[o]].phase = "settled"

Flight == INSTANCE SingleFlight WITH
  Callers <- Ops,
  Nobody <- NoCall,
  Results <- Posts,
  leader <- refreshInFlight,
  aboard <- {o \in Ops : join[o] # NoCall /\ ~Landed(o)},
  given <- [o \in Ops |-> IF Landed(o) THEN post[join[o]] ELSE NoCall]

Coalesces == Flight!Spec
=============================================================================
