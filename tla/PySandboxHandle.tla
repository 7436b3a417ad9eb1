-------------------------- MODULE PySandboxHandle --------------------------
(***************************************************************************)
(* One `Sandbox` of the Python SDK, used by several threads: data-plane    *)
(* operations through with_token_retry, explicit resume(), and kill().     *)
(* (AsyncSandbox is the same code with an asyncio.Lock.)                   *)
(*                                                                         *)
(* Two things differ from the TypeScript instance.  Refreshes are          *)
(* serialised by a lock, not coalesced: every refused operation posts an   *)
(* /activate of its own.  And kill() closes the HTTP client the other      *)
(* threads use and marks the handle as deleted.                            *)
(***************************************************************************)
EXTENDS SandboxServer, FiniteSets

CONSTANTS
  Ops,          \* threads that run a command or a file operation
  Resumers,     \* threads that call resume()
  Killers,      \* threads that call kill()
  MaxThreads,   \* bound: how many of them make their call
  MaxPauses,    \* bound: pauses of the sandbox by its timeout or other clients
  MaxFaults     \* bound: requests lost, timed out, or refused by a 500

Rotators == Ops \cup Resumers
Threads == Rotators \cup Killers

ASSUME ThreadsAssumption ==
  /\ Ops \cap Resumers = {} /\ Ops \cap Killers = {} /\ Resumers \cap Killers = {}
  /\ NoCall \notin Threads
  /\ MaxThreads \in Nat /\ MaxPauses \in Nat /\ MaxFaults \in Nat

VARIABLES
  accessToken,   \* self._access_token
  refreshLock,   \* the thread that holds self._refresh_lock
  closed,        \* self._closed, and the HTTP client closed with it
  pc,            \* where each thread is
  net,           \* its request: "none", "sent", "claimed" or "answered"
  tok,           \* the token its request carries, or its answer brings
  answer,        \* the answer of its request
  outcome,       \* how its call ended
  pauses, faults

handleVars == <<accessToken, refreshLock, closed>>
threadVars == <<pc, net, tok, answer, outcome>>
vars == <<serverVars, handleVars, threadVars, pauses, faults>>

Answers == {"ok", "401", "503", "404", "409", "500", "net", "closed"}

(* is_resumable *)
Resumable(a) == a \in {"401", "503"}

Init ==
  /\ ServerInit
  /\ accessToken = 0
  /\ refreshLock = NoCall
  /\ closed = FALSE
  /\ pc = [t \in Threads |-> "idle"]
  /\ net = [t \in Threads |-> "none"]
  /\ tok = [t \in Threads |-> 0]
  /\ answer = [t \in Threads |-> "none"]
  /\ outcome = [t \in Threads |-> "none"]
  /\ pauses = 0 /\ faults = 0

-----------------------------------------------------------------------------
(* A request of thread t goes out; a closed client refuses it at once. *)
Send(t, token) ==
  /\ tok' = [tok EXCEPT ![t] = token]
  /\ net' = [net EXCEPT ![t] = IF closed THEN "answered" ELSE "sent"]
  /\ answer' = [answer EXCEPT ![t] = IF closed THEN "closed" ELSE "none"]

Called(t) ==
  /\ pc[t] = "idle"
  /\ Cardinality({u \in Threads : pc[u] # "idle"}) < MaxThreads

Goto(t, label) == pc' = [pc EXCEPT ![t] = label]

End(t, result) ==
  /\ Goto(t, "ended")
  /\ outcome' = [outcome EXCEPT ![t] = result]

(* with_token_retry: the first attempt carries the live token. *)
Start(o) ==
  /\ Called(o)
  /\ Goto(o, "first")
  /\ Send(o, accessToken)
  /\ UNCHANGED <<serverVars, handleVars, outcome, pauses, faults>>

Receive(o) ==
  /\ pc[o] \in {"first", "retry"}
  /\ net[o] = "answered"
  /\ net' = [net EXCEPT ![o] = "none"]
  /\ IF pc[o] = "first" /\ Resumable(answer[o])
     THEN Goto(o, "locking") /\ UNCHANGED outcome
     ELSE End(o, answer[o])
  /\ UNCHANGED <<serverVars, handleVars, tok, answer, pauses, faults>>

(* Mutant: the lock does not hold the others off. *)
NoLock == TRUE

LockFree == refreshLock = NoCall

(* _refresh_activate: its own POST /activate, under the lock. *)
Acquire(o) ==
  /\ pc[o] = "locking"
  /\ LockFree
  /\ refreshLock' = o
  /\ Goto(o, "rotating")
  /\ Send(o, 0)
  /\ UNCHANGED <<serverVars, accessToken, closed, outcome, pauses, faults>>

(* Mutant: the lock stays taken when the activate fails. *)
KeptOnFailure(o) == IF answer[o] = "ok" THEN NoCall ELSE refreshLock

Released(o) == NoCall

(* The answer: cache the token, release the lock, and retry or raise. *)
Release(o) ==
  /\ pc[o] = "rotating"
  /\ net[o] = "answered"
  /\ net' = [net EXCEPT ![o] = "none"]
  /\ refreshLock' = Released(o)
  /\ IF answer[o] = "ok"
     THEN /\ accessToken' = tok[o]
          /\ Goto(o, "fresh")
          /\ UNCHANGED outcome
     ELSE End(o, answer[o]) /\ UNCHANGED accessToken
  /\ UNCHANGED <<serverVars, closed, tok, answer, pauses, faults>>

RetryWithFresh(o) ==
  /\ pc[o] = "fresh"
  /\ Goto(o, "retry")
  /\ Send(o, tok[o])
  /\ UNCHANGED <<serverVars, handleVars, outcome, pauses, faults>>

(* resume(): rejected on a deleted handle, not under the lock. *)
Resume(r) ==
  /\ Called(r)
  /\ IF closed
     THEN End(r, "deleted") /\ UNCHANGED <<net, tok, answer>>
     ELSE Goto(r, "rotating") /\ Send(r, 0) /\ UNCHANGED outcome
  /\ UNCHANGED <<serverVars, handleVars, pauses, faults>>

ResumeReturns(r) ==
  /\ r \in Resumers
  /\ pc[r] = "rotating"
  /\ net[r] = "answered"
  /\ net' = [net EXCEPT ![r] = "none"]
  /\ accessToken' = IF answer[r] = "ok" THEN tok[r] ELSE accessToken
  /\ End(r, answer[r])
  /\ UNCHANGED <<serverVars, refreshLock, closed, tok, answer, pauses, faults>>

-----------------------------------------------------------------------------
(* kill(): a no-op on a closed handle, otherwise DELETE ... *)
Kill(k) ==
  /\ Called(k)
  /\ IF closed
     THEN End(k, "ok") /\ UNCHANGED <<net, tok, answer>>
     ELSE Goto(k, "killing") /\ Send(k, 0) /\ UNCHANGED outcome
  /\ UNCHANGED <<serverVars, handleVars, pauses, faults>>

(* Mutant: a refusal is swallowed as well. *)
RefusalsSwallowed(a) == IF a \in {"404", "409"} THEN "ok" ELSE a

KillResult(a) == IF a = "404" THEN "ok" ELSE a

(* ... whose 404 means deleted already; the `finally` closes the handle
   whatever came of it. *)
KillReturns(k) ==
  /\ pc[k] = "killing"
  /\ net[k] = "answered"
  /\ net' = [net EXCEPT ![k] = "none"]
  /\ closed' = TRUE
  /\ End(k, KillResult(answer[k]))
  /\ UNCHANGED <<serverVars, accessToken, refreshLock, tok, answer, pauses, faults>>

-----------------------------------------------------------------------------
(* The server, one request at a time and in any order. *)

Reply(t, a, token) ==
  /\ net' = [net EXCEPT ![t] = "answered"]
  /\ answer' = [answer EXCEPT ![t] = a]
  /\ tok' = [tok EXCEPT ![t] = token]

ServeData(o) ==
  /\ pc[o] \in {"first", "retry"}
  /\ net[o] = "sent"
  /\ \E a \in DataAnswers(tok[o]) : Reply(o, a, tok[o])
  /\ UNCHANGED <<serverVars, handleVars, pc, outcome, pauses, faults>>

ServePost(t) ==
  /\ pc[t] = "rotating"
  /\ net[t] = "sent"
  /\ \/ /\ ClaimResume(t)
        /\ net' = [net EXCEPT ![t] = "claimed"]
        /\ UNCHANGED <<answer, tok>>
     \/ t \in Ops /\ Rotate /\ Reply(t, "ok", gen + 1)
     \/ /\ status = "resuming" \/ (status = "active" /\ t \in Resumers)
        /\ Reply(t, "409", 0)
        /\ UNCHANGED serverVars
     \/ status = "deleted" /\ Reply(t, "404", 0) /\ UNCHANGED serverVars
  /\ UNCHANGED <<handleVars, pc, outcome, pauses, faults>>

FinishClaim(t) ==
  /\ claim = t
  /\ FinishResume
  /\ IF net[t] = "claimed" THEN Reply(t, "ok", gen + 1)
                           ELSE UNCHANGED <<net, answer, tok>>
  /\ UNCHANGED <<handleVars, pc, outcome, pauses, faults>>

ServeKill(k) ==
  /\ pc[k] = "killing"
  /\ net[k] = "sent"
  /\ \/ DeleteSandbox /\ Reply(k, "ok", 0)
     \/ status = "deleted" /\ Reply(k, "404", 0) /\ UNCHANGED serverVars
     \/ status = "resuming" /\ Reply(k, "409", 0) /\ UNCHANGED serverVars
  /\ UNCHANGED <<handleVars, pc, outcome, pauses, faults>>

Pause ==
  /\ pauses < MaxPauses
  /\ PauseSandbox
  /\ pauses' = pauses + 1
  /\ UNCHANGED <<handleVars, threadVars, faults>>

(* A request is lost, times out, or fails with a 500. *)
Fault(t) ==
  /\ faults < MaxFaults
  /\ net[t] \in {"sent", "claimed", "answered"}
  /\ \E a \in {"500", "net"} : Reply(t, a, 0)
  /\ faults' = faults + 1
  /\ UNCHANGED <<serverVars, handleVars, pc, outcome, pauses>>

(* Closing the client breaks the requests that other threads have in it. *)
BreakOff(t) ==
  /\ closed
  /\ net[t] \in {"sent", "claimed"}
  /\ \E a \in {"net", "closed"} : Reply(t, a, 0)
  /\ UNCHANGED <<serverVars, handleVars, pc, outcome, pauses, faults>>

-----------------------------------------------------------------------------
OpStep(o) == \/ Start(o) \/ Receive(o) \/ Acquire(o) \/ Release(o)
             \/ RetryWithFresh(o) \/ ServeData(o)

Next ==
  \/ \E o \in Ops : OpStep(o)
  \/ \E r \in Resumers : Resume(r) \/ ResumeReturns(r)
  \/ \E k \in Killers : Kill(k) \/ KillReturns(k) \/ ServeKill(k)
  \/ \E t \in Rotators : ServePost(t) \/ FinishClaim(t)
  \/ \E t \in Threads : Fault(t) \/ BreakOff(t)
  \/ Pause

Spec == Init /\ [][Next]_vars

(* Requests have timeouts, threads run, and the server answers.  The lock is
   not fair, but each operation takes it once. *)
Fairness ==
  /\ \A o \in Ops : /\ WF_vars(Receive(o)) /\ WF_vars(Acquire(o))
                    /\ WF_vars(Release(o)) /\ WF_vars(RetryWithFresh(o))
                    /\ WF_vars(ServeData(o))
  /\ \A r \in Resumers : WF_vars(ResumeReturns(r))
  /\ \A k \in Killers : WF_vars(KillReturns(k)) /\ WF_vars(ServeKill(k))
  /\ \A t \in Rotators : WF_vars(ServePost(t)) /\ WF_vars(FinishClaim(t))

FairSpec == Spec /\ Fairness

-----------------------------------------------------------------------------
(* Properties *)

TypeOK ==
  /\ status \in Statuses /\ gen \in Nat /\ claim \in Rotators \cup {NoCall}
  /\ accessToken \in Nat
  /\ refreshLock \in Ops \cup {NoCall}
  /\ closed \in BOOLEAN
  /\ pc \in [Threads -> {"idle", "first", "locking", "rotating", "fresh", "retry",
                         "killing", "ended"}]
  /\ net \in [Threads -> {"none", "sent", "claimed", "answered"}]
  /\ tok \in [Threads -> Nat]
  /\ answer \in [Threads -> Answers \cup {"none"}]
  /\ outcome \in [Threads -> Answers \cup {"none", "deleted"}]
  /\ pauses \in Nat /\ faults \in Nat

(***************************************************************************)
(* The refresh lock is held exactly while its holder's activate is out:    *)
(* "Lock serializes refreshes" (sandbox.py:102-108).  It is never kept by  *)
(* a thread that has gone on, failed or been refused by a closed client.   *)
(***************************************************************************)
LockedWhileRotating ==
  \A o \in Ops : refreshLock = o <=> pc[o] = "rotating"

(***************************************************************************)
(* "... so concurrent callers don't race the server-side BeginResume claim *)
(* (the loser gets 409)" (sandbox.py:103-106): as long as no explicit      *)
(* resume() is made and no request is abandoned half-way, no operation     *)
(* ends with 409.                                                          *)
(***************************************************************************)
NotMade(calls) == \A t \in calls : pc[t] = "idle"

NoSelfConflict ==
  (NotMade(Resumers) /\ faults = 0 /\ ~closed) =>
    \A o \in Ops : outcome[o] # "409"

SomeKillFailed == \E j \in Killers : outcome[j] \notin {"none", "ok"}

(* One that the server answered, and that closed the client thereafter. *)
SomeKillHeard == \E j \in Killers : outcome[j] \in {"ok", "409"}

(* A kill() that returned has left no sandbox, unless it sent nothing: it
   came after one of the same handle that had failed, and closed it. *)
KillLeavesNone ==
  \A k \in Killers : outcome[k] = "ok" =>
    \/ status = "deleted"
    \/ answer[k] = "none" /\ SomeKillFailed

(* What a kill() can fail of: a fault, a resume in progress, or the client
   that another kill() closed on being answered. *)
KillFailsOf(k) ==
  \/ outcome[k] \in {"500", "net", "closed"} /\ faults > 0
  \/ outcome[k] = "409" /\ ~NotMade(Rotators)
  \/ outcome[k] \in {"net", "closed"} /\ SomeKillHeard

(***************************************************************************)
(* "Delete this sandbox and all its resources. Idempotent."                *)
(* (sandbox.py:427), for several kill() of one handle at once: one that    *)
(* returned has left no sandbox, and none fails of the sandbox being gone  *)
(* already.  Two exceptions are the code's own.  The handle is closed      *)
(* whatever came of the DELETE (line 440), so a kill() after one that      *)
(* failed returns without sending; and closing it breaks off the DELETE    *)
(* another thread has in the shared client, which then fails although, or  *)
(* because, the first was answered.                                        *)
(***************************************************************************)
KillMeansGone ==
  /\ KillLeavesNone
  /\ \A k \in Killers : outcome[k] \notin {"none", "ok"} => KillFailsOf(k)

(* No thread waits for ever for the lock or for an answer, also when the
   client is closed under it. *)
ThreadsEnd == \A t \in Threads : (pc[t] # "idle") ~> (pc[t] = "ended")
=============================================================================
