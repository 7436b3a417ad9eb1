----------------------- MODULE PySandboxHandleProofs -----------------------
(***************************************************************************)
(* Theorems about PySandboxHandle, for any threads and any bounds: types,  *)
(* the refresh lock, the resume claims under it, and what kill() reports.  *)
(***************************************************************************)
EXTENDS PySandboxHandle, TLAPS

LEMMA ThreadKinds ==
  /\ Ops \subseteq Threads /\ Resumers \subseteq Threads /\ Killers \subseteq Threads
  /\ Ops \subseteq Rotators /\ Resumers \subseteq Rotators /\ Rotators \subseteq Threads
  /\ \A t \in Threads : t # NoCall
  /\ Ops \cap Resumers = {} /\ Rotators \cap Killers = {}
  BY ThreadsAssumption DEF Threads, Rotators

(* What an operation of the thread in hand does to the threads' variables. *)
LEMMA SendTypes ==
  ASSUME TypeOK, NEW t \in Threads, NEW n \in Nat, Send(t, n)
  PROVE  /\ tok' \in [Threads -> Nat]
         /\ net' \in [Threads -> {"none", "sent", "claimed", "answered"}]
         /\ answer' \in [Threads -> Answers \cup {"none"}]
  BY DEF TypeOK, Send, Answers

LEMMA ReplyTypes ==
  ASSUME TypeOK, NEW t \in Threads, NEW a \in Answers, NEW n \in Nat, Reply(t, a, n)
  PROVE  /\ tok' \in [Threads -> Nat]
         /\ net' \in [Threads -> {"none", "sent", "claimed", "answered"}]
         /\ answer' \in [Threads -> Answers \cup {"none"}]
  BY DEF TypeOK, Reply, Answers

-----------------------------------------------------------------------------
(* The inductive invariants *)

(* An answer that is in is an answer. *)
Answered == \A t \in Threads : net[t] = "answered" => answer[t] \in Answers

TypeInv == TypeOK /\ Answered

LEMMA InitTypeInv == Init => TypeInv
  <1> SUFFICES ASSUME Init PROVE TypeInv
    OBVIOUS
  <1>1. /\ status \in Statuses /\ gen \in Nat /\ claim \in Rotators \cup {NoCall}
        /\ accessToken \in Nat /\ refreshLock \in Ops \cup {NoCall} /\ closed \in BOOLEAN
        /\ pauses \in Nat /\ faults \in Nat
    BY DEF Init, ServerInit, Statuses
  <1>2. /\ pc \in [Threads -> {"idle", "first", "locking", "rotating", "fresh", "retry",
                               "killing", "ended"}]
        /\ net \in [Threads -> {"none", "sent", "claimed", "answered"}]
    BY DEF Init
  <1>3. /\ tok \in [Threads -> Nat]
        /\ answer \in [Threads -> Answers \cup {"none"}]
        /\ outcome \in [Threads -> Answers \cup {"none", "deleted"}]
    BY DEF Init
  <1>4. Answered
    BY DEF Init, Answered
  <1> QED BY <1>1, <1>2, <1>3, <1>4 DEF TypeInv, TypeOK

(* Every step keeps the types, action by action. *)
LEMMA StepTypeInv == TypeInv /\ [Next]_vars => TypeInv'
  <1> SUFFICES ASSUME TypeInv, [Next]_vars PROVE TypeInv'
    OBVIOUS
  <1> USE ThreadKinds DEF TypeInv, TypeOK, Answered, Answers, Statuses, handleVars, threadVars, serverVars
  <1>1. ASSUME NEW o \in Ops, Start(o) PROVE TypeInv'
    BY <1>1 DEF Start, Called, Goto, Send
  <1>2. ASSUME NEW o \in Ops, Receive(o) PROVE TypeInv'
    BY <1>2 DEF Receive, Goto, End
  <1>3. ASSUME NEW o \in Ops, Acquire(o) PROVE TypeInv'
    BY <1>3 DEF Acquire, Goto, Send
  <1>4. ASSUME NEW o \in Ops, Release(o) PROVE TypeInv'
    BY <1>4 DEF Release, Released, Goto, End
  <1>5. ASSUME NEW o \in Ops, RetryWithFresh(o) PROVE TypeInv'
    BY <1>5 DEF RetryWithFresh, Goto, Send
  <1>6. ASSUME NEW o \in Ops, ServeData(o) PROVE TypeInv'
    BY <1>6 DEF ServeData, DataAnswers, Reply
  <1>7. ASSUME NEW r \in Resumers, Resume(r) PROVE TypeInv'
    BY <1>7 DEF Resume, Called, Goto, End, Send
  <1>8. ASSUME NEW r \in Resumers, ResumeReturns(r) PROVE TypeInv'
    BY <1>8 DEF ResumeReturns, Goto, End
  <1>9. ASSUME NEW k \in Killers, Kill(k) PROVE TypeInv'
    BY <1>9 DEF Kill, Called, Goto, End, Send
  <1>10. ASSUME NEW k \in Killers, KillReturns(k) PROVE TypeInv'
    BY <1>10 DEF KillReturns, KillResult, Goto, End
  <1>11. ASSUME NEW k \in Killers, ServeKill(k) PROVE TypeInv'
    BY <1>11 DEF ServeKill, DeleteSandbox, Reply
  <1>12. ASSUME NEW t \in Rotators, ServePost(t) PROVE TypeInv'
    BY <1>12 DEF ServePost, ClaimResume, Rotate, Reply
  <1>13. ASSUME NEW t \in Rotators, FinishClaim(t) PROVE TypeInv'
    BY <1>13 DEF FinishClaim, FinishResume, Reply
  <1>14. ASSUME NEW t \in Threads, Fault(t) \/ BreakOff(t) PROVE TypeInv'
    BY <1>14 DEF Fault, BreakOff, Reply
  <1>15. CASE Pause
    BY <1>15 DEF Pause, PauseSandbox
  <1>16. CASE UNCHANGED vars
    BY <1>16 DEF vars
  <1> QED
    BY <1>1, <1>2, <1>3, <1>4, <1>5, <1>6, <1>7, <1>8, <1>9, <1>10, <1>11, <1>12,
       <1>13, <1>14, <1>15, <1>16 DEF Next, OpStep

(* Type correctness of every reachable state. *)
THEOREM TypeCorrect == Spec => []TypeOK
  <1>1. Spec => []TypeInv
    BY InitTypeInv, StepTypeInv, PTL DEF Spec
  <1> QED BY <1>1, PTL DEF TypeInv

-----------------------------------------------------------------------------
(* The lock is held exactly while its holder's activate is out, whatever   *)
(* comes of the activate.                                                  *)
LEMMA StepLock == TypeInv /\ LockedWhileRotating /\ [Next]_vars => LockedWhileRotating'
  <1> SUFFICES ASSUME TypeInv, LockedWhileRotating, [Next]_vars
               PROVE  LockedWhileRotating'
    OBVIOUS
  <1> USE ThreadKinds DEF TypeInv, TypeOK, LockedWhileRotating, handleVars, threadVars
  <1>1. ASSUME NEW o \in Ops, Start(o) \/ Receive(o) \/ RetryWithFresh(o) PROVE LockedWhileRotating'
    BY <1>1 DEF Start, Called, Receive, RetryWithFresh, Goto, End
  <1>2. ASSUME NEW o \in Ops, Acquire(o) PROVE LockedWhileRotating'
    BY <1>2 DEF Acquire, LockFree, Goto
  <1>3. ASSUME NEW o \in Ops, Release(o) PROVE LockedWhileRotating'
    BY <1>3 DEF Release, Released, Goto, End
  <1>4. ASSUME NEW o \in Ops, ServeData(o) PROVE LockedWhileRotating'
    BY <1>4 DEF ServeData
  <1>5. ASSUME NEW r \in Resumers, Resume(r) \/ ResumeReturns(r) PROVE LockedWhileRotating'
    BY <1>5 DEF Resume, ResumeReturns, Goto, End
  <1>6. ASSUME NEW k \in Killers, Kill(k) \/ KillReturns(k) \/ ServeKill(k)
        PROVE  LockedWhileRotating'
    BY <1>6 DEF Kill, KillReturns, ServeKill, Goto, End
  <1>7. ASSUME NEW t \in Rotators, ServePost(t) \/ FinishClaim(t) PROVE LockedWhileRotating'
    BY <1>7 DEF ServePost, FinishClaim
  <1>8. ASSUME NEW t \in Threads, Fault(t) \/ BreakOff(t) PROVE LockedWhileRotating'
    BY <1>8 DEF Fault, BreakOff
  <1>9. CASE Pause \/ UNCHANGED vars
    BY <1>9 DEF Pause, vars
  <1> QED
    BY <1>1, <1>2, <1>3, <1>4, <1>5, <1>6, <1>7, <1>8, <1>9 DEF Next, OpStep

(* sandbox.py:102-108: the refresh lock serialises the activates and is    *)
(* never kept, for any number of threads.                                  *)
THEOREM AlwaysLockedWhileRotating == Spec => []LockedWhileRotating
  <1>1. Init => LockedWhileRotating
    BY ThreadKinds DEF Init, LockedWhileRotating
  <1> QED
    BY <1>1, InitTypeInv, StepTypeInv, StepLock, PTL DEF Spec

-----------------------------------------------------------------------------
(***************************************************************************)
(* While nobody calls resume(), no request fails and the client is open,   *)
(* a resume that is being carried out is the claim of the thread that      *)
(* holds the lock, which waits for it: there is no other activate that     *)
(* could be refused, and none has been.                                    *)
(***************************************************************************)
Solo == NotMade(Resumers) /\ faults = 0 /\ ~closed

ClaimInv ==
  Solo =>
    /\ status = "resuming" =>
         claim \in Ops /\ pc[claim] = "rotating" /\ net[claim] = "claimed"
    /\ \A o \in Ops : answer[o] # "409" /\ outcome[o] # "409"

Inv == TypeInv /\ LockedWhileRotating

(* Solo is lost for good. *)
LEMMA SoloBefore == TypeInv /\ [Next]_vars /\ Solo' => Solo
  <1> SUFFICES ASSUME TypeInv, [Next]_vars, Solo' PROVE Solo
    OBVIOUS
  <1> USE ThreadKinds DEF TypeInv, TypeOK, Solo, NotMade, handleVars, threadVars
  <1>1. ASSUME NEW o \in Ops, OpStep(o) PROVE Solo
    BY <1>1 DEF OpStep, Start, Called, Receive, Acquire, Release, RetryWithFresh, ServeData, Goto, End
  <1>2. ASSUME NEW r \in Resumers, Resume(r) \/ ResumeReturns(r) PROVE Solo
    BY <1>2 DEF Resume, ResumeReturns, Goto, End
  <1>3. ASSUME NEW k \in Killers, Kill(k) \/ KillReturns(k) \/ ServeKill(k) PROVE Solo
    BY <1>3 DEF Kill, KillReturns, ServeKill, Goto, End
  <1>4. ASSUME NEW t \in Rotators, ServePost(t) \/ FinishClaim(t) PROVE Solo
    BY <1>4 DEF ServePost, FinishClaim
  <1>5. ASSUME NEW t \in Threads, Fault(t) \/ BreakOff(t) PROVE Solo
    BY <1>5 DEF Fault, BreakOff
  <1>6. CASE Pause \/ UNCHANGED vars
    BY <1>6 DEF Pause, vars
  <1> QED BY <1>1, <1>2, <1>3, <1>4, <1>5, <1>6 DEF Next

LEMMA StepClaimInv == Inv /\ ClaimInv /\ [Next]_vars => ClaimInv'
  <1> SUFFICES ASSUME Inv, ClaimInv, [Next]_vars, Solo' PROVE ClaimInv'
    BY DEF ClaimInv
  <1>0. Solo
    BY SoloBefore DEF Inv
  <1> USE <1>0, ThreadKinds
      DEF Inv, TypeInv, TypeOK, ClaimInv, serverVars, handleVars, threadVars
  <1>1. ASSUME NEW o \in Ops, Start(o) \/ Receive(o) \/ RetryWithFresh(o) PROVE ClaimInv'
    BY <1>1 DEF Start, Called, Receive, RetryWithFresh, Send, Goto, End
  <1>2. ASSUME NEW o \in Ops, Acquire(o) PROVE ClaimInv'
    BY <1>2 DEF Acquire, Send, Goto
  <1>3. ASSUME NEW o \in Ops, Release(o) PROVE ClaimInv'
    BY <1>3 DEF Release, Goto, End
  <1>4. ASSUME NEW o \in Ops, ServeData(o) PROVE ClaimInv'
    <2>1. \A a \in DataAnswers(tok[o]) : a # "409"
      BY DEF DataAnswers
    <2> QED BY <1>4, <2>1 DEF ServeData, Reply
  <1>5. ASSUME NEW r \in Resumers, Resume(r) \/ ResumeReturns(r) PROVE ClaimInv'
    <2>1. pc[r] = "idle" /\ pc'[r] = "idle"
      BY DEF Solo, NotMade
    <2> QED BY <1>5, <2>1 DEF Resume, ResumeReturns, Goto, End
  <1>6. ASSUME NEW k \in Killers, Kill(k) \/ KillReturns(k) \/ ServeKill(k) PROVE ClaimInv'
    BY <1>6 DEF Kill, KillReturns, ServeKill, DeleteSandbox, Send, Reply, Goto, End
  <1>7. ASSUME NEW t \in Rotators, ServePost(t) PROVE ClaimInv'
    <2>1. t \in Ops
      BY <1>7 DEF ServePost, Solo, NotMade, Rotators
    <2>2. status # "resuming"
      BY <1>7, <2>1 DEF ServePost, LockedWhileRotating
    <2> QED BY <1>7, <2>1, <2>2 DEF ServePost, ClaimResume, Rotate, Reply
  <1>8. ASSUME NEW t \in Rotators, FinishClaim(t) PROVE ClaimInv'
    BY <1>8 DEF FinishClaim, FinishResume, Reply
  <1>9. ASSUME NEW t \in Threads, Fault(t) \/ BreakOff(t) PROVE ClaimInv'
    BY <1>9 DEF Fault, BreakOff, Solo
  <1>10. CASE Pause \/ UNCHANGED vars
    BY <1>10 DEF Pause, PauseSandbox, vars
  <1> QED
    BY <1>1, <1>2, <1>3, <1>4, <1>5, <1>6, <1>7, <1>8, <1>9, <1>10 DEF Next, OpStep

(* sandbox.py:103-106: under the lock no operation loses a resume claim to  *)
(* another thread of the same handle.                                      *)
THEOREM AlwaysNoSelfConflict == Spec => []NoSelfConflict
  <1>1. Init => LockedWhileRotating /\ ClaimInv
    BY ThreadKinds DEF Init, ServerInit, LockedWhileRotating, ClaimInv
  <1>2. Spec => [](Inv /\ ClaimInv)
    BY <1>1, InitTypeInv, StepTypeInv, StepLock, StepClaimInv, PTL DEF Spec, Inv
  <1>3. ClaimInv => NoSelfConflict
    BY DEF ClaimInv, Solo, NoSelfConflict
  <1> QED BY <1>2, <1>3, PTL

-----------------------------------------------------------------------------
(* A DELETE that was answered well, or with 404, has left no sandbox, and   *)
(* nothing brings it back; a kill() without an answer has sent nothing.     *)
KillInv ==
  \A k \in Killers :
    /\ pc[k] \in {"idle", "killing", "ended"}
    /\ pc[k] = "idle" => answer[k] = "none"
    /\ net[k] # "none" => pc[k] = "killing"
    /\ pc[k] # "ended" => outcome[k] = "none"
    /\ answer[k] \in {"ok", "404"} => status = "deleted"

(* A sandbox that is deleted stays deleted. *)
LEMMA DeletedForGood == [Next]_vars /\ status = "deleted" => status' = "deleted"
  BY DEF Next, OpStep, Start, Receive, Acquire, Release, RetryWithFresh, ServeData,
         Resume, ResumeReturns, Kill, KillReturns, ServeKill, ServePost, FinishClaim,
         Fault, BreakOff, Pause, ClaimResume, Rotate, FinishResume, DeleteSandbox,
         PauseSandbox, vars, serverVars

LEMMA StepKillInv == TypeInv /\ KillInv /\ [Next]_vars => KillInv'
  <1> SUFFICES ASSUME TypeInv, KillInv, [Next]_vars PROVE KillInv'
    OBVIOUS
  <1> USE DeletedForGood, ThreadKinds
      DEF TypeInv, TypeOK, KillInv, serverVars, handleVars, threadVars
  <1>1. ASSUME NEW o \in Ops, OpStep(o) PROVE KillInv'
    BY <1>1 DEF OpStep, Start, Called, Receive, Acquire, Release, RetryWithFresh, ServeData,
                Send, Reply, Goto, End
  <1>2. ASSUME NEW r \in Resumers, Resume(r) \/ ResumeReturns(r) PROVE KillInv'
    BY <1>2 DEF Resume, Called, ResumeReturns, Send, Goto, End
  <1>3. ASSUME NEW k \in Killers, Kill(k) PROVE KillInv'
    <2>1. CASE closed
      BY <1>3, <2>1 DEF Kill, Called, Goto, End
    <2>2. CASE ~closed
      BY <1>3, <2>2 DEF Kill, Called, Goto, Send
    <2> QED BY <2>1, <2>2
  <1>4. ASSUME NEW k \in Killers, KillReturns(k) PROVE KillInv'
    BY <1>4 DEF KillReturns, KillResult, Goto, End
  <1>5. ASSUME NEW k \in Killers, ServeKill(k) PROVE KillInv'
    BY <1>5 DEF ServeKill, DeleteSandbox, Reply
  <1>6. ASSUME NEW t \in Rotators, ServePost(t) \/ FinishClaim(t) PROVE KillInv'
    BY <1>6 DEF ServePost, FinishClaim, Reply
  <1>7. ASSUME NEW t \in Threads, Fault(t) \/ BreakOff(t) PROVE KillInv'
    BY <1>7 DEF Fault, BreakOff, Reply
  <1>8. CASE Pause \/ UNCHANGED vars
    BY <1>8 DEF Pause, vars
  <1> QED BY <1>1, <1>2, <1>3, <1>4, <1>5, <1>6, <1>7, <1>8 DEF Next

(* What closed the client, and what an answer to a kill() comes of. *)
ClosedInv ==
  /\ closed => /\ status = "deleted" \/ SomeKillFailed
               /\ faults > 0 \/ SomeKillHeard
  /\ status = "resuming" => ~NotMade(Rotators)

CauseOf(a) ==
  \/ a \in {"500", "net", "closed"} /\ faults > 0
  \/ a = "409" /\ ~NotMade(Rotators)
  \/ a \in {"net", "closed"} /\ SomeKillHeard

Caused(k) ==
  /\ net[k] = "answered" /\ answer[k] \notin {"ok", "404"} => CauseOf(answer[k])
  /\ outcome[k] \notin {"none", "ok"} => CauseOf(outcome[k])
  /\ outcome[k] = "ok" => status = "deleted" \/ (answer[k] = "none" /\ SomeKillFailed)

CauseInv == \A k \in Killers : Caused(k)

(* A call that has been made, a fault and an end of a kill() stay so. *)
LEMMA CausesLast ==
  ASSUME TypeInv, KillInv, [Next]_vars
  PROVE  /\ ~NotMade(Rotators) => ~NotMade(Rotators)'
         /\ faults > 0 => faults' > 0
         /\ \A j \in Killers : outcome[j] # "none" => outcome'[j] = outcome[j]
  <1> USE ThreadKinds DEF TypeInv, TypeOK, KillInv, NotMade, handleVars, threadVars
  <1>1. ASSUME NEW o \in Ops, OpStep(o)
        PROVE  /\ \A t \in Threads : pc[t] # "idle" => pc'[t] # "idle"
               /\ faults' = faults
               /\ \A j \in Killers : outcome'[j] = outcome[j]
    BY <1>1 DEF OpStep, Start, Receive, Acquire, Release, RetryWithFresh, ServeData, Goto, End
  <1>2. ASSUME NEW r \in Resumers, Resume(r) \/ ResumeReturns(r)
        PROVE  /\ \A t \in Threads : pc[t] # "idle" => pc'[t] # "idle"
               /\ faults' = faults
               /\ \A j \in Killers : outcome'[j] = outcome[j]
    BY <1>2 DEF Resume, ResumeReturns, Goto, End
  <1>3. ASSUME NEW k \in Killers, Kill(k) \/ KillReturns(k) \/ ServeKill(k)
        PROVE  /\ \A t \in Threads : pc[t] # "idle" => pc'[t] # "idle"
               /\ faults' = faults
               /\ \A j \in Killers : outcome[j] # "none" => outcome'[j] = outcome[j]
    BY <1>3 DEF Kill, Called, KillReturns, ServeKill, Goto, End
  <1>4. ASSUME NEW t \in Rotators, ServePost(t) \/ FinishClaim(t)
        PROVE  pc' = pc /\ faults' = faults /\ outcome' = outcome
    BY <1>4 DEF ServePost, FinishClaim
  <1>5. ASSUME NEW t \in Threads, Fault(t) \/ BreakOff(t)
        PROVE  pc' = pc /\ faults' \in {faults, faults + 1} /\ outcome' = outcome
    BY <1>5 DEF Fault, BreakOff
  <1>6. CASE Pause \/ UNCHANGED vars
    BY <1>6 DEF Pause, vars
  <1> QED BY <1>1, <1>2, <1>3, <1>4, <1>5, <1>6 DEF Next

LEMMA SomeKillsLast ==
  ASSUME TypeInv, KillInv, [Next]_vars
  PROVE  /\ SomeKillFailed => SomeKillFailed'
         /\ SomeKillHeard => SomeKillHeard'
         /\ faults > 0 => faults' > 0
         /\ ~NotMade(Rotators) => ~NotMade(Rotators)'
  BY CausesLast DEF SomeKillFailed, SomeKillHeard

LEMMA StepClosedInv ==
  TypeInv /\ KillInv /\ CauseInv /\ ClosedInv /\ [Next]_vars => ClosedInv'
  <1> SUFFICES ASSUME TypeInv, KillInv, CauseInv, ClosedInv, [Next]_vars PROVE ClosedInv'
    OBVIOUS
  <1> USE SomeKillsLast, DeletedForGood, ThreadKinds
      DEF TypeInv, TypeOK, ClosedInv, serverVars, handleVars, threadVars
  <1>1. ASSUME NEW o \in Ops, OpStep(o) PROVE ClosedInv'
    BY <1>1 DEF OpStep, Start, Receive, Acquire, Release, RetryWithFresh, ServeData
  <1>2. ASSUME NEW r \in Resumers, Resume(r) \/ ResumeReturns(r) PROVE ClosedInv'
    BY <1>2 DEF Resume, ResumeReturns
  <1>3. ASSUME NEW k \in Killers, Kill(k) PROVE ClosedInv'
    BY <1>3 DEF Kill
  <1>4. ASSUME NEW k \in Killers, KillReturns(k) PROVE ClosedInv'
    <2>1. outcome'[k] = KillResult(answer[k]) /\ UNCHANGED <<serverVars, faults>>
      BY <1>4 DEF KillReturns, End
    <2>2. answer[k] \in {"ok", "404"} \/ CauseOf(answer[k])
      BY <1>4 DEF KillReturns, CauseInv, Caused
    <2>3. status = "deleted" \/ SomeKillFailed'
      <3>1. CASE answer[k] \in {"ok", "404"}
        BY <3>1 DEF KillInv
      <3>2. CASE CauseOf(answer[k]) /\ answer[k] \notin {"ok", "404"}
        BY <2>1, <3>2 DEF CauseOf, KillResult, SomeKillFailed
      <3> QED BY <2>2, <3>1, <3>2
    <2>4. faults > 0 \/ SomeKillHeard'
      <3>1. CASE answer[k] \in {"ok", "404", "409"}
        BY <2>1, <3>1 DEF KillResult, SomeKillHeard
      <3>2. CASE answer[k] \notin {"ok", "404", "409"}
        BY <2>2, <3>2 DEF CauseOf
      <3> QED BY <3>1, <3>2
    <2> QED BY <2>1, <2>3, <2>4
  <1>5. ASSUME NEW k \in Killers, ServeKill(k) PROVE ClosedInv'
    BY <1>5 DEF ServeKill, DeleteSandbox
  <1>6. ASSUME NEW t \in Rotators, ServePost(t) \/ FinishClaim(t) PROVE ClosedInv'
    <2>1. ServePost(t) => ~NotMade(Rotators)
      BY DEF ServePost, NotMade
    <2> QED BY <1>6, <2>1 DEF ServePost, FinishClaim, ClaimResume, Rotate, FinishResume
  <1>7. ASSUME NEW t \in Threads, Fault(t) \/ BreakOff(t) PROVE ClosedInv'
    BY <1>7 DEF Fault, BreakOff
  <1>8. CASE Pause \/ UNCHANGED vars
    BY <1>8 DEF Pause, PauseSandbox, vars
  <1> QED BY <1>1, <1>2, <1>3, <1>4, <1>5, <1>6, <1>7, <1>8 DEF Next

LEMMA StepCauseInv ==
  TypeInv /\ KillInv /\ CauseInv /\ ClosedInv /\ [Next]_vars => CauseInv'
  <1> SUFFICES ASSUME TypeInv, KillInv, CauseInv, ClosedInv, [Next]_vars,
                      NEW j \in Killers
               PROVE  Caused(j)'
    BY DEF CauseInv
  <1> USE SomeKillsLast, DeletedForGood, ThreadKinds
      DEF TypeInv, TypeOK, CauseInv, Caused, CauseOf, serverVars, handleVars, threadVars
  <1>0. ASSUME outcome'[j] = outcome[j], net'[j] = net[j], answer'[j] = answer[j]
        PROVE  Caused(j)'
    BY <1>0
  <1>1. ASSUME NEW o \in Ops, OpStep(o) PROVE Caused(j)'
    BY <1>1, <1>0 DEF OpStep, Start, Receive, Acquire, Release, RetryWithFresh, ServeData,
                Send, Reply, Goto, End
  <1>2. ASSUME NEW r \in Resumers, Resume(r) \/ ResumeReturns(r) PROVE Caused(j)'
    BY <1>2, <1>0 DEF Resume, ResumeReturns, Send, Goto, End
  <1>3. ASSUME NEW k \in Killers, Kill(k) PROVE Caused(j)'
    <2>1. CASE k # j
      BY <1>3, <1>0, <2>1 DEF Kill, Send, Goto, End
    <2>2. CASE k = j /\ closed
      BY <1>3, <2>2 DEF Kill, Called, KillInv, ClosedInv, Goto, End
    <2>3. CASE k = j /\ ~closed
      BY <1>3, <2>3 DEF Kill, Called, KillInv, Send, Goto
    <2> QED BY <2>1, <2>2, <2>3
  <1>4. ASSUME NEW k \in Killers, KillReturns(k) PROVE Caused(j)'
    <2>1. CASE k # j
      BY <1>4, <1>0, <2>1 DEF KillReturns, Goto, End
    <2>2. CASE k = j
      BY <1>4, <2>2 DEF KillReturns, KillResult, KillInv, Goto, End
    <2> QED BY <2>1, <2>2
  <1>5. ASSUME NEW k \in Killers, ServeKill(k) PROVE Caused(j)'
    <2>1. CASE k # j
      BY <1>5, <1>0, <2>1 DEF ServeKill, Reply
    <2>2. CASE k = j
      BY <1>5, <2>2 DEF ServeKill, DeleteSandbox, ClosedInv, KillInv, Reply
    <2> QED BY <2>1, <2>2
  <1>6. ASSUME NEW t \in Rotators, ServePost(t) \/ FinishClaim(t) PROVE Caused(j)'
    BY <1>6, <1>0 DEF ServePost, FinishClaim, Reply
  <1>7. ASSUME NEW t \in Threads, Fault(t) \/ BreakOff(t) PROVE Caused(j)'
    <2>1. CASE t # j
      BY <1>7, <1>0, <2>1 DEF Fault, BreakOff, Reply
    <2>2. CASE t = j /\ Fault(t)
      BY <2>2 DEF Fault, KillInv, Reply
    <2>3. CASE t = j /\ BreakOff(t)
      BY <2>3 DEF BreakOff, ClosedInv, KillInv, Reply
    <2> QED BY <1>7, <2>1, <2>2, <2>3
  <1>8. CASE Pause \/ UNCHANGED vars
    BY <1>8, <1>0 DEF Pause, vars
  <1> QED BY <1>1, <1>2, <1>3, <1>4, <1>5, <1>6, <1>7, <1>8 DEF Next

LEMMA KillInvariant == Spec => [](KillInv /\ CauseInv)
  <1>1. Init => KillInv /\ CauseInv /\ ClosedInv
    BY ThreadKinds DEF Init, ServerInit, KillInv, CauseInv, Caused, ClosedInv
  <1> QED
    BY <1>1, InitTypeInv, StepTypeInv, StepKillInv, StepCauseInv, StepClosedInv, PTL DEF Spec

(* sandbox.py:426-440: a kill() that returned has left no sandbox, and one     *)
(* fails only of a fault, of a resume in progress or of a client that another  *)
(* kill() closed, never of the sandbox being gone, for any threads, faults and *)
(* pauses.                                                                     *)
THEOREM AlwaysKillMeansGone == Spec => []KillMeansGone
  <1>1. CauseInv => KillMeansGone
    BY DEF CauseInv, Caused, CauseOf, KillMeansGone, KillLeavesNone, KillFailsOf
  <1> QED BY <1>1, KillInvariant, PTL
=============================================================================
