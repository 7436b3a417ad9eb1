------------------------ MODULE SandboxHandleProofs ------------------------
(***************************************************************************)
(* What is proved of SandboxHandle for every set of calls and every bound. *)
(* Four invariants are stacked, each inductive relative to the ones below: *)
(* types, single activation, tokens and claims, executions.                *)
(***************************************************************************)
EXTENDS SandboxHandle, TLAPS

(* A call that awaits a promise awaits one that exists. *)
JoinOK == \A c \in Calls : pc[c] = "refresh" => join[c] \in Calls

TypeInv == TypeOK /\ JoinOK

LEMMA InitTypeInv == Init => TypeInv
  BY CallsAssumption
     DEF Init, TypeInv, TypeOK, JoinOK, ServerInit, Statuses, Requests, Posts,
         NoReq, NoPost, Answers, Outcomes, PostErrors, Calls

(* Updating one field keeps a record a request or a post. *)
LEMMA RequestUpdates ==
  /\ \A q \in Requests : [q EXCEPT !.phase = "none"] \in Requests
  /\ \A q \in Requests, a \in Answers :
       [q EXCEPT !.phase = "answered", !.ans = a] \in Requests
  /\ \A q \in Requests : q.tok \in Nat /\ q.ans \in Answers \cup {"none"}
  /\ \A t \in Nat : SentWith(t) \in Requests
  BY DEF Requests, SentWith

LEMMA PostUpdates ==
  /\ \A q \in Posts, p \in {"claimed", "settled"} :
       [q EXCEPT !.phase = p] \in Posts
  /\ \A q \in Posts : q.tok \in Nat /\ q.err \in PostErrors
  /\ \A e \in PostErrors, t \in Nat :
       [phase |-> "answered", err |-> e, tok |-> t] \in Posts
  /\ SentPost \in Posts
  BY DEF Posts, SentPost, PostErrors

(* Every step keeps the types, action by action. *)
LEMMA StepTypeInv == TypeInv /\ [Next]_vars => TypeInv'
  <1> SUFFICES ASSUME TypeInv, [Next]_vars PROVE TypeInv'
    OBVIOUS
  <1> USE DEF TypeInv, TypeOK, JoinOK, Calls, Statuses, clientVars, serverVars,
              envVars
  <1>1. ASSUME NEW o \in Ops, Start(o) PROVE TypeInv'
    BY <1>1, RequestUpdates DEF Start
  <1>2. ASSUME NEW o \in Ops, Receive(o) PROVE TypeInv'
    <2>1. req' \in [Ops -> Requests]
      BY <1>2, RequestUpdates DEF Receive
    <2>2. CASE pc[o] = "first" /\ Resumable(req[o].ans)
      <3>1. post' \in [Calls -> Posts]
        BY <1>2, <2>2, PostUpdates
           DEF Receive, RefreshActivate, JoinRefresh, StartRefresh
      <3>2. /\ refreshInFlight' \in Ops \cup {NoCall}
            /\ join' \in [Calls -> Calls \cup {NoCall}]
            /\ join'[o] \in Calls
            /\ \A c \in Calls \ {o} : join'[c] = join[c]
        BY <1>2, <2>2 DEF Receive, RefreshActivate, JoinRefresh, StartRefresh
      <3>3. JoinOK'
        BY <1>2, <2>2, <3>2 DEF Receive
      <3> QED BY <1>2, <2>1, <2>2, <3>1, <3>2, <3>3 DEF Receive
    <2>3. CASE ~(pc[o] = "first" /\ Resumable(req[o].ans))
      <3>1. req[o].ans \in Outcomes
        BY RequestUpdates DEF Outcomes
      <3> QED BY <1>2, <2>1, <2>3, <3>1 DEF Receive, End
    <2> QED BY <2>2, <2>3
  <1>3. ASSUME NEW o \in Ops, RetryWithFresh(o) PROVE TypeInv'
    <2>1. /\ post[join[o]].tok \in Nat
          /\ post[join[o]].err \in Outcomes
      BY <1>3, PostUpdates DEF RetryWithFresh, PostErrors, Outcomes, Answers
    <2> QED BY <1>3, <2>1, RequestUpdates DEF RetryWithFresh, End
  <1>4. ASSUME NEW o \in Ops, ServeData(o) PROVE TypeInv'
    <2>1. PICK a \in DataAnswers(req[o].tok) :
            /\ req' = [req EXCEPT ![o].phase = "answered", ![o].ans = a]
            /\ runs' = IF a = "ok" THEN [runs EXCEPT ![o] = @ + 1] ELSE runs
      BY <1>4 DEF ServeData
    <2>2. a \in Answers
      BY <2>1 DEF DataAnswers, Answers
    <2>3. req' \in [Ops -> Requests]
      BY <2>1, <2>2, RequestUpdates
    <2>4. runs' \in [Ops -> Nat]
      BY <2>1
    <2> QED BY <1>4, <2>3, <2>4 DEF ServeData
  <1>5. ASSUME NEW r \in Resumers, Resume(r) PROVE TypeInv'
    BY <1>5, PostUpdates DEF Resume
  <1>6. ASSUME NEW r \in Resumers, ResumeReturns(r) PROVE TypeInv'
    BY <1>6, PostUpdates DEF ResumeReturns, End, Outcomes, Answers, PostErrors
  <1>7. ASSUME NEW c \in Calls, Settle(c) PROVE TypeInv'
    BY <1>7, PostUpdates DEF Settle
  <1>8. ASSUME NEW c \in Calls, ServePost(c) PROVE TypeInv'
    <2>1. post' \in [Calls -> Posts]
      <3>1. /\ [post[c] EXCEPT !.phase = "claimed"] \in Posts
            /\ \A e \in PostErrors, t \in Nat :
                 [phase |-> "answered", err |-> e, tok |-> t] \in Posts
        BY PostUpdates
      <3>2. \E q \in Posts : post' = [post EXCEPT ![c] = q]
        <4>1. CASE post' = [post EXCEPT ![c].phase = "claimed"]
          BY <3>1, <4>1
        <4>2. CASE \E e \in PostErrors, t \in Nat : Answer(c, e, t)
          BY <3>1, <4>2 DEF Answer
        <4> QED BY <1>8, <4>1, <4>2 DEF ServePost, PostErrors
      <3> QED BY <3>2
    <2>2. status' \in Statuses /\ gen' \in Nat /\ claim' \in Calls \cup {NoCall}
      BY <1>8 DEF ServePost, ClaimResume, Rotate
    <2> QED BY <1>8, <2>1, <2>2 DEF ServePost
  <1>9. ASSUME NEW c \in Calls, FinishClaim(c) PROVE TypeInv'
    <2>1. post' \in [Calls -> Posts]
      BY <1>9, PostUpdates DEF FinishClaim, FinishResume, Answer, PostErrors
    <2> QED BY <1>9, <2>1 DEF FinishClaim, FinishResume
  <1>10. ASSUME NEW o \in Ops, FaultData(o) PROVE TypeInv'
    <2>1. PICK a \in {"500", "net"} :
            req' = [req EXCEPT ![o].phase = "answered", ![o].ans = a]
      BY <1>10 DEF FaultData
    <2>2. req' \in [Ops -> Requests]
      BY <2>1, RequestUpdates DEF Answers
    <2> QED BY <1>10, <2>2 DEF FaultData
  <1>11. ASSUME NEW c \in Calls, FaultPost(c) PROVE TypeInv'
    BY <1>11, PostUpdates DEF FaultPost, Answer, PostErrors
  <1>12. CASE Pause \/ Kill \/ ForeignActivate \/ ForeignFinish
    BY <1>12 DEF Pause, Kill, ForeignActivate, ForeignFinish, PauseSandbox,
                 DeleteSandbox, Rotate, ClaimResume, FinishResume
  <1>13. CASE UNCHANGED vars
    BY <1>13 DEF vars
  <1> QED
    BY <1>1, <1>2, <1>3, <1>4, <1>5, <1>6, <1>7, <1>8, <1>9, <1>10, <1>11,
       <1>12, <1>13 DEF Next, OpStep, ResumerStep, PostStep, EnvStep

(* Type correctness of every reachable state. *)
THEOREM TypeCorrect == Spec => [](TypeOK /\ JoinOK)
  <1>1. Spec => []TypeInv
    BY InitTypeInv, StepTypeInv, PTL DEF Spec
  <1> QED BY <1>1, PTL DEF TypeInv

-----------------------------------------------------------------------------
(* A call that has not been refused yet has not posted anything. *)
NothingPosted == \A c \in Calls : pc[c] \in {"idle", "first"} =>
                   post[c].phase = "none"

(* resume() awaits its own post. *)
ResumersAlone == \A r \in Resumers : pc[r] \in {"idle", "refresh", "ended"}

FlightInv == SingleActivation /\ NothingPosted /\ ResumersAlone

LEMMA InitFlightInv == Init => FlightInv
  BY CallsAssumption
     DEF Init, FlightInv, SingleActivation, NothingPosted, ResumersAlone, Flying,
         NoPost, Calls

LEMMA StepFlightInv == TypeInv /\ FlightInv /\ [Next]_vars => FlightInv'
  <1> SUFFICES ASSUME TypeInv, FlightInv, [Next]_vars PROVE FlightInv'
    OBVIOUS
  <1> USE CallsAssumption
      DEF TypeInv, TypeOK, JoinOK, Calls, clientVars, serverVars, envVars,
          FlightInv, SingleActivation, NothingPosted, ResumersAlone, Flying
  <1>1. ASSUME NEW o \in Ops, Start(o) PROVE FlightInv'
    BY <1>1 DEF Start
  <1>2. ASSUME NEW o \in Ops, Receive(o) PROVE FlightInv'
    <2>1. CASE pc[o] = "first" /\ Resumable(req[o].ans) /\ JoinRefresh(o)
      BY <1>2, <2>1 DEF Receive, JoinRefresh
    <2>2. CASE pc[o] = "first" /\ Resumable(req[o].ans) /\ StartRefresh(o)
      BY <1>2, <2>2 DEF Receive, StartRefresh, SentPost
    <2>3. CASE ~(pc[o] = "first" /\ Resumable(req[o].ans))
      BY <1>2, <2>3 DEF Receive, End
    <2> QED BY <1>2, <2>1, <2>2, <2>3 DEF Receive, RefreshActivate
  <1>3. ASSUME NEW o \in Ops, RetryWithFresh(o) PROVE FlightInv'
    BY <1>3 DEF RetryWithFresh, End
  <1>4. ASSUME NEW o \in Ops, ServeData(o) PROVE FlightInv'
    BY <1>4 DEF ServeData
  <1>5. ASSUME NEW r \in Resumers, Resume(r) PROVE FlightInv'
    BY <1>5 DEF Resume, SentPost
  <1>6. ASSUME NEW r \in Resumers, ResumeReturns(r) PROVE FlightInv'
    BY <1>6 DEF ResumeReturns, End
  <1>7. ASSUME NEW c \in Calls, Settle(c) PROVE FlightInv'
    BY <1>7 DEF Settle, Posts
  <1>8. ASSUME NEW c \in Calls, ServePost(c) PROVE FlightInv'
    <2>1. /\ post[c].phase = "sent"
          /\ post'[c].phase \in {"claimed", "answered"}
          /\ \A d \in Calls \ {c} : post'[d] = post[d]
          /\ UNCHANGED <<refreshInFlight, pc, join>>
      BY <1>8 DEF ServePost, Answer, Posts
    <2> QED BY <2>1
  <1>9. ASSUME NEW c \in Calls, FinishClaim(c) PROVE FlightInv'
    BY <1>9 DEF FinishClaim, Answer
  <1>10. ASSUME NEW o \in Ops, FaultData(o) PROVE FlightInv'
    BY <1>10 DEF FaultData
  <1>11. ASSUME NEW c \in Calls, FaultPost(c) PROVE FlightInv'
    BY <1>11 DEF FaultPost, Answer
  <1>12. CASE Pause \/ Kill \/ ForeignActivate \/ ForeignFinish
    BY <1>12 DEF Pause, Kill, ForeignActivate, ForeignFinish
  <1>13. CASE UNCHANGED vars
    BY <1>13 DEF vars
  <1> QED
    BY <1>1, <1>2, <1>3, <1>4, <1>5, <1>6, <1>7, <1>8, <1>9, <1>10, <1>11,
       <1>12, <1>13 DEF Next, OpStep, ResumerStep, PostStep, EnvStep

(* _refreshInFlight is the one activate in flight, in every reachable state. *)
THEOREM AlwaysSingleActivation == Spec => []SingleActivation
  <1>1. Spec => [](TypeInv /\ FlightInv)
    BY InitTypeInv, StepTypeInv, InitFlightInv, StepFlightInv, PTL DEF Spec
  <1>2. FlightInv => SingleActivation
    BY DEF FlightInv
  <1> QED BY <1>1, <1>2, PTL

-----------------------------------------------------------------------------
(***************************************************************************)
(* While only operations of this instance activate the sandbox, the resume *)
(* being carried out is the claim of the activate in flight.               *)
(***************************************************************************)
Solo == NoResume /\ foreign = 0 /\ faults = 0

(* A resume() that has been called is never called back. *)
LEMMA NoResumeBefore == TypeInv /\ [Next]_vars /\ NoResume' => NoResume
  <1> SUFFICES ASSUME TypeInv, [Next]_vars, NEW r \in Resumers,
                      pc[r] # "idle"
               PROVE  pc'[r] # "idle"
    BY DEF NoResume
  <1> USE CallsAssumption DEF TypeInv, TypeOK, Calls, clientVars
  <1>1. ASSUME NEW o \in Ops, OpStep(o) PROVE pc'[r] # "idle"
    BY <1>1 DEF OpStep, Start, Receive, RetryWithFresh, ServeData, End
  <1>2. ASSUME NEW q \in Resumers, ResumerStep(q) PROVE pc'[r] # "idle"
    BY <1>2 DEF ResumerStep, Resume, ResumeReturns, End
  <1>3. CASE UNCHANGED pc
    BY <1>3
  <1> QED
    BY <1>1, <1>2, <1>3 DEF Next, PostStep, EnvStep, Settle, ServePost,
       FinishClaim, Pause, Kill, ForeignActivate, ForeignFinish, FaultData,
       FaultPost, vars

(* Without one, the only post in flight is the activate. *)
LEMMA OnlyActivates ==
  FlightInv /\ NoResume => \A c \in Calls : Flying(c) => c = refreshInFlight
  BY DEF FlightInv, SingleActivation, NothingPosted, NoResume, Flying, Calls

ClaimInv ==
  Solo =>
    /\ status = "resuming" => claim \in Ops /\ post[claim].phase = "claimed"
    /\ \A c \in Calls : post[c].err # "409"

LEMMA InitClaimInv == Init => ClaimInv
  BY DEF Init, ServerInit, ClaimInv, NoPost

LEMMA StepClaimInv == TypeInv /\ FlightInv /\ ClaimInv /\ [Next]_vars => ClaimInv'
  <1> SUFFICES ASSUME TypeInv, FlightInv, ClaimInv, [Next]_vars, Solo'
               PROVE  ClaimInv'
    BY DEF ClaimInv
  <1>n. NoResume
    BY NoResumeBefore DEF Solo
  <1> USE <1>n, CallsAssumption
      DEF TypeInv, TypeOK, Calls, clientVars, serverVars, envVars, Solo, ClaimInv
  <1>1. ASSUME NEW o \in Ops, Start(o) PROVE ClaimInv'
    BY <1>1 DEF Start
  <1>2. ASSUME NEW o \in Ops, Receive(o) PROVE ClaimInv'
    <2>1. CASE UNCHANGED post
      BY <1>2, <2>1 DEF Receive
    <2>2. CASE pc[o] = "first" /\ StartRefresh(o)
      <3>1. post[o].phase = "none"
        BY <2>2 DEF FlightInv, NothingPosted
      <3>2. /\ post'[o].err = "none"
            /\ \A d \in Calls \ {o} : post'[d] = post[d]
        BY <2>2 DEF StartRefresh, SentPost
      <3>3. UNCHANGED <<serverVars, envVars>>
        BY <1>2 DEF Receive
      <3> QED BY <3>1, <3>2, <3>3
    <2> QED BY <1>2, <2>1, <2>2 DEF Receive, RefreshActivate, JoinRefresh
  <1>3. ASSUME NEW o \in Ops, RetryWithFresh(o) PROVE ClaimInv'
    BY <1>3 DEF RetryWithFresh
  <1>4. ASSUME NEW o \in Ops, ServeData(o) PROVE ClaimInv'
    BY <1>4 DEF ServeData
  <1>5. ASSUME NEW r \in Resumers, ResumerStep(r) PROVE ClaimInv'
    BY <1>5 DEF ResumerStep, Resume, ResumeReturns, NoResume, End
  <1>6. ASSUME NEW c \in Calls, Settle(c) PROVE ClaimInv'
    BY <1>6 DEF Settle
  <1>7. ASSUME NEW c \in Calls, ServePost(c) PROVE ClaimInv'
    <2>1. status # "resuming"
      <3> SUFFICES ASSUME status = "resuming" PROVE FALSE
        OBVIOUS
      <3>1. claim \in Ops /\ post[claim].phase = "claimed"
        BY <1>7 DEF ServePost
      <3>2. Flying(claim) /\ Flying(c)
        BY <1>7, <3>1 DEF ServePost, Flying
      <3>3. claim = c
        BY <3>1, <3>2, OnlyActivates
      <3> QED BY <1>7, <3>1, <3>3 DEF ServePost
    <2>0. c \in Ops
      BY <1>7, OnlyActivates DEF ServePost, Flying
    <2>2. CASE ClaimResume(c) /\ post' = [post EXCEPT ![c].phase = "claimed"]
      BY <1>7, <2>0, <2>2 DEF ServePost, ClaimResume, Posts
    <2>3. CASE c \in Ops /\ Rotate /\ Answer(c, "none", gen + 1)
      BY <1>7, <2>3 DEF ServePost, Rotate, Answer
    <2>4. CASE status = "deleted" /\ Answer(c, "404", 0) /\ UNCHANGED serverVars
      BY <1>7, <2>4 DEF ServePost, Answer
    <2> QED BY <1>7, <2>0, <2>1, <2>2, <2>3, <2>4 DEF ServePost
  <1>8. ASSUME NEW c \in Calls, FinishClaim(c) PROVE ClaimInv'
    BY <1>8 DEF FinishClaim, FinishResume, Answer
  <1>9. ASSUME NEW o \in Ops, FaultData(o) PROVE ClaimInv'
    BY <1>9 DEF FaultData
  <1>10. ASSUME NEW c \in Calls, FaultPost(c) PROVE ClaimInv'
    BY <1>10 DEF FaultPost
  <1>11. CASE Pause \/ Kill \/ ForeignActivate \/ ForeignFinish
    BY <1>11 DEF Pause, Kill, ForeignActivate, ForeignFinish, PauseSandbox,
                 DeleteSandbox, FinishResume
  <1>12. CASE UNCHANGED vars
    BY <1>12 DEF vars
  <1> QED
    BY <1>1, <1>2, <1>3, <1>4, <1>5, <1>6, <1>7, <1>8, <1>9, <1>10, <1>11,
       <1>12 DEF Next, OpStep, ResumerStep, PostStep, EnvStep

(* The calls of one instance never lose a claim to each other. *)
THEOREM AlwaysNoSelfConflict == Spec => []NoSelfConflict
  <1>1. Spec => [](TypeInv /\ FlightInv /\ ClaimInv)
    BY InitTypeInv, StepTypeInv, InitFlightInv, StepFlightInv, InitClaimInv,
       StepClaimInv, PTL DEF Spec
  <1>2. ClaimInv => NoSelfConflict
    BY DEF ClaimInv, NoSelfConflict, Solo
  <1> QED BY <1>1, <1>2, PTL

-----------------------------------------------------------------------------
(***************************************************************************)
(* An operation that has been carried out is over, or about to be told so  *)
(* by an answer that is never retried.                                     *)
(***************************************************************************)
RunInv ==
  \A o \in Ops :
    /\ runs[o] \in {0, 1}
    /\ runs[o] = 1 =>
         \/ pc[o] = "ended"
         \/ /\ pc[o] \in {"first", "retry"}
            /\ req[o].phase = "answered"
            /\ req[o].ans \in {"ok", "500", "net"}
    /\ req[o].phase # "none" => pc[o] \in {"first", "retry"}
    /\ req[o].phase = "answered" /\ req[o].ans = "ok" => runs[o] = 1
    /\ outcome[o] = "ok" => runs[o] = 1

LEMMA InitRunInv == Init => RunInv
  BY DEF Init, RunInv, NoReq, Calls

LEMMA StepRunInv == TypeInv /\ FlightInv /\ RunInv /\ [Next]_vars => RunInv'
  <1> SUFFICES ASSUME TypeInv, FlightInv, RunInv, [Next]_vars PROVE RunInv'
    OBVIOUS
  <1> USE CallsAssumption
      DEF TypeInv, TypeOK, Calls, clientVars, serverVars, envVars, RunInv
  <1>1. ASSUME NEW o \in Ops, Start(o) PROVE RunInv'
    BY <1>1 DEF Start, SentWith
  <1>2. ASSUME NEW o \in Ops, Receive(o) PROVE RunInv'
    <2>1. /\ \A d \in Ops \ {o} : req'[d] = req[d] /\ pc'[d] = pc[d]
                                 /\ outcome'[d] = outcome[d]
          /\ UNCHANGED runs
      BY <1>2 DEF Receive, End
    <2>2. req'[o].phase = "none"
      BY <1>2 DEF Receive, Requests
    <2>3. CASE pc[o] = "first" /\ Resumable(req[o].ans)
      BY <1>2, <2>1, <2>2, <2>3 DEF Receive, Resumable
    <2>4. CASE ~(pc[o] = "first" /\ Resumable(req[o].ans))
      BY <1>2, <2>1, <2>2, <2>4 DEF Receive, End
    <2> QED BY <2>3, <2>4
  <1>3. ASSUME NEW o \in Ops, RetryWithFresh(o) PROVE RunInv'
    <2>1. post[join[o]].err # "ok"
      BY <1>3, PostUpdates DEF RetryWithFresh, JoinOK, PostErrors
    <2> QED BY <1>3, <2>1 DEF RetryWithFresh, End, SentWith
  <1>4. ASSUME NEW o \in Ops, ServeData(o) PROVE RunInv'
    <2>1. PICK a \in DataAnswers(req[o].tok) :
            /\ req' = [req EXCEPT ![o].phase = "answered", ![o].ans = a]
            /\ runs' = IF a = "ok" THEN [runs EXCEPT ![o] = @ + 1] ELSE runs
      BY <1>4 DEF ServeData
    <2>2. runs[o] = 0
      BY <1>4 DEF ServeData
    <2>3. /\ req'[o].phase = "answered" /\ req'[o].ans = a
          /\ \A d \in Ops \ {o} : req'[d] = req[d] /\ runs'[d] = runs[d]
          /\ runs'[o] = IF a = "ok" THEN 1 ELSE 0
      BY <2>1, <2>2 DEF Requests
    <2> QED BY <1>4, <2>2, <2>3 DEF ServeData
  <1>5. ASSUME NEW r \in Resumers, Resume(r) PROVE RunInv'
    BY <1>5 DEF Resume
  <1>6. ASSUME NEW r \in Resumers, ResumeReturns(r) PROVE RunInv'
    BY <1>6 DEF ResumeReturns, End
  <1>7. ASSUME NEW c \in Calls, PostStep(c) PROVE RunInv'
    BY <1>7 DEF PostStep, Settle, ServePost, FinishClaim
  <1>8. ASSUME NEW o \in Ops, FaultData(o) PROVE RunInv'
    <2>1. PICK a \in {"500", "net"} :
            req' = [req EXCEPT ![o].phase = "answered", ![o].ans = a]
      BY <1>8 DEF FaultData
    <2>2. /\ req'[o].phase = "answered" /\ req'[o].ans = a
          /\ \A d \in Ops \ {o} : req'[d] = req[d]
      BY <2>1 DEF Requests
    <2> QED BY <1>8, <2>2 DEF FaultData
  <1>9. ASSUME NEW c \in Calls, FaultPost(c) PROVE RunInv'
    BY <1>9 DEF FaultPost
  <1>10. CASE Pause \/ Kill \/ ForeignActivate \/ ForeignFinish
    BY <1>10 DEF Pause, Kill, ForeignActivate, ForeignFinish
  <1>11. CASE UNCHANGED vars
    BY <1>11 DEF vars
  <1> QED
    BY <1>1, <1>2, <1>3, <1>4, <1>5, <1>6, <1>7, <1>8, <1>9, <1>10, <1>11
       DEF Next, OpStep, ResumerStep, EnvStep

(* Nothing that withTokenRetry sends again has been carried out already. *)
THEOREM AlwaysAtMostOnce == Spec => []AtMostOnce
  <1>1. Spec => [](TypeInv /\ FlightInv /\ RunInv)
    BY InitTypeInv, StepTypeInv, InitFlightInv, StepFlightInv, InitRunInv,
       StepRunInv, PTL DEF Spec
  <1>2. RunInv => AtMostOnce
    BY DEF RunInv, AtMostOnce
  <1> QED BY <1>1, <1>2, PTL

-----------------------------------------------------------------------------
(***************************************************************************)
(* Until an explicit resume() the only answer that may still be            *)
(* cached is the one of the activate in flight, and it is not older than   *)
(* the token already cached.                                               *)
(***************************************************************************)
TokenInv ==
  /\ accessToken <= gen
  /\ \A c \in Calls : post[c].tok <= gen
  /\ NoResume =>
       \A c \in Calls : post[c].phase = "answered" /\ post[c].err = "none" =>
         post[c].tok >= accessToken

LEMMA InitTokenInv == Init => TokenInv
  BY DEF Init, ServerInit, TokenInv, NoPost

LEMMA StepTokenInv ==
  TypeInv /\ FlightInv /\ TokenInv /\ [Next]_vars => TokenInv'
  <1> SUFFICES ASSUME TypeInv, FlightInv, TokenInv, [Next]_vars PROVE TokenInv'
    OBVIOUS
  <1> USE CallsAssumption
      DEF TypeInv, TypeOK, Calls, clientVars, serverVars, envVars, TokenInv
  <1>p. \A c \in Calls : post[c].tok \in Nat
    BY DEF Posts
  <1>n. NoResume' => NoResume
    BY NoResumeBefore
  <1> USE <1>n
  <1>1. ASSUME NEW o \in Ops, OpStep(o) PROVE TokenInv'
    <2>1. CASE UNCHANGED post
      BY <1>1, <2>1 DEF OpStep, Start, Receive, RetryWithFresh, ServeData
    <2>2. CASE Receive(o) /\ StartRefresh(o)
      <3>1. /\ post'[o] = SentPost
            /\ \A d \in Calls \ {o} : post'[d] = post[d]
            /\ UNCHANGED <<gen, accessToken>>
        BY <2>2 DEF Receive, StartRefresh
      <3> QED BY <3>1 DEF SentPost
    <2> QED BY <1>1, <2>1, <2>2 DEF OpStep, Start, Receive, RetryWithFresh,
                                    ServeData, RefreshActivate, JoinRefresh
  <1>2. ASSUME NEW r \in Resumers, ResumerStep(r) PROVE TokenInv'
    BY <1>p, <1>2 DEF ResumerStep, Resume, ResumeReturns, SentPost, NoResume, End
  <1>3. ASSUME NEW c \in Calls, Settle(c) PROVE TokenInv'
    <2>1. /\ \A d \in Calls : post'[d].tok = post[d].tok
          /\ \A d \in Calls \ {c} : post'[d] = post[d]
          /\ post'[c].phase = "settled"
          /\ accessToken' \in {accessToken, post[c].tok}
          /\ gen' = gen
      BY <1>3 DEF Settle, Posts
    <2>2. NoResume => \A d \in Calls \ {c} : post[d].phase # "answered"
      BY <1>3, OnlyActivates DEF Settle, Flying
    <2> QED BY <1>p, <2>1, <2>2
  <1>4. ASSUME NEW c \in Calls, ServePost(c) \/ FinishClaim(c) PROVE TokenInv'
    <2>1. /\ \A d \in Calls \ {c} : post'[d] = post[d]
          /\ accessToken' = accessToken
          /\ gen' \in {gen, gen + 1}
      BY <1>4 DEF ServePost, FinishClaim, ClaimResume, Rotate, FinishResume,
                  Answer
    <2>2. \/ post'[c].tok = post[c].tok /\ (post'[c].phase = "answered" =>
                                              post' = post)
          \/ post'[c] = [phase |-> "answered", err |-> "none", tok |-> gen + 1]
             /\ gen' = gen + 1
          \/ post'[c].tok = 0 /\ post'[c].err # "none"
      BY <1>4 DEF ServePost, FinishClaim, ClaimResume, Rotate, FinishResume,
                  Answer, Posts
    <2>3. CASE post'[c].tok = post[c].tok /\ (post'[c].phase = "answered" =>
                                               post' = post)
      BY <1>p, <2>1, <2>3
    <2>4. CASE post'[c] = [phase |-> "answered", err |-> "none", tok |-> gen + 1]
               /\ gen' = gen + 1
      BY <1>p, <2>1, <2>4
    <2>5. CASE post'[c].tok = 0 /\ post'[c].err # "none"
      BY <1>p, <2>1, <2>5
    <2> QED BY <2>2, <2>3, <2>4, <2>5
  <1>5. ASSUME NEW o \in Ops, FaultData(o) PROVE TokenInv'
    BY <1>5 DEF FaultData
  <1>6. ASSUME NEW c \in Calls, FaultPost(c) PROVE TokenInv'
    BY <1>6 DEF FaultPost, Answer
  <1>7. CASE Pause \/ Kill \/ ForeignActivate \/ ForeignFinish
    BY <1>p, <1>7 DEF Pause, Kill, ForeignActivate, ForeignFinish, PauseSandbox,
                 DeleteSandbox, Rotate, ClaimResume, FinishResume
  <1>8. CASE UNCHANGED vars
    BY <1>8 DEF vars
  <1> QED
    BY <1>1, <1>2, <1>3, <1>4, <1>5, <1>6, <1>7, <1>8
       DEF Next, PostStep, EnvStep

(* The cached token never goes back to an older generation. *)
THEOREM TokensMoveForward == Spec => TokenNeverRegresses
  <1>1. Spec => [](TypeInv /\ FlightInv /\ TokenInv)
    BY InitTypeInv, StepTypeInv, InitFlightInv, StepFlightInv, InitTokenInv,
       StepTokenInv, PTL DEF Spec
  <1>2. TypeInv /\ TokenInv /\ [Next]_vars =>
          [NoResume => accessToken' >= accessToken]_vars
    <2> SUFFICES ASSUME TypeInv, TokenInv, Next, NoResume
                 PROVE  accessToken' >= accessToken
      OBVIOUS
    <2>1. ASSUME NEW c \in Calls, Settle(c) PROVE accessToken' >= accessToken
      BY <2>1 DEF Settle, TokenInv, TypeInv, TypeOK
    <2>2. CASE UNCHANGED accessToken
      BY <2>2 DEF TypeInv, TypeOK
    <2> QED
      BY <2>1, <2>2 DEF Next, OpStep, ResumerStep, PostStep, EnvStep, Start,
         Receive, RetryWithFresh, ServeData, Resume, ResumeReturns, ServePost,
         FinishClaim, Pause, Kill, ForeignActivate, ForeignFinish, FaultData,
         FaultPost, clientVars
  <1> QED BY <1>1, <1>2, PTL DEF Spec, TokenNeverRegresses

-----------------------------------------------------------------------------
(***************************************************************************)
(* On an undisturbed sandbox the newest token is always promised to a      *)
(* call: the one that rotated it last, until another rotates it again.     *)
(* Before the first rotation no call can fail.                             *)
(***************************************************************************)
Promised(o) ==
  \/ outcome[o] = "ok"
  \/ /\ pc[o] = "refresh"
     /\ post[join[o]].phase \in {"answered", "settled"}
     /\ post[join[o]].tok = gen
  \/ /\ pc[o] = "retry"
     /\ \/ req[o].phase = "sent" /\ req[o].tok = gen
        \/ req[o].phase = "answered" /\ req[o].ans = "ok"

Unrotated ==
  \A o \in Ops :
    /\ pc[o] # "retry"
    /\ post[o].phase \in {"none", "sent", "claimed"}
    /\ pc[o] = "ended" => outcome[o] = "ok"

(* What the server answers while nobody else touches the sandbox. *)
CalmAnswers ==
  /\ status # "deleted"
  /\ gen > 0 => status = "active"
  /\ \A o \in Ops :
       /\ req[o].phase = "answered" => req[o].ans \in {"ok", "401", "503"}
       /\ post[o].err = "none"

(* The call that posted the activate awaits it itself. *)
LeaderAwaits == \A o \in Ops : Flying(o) => pc[o] = "refresh" /\ join[o] = o

SomeonePromised == IF gen = 0 THEN Unrotated ELSE \E o \in Ops : Promised(o)

PromiseInv ==
  /\ LeaderAwaits
  /\ Undisturbed =>
       /\ CalmAnswers
       /\ SomeonePromised

LEMMA InitPromiseInv == Init => PromiseInv
  BY DEF Init, ServerInit, PromiseInv, LeaderAwaits, CalmAnswers,
         SomeonePromised, Unrotated, NoReq, NoPost, Flying, Calls

(* Only the instance's own operations step in an undisturbed run. *)
LEMMA UndisturbedSteps ==
  TypeInv /\ FlightInv /\ ClaimInv /\ Next /\ Undisturbed' =>
    /\ Undisturbed
    /\ \E o \in Ops : OpStep(o) \/ PostStep(o)
  <1> SUFFICES ASSUME TypeInv, FlightInv, ClaimInv, Next, Undisturbed'
               PROVE  Undisturbed /\ \E o \in Ops : OpStep(o) \/ PostStep(o)
    OBVIOUS
  <1> USE CallsAssumption
      DEF TypeInv, TypeOK, Calls, clientVars, serverVars, envVars, Undisturbed
  <1>1. NoResume
    BY NoResumeBefore
  <1>2. /\ UNCHANGED envVars
        /\ ~EnvStep
    <2>1. ~Pause /\ ~Kill /\ ~ForeignActivate
      BY DEF Pause, Kill, ForeignActivate
    <2>2. \A o \in Ops : ~FaultData(o)
      BY DEF FaultData
    <2>3. \A c \in Calls : ~FaultPost(c)
      BY DEF FaultPost
    <2>4. ~ForeignFinish
      <3> SUFFICES ASSUME ForeignFinish PROVE FALSE
        OBVIOUS
      <3>1. status = "resuming" /\ claim = NoCall /\ UNCHANGED envVars
        BY DEF ForeignFinish, FinishResume
      <3>2. Solo
        BY <1>1, <3>1 DEF Solo
      <3> QED BY <3>1, <3>2 DEF ClaimInv
    <2>5. ~EnvStep
      BY <2>1, <2>2, <2>3, <2>4 DEF EnvStep
    <2>6. UNCHANGED envVars
      BY <2>5 DEF Next, OpStep, ResumerStep, PostStep, Start, Receive,
         RetryWithFresh, ServeData, Resume, ResumeReturns, Settle, ServePost,
         FinishClaim
    <2> QED BY <2>5, <2>6
  <1>3. Undisturbed /\ Solo
    BY <1>1, <1>2 DEF Solo
  <1>4. ASSUME NEW r \in Resumers, ResumerStep(r) PROVE FALSE
    BY <1>1, <1>4 DEF ResumerStep, Resume, ResumeReturns, NoResume
  <1>5. ASSUME NEW c \in Calls, PostStep(c) PROVE c \in Ops
    <2>1. CASE Flying(c)
      BY <1>1, <2>1, OnlyActivates
    <2>2. CASE FinishClaim(c)
      BY <1>3, <2>2 DEF FinishClaim, FinishResume, ClaimInv
    <2> QED BY <1>5, <2>1, <2>2 DEF PostStep, Settle, ServePost, Flying
  <1> QED BY <1>2, <1>3, <1>4, <1>5 DEF Next

LEMMA StepLeaderAwaits ==
  TypeInv /\ RunInv /\ LeaderAwaits /\ [Next]_vars => LeaderAwaits'
  <1> SUFFICES ASSUME TypeInv, RunInv, LeaderAwaits, [Next]_vars
               PROVE  LeaderAwaits'
    OBVIOUS
  <1> USE CallsAssumption
      DEF TypeInv, TypeOK, Calls, clientVars, serverVars, envVars, LeaderAwaits,
          Flying
  <1>1. ASSUME NEW o \in Ops, Receive(o) PROVE LeaderAwaits'
    <2>1. ~Flying(o)
      BY <1>1 DEF Receive, RunInv
    <2>2. CASE pc[o] = "first" /\ Resumable(req[o].ans) /\ JoinRefresh(o)
      BY <1>1, <2>1, <2>2 DEF Receive, JoinRefresh
    <2>3. CASE pc[o] = "first" /\ Resumable(req[o].ans) /\ StartRefresh(o)
      BY <1>1, <2>1, <2>3 DEF Receive, StartRefresh, SentPost
    <2>4. CASE ~(pc[o] = "first" /\ Resumable(req[o].ans))
      BY <1>1, <2>1, <2>4 DEF Receive, End
    <2> QED BY <1>1, <2>2, <2>3, <2>4 DEF Receive, RefreshActivate
  <1>2. ASSUME NEW o \in Ops, Start(o) \/ RetryWithFresh(o) \/ ServeData(o)
        PROVE  LeaderAwaits'
    BY <1>2 DEF Start, RetryWithFresh, ServeData, End
  <1>3. ASSUME NEW r \in Resumers, ResumerStep(r) PROVE LeaderAwaits'
    BY <1>3 DEF ResumerStep, Resume, ResumeReturns, End
  <1>4. ASSUME NEW c \in Calls, PostStep(c) \/ FaultPost(c) PROVE LeaderAwaits'
    <2>1. \A d \in Calls : post'[d].phase \in {"sent", "claimed", "answered"} =>
                             post[d].phase \in {"sent", "claimed", "answered"}
      BY <1>4 DEF PostStep, Settle, ServePost, FinishClaim, FaultPost, Answer, Posts
    <2>2. UNCHANGED <<pc, join>>
      BY <1>4 DEF PostStep, Settle, ServePost, FinishClaim, FaultPost
    <2> QED BY <2>1, <2>2
  <1>5. ASSUME NEW o \in Ops, FaultData(o) PROVE LeaderAwaits'
    BY <1>5 DEF FaultData
  <1>6. CASE Pause \/ Kill \/ ForeignActivate \/ ForeignFinish \/ UNCHANGED vars
    BY <1>6 DEF Pause, Kill, ForeignActivate, ForeignFinish, vars
  <1> QED
    BY <1>1, <1>2, <1>3, <1>4, <1>5, <1>6 DEF Next, OpStep, PostStep, EnvStep

LEMMA StepPromiseInv ==
  TypeInv /\ FlightInv /\ ClaimInv /\ RunInv /\ PromiseInv /\ [Next]_vars
    => PromiseInv'
  <1> SUFFICES ASSUME TypeInv, FlightInv, ClaimInv, RunInv, PromiseInv,
                      [Next]_vars
               PROVE  PromiseInv'
    OBVIOUS
  <1>a. LeaderAwaits'
    BY StepLeaderAwaits DEF PromiseInv
  <1>b. CASE UNCHANGED vars
    <2> USE <1>b DEF vars, clientVars, serverVars, envVars
    <2>1. Undisturbed' <=> Undisturbed
      BY DEF Undisturbed, NoResume
    <2>2. CalmAnswers' <=> CalmAnswers
      BY DEF CalmAnswers
    <2>3. SomeonePromised' <=> SomeonePromised
      BY DEF SomeonePromised, Unrotated, Promised
    <2> QED BY <1>a, <2>1, <2>2, <2>3 DEF PromiseInv
  <1> SUFFICES ASSUME Next, Undisturbed'
               PROVE  CalmAnswers' /\ SomeonePromised'
    BY <1>a, <1>b DEF PromiseInv
  <1>1. /\ Undisturbed /\ Solo
        /\ CalmAnswers
        /\ SomeonePromised
    BY UndisturbedSteps DEF PromiseInv, Undisturbed, Solo
  <1>2. PICK o \in Ops : OpStep(o) \/ PostStep(o)
    BY UndisturbedSteps
  <1> USE <1>1, CallsAssumption
      DEF TypeInv, TypeOK, Calls, clientVars, serverVars, envVars, CalmAnswers,
          SomeonePromised, Unrotated, Promised
  <1>3. CASE Start(o)
    BY <1>3 DEF Start, SentWith
  <1>4. CASE Receive(o)
    <2>1. req[o].phase = "answered" /\ req[o].ans \in {"ok", "401", "503"}
      BY <1>4 DEF Receive
    <2>2. /\ \A d \in Ops \ {o} : /\ req'[d] = req[d] /\ pc'[d] = pc[d]
                                  /\ outcome'[d] = outcome[d] /\ join'[d] = join[d]
          /\ \A d \in Calls \ {o} : post'[d] = post[d]
          /\ req'[o].phase = "none"
          /\ UNCHANGED serverVars
      BY <1>4 DEF Receive, RefreshActivate, JoinRefresh, StartRefresh, End, Requests
    <2>3. CASE pc[o] = "first" /\ Resumable(req[o].ans)
      <3>1. post[o].phase = "none"
        BY <2>3 DEF FlightInv, NothingPosted
      <3>2. /\ pc'[o] = "refresh"
            /\ post'[o] = post[o] \/ post'[o] = SentPost
            /\ outcome'[o] = outcome[o]
        BY <1>4, <2>3 DEF Receive, RefreshActivate, JoinRefresh, StartRefresh
      <3>3. CalmAnswers'
        BY <2>2, <3>2 DEF SentPost
      <3>4. CASE gen = 0
        BY <2>2, <3>1, <3>2, <3>4 DEF SentPost
      <3>5. ASSUME NEW d \in Ops, Promised(d) PROVE Promised(d)'
        BY <2>2, <2>3, <3>1, <3>2, <3>5 DEF JoinOK
      <3> QED BY <2>2, <3>3, <3>4, <3>5
    <2>4. CASE ~(pc[o] = "first" /\ Resumable(req[o].ans))
      <3>1. /\ pc'[o] = "ended" /\ outcome'[o] = req[o].ans
            /\ UNCHANGED <<post, join>>
        BY <1>4, <2>4 DEF Receive, End
      <3>2. gen = 0 => req[o].ans = "ok"
        BY <2>1, <2>4 DEF Resumable, RunInv
      <3>3. CalmAnswers'
        BY <2>2, <3>1
      <3>4. CASE gen = 0
        BY <2>2, <3>1, <3>2, <3>4
      <3>5. ASSUME NEW d \in Ops, Promised(d) PROVE Promised(d)'
        BY <2>1, <2>2, <3>1, <3>5 DEF RunInv
      <3> QED BY <2>2, <3>3, <3>4, <3>5
    <2> QED BY <2>3, <2>4
  <1>5. CASE RetryWithFresh(o)
    <2>1. join[o] \in Ops /\ post[join[o]].err = "none" /\ gen # 0
      BY <1>5 DEF RetryWithFresh, FlightInv, SingleActivation
    <2>2. /\ pc' = [pc EXCEPT ![o] = "retry"]
          /\ req' = [req EXCEPT ![o] = SentWith(post[join[o]].tok)]
          /\ UNCHANGED <<serverVars, join, post, outcome>>
      BY <1>5, <2>1 DEF RetryWithFresh
    <2>3. CalmAnswers'
      BY <2>2 DEF SentWith
    <2>4. ASSUME NEW d \in Ops, Promised(d) PROVE Promised(d)'
      BY <1>5, <2>2, <2>4 DEF RetryWithFresh, SentWith
    <2> QED BY <2>1, <2>2, <2>3, <2>4
  <1>6. CASE ServeData(o)
    <2>1. PICK a \in DataAnswers(req[o].tok) :
            req' = [req EXCEPT ![o].phase = "answered", ![o].ans = a]
      BY <1>6 DEF ServeData
    <2>2. /\ req'[o].phase = "answered" /\ req'[o].ans = a
          /\ \A d \in Ops \ {o} : req'[d] = req[d]
          /\ UNCHANGED <<serverVars, pc, join, post, outcome>>
      BY <1>6, <2>1 DEF ServeData, Requests
    <2>3. /\ a \in {"ok", "401", "503"}
          /\ status = "active" /\ req[o].tok = gen => a = "ok"
      BY <2>1 DEF DataAnswers, Statuses
    <2>4. CalmAnswers'
      BY <2>2, <2>3
    <2>5. ASSUME NEW d \in Ops, Promised(d), gen # 0 PROVE Promised(d)'
      BY <1>6, <2>2, <2>3, <2>5 DEF ServeData
    <2> QED BY <2>2, <2>4, <2>5
  <1>7. CASE Settle(o)
    <2>1. /\ post[o].phase = "answered" /\ post'[o].phase = "settled"
          /\ post'[o].tok = post[o].tok /\ post'[o].err = post[o].err
          /\ \A d \in Calls \ {o} : post'[d] = post[d]
          /\ UNCHANGED <<serverVars, pc, req, join, outcome>>
      BY <1>7 DEF Settle, Posts
    <2>2. CalmAnswers'
      BY <2>1
    <2>3. ASSUME NEW d \in Ops, Promised(d) PROVE Promised(d)'
      BY <2>1, <2>3 DEF JoinOK
    <2> QED BY <2>1, <2>2, <2>3
  <1>8. CASE ServePost(o) \/ FinishClaim(o)
    <2>1. /\ \A d \in Calls \ {o} : post'[d] = post[d]
          /\ UNCHANGED <<pc, req, join, outcome>>
      BY <1>8 DEF ServePost, FinishClaim, Answer
    <2>2. \/ /\ ClaimResume(o)
             /\ post' = [post EXCEPT ![o].phase = "claimed"]
          \/ Rotate /\ Answer(o, "none", gen + 1) /\ Flying(o)
          \/ FinishResume /\ Answer(o, "none", gen + 1) /\ Flying(o)
      <3>1. CASE ServePost(o)
        <4>1. status # "resuming"
          <5> SUFFICES ASSUME status = "resuming" PROVE FALSE
            OBVIOUS
          <5>1. claim \in Ops /\ post[claim].phase = "claimed"
            BY DEF ClaimInv
          <5>2. Flying(claim) /\ Flying(o)
            BY <3>1, <5>1 DEF ServePost, Flying
          <5>3. claim = o
            BY <5>1, <5>2, OnlyActivates DEF Solo
          <5> QED BY <3>1, <5>1, <5>3 DEF ServePost
        <4> QED BY <3>1, <4>1 DEF ServePost, Flying
      <3>2. CASE FinishClaim(o)
        BY <3>2 DEF FinishClaim, FinishResume, ClaimInv, Flying
      <3> QED BY <1>8, <3>1, <3>2
    <2>3. CASE ClaimResume(o) /\ post' = [post EXCEPT ![o].phase = "claimed"]
      <3>1. /\ gen' = gen /\ gen = 0 /\ status' = "resuming"
            /\ post'[o].phase = "claimed" /\ post'[o].err = post[o].err
        BY <2>3 DEF ClaimResume, Posts
      <3> QED BY <2>1, <3>1
    <2>4. CASE /\ Rotate \/ FinishResume
               /\ Answer(o, "none", gen + 1) /\ Flying(o)
      <3>1. /\ gen' = gen + 1 /\ status' = "active"
            /\ post'[o] = [phase |-> "answered", err |-> "none", tok |-> gen + 1]
        BY <2>4 DEF Rotate, FinishResume, Answer
      <3>2. pc[o] = "refresh" /\ join[o] = o
        BY <2>4 DEF PromiseInv, LeaderAwaits
      <3>3. CalmAnswers'
        BY <2>1, <3>1
      <3>4. Promised(o)'
        BY <2>1, <3>1, <3>2
      <3> QED BY <3>1, <3>3, <3>4
    <2> QED BY <2>2, <2>3, <2>4
  <1> QED BY <1>2, <1>3, <1>4, <1>5, <1>6, <1>7, <1>8 DEF OpStep, PostStep

(* Of the calls on an undisturbed sandbox at least one succeeds. *)
THEOREM AlwaysSomeoneGetsThrough == Spec => []SomeoneGetsThrough
  <1>1. Spec => [](TypeInv /\ FlightInv /\ ClaimInv /\ RunInv /\ PromiseInv)
    BY InitTypeInv, StepTypeInv, InitFlightInv, StepFlightInv, InitClaimInv,
       StepClaimInv, InitRunInv, StepRunInv, InitPromiseInv, StepPromiseInv, PTL
       DEF Spec
  <1>2. PromiseInv => SomeoneGetsThrough
    BY DEF PromiseInv, SomeoneGetsThrough, SomeonePromised, Unrotated, Promised
  <1> QED BY <1>1, <1>2, PTL

-----------------------------------------------------------------------------
(***************************************************************************)
(* The refinement of SingleFlight.  A call joins once, when it is refused, *)
(* and the promise it joined is the one in flight or has settled for good. *)
(***************************************************************************)
BoardInv ==
  \A o \in Ops :
    /\ pc[o] \in {"idle", "first"} => join[o] = NoCall
    /\ join[o] # NoCall =>
         /\ join[o] \in Ops
         /\ join[o] = refreshInFlight \/ Landed(o)

LEMMA JoinedOps ==
  BoardInv => \A d \in Ops : join[d] # NoCall => join[d] \in Ops
  BY DEF BoardInv

LEMMA InitBoardInv == Init => BoardInv
  BY DEF Init, BoardInv, Calls

LEMMA StepBoardInv ==
  TypeInv /\ FlightInv /\ BoardInv /\ [Next]_vars => BoardInv'
  <1> SUFFICES ASSUME TypeInv, FlightInv, BoardInv, [Next]_vars PROVE BoardInv'
    OBVIOUS
  <1> USE CallsAssumption
      DEF TypeInv, TypeOK, Calls, clientVars, serverVars, envVars, BoardInv, Landed
  <1>1. ASSUME NEW o \in Ops, Receive(o) PROVE BoardInv'
    <2>1. CASE pc[o] = "first" /\ Resumable(req[o].ans) /\ JoinRefresh(o)
      BY <1>1, <2>1 DEF Receive, JoinRefresh
    <2>2. CASE pc[o] = "first" /\ Resumable(req[o].ans) /\ StartRefresh(o)
      <3>1. post[o].phase = "none"
        BY <2>2 DEF FlightInv, NothingPosted
      <3>2. /\ join' = [join EXCEPT ![o] = o]
            /\ refreshInFlight' = o /\ refreshInFlight = NoCall
            /\ \A d \in Calls \ {o} : post'[d] = post[d]
            /\ pc' = [pc EXCEPT ![o] = "refresh"]
        BY <1>1, <2>2 DEF Receive, StartRefresh
      <3> QED BY <3>1, <3>2
    <2>3. CASE ~(pc[o] = "first" /\ Resumable(req[o].ans))
      BY <1>1, <2>3 DEF Receive, End
    <2> QED BY <1>1, <2>1, <2>2, <2>3 DEF Receive, RefreshActivate
  <1>2. ASSUME NEW o \in Ops, Start(o) \/ RetryWithFresh(o) \/ ServeData(o)
        PROVE  BoardInv'
    <2>1. CASE Start(o)
      BY <2>1 DEF Start
    <2>2. CASE RetryWithFresh(o)
      BY <2>2 DEF RetryWithFresh, End
    <2>3. CASE ServeData(o)
      BY <2>3 DEF ServeData
    <2> QED BY <1>2, <2>1, <2>2, <2>3
  <1>3. ASSUME NEW r \in Resumers, ResumerStep(r) PROVE BoardInv'
    <2>1. /\ \A d \in Ops : post'[d] = post[d] /\ join'[d] = join[d]
                             /\ pc'[d] = pc[d]
          /\ refreshInFlight' = refreshInFlight
      BY <1>3 DEF ResumerStep, Resume, ResumeReturns, End
    <2> QED BY <2>1, JoinedOps
  <1>4. ASSUME NEW c \in Calls, Settle(c) PROVE BoardInv'
    <2>1. c \in Ops => refreshInFlight = c
      BY <1>4 DEF Settle, FlightInv, SingleActivation, Flying
    <2> QED BY <1>4, <2>1 DEF Settle, Posts
  <1>5. ASSUME NEW c \in Calls, ServePost(c) \/ FinishClaim(c) \/ FaultPost(c)
        PROVE  BoardInv'
    <2>1. /\ \A d \in Calls : post[d].phase = "settled" => post'[d] = post[d]
          /\ UNCHANGED <<pc, join, refreshInFlight>>
      BY <1>5 DEF ServePost, FinishClaim, FaultPost, Flying, Answer, Posts
    <2> QED BY <2>1
  <1>6. ASSUME NEW o \in Ops, FaultData(o) PROVE BoardInv'
    BY <1>6 DEF FaultData
  <1>7. CASE Pause \/ Kill \/ ForeignActivate \/ ForeignFinish \/ UNCHANGED vars
    BY <1>7 DEF Pause, Kill, ForeignActivate, ForeignFinish, vars
  <1> QED
    BY <1>1, <1>2, <1>3, <1>4, <1>5, <1>6, <1>7
       DEF Next, OpStep, PostStep, EnvStep

Aboard == {o \in Ops : join[o] # NoCall /\ ~Landed(o)}
Given == [o \in Ops |-> IF Landed(o) THEN post[join[o]] ELSE NoCall]

(* A step that neither joins, settles nor starts an activate is invisible. *)
LEMMA Invisible ==
  ASSUME TypeInv, BoardInv, UNCHANGED <<refreshInFlight, join>>,
         \A o \in Ops : join[o] # NoCall =>
            IF post[join[o]].phase = "settled" THEN post'[join[o]] = post[join[o]]
            ELSE post'[join[o]].phase # "settled"
  PROVE  UNCHANGED Flight!flightVars
  <1>1. \A o \in Ops : Landed(o)' = Landed(o)
    BY DEF Landed
  <1>2. Aboard' = Aboard
    BY <1>1 DEF Aboard
  <1>3. Given' = Given
    BY <1>1 DEF Given, Landed
  <1> QED BY <1>2, <1>3 DEF Flight!flightVars, Aboard, Given

(* Every step of the instance is a step of SingleFlight, or invisible to it. *)
LEMMA StepRefines ==
  TypeInv /\ FlightInv /\ BoardInv /\ [Next]_vars => [Flight!Next]_(Flight!flightVars)
  <1> SUFFICES ASSUME TypeInv, FlightInv, BoardInv, [Next]_vars
               PROVE  [Flight!Next]_(Flight!flightVars)
    OBVIOUS
  <1> USE CallsAssumption
      DEF TypeInv, TypeOK, Calls, clientVars, serverVars, envVars
  <1>1. ASSUME NEW o \in Ops, Receive(o) PROVE [Flight!Next]_(Flight!flightVars)
    <2>1. CASE pc[o] = "first" /\ Resumable(req[o].ans)
      <3>1. join[o] = NoCall /\ ~Landed(o)
        BY <2>1 DEF BoardInv, Landed
      <3>2. /\ join' = [join EXCEPT ![o] = refreshInFlight']
            /\ refreshInFlight' \in Ops
            /\ refreshInFlight' = IF refreshInFlight = NoCall THEN o
                                  ELSE refreshInFlight
            /\ \A d \in Calls \ {o} : post'[d] = post[d]
            /\ post'[o] = post[o] \/ (post[o].phase = "none" /\ post'[o] = SentPost)
        BY <1>1, <2>1 DEF Receive, RefreshActivate, JoinRefresh, StartRefresh,
                          FlightInv, NothingPosted
      <3>3. post'[refreshInFlight'].phase # "settled"
        <4>1. CASE refreshInFlight = NoCall
          BY <1>1, <2>1, <4>1 DEF Receive, RefreshActivate, JoinRefresh,
                                  StartRefresh, SentPost
        <4>2. CASE refreshInFlight # NoCall
          BY <1>1, <2>1, <4>2 DEF Receive, RefreshActivate, JoinRefresh,
             StartRefresh, FlightInv, SingleActivation, Flying
        <4> QED BY <4>1, <4>2
      <3>4. \A d \in Ops : Landed(d)' = Landed(d)
        BY <3>1, <3>2, <3>3 DEF Landed, BoardInv, SentPost
      <3>5. Aboard' = Aboard \cup {o}
        BY <3>1, <3>2, <3>4 DEF Aboard
      <3>6. Given' = Given
        BY <3>1, <3>2, <3>4 DEF Given, Landed, BoardInv, SentPost
      <3>7. o \notin Aboard /\ Given[o] = NoCall
        BY <3>1 DEF Aboard, Given
      <3>8. Flight!Board(o)
        BY <3>2, <3>5, <3>6, <3>7 DEF Flight!Board, Aboard, Given
      <3> QED BY <3>8 DEF Flight!Next
    <2>2. CASE ~(pc[o] = "first" /\ Resumable(req[o].ans))
      BY <1>1, <2>2, Invisible DEF Receive
    <2> QED BY <2>1, <2>2
  <1>2. ASSUME NEW o \in Ops, Start(o) \/ RetryWithFresh(o) \/ ServeData(o)
        PROVE  UNCHANGED Flight!flightVars
    BY <1>2, Invisible DEF Start, RetryWithFresh, ServeData
  <1>3. ASSUME NEW r \in Resumers, ResumerStep(r)
        PROVE  UNCHANGED Flight!flightVars
    <2>1. /\ refreshInFlight' = refreshInFlight
          /\ \A d \in Ops : post'[d] = post[d] /\ join'[d] = join[d]
      BY <1>3 DEF ResumerStep, Resume, ResumeReturns
    <2>2. \A d \in Ops : join[d] # NoCall => join[d] \in Ops
      BY JoinedOps
    <2>3. \A d \in Ops : Landed(d)' = Landed(d)
      BY <2>1, <2>2 DEF Landed
    <2>4. Aboard' = Aboard /\ Given' = Given
      BY <2>1, <2>2, <2>3 DEF Aboard, Given, Landed
    <2> QED BY <2>1, <2>4 DEF Flight!flightVars, Aboard, Given
  <1>4. ASSUME NEW c \in Calls, Settle(c) PROVE [Flight!Next]_(Flight!flightVars)
    <2>0. /\ post[c].phase = "answered" /\ post'[c].phase = "settled"
          /\ \A d \in Calls \ {c} : post'[d] = post[d]
          /\ join' = join
          /\ post'[c] \in Posts
      BY <1>4, PostUpdates DEF Settle, Posts
    <2>1. CASE c \in Ops
      <3>1. refreshInFlight = c /\ refreshInFlight' = NoCall
        BY <1>4, <2>1 DEF Settle, FlightInv, SingleActivation, Flying
      <3>2. \A d \in Ops : d \in Aboard <=> join[d] = c
        BY <2>0, <2>1, <3>1 DEF Aboard, Landed, BoardInv
      <3>3. \A d \in Ops : Landed(d)' <=> join[d] # NoCall
        BY <2>0, <2>1, <3>1 DEF Landed, BoardInv
      <3>4. Aboard' = {}
        BY <2>0, <3>3 DEF Aboard
      <3>5. \A d \in Ops \ Aboard : Given'[d] = Given[d]
        BY <2>0, <2>1, <3>1, <3>2, <3>3 DEF Given, Aboard, Landed, BoardInv
      <3>6. \A d \in Aboard : Given'[d] = post'[c]
        BY <2>0, <3>2, <3>3 DEF Given, Aboard
      <3>7. Given' = [d \in Ops |-> Given'[d]]
        BY DEF Given
      <3>8. Flight!Land
        BY <2>0, <2>1, <3>1, <3>4, <3>5, <3>6, <3>7 DEF Flight!Land, Aboard, Given
      <3> QED BY <3>8 DEF Flight!Next
    <2>2. CASE c \in Resumers
      <3>1. refreshInFlight' = refreshInFlight
        BY <1>4, <2>2 DEF Settle
      <3>2. \A d \in Ops : join[d] # NoCall => post'[join[d]] = post[join[d]]
        BY <2>0, <2>2, JoinedOps
      <3>3. UNCHANGED <<refreshInFlight, join>>
        BY <2>0, <3>1
      <3> QED BY <3>2, <3>3, Invisible
    <2> QED BY <2>1, <2>2
  <1>5. ASSUME NEW c \in Calls, ServePost(c) \/ FinishClaim(c) \/ FaultPost(c)
        PROVE  UNCHANGED Flight!flightVars
    <2>1. /\ \A d \in Calls : IF post[d].phase = "settled" THEN post'[d] = post[d]
                              ELSE post'[d].phase # "settled"
          /\ UNCHANGED <<refreshInFlight, join>>
      BY <1>5 DEF ServePost, FinishClaim, FaultPost, Flying, Answer, Posts
    <2> QED BY <2>1, Invisible
  <1>6. ASSUME NEW o \in Ops, FaultData(o) PROVE UNCHANGED Flight!flightVars
    BY <1>6, Invisible DEF FaultData
  <1>7. CASE Pause \/ Kill \/ ForeignActivate \/ ForeignFinish \/ UNCHANGED vars
    BY <1>7, Invisible DEF Pause, Kill, ForeignActivate, ForeignFinish, vars
  <1> QED
    BY <1>1, <1>2, <1>3, <1>4, <1>5, <1>6, <1>7
       DEF Next, OpStep, PostStep, EnvStep

(* The instance implements the single flight. *)
THEOREM ImplementsSingleFlight == Spec => Coalesces
  <1>1. Init => Flight!Init
    BY CallsAssumption DEF Init, Flight!Init, Landed, Calls
  <1>2. Spec => [](TypeInv /\ FlightInv /\ BoardInv)
    BY InitTypeInv, StepTypeInv, InitFlightInv, StepFlightInv, InitBoardInv,
       StepBoardInv, PTL DEF Spec
  <1> QED BY <1>1, <1>2, StepRefines, PTL DEF Spec, Coalesces, Flight!Spec
=============================================================================
