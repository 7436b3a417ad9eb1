----------------------------- MODULE HttpProofs -----------------------------
(***************************************************************************)
(* Theorems about HttpRetry, for any set of calls of either SDK and any    *)
(* number of attempts, and about ExecStream, for any number of events and  *)
(* any errors its callbacks may throw.                                     *)
(***************************************************************************)
EXTENDS HttpRetry, ExecStream, TLAPS

-----------------------------------------------------------------------------
(* The inductive invariant: what each stage of a call knows about its      *)
(* attempts, its answer, and the work the server may still do for it.      *)

Attempts(c) ==
  /\ pc[c] = "idle" <=> attempt[c] = 0 /\ pc[c] # "done"
  /\ pc[c] \in {"draining", "sleeping"} => Retries(c)
  /\ ~Retryable(c) => attempt[c] <= 1
  /\ \A k \in 1 .. MaxAttempts : <<c, k>> \in net => k <= attempt[c]

Answered(c) ==
  /\ pc[c] \in {"draining", "body"} => answer[c] \in Statuses
  /\ pc[c] = "body" /\ c \notin InLoop /\ answer[c] \in Transient => ~Retries(c)
  /\ result[c] # "none" <=> pc[c] = "done"

Posted(c) == Method[c] = "POST" =>
  /\ applied[c] <= 1
  /\ \A k \in 1 .. MaxAttempts : <<c, k>> \in net => applied[c] = 0
  /\ attempt[c] = 0 => applied[c] = 0
  /\ answer[c] = "ok" \/ result[c] = "ok" => applied[c] = 1

Deleted(c) == Method[c] = "DELETE" =>
  /\ answer[c] \in {"ok", "404"} \/ result[c] = "ok" => ~present
  /\ result[c] # "404"

Exhausted(c) == Retryable(c) =>
  /\ result[c] \in Transient => attempt[c] = MaxAttempts
  /\ c \in InLoop /\ result[c] = "network" => attempt[c] = MaxAttempts

Inv(c) == Attempts(c) /\ Answered(c) /\ Posted(c) /\ Deleted(c) /\ Exhausted(c)

IInv ==
  /\ TypeOK
  /\ \A c \in Calls : Inv(c)

-----------------------------------------------------------------------------
(* A step of one call leaves the others alone: no request of theirs is     *)
(* added, and a sandbox that is gone stays gone.                           *)
LeavesAlone(c) ==
  /\ \A d \in Calls \ {c} :
       /\ pc'[d] = pc[d] /\ attempt'[d] = attempt[d] /\ answer'[d] = answer[d]
       /\ result'[d] = result[d] /\ applied'[d] = applied[d]
       /\ \A k \in 1 .. MaxAttempts : <<d, k>> \in net' => <<d, k>> \in net
  /\ present' => present

(* The steps of one call. *)
Step(c) ==
  \/ \E k \in 1 .. MaxAttempts : Serve(c, k)
  \/ ConnectionResets(c) \/ Fetch(c) \/ Headers(c) \/ NetworkError(c) \/ Drained(c)
  \/ BodyRead(c) \/ BodyBreaks(c) \/ TimerFires(c) \/ UserAbort(c)

(* Every step keeps the types and touches one call only. *)
LEMMA TypeStep ==
  ASSUME TypeOK, NEW c \in Calls, Step(c), Inv(c)
  PROVE  TypeOK' /\ LeavesAlone(c)
<1> USE CallsAssumption DEF TypeOK, LeavesAlone, Results, Statuses, Transient
<1>1. CASE \E k \in 1 .. MaxAttempts : Serve(c, k)
  <2>1. PICK k \in 1 .. MaxAttempts : Serve(c, k)
    BY <1>1
  <2> QED
    BY <2>1 DEF Serve, Waits, client
<1>2. CASE ConnectionResets(c)
  BY <1>2 DEF ConnectionResets, Waits, client
<1>3. CASE Fetch(c)
  BY <1>3 DEF Fetch, Cancelled, Goto, End, Inv, Attempts, Retries, AttemptsLeft, Retryable
<1>4. CASE Headers(c)
  BY <1>4 DEF Headers, Goto, Retries, Retryable, AttemptsLeft, server
<1>5. CASE NetworkError(c)
  BY <1>5 DEF NetworkError, RetryOr, Retries, Retryable, AttemptsLeft, Goto, End, server
<1>6. CASE Drained(c)
  BY <1>6 DEF Drained, Goto, server
<1>7. CASE BodyRead(c)
  BY <1>7 DEF Inv, Answered, BodyRead, RetryOr, Retries, Retryable, AttemptsLeft, Reported, Goto, End, server
<1>8. CASE BodyBreaks(c)
  BY <1>8 DEF Inv, Answered, BodyBreaks, CutShort, RetryOr, Retries, Retryable, AttemptsLeft,
       Reported, Goto, End, server
<1>9. CASE TimerFires(c)
  BY <1>9 DEF TimerFires, Timed, Goto, End, server
<1>10. CASE UserAbort(c)
  BY <1>10 DEF Inv, Answered, UserAbort, Cancelled, CutShort, Reported, Goto, End, server
<1> QED
  BY <1>1, <1>2, <1>3, <1>4, <1>5, <1>6, <1>7, <1>8, <1>9, <1>10 DEF Step

(* What holds of a call holds of it after a step of another. *)
LEMMA Frame ==
  ASSUME TypeOK, NEW c \in Calls, LeavesAlone(c),
         NEW d \in Calls \ {c}, Inv(d)
  PROVE  Inv(d)'
BY DEF TypeOK, LeavesAlone, Inv, Attempts, Answered, Posted, Deleted, Exhausted, Retries,
       AttemptsLeft, Retryable

(* What holds of a call holds of it after a step of its own. *)
LEMMA OwnStep ==
  ASSUME TypeOK, NEW c \in Calls, Step(c), Inv(c), TypeOK'
  PROVE  Inv(c)'
<1> USE CallsAssumption DEF TypeOK, Inv, Statuses, Transient, Attempts, Answered, Posted,
      Deleted, Exhausted, Retries, Retryable, AttemptsLeft
<1>1. CASE \E k \in 1 .. MaxAttempts : Serve(c, k)
  <2>1. PICK k \in 1 .. MaxAttempts : Serve(c, k)
    BY <1>1
  <2>2. PICK a \in Statuses \cup {"reset"}, done \in BOOLEAN :
          /\ a = "ok" => done
          /\ a \in {"busy", "404"} => ~done
          /\ Method[c] = "DELETE" => (done => present) /\ (a = "404" => ~present)
          /\ net' = net \ {<<c, k>>}
          /\ applied'[c] = applied[c] + (IF done THEN 1 ELSE 0)
          /\ present' = (present /\ ~(done /\ Method[c] = "DELETE"))
          /\ answer'[c] = IF Waits(c, k) THEN a ELSE answer[c]
    BY <2>1 DEF Serve
  <2>3. /\ <<c, k>> \in net
        /\ pc' = pc /\ attempt' = attempt /\ result' = result
    BY <2>1 DEF Serve, client
  <2>4. Attempts(c)' /\ Exhausted(c)'
    BY <2>2, <2>3
  <2>5. Answered(c)'
    BY <2>2, <2>3 DEF Waits
  <2>6. Posted(c)'
    <3>1. Method[c] = "POST" => /\ applied[c] = 0 /\ k = 1
                                /\ \A j \in 1 .. MaxAttempts : <<c, j>> \notin net'
      BY <2>2, <2>3
    <3> QED
      BY <3>1, <2>2, <2>3 DEF Waits
  <2>7. Deleted(c)'
    BY <2>2, <2>3 DEF Waits
  <2> QED
    BY <2>4, <2>5, <2>6, <2>7
<1>2. CASE ConnectionResets(c)
  BY <1>2 DEF ConnectionResets, Waits, client
<1>3. CASE Fetch(c)
  BY <1>3 DEF Fetch, Cancelled, Goto, End
<1>4. CASE Headers(c)
  BY <1>4 DEF Headers, Goto, server
<1>5. CASE NetworkError(c)
  BY <1>5 DEF NetworkError, RetryOr, Goto, End, server
<1>6. CASE Drained(c)
  BY <1>6 DEF Drained, Goto, server
<1>7. CASE BodyRead(c)
  BY <1>7 DEF BodyRead, RetryOr, Reported, Goto, End, server
<1>8. CASE BodyBreaks(c)
  BY <1>8 DEF BodyBreaks, CutShort, RetryOr, Reported, Goto, End, server
<1>9. CASE TimerFires(c)
  BY <1>9 DEF TimerFires, Timed, Goto, End, server
<1>10. CASE UserAbort(c)
  BY <1>10 DEF UserAbort, Cancelled, CutShort, Reported, Goto, End, server
<1> QED
  BY <1>1, <1>2, <1>3, <1>4, <1>5, <1>6, <1>7, <1>8, <1>9, <1>10 DEF Step

LEMMA Initially == Init => IInv
BY CallsAssumption
   DEF Init, IInv, Inv, TypeOK, Attempts, Answered, Posted, Deleted, Exhausted, Transient

LEMMA Inductive == IInv /\ [Next]_vars => IInv'
<1> SUFFICES ASSUME IInv, [Next]_vars PROVE IInv'
  OBVIOUS
<1>1. CASE Next
  <2>1. PICK c \in Calls : Step(c)
    BY <1>1 DEF Next, Step
  <2>2. TypeOK /\ \A d \in Calls : Inv(d)
    BY DEF IInv
  <2>3. TypeOK' /\ LeavesAlone(c)
    BY <2>1, <2>2, TypeStep
  <2>4. Inv(c)'
    BY <2>1, <2>2, <2>3, OwnStep
  <2>5. ASSUME NEW d \in Calls \ {c} PROVE Inv(d)'
    BY <2>2, <2>3, Frame
  <2> QED
    BY <2>3, <2>4, <2>5 DEF IInv
<1>2. CASE UNCHANGED vars
  BY <1>2 DEF vars, IInv, Inv, TypeOK, Attempts, Answered, Posted, Deleted, Exhausted,
              Retries, AttemptsLeft, Retryable
<1> QED
  BY <1>1, <1>2

LEMMA Invariant == Spec => []IInv
BY Initially, Inductive, PTL DEF Spec

-----------------------------------------------------------------------------
(* Every reachable state is well typed; with it, a call never makes more   *)
(* than MaxAttempts requests.                                              *)
THEOREM TypeCorrect == Spec => []TypeOK
<1>1. IInv => TypeOK
  BY DEF IInv
<1> QED
  BY <1>1, Invariant, PTL

(* A POST is carried out at most once, and reports success only if it was. *)
THEOREM AlwaysPostOnce == Spec => []PostOnce
<1>1. IInv => PostOnce
  BY DEF IInv, Inv, Posted, PostOnce
<1> QED
  BY <1>1, Invariant, PTL

(* kill() succeeds only when the sandbox is gone, and never reports a 404. *)
THEOREM AlwaysKillReportsGone == Spec => []KillReportsGone
<1>1. IInv => KillReportsGone
  BY DEF IInv, Inv, Deleted, KillReportsGone
<1> QED
  BY <1>1, Invariant, PTL

(* A refusal of the moment is reported only from the last attempt.         *)
THEOREM AlwaysOnlyLastTransient == Spec => []OnlyLastTransient
<1>1. IInv => OnlyLastTransient
  BY DEF IInv, Inv, Exhausted, OnlyLastTransient
<1> QED
  BY <1>1, Invariant, PTL

(* Where the body is read within the attempt, as in Python, so is a reset. *)
THEOREM ResetsAreRetriedInLoop == Spec => []ResetsAreRetried
<1>1. IInv => ResetsAreRetried
  BY CallsAssumption DEF IInv, Inv, Exhausted, ResetsAreRetried
<1> QED
  BY <1>1, Invariant, PTL

(* Both: a call that may be retried reports a failure of the moment only    *)
(* from its last attempt.                                                   *)
THEOREM AlwaysRetriesExhausted == Spec => []RetriesExhausted
  BY AlwaysOnlyLastTransient, ResetsAreRetriedInLoop, PTL DEF RetriesExhausted

(* Nothing is sent under a signal that has fired, and a backoff it fired   *)
(* in ends the call as aborted.                                            *)
THEOREM NeverSentAfterAbort == Spec => NothingSentAfterAbort
<1>1. ASSUME TypeOK, Next, NEW c \in Calls, aborted[c]
      PROVE  /\ attempt'[c] = attempt[c]
             /\ pc[c] = "sleeping" /\ pc'[c] # "sleeping" => result'[c] = "aborted"
  <2>1. PICK d \in Calls : Step(d)
    BY <1>1 DEF Next, Step
  <2>2. CASE \E k \in 1 .. MaxAttempts : Serve(d, k)
    BY <1>1, <2>2 DEF Serve, client
  <2>3. CASE ConnectionResets(d)
    BY <1>1, <2>3 DEF ConnectionResets, client
  <2>4. CASE Fetch(d)
    BY <1>1, <2>4 DEF Fetch, Cancelled, Goto, End, TypeOK
  <2>5. CASE Headers(d) \/ NetworkError(d) \/ Drained(d) \/ BodyRead(d)
    BY <1>1, <2>5 DEF Headers, NetworkError, Drained, BodyRead, RetryOr, Goto, End, TypeOK
  <2>6. CASE BodyBreaks(d) \/ TimerFires(d)
    BY <1>1, <2>6 DEF BodyBreaks, TimerFires, Timed, CutShort, RetryOr, Goto, End, TypeOK
  <2>7. CASE UserAbort(d)
    BY <1>1, <2>7 DEF UserAbort, CutShort, Goto, End, TypeOK
  <2> QED
    BY <2>1, <2>2, <2>3, <2>4, <2>5, <2>6, <2>7 DEF Step
<1>2. IInv /\ [Next]_vars =>
        [\A c \in Calls : aborted[c] =>
           /\ attempt'[c] = attempt[c]
           /\ pc[c] = "sleeping" /\ pc'[c] # "sleeping" => result'[c] = "aborted"]_vars
  BY <1>1 DEF IInv
<1> QED
  BY <1>2, Invariant, PTL DEF Spec, NothingSentAfterAbort

-----------------------------------------------------------------------------
(* A streamed command: what the reader holds of one field is what the      *)
(* events it has handled hold of it, in order.  The facts about it are of  *)
(* constants: kept, the field, the events evs, how many of them, n, were   *)
(* handled, and the bad ones, of which a callback threw.                   *)
Rising(s) == \A i, j \in 1 .. Len(s) : i < j => s[i] < s[j]

Kept(kept, field, evs, n, bad) ==
  /\ kept \in Seq(Nat) /\ Rising(kept)
  /\ \A i \in 1 .. Len(kept) : kept[i] \in 1 .. n /\ field \in evs[kept[i]]
  /\ \A k \in 1 .. n : field \in evs[k] /\ k \notin bad => \E i \in 1 .. Len(kept) : kept[i] = k

(* One more event is handled.  It leaves the field out only if it has none, *)
(* or if a callback threw before it was reached.                            *)
LEMMA KeptGrows ==
  ASSUME NEW kept, NEW field, NEW evs, NEW n \in Nat, NEW bad, NEW worse,
         Kept(kept, field, evs, n, bad), bad \subseteq worse, NEW reached \in BOOLEAN,
         reached => field \in evs[n + 1],
         field \in evs[n + 1] => reached \/ n + 1 \in worse
  PROVE  Kept(IF reached THEN Append(kept, n + 1) ELSE kept, field, evs, n + 1, worse)
<1>1. CASE ~reached
  <2>1. \A k \in 1 .. n + 1 : k \in 1 .. n \/ k = n + 1
    OBVIOUS
  <2>2. \A i \in 1 .. Len(kept) : kept[i] \in 1 .. n + 1
    BY DEF Kept
  <2> QED
    BY <1>1, <2>1, <2>2 DEF Kept
<1>2. CASE reached
  <2> DEFINE more == Append(kept, n + 1)
  <2>1. /\ more \in Seq(Nat) /\ Len(kept) \in Nat /\ Len(more) = Len(kept) + 1
        /\ more[Len(kept) + 1] = n + 1
        /\ \A i \in 1 .. Len(kept) : more[i] = kept[i] /\ i \in 1 .. Len(more)
    BY DEF Kept
  <2>2. \A i \in 1 .. Len(more) : i \in 1 .. Len(kept) \/ i = Len(kept) + 1
    BY <2>1
  <2> HIDE DEF more
  <2>3. ASSUME NEW i \in 1 .. Len(kept)
        PROVE  more[i] \in 1 .. n /\ field \in evs[more[i]] /\ more[i] = kept[i]
    BY <2>1 DEF Kept
  <2>4. \A i \in 1 .. Len(more) : more[i] \in 1 .. n + 1 /\ field \in evs[more[i]]
    <3> SUFFICES ASSUME NEW i \in 1 .. Len(more)
                 PROVE  more[i] \in 1 .. n + 1 /\ field \in evs[more[i]]
      OBVIOUS
    <3>1. CASE i \in 1 .. Len(kept)
      BY <2>3, <3>1
    <3>2. CASE i = Len(kept) + 1
      BY <1>2, <2>1, <3>2
    <3> QED
      BY <2>2, <3>1, <3>2
  <2>5. Rising(more)
    <3> SUFFICES ASSUME NEW i \in 1 .. Len(more), NEW j \in 1 .. Len(more), i < j
                 PROVE  more[i] < more[j]
      BY DEF Rising
    <3>1. i \in 1 .. Len(kept)
      BY <2>1
    <3>2. CASE j \in 1 .. Len(kept)
      <4>1. kept[i] < kept[j]
        BY <3>1, <3>2 DEF Kept, Rising
      <4> QED
        BY <2>3, <3>1, <3>2, <4>1
    <3>3. CASE j = Len(kept) + 1
      <4>1. more[j] = n + 1
        BY <2>1, <3>3
      <4>2. more[i] \in 1 .. n
        BY <2>3, <3>1
      <4> QED
        BY <4>1, <4>2
    <3> QED
      BY <2>2, <3>2, <3>3
  <2>6. ASSUME NEW k \in 1 .. n + 1, field \in evs[k] /\ k \notin worse
        PROVE  \E i \in 1 .. Len(more) : more[i] = k
    <3>1. CASE k = n + 1
      <4>1. Len(kept) + 1 \in 1 .. Len(more)
        BY <2>1
      <4> QED
        BY <2>1, <3>1, <4>1
    <3>2. CASE k # n + 1
      <4>1. k \in 1 .. n
        BY <3>2
      <4>2. PICK i \in 1 .. Len(kept) : kept[i] = k
        BY <2>6, <4>1 DEF Kept
      <4> QED
        BY <2>1, <4>2
    <3> QED
      BY <3>1, <3>2
  <2>7. Kept(more, field, evs, n + 1, worse)
    BY <2>1, <2>4, <2>5, <2>6 DEF Kept
  <2> QED
    BY <1>2, <2>7 DEF more
<1> QED
  BY <1>1, <1>2

(* The command writes one more event: those before it stay.                *)
LEMMA KeptOfMore ==
  ASSUME NEW kept, NEW field, NEW evs \in Seq(Events), NEW e \in Events, NEW bad,
         NEW n \in 0 .. Len(evs), Kept(kept, field, evs, n, bad)
  PROVE  Kept(kept, field, Append(evs, e), n, bad)
<1>1. \A k \in 1 .. n : Append(evs, e)[k] = evs[k]
  OBVIOUS
<1> QED
  BY <1>1 DEF Kept

LEMMA NothingKept ==
  ASSUME NEW field, NEW evs, NEW bad
  PROVE  Kept(<<>>, field, evs, 0, bad)
BY DEF Kept, Rising

(* The reader is at a prefix of the events, of which only the last one can  *)
(* be the finished event, and it has seen that one only when it has handled *)
(* them all.                                                                *)
StreamTyped ==
  /\ sent \in Seq(Events) /\ next \in 0 .. Len(sent)
  /\ finished \in BOOLEAN /\ runs \in Nat

ReadInv ==
  /\ \A n \in 1 .. Len(sent) : "fin" \in sent[n] => n = Len(sent)
  /\ finished => next = Len(sent) /\ Over
  /\ phase = "returned" => finished
  /\ Kept(out, "out", sent, next, spoilt)
  /\ Kept(err, "err", sent, next, spoilt)

StreamInv == StreamTyped /\ ReadInv

LEMMA NoneSent == <<>> \in Seq(Events) /\ Len(<<>>) = 0 /\ 0 \in 0 .. 0 /\ 1 .. 0 = {}
  OBVIOUS

LEMMA StreamInvInit == StreamInit => StreamInv
<1> SUFFICES ASSUME StreamInit PROVE StreamInv
  OBVIOUS
<1>1. sent = <<>> /\ next = 0 /\ out = <<>> /\ err = <<>> /\ finished = FALSE /\ runs = 0
      /\ phase = "idle"
  BY DEF StreamInit
<1>2. Kept(out, "out", sent, next, spoilt) /\ Kept(err, "err", sent, next, spoilt)
  BY <1>1, NothingKept
<1> QED
  BY <1>1, <1>2, NoneSent DEF StreamInv, StreamTyped, ReadInv

LEMMA StreamInvSend ==
  ASSUME StreamInv, Send
  PROVE  StreamInv'
<1>1. /\ sent' = <<>> /\ next' = 0 /\ out' = <<>> /\ err' = <<>> /\ finished' = FALSE
      /\ runs' = runs /\ phase' = "sent"
  BY DEF Send
<1>2. Kept(out', "out", sent', next', spoilt') /\ Kept(err', "err", sent', next', spoilt')
  BY <1>1, NothingKept
<1>3. runs' \in Nat
  BY <1>1 DEF StreamInv, StreamTyped
<1> QED
  BY <1>1, <1>2, <1>3, NoneSent DEF StreamInv, StreamTyped, ReadInv

LEMMA StreamInvWrite ==
  ASSUME StreamInv, Write
  PROVE  StreamInv'
<1> USE DEF StreamInv, StreamTyped
<1>1. PICK e \in Events : sent' = Append(sent, e)
  BY DEF Write
<1>2. /\ next' = next /\ out' = out /\ err' = err /\ finished' = finished /\ spoilt' = spoilt
      /\ runs' = runs /\ phase' = "reading" /\ ~Over
  BY DEF Write
<1>3. ~finished
  BY <1>2 DEF ReadInv
<1>4. \A n \in 1 .. Len(sent) : "fin" \notin sent[n]
  BY <1>2 DEF ReadInv, Over
<1>5. /\ Len(sent') = Len(sent) + 1 /\ sent' \in Seq(Events)
      /\ \A n \in 1 .. Len(sent) : sent'[n] = sent[n]
  BY <1>1
<1>6. \A n \in 1 .. Len(sent') : "fin" \in sent'[n] => n = Len(sent')
  <2>1. \A n \in 1 .. Len(sent') : n = Len(sent') \/ n \in 1 .. Len(sent)
    BY <1>5
  <2> QED
    BY <1>4, <1>5, <2>1
<1>7. next' \in 0 .. Len(sent')
  BY <1>2, <1>5
<1>8. Kept(out', "out", sent', next', spoilt') /\ Kept(err', "err", sent', next', spoilt')
  BY <1>1, <1>2, KeptOfMore DEF ReadInv
<1> QED
  BY <1>2, <1>3, <1>5, <1>6, <1>7, <1>8 DEF ReadInv

LEMMA StreamInvHandle ==
  ASSUME StreamInv, Handle
  PROVE  StreamInv'
<1> USE DEF StreamInv, StreamTyped
<1> DEFINE event == sent[next + 1]
           Reached(bad, field) == /\ field \in event
                                  /\ bad = "out" => field = "out"
                                  /\ bad = "err" => field # "fin"
<1>1. PICK bad \in {"none"} \cup (event \cap {"out", "err"}), e \in Throws[sdk] \cup {"none"} :
        /\ (bad = "none") = (e = "none")
        /\ next' = next + 1
        /\ out' = IF Reached(bad, "out") THEN Append(out, next + 1) ELSE out
        /\ err' = IF Reached(bad, "err") THEN Append(err, next + 1) ELSE err
        /\ spoilt' = IF e = "none" THEN spoilt ELSE spoilt \cup {next + 1}
        /\ finished' = (finished \/ Reached(bad, "fin"))
        /\ IF e = "none" \/ Swallowed THEN UNCHANGED <<phase, why>> ELSE Fail(e)
  BY DEF Handle
<1>2. sent' = sent /\ runs' = runs /\ phase = "reading" /\ next < Len(sent) /\ next \in Nat
  BY DEF Handle
<1>3. phase' # "returned"
  BY <1>1, <1>2 DEF Fail
<1>4. next + 1 \in 1 .. Len(sent) /\ next' \in 0 .. Len(sent')
  BY <1>1, <1>2
<1>5. ~finished
  BY <1>2 DEF ReadInv
<1>6. finished' => next' = Len(sent') /\ Over'
  <2>1. finished' => "fin" \in sent[next + 1]
    BY <1>1, <1>5
  <2>2. "fin" \in sent[next + 1] => next + 1 = Len(sent)
    BY <1>4 DEF ReadInv
  <2>3. "fin" \in sent[Len(sent)] => Over
    BY <1>4 DEF Over
  <2> QED
    BY <1>1, <1>2, <2>1, <2>2, <2>3 DEF Over
<1>7. spoilt \subseteq spoilt' /\ (bad # "none" => next + 1 \in spoilt')
  BY <1>1
<1>8. Kept(out', "out", sent', next', spoilt')
  <2>1. Reached(bad, "out") \in BOOLEAN /\ (Reached(bad, "out") => "out" \in sent[next + 1])
    OBVIOUS
  <2>2. "out" \in sent[next + 1] => Reached(bad, "out") \/ next + 1 \in spoilt'
    BY <1>7
  <2> QED
    BY <1>1, <1>2, <1>7, <2>1, <2>2, KeptGrows DEF ReadInv
<1>9. Kept(err', "err", sent', next', spoilt')
  <2>1. Reached(bad, "err") \in BOOLEAN /\ (Reached(bad, "err") => "err" \in sent[next + 1])
    OBVIOUS
  <2>2. "err" \in sent[next + 1] => Reached(bad, "err") \/ next + 1 \in spoilt'
    BY <1>7
  <2> QED
    BY <1>1, <1>2, <1>7, <2>1, <2>2, KeptGrows DEF ReadInv
<1>10. finished' \in BOOLEAN
  BY <1>1
<1> HIDE DEF Reached
<1> QED
  BY <1>2, <1>3, <1>4, <1>6, <1>8, <1>9, <1>10 DEF ReadInv

(* The other steps leave what was read alone.                               *)
LEMMA StreamInvRest ==
  ASSUME StreamInv,
         \/ RefreshFails \/ Refused \/ Accepted \/ StreamEnds \/ Timeout
         \/ Break("network") \/ Break("aborted") \/ StartedUnseen
  PROVE  StreamInv'
<1>1. UNCHANGED stream /\ runs' \in Nat
  BY DEF RefreshFails, Refused, Accepted, StreamEnds, Timeout, Break, StartedUnseen,
         StreamInv, StreamTyped
<1>2. phase' = "returned" => finished
  BY DEF RefreshFails, Refused, Accepted, StreamEnds, Timeout, Break, StartedUnseen, Fail,
         SawFinished
<1> QED
  BY <1>1, <1>2 DEF StreamInv, StreamTyped, ReadInv, stream, Over

LEMMA StreamInvariant == StreamSpec => []StreamInv
<1>1. StreamInv /\ [StreamNext]_streamVars => StreamInv'
  <2> SUFFICES ASSUME StreamInv, [StreamNext]_streamVars PROVE StreamInv'
    OBVIOUS
  <2>1. CASE UNCHANGED streamVars
    BY <2>1 DEF streamVars, StreamInv, StreamTyped, ReadInv, Over
  <2> QED
    BY <2>1, StreamInvSend, StreamInvWrite, StreamInvHandle, StreamInvRest DEF StreamNext
<1> QED
  BY <1>1, StreamInvInit, PTL DEF StreamSpec

(* A result that run() returns is of a command that has finished, and holds *)
(* all of its output in order, each piece once, but for the pieces of which *)
(* a callback threw: for any number of events, and whatever the callbacks   *)
(* of either SDK throw.                                                     *)
THEOREM AlwaysOutputComplete == StreamSpec => []OutputComplete
<1>1. ASSUME StreamInv, phase = "returned", NEW kept, NEW field,
             Kept(kept, field, sent, next, spoilt)
      PROVE  AllOf(field, kept)
  <2>1. next = Len(sent)
    BY <1>1 DEF StreamInv, ReadInv
  <2> QED
    BY <1>1, <2>1 DEF Kept, Rising, AllOf
<1>2. StreamInv => OutputComplete
  BY <1>1 DEF StreamInv, ReadInv, OutputComplete
<1> QED
  BY <1>2, StreamInvariant, PTL

(* Before a command has been started nothing was emitted, and after it was  *)
(* a request is not repeated.                                               *)
EmitInv ==
  /\ next \in Nat /\ runs \in Nat /\ runs <= 1
  /\ emitted \in Seq(Nat \X Nat)
  /\ \A i, j \in 1 .. Len(emitted) : i < j => emitted[i][2] < emitted[j][2]
  /\ phase \in {"idle", "sent", "refreshing"} => runs = 0 /\ emitted = <<>>
  /\ phase = "reading" => \A i \in 1 .. Len(emitted) : emitted[i][2] <= next

LEMMA EmitHandle ==
  ASSUME "resumable" \notin Throws["py"], EmitInv, sdk \in SDKs, Handle
  PROVE  EmitInv'
<1>1. /\ phase = "reading" /\ next' = next + 1 /\ runs' = runs /\ sdk' = sdk
      /\ \/ emitted' = emitted
         \/ emitted' = Append(emitted, <<runs, next + 1>>)
  BY DEF Handle
<1>2. phase' \in {"reading", "thrown"}
  <2>1. PICK e \in Throws[sdk] \cup {"none"} :
               IF e = "none" \/ Swallowed THEN phase' = phase ELSE Fail(e)
    BY DEF Handle
  <2>2. CASE e = "none" \/ Swallowed
    BY <1>1, <2>1, <2>2
  <2>3. CASE e # "none" /\ ~Swallowed
    <3>1. sdk = "py"
      BY <2>3 DEF Swallowed, SDKs
    <3>2. ~Resumable(e)
      BY <2>1, <2>3, <3>1, StreamAssumption DEF SDKs, Thrown, Resumable
    <3> QED
      BY <2>1, <2>3, <3>2 DEF Fail
  <2> QED
    BY <2>2, <2>3
<1>3. CASE emitted' = emitted
  <2>1. ASSUME NEW i \in 1 .. Len(emitted) PROVE emitted[i][2] <= next + 1
    <3>1. emitted[i] \in Nat \X Nat
      BY DEF EmitInv
    <3>2. emitted[i][2] \in Nat
      BY <3>1
    <3> QED
      BY <1>1, <3>2 DEF EmitInv
  <2>2. /\ next' \in Nat /\ runs' \in Nat /\ runs' <= 1 /\ emitted' \in Seq(Nat \X Nat)
        /\ \A i \in 1 .. Len(emitted') : emitted'[i][2] <= next'
    BY <1>1, <1>3, <2>1 DEF EmitInv
  <2>3. \A i, j \in 1 .. Len(emitted') : i < j => emitted'[i][2] < emitted'[j][2]
    BY <1>3 DEF EmitInv
  <2> QED
    BY <1>2, <2>2, <2>3 DEF EmitInv
<1>4. CASE emitted' = Append(emitted, <<runs, next + 1>>)
  <2>1. emitted \in Seq(Nat \X Nat) /\ <<runs, next + 1>> \in Nat \X Nat
    BY DEF EmitInv
  <2>2. /\ emitted' \in Seq(Nat \X Nat) /\ Len(emitted) \in Nat
        /\ Len(emitted') = Len(emitted) + 1
        /\ emitted'[Len(emitted) + 1] = <<runs, next + 1>>
        /\ \A i \in 1 .. Len(emitted) : emitted'[i] = emitted[i]
    BY <1>4, <2>1
  <2>3. \A i \in 1 .. Len(emitted') : i \in 1 .. Len(emitted) \/ i = Len(emitted) + 1
    BY <2>2
  <2>4. \A i \in 1 .. Len(emitted) : emitted'[i][2] \in Nat /\ emitted'[i][2] < next + 1
    <3> SUFFICES ASSUME NEW i \in 1 .. Len(emitted)
                 PROVE  emitted'[i][2] \in Nat /\ emitted'[i][2] < next + 1
      OBVIOUS
    <3>1. emitted[i] \in Nat \X Nat
      BY <2>1
    <3>2. emitted[i][2] \in Nat
      BY <3>1
    <3>3. emitted[i][2] <= next /\ next \in Nat
      BY <1>1 DEF EmitInv
    <3>4. emitted'[i] = emitted[i]
      BY <2>2
    <3> QED
      BY <3>2, <3>3, <3>4
  <2>5. emitted'[Len(emitted) + 1][2] = next + 1
    BY <2>2
  <2>6. ASSUME NEW i \in 1 .. Len(emitted'), NEW j \in 1 .. Len(emitted'), i < j
        PROVE  emitted'[i][2] < emitted'[j][2]
    <3>1. i \in 1 .. Len(emitted)
      BY <2>2, <2>6
    <3>2. CASE j \in 1 .. Len(emitted)
      <4>1. emitted[i][2] < emitted[j][2]
        BY <2>6, <3>1, <3>2 DEF EmitInv
      <4>2. emitted'[i] = emitted[i] /\ emitted'[j] = emitted[j]
        BY <2>2, <3>1, <3>2
      <4> QED
        BY <4>1, <4>2
    <3>3. CASE j = Len(emitted) + 1
      BY <2>4, <2>5, <3>1, <3>3
    <3> QED
      BY <2>3, <3>2, <3>3
  <2>7. \A i \in 1 .. Len(emitted') : emitted'[i][2] <= next'
    BY <1>1, <2>3, <2>4, <2>5 DEF EmitInv
  <2> QED
    BY <1>1, <1>2, <2>2, <2>6, <2>7 DEF EmitInv
<1> QED
  BY <1>1, <1>3, <1>4

LEMMA EmitInvariant ==
  ASSUME "resumable" \notin Throws["py"]
  PROVE  StreamSpec => [](EmitInv /\ sdk \in SDKs)
<1>1. StreamInit => EmitInv /\ sdk \in SDKs
  BY DEF StreamInit, EmitInv
<1>2. EmitInv /\ sdk \in SDKs /\ [StreamNext]_streamVars => (EmitInv /\ sdk \in SDKs)'
  <2> SUFFICES ASSUME EmitInv, sdk \in SDKs, [StreamNext]_streamVars
               PROVE  (EmitInv /\ sdk \in SDKs)'
    OBVIOUS
  <2> USE DEF EmitInv
  <2>1. CASE Send
    BY <2>1 DEF Send
  <2>2. CASE RefreshFails \/ Refused
    BY <2>2 DEF RefreshFails, Refused, Fail, stream
  <2>3. CASE Accepted
    BY <2>3 DEF Accepted, stream
  <2>4. CASE Write
    BY <2>4 DEF Write
  <2>5. CASE Handle
    BY <2>5, EmitHandle DEF Handle
  <2>6. CASE StreamEnds
    BY <2>6 DEF StreamEnds, Fail, Resumable, stream
  <2>7. CASE Timeout \/ Break("network") \/ Break("aborted")
    BY <2>7 DEF Timeout, Break, Breaks, Fail, Resumable, stream
  <2>8. CASE StartedUnseen
    BY <2>8 DEF StartedUnseen, Breaks, Fail, Resumable, stream
  <2>9. CASE UNCHANGED streamVars
    BY <2>9 DEF streamVars
  <2> QED
    BY <2>1, <2>2, <2>3, <2>4, <2>5, <2>6, <2>7, <2>8, <2>9 DEF StreamNext
<1> QED
  BY <1>1, <1>2, PTL DEF StreamSpec

(* However often a request is refused and repeated, the command is started  *)
(* once and onStdout is given its output in order, each piece once, unless  *)
(* a Python callback throws what withTokenRetry takes for a refusal of the  *)
(* request.  In TypeScript the callbacks may throw anything.                *)
THEOREM AlwaysNoDoubleEmit ==
  ASSUME "resumable" \notin Throws["py"]
  PROVE  StreamSpec => []NoDoubleEmit
<1>1. EmitInv => NoDoubleEmit
  <2> SUFFICES ASSUME EmitInv PROVE NoDoubleEmit
    OBVIOUS
  <2>1. DOMAIN emitted = 1 .. Len(emitted)
    BY DEF EmitInv
  <2> QED
    BY <2>1 DEF EmitInv, NoDoubleEmit
<1> QED
  BY <1>1, EmitInvariant, PTL

(* What a run counts, and what it knows of its error and its events. *)
Tally ==
  /\ tries \in 0 .. 2 /\ runs \in 0 .. tries
  /\ phase = "idle" => tries = 0
  /\ phase = "refreshing" => tries = 1
  /\ phase = "sent" => runs < tries

TalliedStream ==
  /\ sdk \in SDKs
  /\ phase \in {"idle", "sent", "reading", "refreshing", "returned", "thrown"}
  /\ why \in Errors \cup {"none"}
  /\ Len(sent) <= MaxEvents /\ spoilt \subseteq DOMAIN sent
  /\ Tally

LEMMA Failing ==
  ASSUME TalliedStream, phase \in {"sent", "reading"}, NEW e \in Errors, Fail(e),
         UNCHANGED <<sdk, tries>>, runs' \in 0 .. tries
  PROVE  Tally' /\ phase' \in {"refreshing", "thrown"} /\ why' \in Errors \cup {"none"}
BY DEF TalliedStream, Tally, Fail, FirstTry

LEMMA TalliedStreamStays ==
  ASSUME StreamInv, TalliedStream, [StreamNext]_streamVars
  PROVE  TalliedStream'
<1>0. sent \in Seq(Events) /\ next \in 0 .. Len(sent)
  BY DEF StreamInv, StreamTyped
<1>1. CASE Send
  <2>1. /\ sdk' = sdk /\ why' = why /\ phase' = "sent" /\ tries' = tries + 1 /\ runs' = runs
        /\ sent' = <<>> /\ spoilt' = {} /\ tries \in {0, 1} /\ runs \in 0 .. tries
    BY <1>1 DEF Send, TalliedStream, Tally
  <2>2. Tally'
    BY <2>1 DEF Tally
  <2>3. Len(sent') <= MaxEvents
    BY <2>1, StreamAssumption
  <2> QED
    BY <2>1, <2>2, <2>3 DEF TalliedStream
<1>2. CASE RefreshFails \/ Accepted
  <2>1. UNCHANGED <<sdk, tries, why, sent, spoilt>> /\ phase' \in {"reading", "thrown"}
        /\ runs' \in 0 .. tries
    BY <1>2 DEF RefreshFails, Accepted, stream, TalliedStream, Tally
  <2> QED
    BY <2>1 DEF TalliedStream, Tally
<1>3. CASE Write
  <2>1. /\ UNCHANGED <<sdk, phase, tries, why, spoilt, runs>> /\ Len(sent) < MaxEvents
        /\ \E e \in Events : sent' = Append(sent, e)
    BY <1>3 DEF Write
  <2>2. Len(sent') = Len(sent) + 1 /\ DOMAIN sent \subseteq DOMAIN sent' /\ Len(sent) \in Nat
    BY <1>0, <2>1
  <2> QED
    BY <2>1, <2>2, StreamAssumption DEF TalliedStream, Tally
<1>4. CASE Handle
  <2>1. PICK e \in Throws[sdk] \cup {"none"} :
          /\ spoilt' = IF e = "none" THEN spoilt ELSE spoilt \cup {next + 1}
          /\ IF e = "none" \/ Swallowed THEN UNCHANGED <<phase, why>> ELSE Fail(e)
    BY <1>4 DEF Handle
  <2>2. UNCHANGED <<sdk, tries, sent, runs>> /\ phase = "reading" /\ next < Len(sent)
    BY <1>4 DEF Handle
  <2>3. spoilt' \subseteq DOMAIN sent'
    BY <1>0, <2>1, <2>2 DEF TalliedStream
  <2>4. CASE UNCHANGED <<phase, why>>
    BY <2>2, <2>3, <2>4 DEF TalliedStream, Tally
  <2>5. CASE e # "none" /\ Fail(e)
    <3>1. e \in Errors
      BY <2>1, <2>5, StreamAssumption DEF TalliedStream, Errors
    <3>2. Tally' /\ phase' \in {"refreshing", "thrown"} /\ why' \in Errors \cup {"none"}
      BY <2>2, <2>5, <3>1, Failing DEF TalliedStream, Tally
    <3> QED
      BY <2>2, <2>3, <3>2 DEF TalliedStream
  <2> QED
    BY <2>1, <2>4, <2>5
<1>5. CASE StreamEnds /\ SawFinished
  BY <1>5 DEF StreamEnds, stream, TalliedStream, Tally
<1>6. CASE Refused \/ (StreamEnds /\ ~SawFinished) \/ Timeout \/ Break("network")
           \/ Break("aborted") \/ StartedUnseen
  <2>1. /\ UNCHANGED <<sdk, tries, sent, spoilt>> /\ phase \in {"sent", "reading"}
        /\ \E e \in Errors : Fail(e)
    BY <1>6 DEF Refused, StreamEnds, Timeout, Break, Breaks, StartedUnseen, stream, Errors
  <2>2. runs' \in 0 .. tries
    BY <1>6 DEF Refused, StreamEnds, Timeout, Break, StartedUnseen, TalliedStream, Tally
  <2>3. Tally' /\ phase' \in {"refreshing", "thrown"} /\ why' \in Errors \cup {"none"}
    BY <2>1, <2>2, Failing
  <2> QED
    BY <2>1, <2>3 DEF TalliedStream
<1>7. CASE UNCHANGED streamVars
  BY <1>7 DEF streamVars, TalliedStream, Tally
<1> QED
  BY <1>1, <1>2, <1>3, <1>4, <1>5, <1>6, <1>7 DEF StreamNext

(* Every state of a run is well typed: it makes two requests at most and    *)
(* starts two commands at most, one for each, and what it keeps is of       *)
(* events the command may write.                                            *)
THEOREM StreamTypeCorrect == StreamSpec => []StreamTypeOK
<1>1. StreamInit => TalliedStream
  BY StreamAssumption DEF StreamInit, TalliedStream, Tally
<1>2. StreamInv /\ TalliedStream => StreamTypeOK
  <2> SUFFICES ASSUME StreamInv, TalliedStream PROVE StreamTypeOK
    OBVIOUS
  <2>1. /\ sent \in Seq(Events) /\ next \in 0 .. Len(sent) /\ Len(sent) <= MaxEvents
        /\ finished \in BOOLEAN /\ MaxEvents \in Nat
    BY StreamAssumption DEF StreamInv, StreamTyped, TalliedStream
  <2>2. ASSUME NEW kept, NEW field, Kept(kept, field, sent, next, spoilt)
        PROVE  kept \in Seq(1 .. MaxEvents)
    <3>1. kept \in Seq(Nat) /\ \A i \in 1 .. Len(kept) : kept[i] \in 1 .. MaxEvents
      BY <2>1, <2>2 DEF Kept
    <3>2. Len(kept) \in Nat /\ kept = [i \in 1 .. Len(kept) |-> kept[i]]
      BY <3>1
    <3>3. [i \in 1 .. Len(kept) |-> kept[i]] \in Seq(1 .. MaxEvents)
      BY <3>1, <3>2
    <3> QED
      BY <3>2, <3>3
  <2>3. out \in Seq(1 .. MaxEvents) /\ err \in Seq(1 .. MaxEvents)
    BY <2>2 DEF StreamInv, ReadInv
  <2>4. tries \in 0 .. 2 /\ runs \in 0 .. 2
    BY DEF TalliedStream, Tally
  <2> QED
    BY <2>1, <2>3, <2>4 DEF TalliedStream, StreamTypeOK
<1> QED
  BY <1>1, <1>2, TalliedStreamStays, StreamInvariant, PTL DEF StreamSpec
=============================================================================
