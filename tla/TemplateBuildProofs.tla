------------------------ MODULE TemplateBuildProofs ------------------------
(***************************************************************************)
(* Theorems about TemplateBuild, for any handles of either SDK, any number *)
(* of builds, faults and log events.                                       *)
(***************************************************************************)
EXTENDS TemplateBuild, TLAPS

-----------------------------------------------------------------------------
(* The platform: builds are only added, and one that has ended keeps its    *)
(* status.                                                                  *)
ServerOK ==
  /\ builder \in Seq({"running", "succeeded", "broken"})
  /\ row \in Seq(Terminal \cup {"building"})
  /\ Len(builder) = Len(row) /\ Len(row) \in Nat \ {0}

Grows ==
  /\ Len(row') >= Len(row)
  /\ \A b \in Builds : row[b] \in Terminal => row'[b] = row[b]

LEMMA ServerStep ==
  ASSUME ServerOK, [Next]_vars
  PROVE  ServerOK' /\ Grows
  <1> USE DEF ServerOK, Grows, Builds, Terminal
  <1>1. ASSUME NEW b \in Builds, BuilderEnds(b) PROVE ServerOK' /\ Grows
    BY <1>1 DEF BuilderEnds
  <1>2. ASSUME NEW b \in Builds, PollerCatchesUp(b) PROVE ServerOK' /\ Grows
    BY <1>2 DEF PollerCatchesUp
  <1>3. ASSUME NEW b \in Builds, CancelBuild(b) PROVE ServerOK' /\ Grows
    BY <1>3 DEF CancelBuild
  <1>4. CASE Rebuild
    BY <1>4 DEF Rebuild, Newest
  <1>5. CASE UNCHANGED <<builder, row>>
    BY <1>5
  <1>6. ASSUME NEW c \in Clients, Step(c) \/ Log(c) \/ StreamEnds(c) \/ Abort(c)
        PROVE  UNCHANGED <<builder, row>>
    BY <1>6 DEF Step, Begin, Lookup, LookupFails, Continue, Polled, Informed, RequestFails,
                Return, Log, StreamEnds, Abort, server
  <1> QED
    BY <1>1, <1>2, <1>3, <1>4, <1>5, <1>6 DEF Next, Delete, vars, server

-----------------------------------------------------------------------------
(* What each wait knows of its build, and of its stream. *)

Early == {"idle", "lookup", "start", "poll", "sleeping", "info", "template"}

WaitOK(c) ==
  /\ pc[c] \in Early \cup {"draining", "done"}
  /\ pc[c] \in Early => outcome[c] = "none"
  /\ bid[c] \in 0 .. Len(row) /\ begun[c] \in 0 .. Len(row)
  /\ pc[c] \in {"idle", "lookup"} => bid[c] = 0
  /\ pc[c] = "info" => bid[c] # 0 /\ row[bid[c]] = "ready"
  /\ pc[c] = "poll" => bid[c] # 0
  /\ pc[c] = "template" => bid[c] = 0
  /\ bid[c] # 0 /\ outcome[c] \in Terminal => row[bid[c]] = outcome[c]
  /\ latest[c] = 0 /\ bid[c] # 0 => bid[c] >= begun[c]
  /\ pc[c] = "done" => StreamSettled(c)

(* The functions are functions of the handles. *)
Domains ==
  /\ pc = [c \in Clients |-> pc[c]]
  /\ bid = [c \in Clients |-> bid[c]]
  /\ begun = [c \in Clients |-> begun[c]]
  /\ outcome = [c \in Clients |-> outcome[c]]
  /\ stream = [c \in Clients |-> stream[c]]
  /\ latest \in [Clients -> {0, 1}]

IInv == ServerOK /\ Domains /\ \A c \in Clients : WaitOK(c)

LEMMA InitIInv == Init => IInv
  BY DEF Init, IInv, ServerOK, Domains, WaitOK, Early, Terminal, StreamSettled

(* A step of the platform, or of another handle, does not disturb a wait. *)
LEMMA Undisturbed ==
  ASSUME IInv, [Next]_vars, NEW c \in Clients,
         /\ pc'[c] = pc[c] /\ bid'[c] = bid[c] /\ outcome'[c] = outcome[c]
         /\ begun'[c] = begun[c] /\ latest'[c] = latest[c]
         /\ stream'[c] = stream[c] \/ pc[c] # "done"
  PROVE  WaitOK(c)'
  <1>1. ServerOK' /\ Grows
    BY ServerStep DEF IInv
  <1>2. ServerOK /\ WaitOK(c)
    BY DEF IInv
  <1>3. Len(row') \in Nat /\ Len(row) \in Nat
    BY <1>1, <1>2 DEF ServerOK
  <1>4. bid[c] # 0 => bid[c] \in Builds
    BY <1>2, <1>3 DEF WaitOK, Builds
  <1>5. bid[c] # 0 /\ row[bid[c]] \in Terminal => row'[bid[c]] = row[bid[c]]
    BY <1>1, <1>4 DEF Grows
  <1> QED
    BY <1>1, <1>2, <1>3, <1>4, <1>5 DEF WaitOK, Grows, Terminal, StreamSettled, Early

-----------------------------------------------------------------------------
(* The steps of the waits. *)

Untouched(c) ==
  /\ pc'[c] = pc[c] /\ bid'[c] = bid[c] /\ outcome'[c] = outcome[c]
  /\ begun'[c] = begun[c] /\ latest'[c] = latest[c]
  /\ stream'[c] = stream[c] \/ pc[c] # "done"

LEMMA DomainsStep ==
  ASSUME Domains, [Next]_vars
  PROVE  Domains'
  <1> USE DEF Domains
  <1>1. ASSUME NEW b \in Builds, BuilderEnds(b) \/ PollerCatchesUp(b) \/ CancelBuild(b)
        PROVE  Domains'
    BY <1>1 DEF BuilderEnds, PollerCatchesUp, CancelBuild, client
  <1>2. CASE Rebuild \/ Delete \/ UNCHANGED vars
    BY <1>2 DEF Rebuild, Delete, client, vars
  <1>3. ASSUME NEW c \in Clients, Begin(c) \/ Lookup(c) \/ LookupFails(c) PROVE Domains'
    BY <1>3 DEF Begin, Lookup, LookupFails, OpenStream
  <1>4. ASSUME NEW c \in Clients, Continue(c) PROVE Domains'
    BY <1>4 DEF Continue, Loop, Leave, CloseStream
  <1>5. ASSUME NEW c \in Clients, Polled(c) \/ Informed(c) \/ RequestFails(c) PROVE Domains'
    BY <1>5 DEF Polled, Informed, RequestFails, Leave, CloseStream
  <1>6. ASSUME NEW c \in Clients, Return(c) \/ Log(c) \/ StreamEnds(c) \/ Abort(c)
        PROVE  Domains'
    BY <1>6 DEF Return, Log, StreamEnds, Abort, CloseStream
  <1> QED
    BY <1>1, <1>2, <1>3, <1>4, <1>5, <1>6 DEF Next, Step

LEMMA Others ==
  ASSUME IInv, NEW d \in Clients, Step(d) \/ Log(d) \/ StreamEnds(d) \/ Abort(d),
         NEW c \in Clients, c # d
  PROVE  Untouched(c)
  <1> USE DEF Untouched, IInv, Domains
  <1>1. CASE Begin(d) \/ Lookup(d) \/ LookupFails(d)
    BY <1>1 DEF Begin, Lookup, LookupFails, OpenStream
  <1>2. CASE Continue(d)
    BY <1>2 DEF Continue, Loop, Leave, CloseStream
  <1>3. CASE Polled(d) \/ Informed(d) \/ RequestFails(d)
    BY <1>3 DEF Polled, Informed, RequestFails, Leave, CloseStream
  <1>4. CASE Return(d) \/ Log(d) \/ StreamEnds(d) \/ Abort(d)
    BY <1>4 DEF Return, Log, StreamEnds, Abort, CloseStream
  <1> QED
    BY <1>1, <1>2, <1>3, <1>4 DEF Step

(* What a wait's own step does to it. *)
LEMMA OwnStep ==
  ASSUME IInv, NEW c \in Clients, Step(c)
  PROVE  WaitOK(c)'
  <1>1. ServerOK /\ WaitOK(c) /\ Domains
    BY DEF IInv
  <1>2. Len(row) \in Nat \ {0} /\ row' = row
    BY <1>1 DEF ServerOK, Step, Begin, Lookup, LookupFails, Continue, Polled, Informed,
                RequestFails, Return, server
  <1> USE <1>1, <1>2 DEF WaitOK, Domains, Early, Terminal, Newest
  <1>3. CASE Begin(c)
    <2>1. latest[c] \in {0, 1}
      OBVIOUS
    <2> QED
      BY <1>3, <2>1 DEF Begin, OpenStream
  <1>4. CASE Lookup(c)
    BY <1>4 DEF Lookup, OpenStream
  <1>5. CASE LookupFails(c)
    BY <1>5 DEF LookupFails
  <1>6. CASE Continue(c)
    BY <1>6 DEF Continue, Loop, Leave, PollsRow
  <1>7. CASE Polled(c)
    BY <1>7 DEF Polled, Leave, Seen
  <1>8. CASE Informed(c)
    BY <1>8 DEF Informed, Leave
  <1>9. CASE RequestFails(c)
    BY <1>9 DEF RequestFails, Leave
  <1>10. CASE Return(c)
    BY <1>10 DEF Return, StreamSettled
  <1> QED
    BY <1>3, <1>4, <1>5, <1>6, <1>7, <1>8, <1>9, <1>10 DEF Step

(* Log, StreamEnds and Abort leave the wait where it is; the stream of a    *)
(* wait that has returned is over.                                          *)
LEMMA OwnStream ==
  ASSUME IInv, NEW c \in Clients, Log(c) \/ StreamEnds(c) \/ Abort(c)
  PROVE  Untouched(c)
  <1>1. WaitOK(c)
    BY DEF IInv
  <1>2. CASE Log(c)
    BY <1>2 DEF Log, Untouched
  <1>3. CASE StreamEnds(c)
    BY <1>1, <1>3 DEF StreamEnds, Untouched, WaitOK, StreamSettled
  <1>4. CASE Abort(c)
    BY <1>4 DEF Abort, Untouched
  <1> QED
    BY <1>2, <1>3, <1>4

LEMMA StepIInv == IInv /\ [Next]_vars => IInv'
  <1> SUFFICES ASSUME IInv, [Next]_vars PROVE IInv'
    OBVIOUS
  <1>1. ServerOK' /\ Domains'
    BY ServerStep, DomainsStep DEF IInv
  <1>2. ASSUME NEW c \in Clients PROVE WaitOK(c)'
    <2>1. CASE Untouched(c)
      BY <2>1, Undisturbed DEF Untouched
    <2>2. CASE Step(c)
      BY <2>2, OwnStep
    <2>3. CASE Log(c) \/ StreamEnds(c) \/ Abort(c)
      BY <2>3, <2>1, OwnStream
    <2>4. ASSUME NEW d \in Clients, Step(d) \/ Log(d) \/ StreamEnds(d) \/ Abort(d), c # d
          PROVE  WaitOK(c)'
      BY <2>4, <2>1, Others
    <2>5. CASE UNCHANGED client
      BY <2>5, <2>1 DEF client, Untouched
    <2>6. ASSUME NEW b \in Builds, BuilderEnds(b) \/ PollerCatchesUp(b) \/ CancelBuild(b)
          PROVE  UNCHANGED client
      BY <2>6 DEF BuilderEnds, PollerCatchesUp, CancelBuild
    <2>7. Rebuild \/ Delete \/ UNCHANGED vars => UNCHANGED client
      BY DEF Rebuild, Delete, vars, client
    <2> QED
      BY <2>2, <2>3, <2>4, <2>5, <2>6, <2>7 DEF Next
  <1> QED
    BY <1>1, <1>2 DEF IInv

THEOREM Invariance == Spec => []IInv
  BY InitIInv, StepIInv, PTL DEF Spec

-----------------------------------------------------------------------------
(* The theorems. *)

(* A wait reports what the database says of its build, whatever the builder,
   the poller, cancellations and other handles do meanwhile: a terminal row
   never changes again (Template.ts:279-284). *)
THEOREM AlwaysReportsItsRow == Spec => []ReportsItsRow
  <1>1. IInv => ReportsItsRow
    BY DEF IInv, WaitOK, ReportsItsRow
  <1> QED
    BY <1>1, Invariance, PTL

(* A handle that has to look its build up waits for none older than the
   newest there was when the wait began (Template.ts:247-254). *)
THEOREM AlwaysLookupIsCurrent == Spec => []LookupIsCurrent
  <1>1. IInv => LookupIsCurrent
    BY DEF IInv, WaitOK, LookupIsCurrent
  <1> QED
    BY <1>1, Invariance, PTL

(* Nothing reaches onLog once waitUntilReady() has returned, because the
   return waits until the stream has settled (Template.ts:363-366). *)
THEOREM NeverLogAfterReturn == Spec => NoLogAfterReturn
  <1>1. IInv /\ [Next]_vars => [\A c \in Clients : pc[c] = "done" => logs'[c] = logs[c]]_vars
    <2> SUFFICES ASSUME IInv, [Next]_vars, NEW c \in Clients, pc[c] = "done"
                 PROVE  logs'[c] = logs[c] \/ UNCHANGED vars
      OBVIOUS
    <2>1. StreamSettled(c)
      BY DEF IInv, WaitOK
    <2>2. ASSUME NEW d \in Clients, Log(d) PROVE logs'[c] = logs[c]
      BY <2>1, <2>2 DEF Log, StreamSettled
    <2>3. ASSUME NEW d \in Clients, Step(d) \/ StreamEnds(d) \/ Abort(d) PROVE UNCHANGED logs
      BY <2>3 DEF Step, Begin, Lookup, LookupFails, Continue, Polled, Informed, RequestFails,
                  Return, StreamEnds, Abort
    <2>4. ASSUME NEW b \in Builds, BuilderEnds(b) \/ PollerCatchesUp(b) \/ CancelBuild(b)
          PROVE  UNCHANGED logs
      BY <2>4 DEF BuilderEnds, PollerCatchesUp, CancelBuild, client
    <2>5. Rebuild \/ Delete => UNCHANGED logs
      BY DEF Rebuild, Delete, client
    <2> QED
      BY <2>2, <2>3, <2>4, <2>5 DEF Next
  <1> QED
    BY <1>1, Invariance, PTL DEF Spec, NoLogAfterReturn
=============================================================================
