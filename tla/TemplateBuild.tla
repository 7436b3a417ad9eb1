--------------------------- MODULE TemplateBuild ---------------------------
(***************************************************************************)
(* waitUntilReady() of the TypeScript SDK and wait_until_ready() of the    *)
(* Python ones: clients that wait for a build of one template while others *)
(* rebuild, cancel and delete it.                                          *)
(*                                                                         *)
(* The platform (external) runs a builder per build; the row of the build  *)
(* in the database follows it later, through a poller.  A client looks up  *)
(* the build to wait for, polls its row, and streams its log on the side;  *)
(* the synchronous Python client (Blocking) reads the log to its end before *)
(* it polls.                                                               *)
(***************************************************************************)
EXTENDS Naturals, Sequences, FiniteSets

CONSTANTS
  Clients,     \* handles of the template
  Blocking,    \* the handles of the synchronous Python client
  Loggers,     \* the handles that wait with an onLog callback
  MaxWaits,    \* bound: how many handles wait
  MaxBuilds,   \* bound: builds of the template
  MaxFaults,   \* bound: requests that fail (a network error or a 500)
  MaxLogs      \* bound: log events one wait receives

ASSUME ClientsAssumption ==
  /\ Blocking \subseteq Clients /\ Loggers \subseteq Clients
  /\ MaxWaits \in Nat /\ MaxBuilds \in Nat \ {0} /\ MaxFaults \in Nat /\ MaxLogs \in Nat

VARIABLES
  builder,     \* what the builder of each build has come to
  row,         \* the status of each build in the database
  deleted,     \* is the template deleted?
  latest,      \* latestBuildId of each handle: the first build, which create()
               \* returned, or 0 when undefined
  pc,          \* where each waitUntilReady() is
  bid,         \* the build it waits for, 0 when it found none
  outcome,     \* how it ended
  stream,      \* its log stream: "none", "open", "aborting" or "ended"
  logs,        \* how many log events it has handed to onLog
  aborted,     \* has its caller's signal fired?
  begun,       \* history: the newest build when the wait began
  faults

server == <<builder, row, deleted>>
vars == <<server, latest, pc, bid, outcome, stream, logs, aborted, begun, faults>>

Builds == 1 .. Len(row)
Newest == Len(row)
Terminal == {"ready", "failed", "cancelled"}

(* The template's own status reflects the latest successful build. *)
TemplateStatus ==
  IF \E b \in Builds : row[b] = "ready" THEN "ready"
  ELSE IF row[Newest] = "failed" THEN "failed" ELSE "building"

Init ==
  /\ builder = <<"running">> /\ row = <<"building">> /\ deleted = FALSE
  /\ latest \in [Clients -> {0, 1}]
  /\ pc = [c \in Clients |-> "idle"]
  /\ bid = [c \in Clients |-> 0]
  /\ outcome = [c \in Clients |-> "none"]
  /\ stream = [c \in Clients |-> "none"]
  /\ logs = [c \in Clients |-> 0]
  /\ aborted = [c \in Clients |-> FALSE]
  /\ begun = [c \in Clients |-> 0]
  /\ faults = 0

-----------------------------------------------------------------------------
(* The platform, and what other clients ask of it. *)

client == <<latest, pc, bid, outcome, stream, logs, aborted, begun, faults>>

BuilderEnds(b) ==
  /\ builder[b] = "running" /\ row[b] = "building"
  /\ \E end \in {"succeeded", "broken"} : builder' = [builder EXCEPT ![b] = end]
  /\ UNCHANGED <<row, deleted, client>>

PollerCatchesUp(b) ==
  /\ builder[b] # "running" /\ row[b] = "building"
  /\ row' = [row EXCEPT ![b] = IF builder[b] = "succeeded" THEN "ready" ELSE "failed"]
  /\ UNCHANGED <<builder, deleted, client>>

(* POST /builds returns a build in flight instead of a duplicate.  No
   handle learns of the new build: latestBuildId stays as it was. *)
Rebuild ==
  /\ ~deleted /\ Newest < MaxBuilds
  /\ row[Newest] \in Terminal
  /\ builder' = Append(builder, "running")
  /\ row' = Append(row, "building")
  /\ UNCHANGED <<deleted, client>>

CancelBuild(b) ==
  /\ ~deleted /\ row[b] = "building"
  /\ row' = [row EXCEPT ![b] = "cancelled"]
  /\ UNCHANGED <<builder, deleted, client>>

Delete ==
  /\ ~deleted
  /\ deleted' = TRUE
  /\ UNCHANGED <<builder, row, client>>

-----------------------------------------------------------------------------
(* waitUntilReady() of client c *)

OpenStream(c) ==
  stream' = [stream EXCEPT ![c] = IF c \in Loggers THEN "open" ELSE "none"]

CloseStream(c) ==
  stream' = [stream EXCEPT ![c] = IF @ = "open" THEN "aborting" ELSE @]

(* `finally`: abort the log stream, then wait until it has settled. *)
Leave(c, how) ==
  /\ outcome' = [outcome EXCEPT ![c] = how]
  /\ pc' = [pc EXCEPT ![c] = "draining"]
  /\ CloseStream(c)

PollsRow(c) == bid[c] # 0

(* The head of both loops: the signal is looked at here, and only here. *)
Loop(c) ==
  IF aborted[c]
  THEN Leave(c, "aborted")
  ELSE /\ pc' = [pc EXCEPT ![c] = IF PollsRow(c) THEN "poll" ELSE "template"]
       /\ UNCHANGED <<outcome, stream>>

(* _resolveBuildId: the build captured at construction, else a lookup. *)
Begin(c) ==
  /\ pc[c] = "idle"
  /\ Cardinality({d \in Clients : pc[d] # "idle"}) < MaxWaits
  /\ begun' = [begun EXCEPT ![c] = Newest]
  /\ IF latest[c] # 0
     THEN /\ bid' = [bid EXCEPT ![c] = latest[c]]
          /\ pc' = [pc EXCEPT ![c] = "start"]
          /\ OpenStream(c)
     ELSE pc' = [pc EXCEPT ![c] = "lookup"] /\ UNCHANGED <<bid, stream>>
  /\ UNCHANGED <<server, latest, outcome, logs, aborted, faults>>

Lookup(c) ==
  /\ pc[c] = "lookup" /\ ~deleted
  /\ bid' = [bid EXCEPT ![c] = Newest]
  /\ pc' = [pc EXCEPT ![c] = "start"]
  /\ OpenStream(c)
  /\ UNCHANGED <<server, latest, outcome, logs, aborted, begun, faults>>

(* `catch {}`: whatever went wrong, go on without a build. *)
LookupFails(c) ==
  /\ pc[c] = "lookup"
  /\ \/ deleted /\ UNCHANGED faults
     \/ faults < MaxFaults /\ faults' = faults + 1
  /\ pc' = [pc EXCEPT ![c] = "start"]
  /\ UNCHANGED <<server, latest, bid, outcome, stream, logs, aborted, begun>>

LogRead(c) == c \in Blocking => stream[c] # "open"

(* The first time round, and each time the poll interval has passed. *)
Continue(c) ==
  /\ pc[c] \in {"start", "sleeping"}
  /\ LogRead(c)
  /\ Loop(c)
  /\ UNCHANGED <<server, latest, bid, logs, aborted, begun, faults>>

(* Mutant: the builder's own word, which the log stream brings, decides. *)
SeenByBuilder(b) == IF builder[b] = "succeeded" THEN "ready" ELSE row[b]

(* Mutant: a cancelled build is taken for one in flight. *)
SeenUncancelled(b) == IF row[b] = "cancelled" THEN "building" ELSE row[b]

Seen(b) == row[b]

(* The answer of getBuild. *)
Polled(c) ==
  /\ pc[c] = "poll" /\ ~deleted
  /\ \/ Seen(bid[c]) = "ready" /\ pc' = [pc EXCEPT ![c] = "info"]
                              /\ UNCHANGED <<outcome, stream>>
     \/ Seen(bid[c]) \in {"failed", "cancelled"} /\ Leave(c, Seen(bid[c]))
     \/ /\ Seen(bid[c]) = "building"
        /\ pc' = [pc EXCEPT ![c] = "sleeping"]
        /\ UNCHANGED <<outcome, stream>>
  /\ UNCHANGED <<server, latest, bid, logs, aborted, begun, faults>>

(* The answer of getInfo, after a ready build or as the best effort. *)
Informed(c) ==
  /\ pc[c] \in {"info", "template"} /\ ~deleted
  /\ \/ pc[c] = "info" /\ Leave(c, "ready")
     \/ /\ pc[c] = "template" /\ TemplateStatus \in {"ready", "failed"}
        /\ Leave(c, TemplateStatus)
     \/ /\ pc[c] = "template" /\ TemplateStatus = "building"
        /\ pc' = [pc EXCEPT ![c] = "sleeping"]
        /\ UNCHANGED <<outcome, stream>>
  /\ UNCHANGED <<server, latest, bid, logs, aborted, begun, faults>>

(* A request of the loops that fails ends the wait. *)
RequestFails(c) ==
  /\ pc[c] \in {"poll", "info", "template"}
  /\ \/ deleted /\ Leave(c, "notfound") /\ UNCHANGED faults
     \/ faults < MaxFaults /\ faults' = faults + 1 /\ Leave(c, "error")
  /\ UNCHANGED <<server, latest, bid, logs, aborted, begun>>

(* Mutant: the stream is aborted and left to itself. *)
NothingToAwait(c) == TRUE

StreamSettled(c) == stream[c] \in {"none", "ended"}

Return(c) ==
  /\ pc[c] = "draining"
  /\ StreamSettled(c)
  /\ pc' = [pc EXCEPT ![c] = "done"]
  /\ UNCHANGED <<server, latest, bid, outcome, stream, logs, aborted, begun, faults>>

-----------------------------------------------------------------------------
(* The log stream runs on its own; a chunk that has been read is delivered
   although the abort came first. *)
Log(c) ==
  /\ stream[c] \in {"open", "aborting"}
  /\ logs[c] < MaxLogs
  /\ logs' = [logs EXCEPT ![c] = @ + 1]
  /\ UNCHANGED <<server, latest, pc, bid, outcome, stream, aborted, begun, faults>>

(* It ends when the server closes it, when it fails or when it is aborted;
   its failure is nobody's. *)
StreamEnds(c) ==
  /\ stream[c] \in {"open", "aborting"}
  /\ stream' = [stream EXCEPT ![c] = "ended"]
  /\ UNCHANGED <<server, latest, pc, bid, outcome, logs, aborted, begun, faults>>

(* options.signal, which TypeScript has, fires: it is composed into the
   stream's signal. *)
Abort(c) ==
  /\ c \notin Blocking
  /\ pc[c] \notin {"idle", "draining", "done"} /\ ~aborted[c]
  /\ aborted' = [aborted EXCEPT ![c] = TRUE]
  /\ CloseStream(c)
  /\ UNCHANGED <<server, latest, pc, bid, outcome, logs, begun, faults>>

(* The build c waits for has ended. *)
Over(c) == bid[c] # 0 /\ row[bid[c]] \in Terminal

Step(c) == \/ Begin(c) \/ Lookup(c) \/ LookupFails(c) \/ Continue(c) \/ Polled(c)
           \/ Informed(c) \/ RequestFails(c) \/ Return(c)

Next ==
  \/ \E b \in Builds : BuilderEnds(b) \/ PollerCatchesUp(b) \/ CancelBuild(b)
  \/ Rebuild \/ Delete
  \/ \E c \in Clients : Step(c) \/ Log(c) \/ StreamEnds(c) \/ Abort(c)

Spec == Init /\ [][Next]_vars

(* The event loop runs, requests are answered or fail, an aborted stream
   settles, and so does one whose build is over: its server ends it, or its
   idle timer does.  Nothing is assumed of the builds. *)
Fairness ==
  \A c \in Clients :
    /\ WF_vars(Lookup(c) \/ LookupFails(c))
    /\ WF_vars(Continue(c) \/ Polled(c) \/ Informed(c) \/ RequestFails(c) \/ Return(c))
    /\ WF_vars((stream[c] = "aborting" \/ Over(c)) /\ StreamEnds(c))

FairSpec == Spec /\ Fairness

-----------------------------------------------------------------------------
(* Properties *)

Waiting == {"start", "lookup", "poll", "sleeping", "info", "template"}

TypeOK ==
  /\ builder \in Seq({"running", "succeeded", "broken"})
  /\ row \in Seq(Terminal \cup {"building"})
  /\ Len(builder) = Len(row) /\ Len(row) >= 1
  /\ deleted \in BOOLEAN
  /\ latest \in [Clients -> {0, 1}]
  /\ pc \in [Clients -> Waiting \cup {"idle", "draining", "done"}]
  /\ bid \in [Clients -> Builds \cup {0}]
  /\ outcome \in [Clients -> Terminal \cup {"none", "aborted", "notfound", "error"}]
  /\ stream \in [Clients -> {"none", "open", "aborting", "ended"}]
  /\ \A c \in Clients : pc[c] \in {"poll", "info"} => bid[c] # 0
  /\ logs \in [Clients -> 0 .. MaxLogs]
  /\ aborted \in [Clients -> BOOLEAN]
  /\ begun \in [Clients -> Builds \cup {0}]
  /\ faults \in 0 .. MaxFaults

(***************************************************************************)
(* A wait reports what the database says of its build: after "ready" the   *)
(* next POST /sandboxes does not meet a 409 because the poller lags behind *)
(* the builder (Template.ts:279-284), and a failure or a cancellation is   *)
(* never another build's.                                                  *)
(***************************************************************************)
ReportsItsRow ==
  \A c \in Clients : bid[c] # 0 /\ outcome[c] \in Terminal => row[bid[c]] = outcome[c]

(***************************************************************************)
(* A handle that has looked its build up waits for one at least            *)
(* as new as any there was when the wait began (Template.ts:247-254).      *)
(***************************************************************************)
LookupIsCurrent ==
  \A c \in Clients : latest[c] = 0 /\ bid[c] # 0 => bid[c] >= begun[c]

(***************************************************************************)
(* No log event reaches onLog after waitUntilReady() has returned: the     *)
(* `finally` waits for the stream it aborts (Template.ts:363-366).         *)
(***************************************************************************)
NoLogAfterReturn ==
  [][\A c \in Clients : pc[c] = "done" => logs'[c] = logs[c]]_vars

(***************************************************************************)
(* "Block until the current build reaches a terminal status"               *)
(* (docs/sdk-reference/template.mdx:157): a wait that returns a ready      *)
(* template has seen the build ready that was newest when it began.        *)
(***************************************************************************)
WaitsForCurrent ==
  \A c \in Clients : outcome[c] = "ready" => row[begun[c]] = "ready"

(***************************************************************************)
(* A wait ends when its build is over, whatever it came to and also when   *)
(* its log stream stays open, and when its signal fires although the build *)
(* goes on (Template.ts:267-367).                                          *)
(***************************************************************************)
WaitEnds == \A c \in Clients : Over(c) \/ aborted[c] ~> pc[c] = "done"
=============================================================================
