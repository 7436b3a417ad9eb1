----------------------------- MODULE ExecStream -----------------------------
(***************************************************************************)
(* commands.run() with callbacks: streamSSE() under _consumeStream() under *)
(* withTokenRetry(), in TypeScript (packages/sdk/src/commands.ts, http.ts) *)
(* and in Python (commands.py, _http.py, _token_retry.py).                 *)
(*                                                                         *)
(* The two differ in what becomes of an error of the caller's callback:    *)
(* TypeScript takes it for a malformed event, Python lets it through to    *)
(* withTokenRetry.                                                         *)
(*                                                                         *)
(* The data plane (external) starts the command when it accepts the        *)
(* request, writes one event after the other, and closes the stream; the   *)
(* network may break it anywhere.  A chunk that holds several lines is     *)
(* handled like as many chunks of one, and a line is handled when its end  *)
(* is in, so an event is the unit here.                                    *)
(***************************************************************************)
EXTENDS Naturals, Sequences

CONSTANTS
  Throws,      \* per SDK, the errors its callbacks may throw
  MaxEvents    \* bound: events of one command

(* The SDKs, and a callback's errors: "resumable" is one that withTokenRetry  *)
(* cannot tell from the request's own 401 or 503.                           *)
SDKs == {"ts", "py"}
Thrown == {"plain", "resumable"}

ASSUME StreamAssumption ==
  /\ Throws \in [SDKs -> SUBSET Thrown]
  /\ MaxEvents \in Nat \ {0}

VARIABLES
  sdk,       \* the SDK that runs the command
  phase,     \* "idle", "sent", "reading", "refreshing", "returned" or "thrown"
  tries,     \* requests made
  why,       \* the error that ended the last request
  sent,      \* the events of the command that runs: each is a set of fields
  next,      \* how many of them the reader has handled
  out, err,  \* stdout and stderr so far: the events they came from
  finished,  \* sawFinished
  runs,      \* how often a command was started
  spoilt,    \* the events of which a callback threw
  emitted    \* what the onStdout callback was given: <<run, event>>

streamVars == <<sdk, phase, tries, why, sent, next, out, err, finished, runs, spoilt, emitted>>
stream == <<sent, next, out, err, finished, spoilt>>

Errors == {"401", "503", "500", "timeout", "network", "aborted", "noFinish"} \cup Thrown
Events == SUBSET {"out", "err", "fin"} \ {{}}

StreamInit ==
  /\ sdk \in SDKs
  /\ phase = "idle" /\ tries = 0 /\ why = "none"
  /\ sent = <<>> /\ next = 0 /\ out = <<>> /\ err = <<>> /\ finished = FALSE /\ spoilt = {}
  /\ runs = 0 /\ emitted = <<>>

-----------------------------------------------------------------------------
(* Mutant: a stream that broke is asked for again. *)
ResumableWhenBroken(e) == e \in {"401", "503", "resumable", "network"}
(* A callback's "resumable" error is an AuthenticationError or a 503 of     *)
(* another call it made itself.                                             *)
Resumable(e) == e \in {"401", "503", "resumable"}

FirstTry == tries = 1

(* withTokenRetry: the first failure may be cured, the second is the call's. *)
Fail(e) ==
  /\ why' = e
  /\ phase' = IF FirstTry /\ Resumable(e) THEN "refreshing" ELSE "thrown"

(* A request, with the locals of a fresh _consumeStream(). *)
Send ==
  /\ phase \in {"idle", "refreshing"}
  /\ phase' = "sent" /\ tries' = tries + 1
  /\ sent' = <<>> /\ next' = 0 /\ out' = <<>> /\ err' = <<>> /\ finished' = FALSE
  /\ spoilt' = {}
  /\ UNCHANGED <<sdk, why, runs, emitted>>

(* refreshActivate() fails. *)
RefreshFails ==
  /\ phase = "refreshing"
  /\ phase' = "thrown"
  /\ UNCHANGED <<sdk, tries, why, stream, runs, emitted>>

Refused ==
  /\ phase = "sent"
  /\ \E e \in {"401", "503", "500"} : Fail(e)
  /\ UNCHANGED <<sdk, tries, stream, runs, emitted>>

Accepted ==
  /\ phase = "sent"
  /\ phase' = "reading" /\ runs' = runs + 1
  /\ UNCHANGED <<sdk, tries, why, stream, emitted>>

Over == sent # <<>> /\ "fin" \in sent[Len(sent)]

(* The command writes, and finishes with its last event. *)
Write ==
  /\ phase = "reading" /\ ~Over /\ Len(sent) < MaxEvents
  /\ \E e \in Events : sent' = Append(sent, e)
  /\ UNCHANGED <<sdk, phase, tries, why, next, out, err, finished, spoilt, runs, emitted>>

(* The catch around JSON.parse() and onEvent(). *)
Swallowed == sdk = "ts"

(* onEvent: the next event, whose callback for the field `bad` throws e.    *)
(* Output is kept before it is handed to its callback.                      *)
Handle ==
  /\ phase = "reading" /\ next < Len(sent)
  /\ \E bad \in {"none"} \cup (sent[next + 1] \cap {"out", "err"}), e \in Throws[sdk] \cup {"none"} :
       LET event == sent[next + 1]
           reached(field) == /\ field \in event
                             /\ bad = "out" => field = "out"
                             /\ bad = "err" => field # "fin"
       IN /\ (bad = "none") = (e = "none")
          /\ next' = next + 1
          /\ out' = IF reached("out") THEN Append(out, next + 1) ELSE out
          /\ err' = IF reached("err") THEN Append(err, next + 1) ELSE err
          /\ emitted' = IF reached("out") THEN Append(emitted, <<runs, next + 1>>) ELSE emitted
          /\ spoilt' = IF e = "none" THEN spoilt ELSE spoilt \cup {next + 1}
          /\ finished' = (finished \/ reached("fin"))
          /\ IF e = "none" \/ Swallowed THEN UNCHANGED <<phase, why>> ELSE Fail(e)
  /\ UNCHANGED <<sdk, tries, sent, runs>>

(* Mutant: a stream that just ends is taken for a command that did. *)
EndIsFinish == TRUE
SawFinished == finished

(* The server closes the stream: after the last event, or on a shutdown. *)
StreamEnds ==
  /\ phase = "reading"
  /\ IF SawFinished THEN phase' = "returned" /\ why' = "none" ELSE Fail("noFinish")
  /\ UNCHANGED <<sdk, tries, stream, runs, emitted>>

(* The idle timer, a broken connection, the caller's signal (Python takes   *)
(* none).                                                                   *)
Breaks == {"timeout", "network"} \cup (IF sdk = "ts" THEN {"aborted"} ELSE {})
Break(e) ==
  /\ e \in Breaks
  /\ phase \in {"sent", "reading"}
  /\ Fail(e)
  /\ UNCHANGED <<sdk, tries, stream, runs, emitted>>

(* Mutant: the timer is not set again after the first chunk. *)
TimesFirstChunk == phase = "sent" \/ (phase = "reading" /\ next = 0)
IdleTimed == phase \in {"sent", "reading"}
Timeout == IdleTimed /\ Break("timeout")

(* A command whose request broke before its answer came has started all the *)
(* same.                                                                    *)
StartedUnseen ==
  /\ phase = "sent" /\ runs' = runs + 1
  /\ \E e \in Breaks : Fail(e)
  /\ UNCHANGED <<sdk, tries, stream, emitted>>

StreamNext ==
  \/ Send \/ RefreshFails \/ Refused \/ Accepted \/ Write \/ Handle \/ StreamEnds
  \/ Timeout \/ Break("network") \/ Break("aborted") \/ StartedUnseen

StreamSpec == StreamInit /\ [][StreamNext]_streamVars

(* The client runs and its timers fire; the data plane may do nothing.      *)
StreamClientSpec == StreamSpec /\ WF_streamVars(Send) /\ WF_streamVars(Handle) /\ WF_streamVars(Timeout)

-----------------------------------------------------------------------------
StreamTypeOK ==
  /\ sdk \in SDKs
  /\ phase \in {"idle", "sent", "reading", "refreshing", "returned", "thrown"}
  /\ tries \in 0 .. 2 /\ runs \in 0 .. 2
  /\ why \in Errors \cup {"none"}
  /\ sent \in Seq(Events) /\ next \in 0 .. Len(sent)
  /\ out \in Seq(1 .. MaxEvents) /\ err \in Seq(1 .. MaxEvents)
  /\ finished \in BOOLEAN /\ spoilt \subseteq DOMAIN sent

(* Nothing lost but what a callback threw upon, all in order, none twice.   *)
AllOf(field, kept) ==
  /\ {kept[i] : i \in 1 .. Len(kept)} \ spoilt
       = {n \in 1 .. Len(sent) : field \in sent[n]} \ spoilt
  /\ \A i, j \in 1 .. Len(kept) : i < j => kept[i] < kept[j]

(* "Even while streaming, the returned result still holds the complete      *)
(* stdout and stderr" (docs/commands/streaming.mdx:35), also when a request *)
(* before it was refused, and only of a command that has finished.          *)
OutputComplete ==
  phase = "returned" => Over /\ AllOf("out", out) /\ AllOf("err", err)

(* "a retry can't double-emit callbacks" (commands.ts:167-168,              *)
(* commands.py:141-142): the command is started once, and what onStdout was *)
(* given is the output in order, each piece once.                           *)
NoDoubleEmit ==
  /\ runs <= 1
  /\ \A i, j \in DOMAIN emitted : i < j => emitted[i][2] < emitted[j][2]

(* A command that goes silent, or a server that does, still ends the call:  *)
(* docs/commands/streaming.mdx:44.                                          *)
RunEnds == phase # "idle" ~> phase \in {"returned", "thrown"}
=============================================================================
