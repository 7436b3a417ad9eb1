-------------------------- MODULE PyCommandSession --------------------------
(***************************************************************************)
(* An AsyncCommandSession of the Python SDK: its reader task, and the      *)
(* tasks that write to stdin, wait for the result, and close the session.  *)
(* Tasks interleave at their awaits and nowhere else.                      *)
(***************************************************************************)
EXTENDS SessionText, FiniteSets

CONSTANTS
  Writers,     \* tasks that call stdin.write()
  Enders,      \* those of them that call stdin.close() instead
  Killers,     \* tasks that call kill()
  Waiters,     \* tasks that call wait()
  Closers,     \* tasks that call close()
  Raises,      \* may on_stdout and on_stderr raise?
  MaxTasks,    \* bound: how many of the tasks make their call
  Chunks,      \* frames one write is cut into
  MaxCancels,  \* bound: waiting tasks cancelled by their owner (wait_for)
  Nobody       \* holder of the free lock

ASSUME TasksAssumption ==
  /\ MaxTasks \in Nat /\ Chunks \in Nat \ {0} /\ MaxCancels \in Nat
  /\ Enders \subseteq Writers /\ Waiters \cap Closers = {}
  /\ Nobody \notin Writers /\ Raises \in BOOLEAN

VARIABLES
  raised,      \* history: has a callback raised?
  reader,      \* self._reader: the task's state
  lock,        \* AsyncStdin._lock
  pc,          \* where each task is
  sent,        \* chunks each writer has sent
  ended,       \* how each task's call ended
  cancels      \* history: the waiting tasks that were cancelled

pySession == <<result, text, held, heard, raised, reader>>
tasks == <<lock, pc, sent, ended, cancels>>
pyVars == <<wire, pySession, tasks>>

Tasks == Writers \cup Waiters \cup Closers \cup Killers

(* The frames of a task's write: its chunks, or the end of stdin. *)
Frames(w) == IF w \in Enders THEN 1 ELSE Chunks
StdinFrame(w, n) == [kind |-> IF w \in Enders THEN "eof" ELSE "stdin", ch |-> w, n |-> n]

PyInit ==
  /\ WireInit /\ TextInit
  /\ raised = FALSE
  /\ reader = "unstarted"
  /\ lock = Nobody
  /\ pc = [t \in Tasks |-> "idle"]
  /\ sent = [w \in Writers |-> 0]
  /\ ended = [t \in Tasks |-> "none"]
  /\ cancels = {}

-----------------------------------------------------------------------------
(* The reader task *)

(* The first to settle the result does; later attempts are skipped. *)
Settle(how) ==
  IF result = "pending"
  THEN result' = how /\ Flush
  ELSE UNCHANGED <<result, text, held>>

(* ws.close(): the close handshake begins, unless it has. *)
CloseSocket ==
  IF conn = "open"
  THEN conn' = "closing" /\ SendFrames(<<Frame("bye")>>)
  ELSE UNCHANGED <<conn, toServer>>

ReaderStarts ==
  /\ reader = "unstarted"
  /\ reader' = "reading"
  /\ UNCHANGED <<wire, result, text, held, heard, raised, tasks>>

(* A binary frame. *)
ReadBinary ==
  /\ reader = "reading" /\ toClient # <<>>
  /\ Head(toClient).kind = "half"
  /\ toClient' = Tail(toClient)
  /\ OnBinary(Head(toClient))
  /\ UNCHANGED <<proc, wrote, toServer, got, conn, dropped, result, raised, reader, tasks>>

(* The callback raises: the loop swallows it and the session is over. *)
CallbackRaises ==
  /\ Raises
  /\ reader = "reading" /\ toClient # <<>>
  /\ Head(toClient).kind = "half"
  /\ Decoded(held[Head(toClient).ch], Head(toClient)) # <<>>
  /\ toClient' = Tail(toClient)
  /\ OnBinary(Head(toClient))
  /\ result' = IF result = "pending" THEN "lost" ELSE result
  /\ raised' = TRUE
  /\ reader' = "leaving"
  /\ CloseSocket
  /\ UNCHANGED <<proc, wrote, got, dropped, tasks>>

(* The finished event: settle, leave the loop, close the socket. *)
ReadFinished ==
  /\ reader = "reading" /\ toClient # <<>>
  /\ Head(toClient).kind = "finished"
  /\ toClient' = Tail(toClient)
  /\ Settle("exit")
  /\ reader' = "leaving"
  /\ CloseSocket
  /\ UNCHANGED <<proc, wrote, got, dropped, heard, raised, tasks>>

(* The iteration over the socket ends when it is closed and read out. *)
ReadOut == toClient = <<>> /\ conn = "closed"

(* The connection is over, or the task was cancelled: the `finally`. *)
ReaderUnwinds ==
  /\ \/ reader = "reading" /\ ReadOut
     \/ reader = "cancelled"
  /\ Settle("lost")
  /\ reader' = "leaving"
  /\ CloseSocket
  /\ UNCHANGED <<proc, wrote, toClient, got, dropped, heard, raised, tasks>>

ReaderEnds ==
  /\ reader = "leaving" /\ conn = "closed"
  /\ reader' = "ended"
  /\ UNCHANGED <<wire, result, text, held, heard, raised, tasks>>

-----------------------------------------------------------------------------
(* The callers' tasks *)

Called(t) ==
  /\ pc[t] = "idle"
  /\ Cardinality({u \in Tasks : pc[u] # "idle"}) < MaxTasks

End(t, how) ==
  /\ pc' = [pc EXCEPT ![t] = "ended"]
  /\ ended' = [ended EXCEPT ![t] = how]

(* stdin.write(): a no-op on a settled session, else wait for the lock. *)
CallWrite(w) ==
  /\ Called(w)
  /\ IF result # "pending"
     THEN End(w, "noop")
     ELSE pc' = [pc EXCEPT ![w] = "locking"] /\ UNCHANGED ended
  /\ UNCHANGED <<wire, pySession, lock, sent, cancels>>

(* Mutant: the chunks of two writes may alternate. *)
NoLock == TRUE

LockFree == lock = Nobody

Lock(w) ==
  /\ pc[w] = "locking" /\ LockFree
  /\ lock' = w
  /\ pc' = [pc EXCEPT ![w] = "sending"]
  /\ UNCHANGED <<wire, pySession, sent, ended, cancels>>

(* One `await ws.send(frame)` after the other; a closed socket throws. *)
SendChunk(w) ==
  /\ pc[w] = "sending"
  /\ IF conn = "open"
     THEN /\ SendFrames(<<StdinFrame(w, sent[w] + 1)>>)
          /\ sent' = [sent EXCEPT ![w] = @ + 1]
          /\ IF sent[w] + 1 = Frames(w)
             THEN End(w, "written") /\ lock' = Nobody
             ELSE UNCHANGED <<pc, ended, lock>>
     ELSE End(w, "raised") /\ lock' = Nobody /\ UNCHANGED <<toServer, sent>>
  /\ UNCHANGED <<proc, wrote, toClient, got, conn, dropped, pySession, cancels>>

(* wait(): await the future itself. *)
Wait(a) ==
  /\ Called(a)
  /\ pc' = [pc EXCEPT ![a] = "waiting"]
  /\ UNCHANGED <<wire, pySession, lock, sent, ended, cancels>>

Waited(a) ==
  /\ pc[a] = "waiting" /\ result # "pending"
  /\ End(a, result)
  /\ UNCHANGED <<wire, pySession, lock, sent, cancels>>

(* The waiting task is cancelled; so is, then, the future it awaits. *)
CancelWait(a) ==
  /\ pc[a] = "waiting" /\ result = "pending"
  /\ Cardinality(cancels) < MaxCancels
  /\ result' = "cancelled"
  /\ cancels' = cancels \cup {a}
  /\ End(a, "cancelled")
  /\ UNCHANGED <<wire, text, held, heard, raised, reader, lock, sent>>

(* kill(): a no-op on a settled session. *)
CallKill(k) ==
  /\ Called(k)
  /\ IF result # "pending" THEN End(k, "noop") /\ UNCHANGED toServer
     ELSE IF conn = "open" THEN SendFrames(<<Frame("kill")>>) /\ End(k, "sent")
     ELSE End(k, "raised") /\ UNCHANGED toServer
  /\ UNCHANGED <<proc, wrote, toClient, got, conn, dropped, pySession, lock, sent, cancels>>

(* reader.cancel(): a task that has not started never runs. *)
CancelReader ==
  reader' = CASE reader = "reading" -> "cancelled"
              [] reader \in {"unstarted", "leaving"} -> "ended"
              [] OTHER -> reader

(* Mutant: close() does not signal the process. *)
SignalsNever == FALSE

Signals == result = "pending"

(* close(): SIGTERM, unless the session has settled ... *)
CallClose(c) ==
  /\ Called(c)
  /\ IF Signals
     THEN /\ IF conn = "open" THEN SendFrames(<<Frame("kill")>>) ELSE UNCHANGED toServer
          /\ pc' = [pc EXCEPT ![c] = "killed"]
          /\ UNCHANGED reader
     ELSE /\ CancelReader
          /\ pc' = [pc EXCEPT ![c] = "joining"]
          /\ UNCHANGED toServer
  /\ UNCHANGED <<proc, wrote, toClient, got, conn, dropped, result, text, held, heard, raised,
                 lock, sent, ended, cancels>>

(* ... then cancel the reader and wait for it ... *)
CloseCancels(c) ==
  /\ pc[c] = "killed"
  /\ CancelReader
  /\ pc' = [pc EXCEPT ![c] = "joining"]
  /\ UNCHANGED <<wire, result, text, held, heard, raised, lock, sent, ended, cancels>>

(* Mutant: close() leaves it to the reader to settle the result. *)
LeftAsItIs == result

SettledByClose == IF result = "pending" THEN "closed" ELSE result

(* ... settle the result if the reader did not, and close the socket. *)
CloseSettles(c) ==
  /\ pc[c] = "joining" /\ reader = "ended"
  /\ result' = SettledByClose
  /\ CloseSocket
  /\ pc' = [pc EXCEPT ![c] = "closing"]
  /\ UNCHANGED <<proc, wrote, toClient, got, dropped, text, held, heard, raised, reader,
                 lock, sent, ended, cancels>>

Closed(c) ==
  /\ pc[c] = "closing" /\ conn = "closed"
  /\ End(c, "closed")
  /\ UNCHANGED <<wire, pySession, lock, sent, cancels>>

-----------------------------------------------------------------------------
ReaderStep == \/ ReaderStarts \/ ReadBinary \/ CallbackRaises \/ ReadFinished \/ ReaderUnwinds \/ ReaderEnds

WriterStep(w) == CallWrite(w) \/ Lock(w) \/ SendChunk(w)
CloserStep(c) == CallClose(c) \/ CloseCancels(c) \/ CloseSettles(c) \/ Closed(c)

PyNext ==
  \/ WireNext /\ UNCHANGED <<pySession, tasks>>
  \/ ReaderStep
  \/ \E w \in Writers : WriterStep(w)
  \/ \E a \in Waiters : Wait(a) \/ Waited(a) \/ CancelWait(a)
  \/ \E k \in Killers : CallKill(k)
  \/ \E c \in Closers : CloserStep(c)

PySpec == PyInit /\ [][PyNext]_pyVars

(* The event loop runs every task that can go on; the far end answers the
   close handshake, or the library gives up on it. Nothing is asked of the
   writers: a drain that never ends must not keep another task waiting. *)
PyFairness ==
  /\ WF_pyVars(ReaderStep)
  /\ \A a \in Waiters : WF_pyVars(Waited(a))
  /\ \A c \in Closers : WF_pyVars(CloseCancels(c)) /\ WF_pyVars(CloseSettles(c)) /\ WF_pyVars(Closed(c))
  /\ WF_pyVars(conn = "closing" /\ (ServeFrame \/ Drop) /\ UNCHANGED <<pySession, tasks>>)

PyFairSpec == PySpec /\ PyFairness

-----------------------------------------------------------------------------
(* Properties *)

PyTypeOK ==
  /\ proc \in {"none", "running", "killed", "exited"}
  /\ conn \in {"open", "closing", "closed"} /\ dropped \in BOOLEAN
  /\ result \in {"pending", "exit", "lost", "closed", "cancelled"}
  /\ reader \in {"unstarted", "reading", "cancelled", "leaving", "ended"}
  /\ \A ch \in Channels : held[ch] = NoHalf \/ held[ch].ch = ch
  /\ lock \in Writers \cup {Nobody}
  /\ \A w \in Writers : sent[w] \in 0 .. Frames(w)
  /\ pc \in [Tasks -> {"idle", "locking", "sending", "waiting", "killed", "joining",
                       "closing", "ended"}]
  /\ ended \in [Tasks -> {"none", "noop", "written", "raised", "sent", "exit", "lost",
                          "closed", "cancelled"}]
  /\ cancels \subseteq Waiters

(* A session that ends without a result has lost its connection, or a
   callback raised, or close() was called. *)
LossHasACause ==
  result \in {"lost", "closed"} =>
    dropped \/ raised \/ \E c \in Closers : pc[c] # "idle"

(***************************************************************************)
(* "Resolve with the final result; raise if the connection drops first"    *)
(* (command_session.py:183): a result is complete, and none is withheld.   *)
(***************************************************************************)
ResultHonest == ResultComplete /\ LossHasACause

(***************************************************************************)
(* "the lock keeps concurrent write() calls from interleaving their chunks *)
(* on the wire" (command_session.py:112-114): when the server sees a chunk *)
(* of a write, it has seen the chunk before it just before.                *)
(***************************************************************************)
ChunksContiguous ==
  \A i \in 2 .. Len(got) :
    got[i].n > 1 => /\ got[i - 1].ch = got[i].ch
                    /\ got[i - 1].n = got[i].n - 1

(***************************************************************************)
(* "wait() is always settled and the socket is always closed - never a     *)
(* hang or a leak" (command_session.py:219-220): a reader that has ended   *)
(* leaves no open socket, unless close() is about to close it, and after   *)
(* close() neither a reader, a pending result nor an open socket is left.  *)
(***************************************************************************)
NoLeak ==
  /\ reader = "ended" =>
       conn # "open" \/ \E c \in Closers : pc[c] = "joining"
  /\ \A c \in Closers : ended[c] = "closed" =>
       conn = "closed" /\ reader = "ended" /\ result # "pending"

(***************************************************************************)
(* "Kill the process and close the connection" (command_session.py:187):   *)
(* after close(), a process that is still connected has had its SIGTERM -  *)
(* unless a callback raised, or a cancelled wait() took the result away.   *)
(***************************************************************************)
CloseKills ==
  cancels = {} /\ ~raised =>
    \A c \in Closers : ended[c] = "closed" /\ ~dropped => proc \in {"killed", "exited"}

(* close() leaves nothing behind on either side (command_session.py:186-201). *)
CloseCleans == NoLeak /\ CloseKills

(* "wait() must never hang" (command_session.py:195): once the session has
   ended for whatever reason, so does every wait(), and so does close(). *)
NeverHangs ==
  /\ \A a \in Waiters :
       (pc[a] = "waiting" /\ (conn = "closed" \/ \E c \in Closers : pc[c] # "idle"))
         ~> (pc[a] = "ended")
  /\ \A c \in Closers : (pc[c] # "idle") ~> (pc[c] = "ended")
=============================================================================
