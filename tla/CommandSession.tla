--------------------------- MODULE CommandSession ---------------------------
(***************************************************************************)
(* commands.spawn() of the TypeScript SDK: the dial with its one resume,   *)
(* then the Session on an open WebSocket.  Everything runs in event        *)
(* handlers of one thread, so every handler is one step.                   *)
(***************************************************************************)
EXTENDS SessionText

CONSTANTS
  HasSignal,    \* is options.signal given?
  Sizes,        \* how many bytes a stdin.write() may have
  ChunkBytes,   \* STDIN_CHUNK_BYTES
  MaxWrites,    \* bound: calls of stdin.write()
  MaxEofs,      \* bound: calls of stdin.close()
  MaxKills      \* bound: calls of kill()

ASSUME BoundsAssumption ==
  /\ HasSignal \in BOOLEAN
  /\ Sizes \subseteq Nat /\ ChunkBytes \in Nat \ {0}
  /\ MaxWrites \in Nat /\ MaxEofs \in Nat /\ MaxKills \in Nat

VARIABLES
  dial,        \* "dialing", "activating", "redialing", "open" or "failed"
  readyState,  \* of the WebSocket: "open", "closing" or "closed"
  listening,   \* is onAbort registered with the signal?
  aborted,     \* has the signal fired?
  closeCalled, \* has close() been called?
  written,     \* history: the bytes of all writes so far
  writes, eofs, kills

session == <<readyState, result, text, held, heard, listening>>
stdin == <<written, writes, eofs>>
calls == <<aborted, closeCalled, stdin, kills>>
vars == <<wire, dial, session, calls>>

Init ==
  /\ WireInit /\ TextInit
  /\ dial = "dialing"
  /\ readyState = "open"
  /\ listening = FALSE
  /\ aborted = FALSE /\ closeCalled = FALSE
  /\ written = 0 /\ writes = 0 /\ eofs = 0 /\ kills = 0

-----------------------------------------------------------------------------
(* ws.send(): what a connection that is gone is given is lost. *)
SendOpen(frames) ==
  IF readyState = "open" /\ conn = "open" THEN SendFrames(frames) ELSE UNCHANGED toServer

(* Mutant: the socket is closed before the signal is sent. *)
FarewellsReversed == <<Frame("bye"), Frame("kill")>>

Farewells == <<Frame("kill"), Frame("bye")>>

(* _abort: SIGTERM, then the close handshake. *)
Abort ==
  IF readyState = "open"
  THEN /\ readyState' = "closing"
       /\ SendOpen(Farewells)
       /\ conn' = IF conn = "open" THEN "closing" ELSE conn
  ELSE UNCHANGED <<readyState, toServer, conn>>

-----------------------------------------------------------------------------
(* dialWithResume *)

DialFails ==
  /\ dial \in {"dialing", "redialing"}
  /\ dial' = IF dial = "dialing" THEN "activating" ELSE "failed"
  /\ UNCHANGED <<wire, session, calls>>

Activated ==
  /\ dial = "activating"
  /\ dial' \in {"redialing", "failed"}
  /\ UNCHANGED <<wire, session, calls>>

(* Mutant: a signal that fired during the dial is not looked at. *)
NotAborted == FALSE

AlreadyAborted == aborted

(* The start frame goes out (line 66) and the Session is made; a signal that
   fired during the dial aborts it at once. *)
DialOpens ==
  /\ dial \in {"dialing", "redialing"}
  /\ dial' = "open"
  /\ IF AlreadyAborted THEN Abort /\ UNCHANGED listening
     ELSE listening' = HasSignal /\ UNCHANGED <<readyState, toServer, conn>>
  /\ UNCHANGED <<proc, wrote, toClient, got, dropped, result, text, held, heard,
                 calls>>

-----------------------------------------------------------------------------
(* The caller *)

(* Mutant: the tail that does not fill a chunk is left out. *)
CutWhole(size) ==
  [k \in 1 .. size \div ChunkBytes |->
     [Frame("stdin") EXCEPT !.n = written + k * ChunkBytes]]

(* The last byte of each frame of a write behind those written so far. *)
Cut(size) ==
  LET last(k) == IF k * ChunkBytes > size THEN size ELSE k * ChunkBytes
  IN [k \in 1 .. (size + ChunkBytes - 1) \div ChunkBytes |->
        [Frame("stdin") EXCEPT !.n = written + last(k)]]

Write(size) ==
  /\ dial = "open" /\ writes < MaxWrites
  /\ SendOpen(Cut(size))
  /\ writes' = writes + 1 /\ written' = written + size
  /\ UNCHANGED <<proc, wrote, toClient, got, conn, dropped, dial, session,
                 aborted, closeCalled, eofs, kills>>

(* stdin.close(); later writes are sent nevertheless. *)
CloseStdin ==
  /\ dial = "open" /\ eofs < MaxEofs
  /\ SendOpen(<<[Frame("eof") EXCEPT !.n = written]>>)
  /\ eofs' = eofs + 1
  /\ UNCHANGED <<proc, wrote, toClient, got, conn, dropped, dial, session,
                 aborted, closeCalled, written, writes, kills>>

Kill ==
  /\ dial = "open" /\ kills < MaxKills
  /\ SendOpen(<<Frame("kill")>>)
  /\ kills' = kills + 1
  /\ UNCHANGED <<proc, wrote, toClient, got, conn, dropped, dial, session,
                 aborted, closeCalled, stdin>>

Close ==
  /\ dial = "open" /\ ~closeCalled
  /\ closeCalled' = TRUE
  /\ Abort
  /\ UNCHANGED <<proc, wrote, toClient, got, dropped, dial, result, text, held, heard,
                 listening, aborted, stdin, kills>>

(* options.signal fires. *)
SignalFires ==
  /\ HasSignal /\ ~aborted
  /\ aborted' = TRUE
  /\ IF listening THEN Abort ELSE UNCHANGED <<readyState, toServer, conn>>
  /\ UNCHANGED <<proc, wrote, toClient, got, dropped, dial, result, text, held, heard,
                 listening, closeCalled, stdin, kills>>

-----------------------------------------------------------------------------
(* The socket's events; nothing is delivered once the client has closed. *)

(* _onMessage, a binary frame. *)
OnOutput ==
  /\ dial = "open" /\ readyState = "open" /\ toClient # <<>>
  /\ Head(toClient).kind = "half"
  /\ toClient' = Tail(toClient)
  /\ OnBinary(Head(toClient))
  /\ UNCHANGED <<proc, wrote, toServer, got, conn, dropped, dial, readyState, result,
                 listening, calls>>

(* _onLifecycle, the finished event: _finish, the first time. *)
OnFinished ==
  /\ dial = "open" /\ readyState = "open" /\ toClient # <<>>
  /\ Head(toClient).kind = "finished"
  /\ toClient' = Tail(toClient)
  /\ IF result = "pending"
     THEN result' = "exit" /\ Flush /\ listening' = FALSE
     ELSE UNCHANGED <<result, text, held, listening>>
  /\ UNCHANGED <<proc, wrote, toServer, got, conn, dropped, dial, readyState, heard,
                 calls>>

(* _onClose: _fail, unless the session has settled.  The promise that
   removes the listener is rejected with it, and nobody handles that one. *)
OnClose ==
  /\ dial = "open" /\ conn = "closed"
  /\ readyState = "closing" \/ (readyState = "open" /\ toClient = <<>>)
  /\ readyState' = "closed"
  /\ IF result = "pending"
     THEN result' = "lost" /\ Flush /\ listening' = FALSE
     ELSE UNCHANGED <<result, text, held, listening>>
  /\ UNCHANGED <<wire, dial, heard, calls>>

-----------------------------------------------------------------------------
Dialing == DialFails \/ Activated \/ DialOpens
Event == OnOutput \/ OnFinished \/ OnClose

Next ==
  \/ dial = "open" /\ WireNext /\ UNCHANGED <<dial, session, calls>>
  \/ Dialing
  \/ Event
  \/ (\E size \in Sizes : Write(size)) \/ CloseStdin
  \/ Kill \/ Close \/ SignalFires

Spec == Init /\ [][Next]_vars

(* Dials end, events are dispatched, and a close handshake is answered or
   given up. *)
Fairness ==
  /\ WF_vars(Dialing)
  /\ WF_vars(Event)
  /\ WF_vars(dial = "open" /\ conn = "closing" /\ (ServeFrame \/ Drop)
             /\ UNCHANGED <<dial, session, calls>>)

FairSpec == Spec /\ Fairness

-----------------------------------------------------------------------------
(* Properties *)

TypeOK ==
  /\ dial \in {"dialing", "activating", "redialing", "open", "failed"}
  /\ readyState \in {"open", "closing", "closed"}
  /\ readyState = "closed" => result # "pending"
  /\ result \in {"pending", "exit", "lost"}
  /\ \A ch \in Channels : held[ch] = NoHalf \/ held[ch].ch = ch
  /\ {listening, aborted, closeCalled} \subseteq BOOLEAN
  /\ written \in Nat /\ writes \in 0 .. MaxWrites
  /\ eofs \in 0 .. MaxEofs /\ kills \in 0 .. MaxKills

(***************************************************************************)
(* wait() resolves "on exit; rejects if the connection drops first"        *)
(* (docs/sdk-reference/commands.mdx:95): a result is complete, and it is   *)
(* withheld only from a session that the network, close() or the signal    *)
(* broke off.                                                              *)
(***************************************************************************)
SessionHonest ==
  /\ ResultComplete
  /\ result = "lost" => dropped \/ closeCalled \/ aborted

(***************************************************************************)
(* The process is given the bytes of every write in order, none twice and  *)
(* none left out, in frames of at most STDIN_CHUNK_BYTES                   *)
(* (commandSession.ts:146-155), and unless the socket goes all of them:    *)
(* what it has got and what is on its way is what has been written.  It is *)
(* told of the end of its input (line 159) just behind the bytes written   *)
(* before stdin.close().                                                   *)
(***************************************************************************)
StdinExact ==
  LET given == got \o toServer
      ends(i) == {0} \cup {given[j].n : j \in {k \in 1 .. i - 1 : given[k].kind = "stdin"}}
      latest(m, i) == m \in ends(i) /\ \A l \in ends(i) : l <= m
  IN /\ \A i \in 1 .. Len(given) :
          /\ given[i].kind = "stdin" =>
               \E m \in ends(i) : latest(m, i) /\ given[i].n - m \in 1 .. ChunkBytes
          /\ given[i].kind = "eof" => latest(given[i].n, i)
     /\ conn = "open" => latest(written, Len(given) + 1)

(***************************************************************************)
(* "Kill the process, close the socket" (commandSession.ts:192): whoever   *)
(* ends a connection that is not lost, close() or the signal, before,      *)
(* while or after the command starts, the process has had its SIGTERM.     *)
(***************************************************************************)
AbortKills ==
  dial = "open" /\ conn = "closed" /\ ~dropped => proc \in {"killed", "exited"}

(* close() and the signal settle the session, or the spawn fails; so does a
   connection that goes. *)
Settles ==
  /\ aborted ~> (result # "pending" \/ dial = "failed")
  /\ closeCalled ~> (result # "pending")
  /\ dropped ~> (result # "pending")
=============================================================================
