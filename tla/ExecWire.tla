------------------------------ MODULE ExecWire ------------------------------
(***************************************************************************)
(* The far end of an exec session, as the SDKs use it: a process, and a    *)
(* WebSocket that carries its output one way and stdin, signals and the    *)
(* close handshake the other (external to src/).                           *)
(*                                                                         *)
(* Output is cut into frames without regard to characters: every rune is   *)
(* two bytes here, and every frame one of them.                            *)
(***************************************************************************)
EXTENDS Naturals, Sequences

CONSTANT MaxBytes     \* bound: bytes the process writes

Channels == {"out", "err"}

VARIABLES
  proc,        \* the process: "none", "running", "killed" or "exited"
  wrote,       \* bytes it has written to each channel
  toClient,    \* frames on their way to the client
  toServer,    \* frames on their way to the server
  got,         \* stdin frames the process has been given
  conn,        \* the socket: "open", "closing" (by the client) or "closed"
  dropped      \* history: has the connection been lost?

wire == <<proc, wrote, toClient, toServer, got, conn, dropped>>

Half(ch, n) == [kind |-> "half", ch |-> ch, n |-> n]
Frame(kind) == [kind |-> kind, ch |-> "out", n |-> 0]

WireInit ==
  /\ proc = "none"
  /\ wrote = [ch \in Channels |-> 0]
  /\ toClient = <<>>
  /\ toServer = <<Frame("start")>>
  /\ got = <<>>
  /\ conn = "open"
  /\ dropped = FALSE

Emit(ch) ==
  /\ proc \in {"running", "killed"} /\ conn = "open"
  /\ wrote["out"] + wrote["err"] < MaxBytes
  /\ wrote' = [wrote EXCEPT ![ch] = @ + 1]
  /\ toClient' = Append(toClient, Half(ch, wrote[ch] + 1))
  /\ UNCHANGED <<proc, toServer, got, conn, dropped>>

(* The process ends, by itself or killed: its last frame says so. *)
Exit ==
  /\ proc \in {"running", "killed"}
  /\ proc' = "exited"
  /\ toClient' = IF conn = "open" THEN Append(toClient, Frame("finished")) ELSE toClient
  /\ UNCHANGED <<wrote, toServer, got, conn, dropped>>

(* The server takes the next frame. *)
ServeFrame ==
  /\ toServer # <<>> /\ conn # "closed"
  /\ toServer' = Tail(toServer)
  /\ LET frame == Head(toServer) IN
     /\ proc' = CASE frame.kind = "start" -> "running"
                  [] frame.kind = "kill" /\ proc = "running" -> "killed"
                  [] OTHER -> proc
     /\ got' = IF frame.kind \in {"stdin", "eof"} THEN Append(got, frame) ELSE got
     /\ conn' = IF frame.kind = "bye" THEN "closed" ELSE conn
  /\ UNCHANGED <<wrote, toClient, dropped>>

(* The server closes the socket once the process has ended. *)
ServerCloses ==
  /\ proc = "exited" /\ conn = "open"
  /\ conn' = "closed"
  /\ UNCHANGED <<proc, wrote, toClient, toServer, got, dropped>>

(* The connection is lost, with what is on its way. *)
Drop ==
  /\ conn # "closed"
  /\ conn' = "closed"
  /\ dropped' = TRUE
  /\ \E k \in 0 .. Len(toClient) : toClient' = SubSeq(toClient, 1, k)
  /\ toServer' = <<>>
  /\ UNCHANGED <<proc, wrote, got>>

WireNext == (\E ch \in Channels : Emit(ch)) \/ Exit \/ ServeFrame \/ ServerCloses \/ Drop

(* The client's side of the socket. *)
SendFrames(frames) == toServer' = toServer \o frames

-----------------------------------------------------------------------------
(* Text, and the decoders that carry half a rune from frame to frame. *)

Rune(ch, k) == <<"rune", ch, k>>
Broken(ch) == <<"broken", ch, 0>>
NoHalf == Half("out", 0)

(* What a decoder that holds `held` makes of the next byte. *)
Decoded(held, half) ==
  IF half.n % 2 = 1
  THEN IF held = NoHalf THEN <<>> ELSE <<Broken(held.ch)>>
  ELSE IF held = Half(half.ch, half.n - 1)
       THEN <<Rune(half.ch, half.n \div 2)>> ELSE <<Broken(half.ch)>>

Holds(half) == IF half.n % 2 = 1 THEN half ELSE NoHalf

Flushed(held) == IF held = NoHalf THEN <<>> ELSE <<Broken(held.ch)>>

(* The text of the first n bytes of a channel. *)
TextOf(ch, n) ==
  [k \in 1 .. n \div 2 |-> Rune(ch, k)] \o (IF n % 2 = 1 THEN <<Broken(ch)>> ELSE <<>>)
=============================================================================
