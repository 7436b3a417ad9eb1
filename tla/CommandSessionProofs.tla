------------------------ MODULE CommandSessionProofs ------------------------
(***************************************************************************)
(* Proofs about the command sessions of both SDKs: PyCommandSession for    *)
(* any number of tasks and any length of a write, CommandSession for any   *)
(* number of calls, and both for any amount of output.                     *)
(***************************************************************************)
EXTENDS CommandSession, PyCommandSession, TLAPS

-----------------------------------------------------------------------------
(* The wire *)

ServerFrames == [kind : {"start", "stdin", "eof", "kill", "bye"}, ch : Writers \cup {"out"}, n : Nat]
ClientFrames == [kind : {"half", "finished"}, ch : Channels, n : Nat]

WireTyped ==
  /\ proc \in {"none", "running", "killed", "exited"}
  /\ wrote \in [Channels -> Nat]
  /\ toServer \in Seq(ServerFrames)
  /\ toClient \in Seq(ClientFrames)
  /\ got \in Seq(ServerFrames)
  /\ conn \in {"open", "closing", "closed"}

(* What is on its way tells what the other end has done. *)
OnItsWay ==
  /\ \A i \in 1 .. Len(toServer) :
       /\ toServer[i].kind = "start" => i = 1 /\ proc = "none"
       /\ toServer[i].kind = "bye" => conn # "open"
  /\ proc = "none" /\ conn # "closed" => toServer # <<>> /\ toServer[1].kind = "start"
  /\ \A i \in 1 .. Len(toClient) : toClient[i].kind = "finished" => proc = "exited"

(* A SIGTERM is on its way to the process, and nothing will overtake it. *)
KillAhead ==
  /\ conn # "closed"
  /\ \E i \in 1 .. Len(toServer) :
       /\ toServer[i].kind = "kill"
       /\ \A j \in 1 .. i - 1 : toServer[j].kind # "bye"

Dying == proc \in {"killed", "exited"} \/ KillAhead

WireInv == WireTyped /\ OnItsWay

-----------------------------------------------------------------------------
(* Sequences of frames *)

LEMMA Appended ==
  ASSUME NEW S, NEW s \in Seq(S), NEW f \in S
  PROVE  /\ s \o <<f>> \in Seq(S) /\ Append(s, f) = s \o <<f>>
         /\ Len(s \o <<f>>) = Len(s) + 1
         /\ \A i \in 1 .. Len(s) : (s \o <<f>>)[i] = s[i]
         /\ (s \o <<f>>)[Len(s) + 1] = f
  OBVIOUS

LEMMA Tailed ==
  ASSUME NEW S, NEW s \in Seq(S), s # <<>>
  PROVE  /\ Tail(s) \in Seq(S) /\ Len(Tail(s)) = Len(s) - 1 /\ Len(s) \in Nat \ {0}
         /\ Head(s) = s[1] /\ s[1] \in S
         /\ \A i \in 1 .. Len(s) - 1 : Tail(s)[i] = s[i + 1]
  OBVIOUS

LEMMA CutShort ==
  ASSUME NEW S, NEW s \in Seq(S), NEW k \in 0 .. Len(s)
  PROVE  /\ SubSeq(s, 1, k) \in Seq(S) /\ Len(SubSeq(s, 1, k)) = k
         /\ \A i \in 1 .. k : SubSeq(s, 1, k)[i] = s[i]
  OBVIOUS

LEMMA SameSeq ==
  ASSUME NEW S, NEW s \in Seq(S), NEW t \in Seq(S), Len(s) = Len(t),
         \A k \in 1 .. Len(s) : s[k] = t[k]
  PROVE  s = t
  OBVIOUS

LEMMA FramesAreFrames ==
  /\ Frame("start") \in ServerFrames /\ Frame("kill") \in ServerFrames
  /\ Frame("bye") \in ServerFrames /\ Frame("finished") \in ClientFrames
  /\ Frame("start").kind = "start" /\ Frame("kill").kind = "kill"
  /\ Frame("bye").kind = "bye" /\ Frame("finished").kind = "finished"
  /\ \A ch \in Channels, n \in Nat : Half(ch, n) \in ClientFrames /\ Half(ch, n).kind = "half"
  /\ \A w \in Writers, n \in Nat :
       /\ StdinFrame(w, n) \in ServerFrames /\ StdinFrame(w, n).kind \in {"stdin", "eof"}
       /\ StdinFrame(w, n).ch = w /\ StdinFrame(w, n).n = n
  BY DEF Frame, Half, StdinFrame, ServerFrames, ClientFrames, Channels

-----------------------------------------------------------------------------
(* What a step does to the frames on their way *)

LEMMA StillFinished ==
  ASSUME WireInv, toClient' = toClient \/ (toClient # <<>> /\ toClient' = Tail(toClient))
  PROVE  /\ toClient' \in Seq(ClientFrames)
         /\ \A i \in 1 .. Len(toClient') : toClient'[i].kind = "finished" => proc = "exited"
  <1>1. CASE toClient' = toClient
    BY <1>1 DEF WireInv, WireTyped, OnItsWay
  <1>2. CASE toClient # <<>> /\ toClient' = Tail(toClient)
    <2>1. /\ toClient' \in Seq(ClientFrames) /\ Len(toClient') = Len(toClient) - 1
          /\ Len(toClient) \in Nat
          /\ \A i \in 1 .. Len(toClient) - 1 : toClient'[i] = toClient[i + 1]
      BY <1>2, Tailed DEF WireInv, WireTyped
    <2>2. ASSUME NEW i \in 1 .. Len(toClient'), toClient'[i].kind = "finished"
          PROVE  proc = "exited"
      <3>1. i + 1 \in 1 .. Len(toClient) /\ toClient[i + 1].kind = "finished"
        BY <2>1, <2>2
      <3> QED BY <3>1 DEF WireInv, OnItsWay
    <2> QED BY <2>1, <2>2
  <1> QED BY <1>1, <1>2

(* Nothing the client sends but the close overtakes a SIGTERM. *)
LEMMA ClientSends ==
  ASSUME WireInv, NEW f \in ServerFrames, f.kind # "start", conn = "open",
         toServer' = toServer \o <<f>>, proc' = proc,
         conn' = IF f.kind = "bye" THEN "closing" ELSE conn,
         toClient' = toClient \/ (toClient # <<>> /\ toClient' = Tail(toClient))
  PROVE  /\ toServer' \in Seq(ServerFrames)
         /\ toClient' \in Seq(ClientFrames)
         /\ OnItsWay'
         /\ Dying => Dying'
         /\ f.kind = "kill" => Dying'
  <1>1. /\ toServer' \in Seq(ServerFrames) /\ Len(toServer') = Len(toServer) + 1
        /\ \A i \in 1 .. Len(toServer) : toServer'[i] = toServer[i]
        /\ toServer'[Len(toServer) + 1] = f
        /\ Len(toServer) \in Nat
    BY Appended DEF WireInv, WireTyped
  <1>2. /\ toClient' \in Seq(ClientFrames)
        /\ \A i \in 1 .. Len(toClient') : toClient'[i].kind = "finished" => proc = "exited"
    BY StillFinished
  <1>3. OnItsWay'
    <2>1. \A i \in 1 .. Len(toServer') :
            /\ toServer'[i].kind = "start" => i = 1 /\ proc' = "none"
            /\ toServer'[i].kind = "bye" => conn' # "open"
      BY <1>1 DEF WireInv, OnItsWay
    <2>2. proc' = "none" /\ conn' # "closed" => toServer' # <<>> /\ toServer'[1].kind = "start"
      <3> SUFFICES ASSUME proc = "none" PROVE toServer' # <<>> /\ toServer'[1].kind = "start"
        OBVIOUS
      <3>1. toServer # <<>> /\ toServer[1].kind = "start"
        BY DEF WireInv, OnItsWay
      <3>2. Len(toServer) >= 1
        BY <3>1, <1>1 DEF WireInv, WireTyped
      <3> QED BY <3>1, <3>2, <1>1
    <2> QED BY <2>1, <2>2, <1>2 DEF OnItsWay
  <1>4. Dying => Dying'
    <2> SUFFICES ASSUME KillAhead PROVE KillAhead'
      BY DEF Dying
    <2>1. PICK i \in 1 .. Len(toServer) :
            toServer[i].kind = "kill" /\ \A j \in 1 .. i - 1 : toServer[j].kind # "bye"
      BY DEF KillAhead
    <2>2. \A j \in 1 .. i : toServer'[j] = toServer[j]
      BY <1>1
    <2> QED BY <2>1, <2>2, <1>1 DEF KillAhead
  <1>5. ASSUME f.kind = "kill" PROVE KillAhead'
    <2>1. \A j \in 1 .. Len(toServer) : toServer'[j].kind # "bye"
      BY <1>1 DEF WireInv, OnItsWay
    <2> QED BY <1>5, <2>1, <1>1 DEF KillAhead
  <1> QED BY <1>1, <1>2, <1>3, <1>4, <1>5 DEF Dying

(* The client leaves the wire alone. *)
LEMMA WireAlone ==
  ASSUME WireInv, UNCHANGED wire
  PROVE  OnItsWay' /\ (Dying => Dying')
  BY DEF WireInv, OnItsWay, Dying, KillAhead, wire

(* The far end takes a frame. *)
LEMMA FrameServed ==
  ASSUME WireInv, ServeFrame
  PROVE  /\ WireInv'
         /\ Dying => Dying'
         /\ conn' # "open" => conn # "open"
         /\ dropped' = dropped
  <1> DEFINE f == Head(toServer)
  <1>1. /\ toServer # <<>> /\ conn # "closed" /\ toServer' = Tail(toServer)
        /\ proc' = CASE f.kind = "start" -> "running"
                     [] f.kind = "kill" /\ proc = "running" -> "killed"
                     [] OTHER -> proc
        /\ got' = IF f.kind \in {"stdin", "eof"} THEN Append(got, f) ELSE got
        /\ conn' = IF f.kind = "bye" THEN "closed" ELSE conn
        /\ UNCHANGED <<wrote, toClient, dropped>>
    BY DEF ServeFrame
  <1>2. /\ toServer' \in Seq(ServerFrames) /\ Len(toServer') = Len(toServer) - 1
        /\ f = toServer[1] /\ f \in ServerFrames /\ Len(toServer) \in Nat \ {0}
        /\ \A i \in 1 .. Len(toServer') : toServer'[i] = toServer[i + 1] /\ i + 1 \in 1 .. Len(toServer)
    BY <1>1, Tailed DEF WireInv, WireTyped
  <1>3. 1 \in 1 .. Len(toServer) /\ (proc = "none" => f.kind = "start")
    BY <1>1, <1>2 DEF WireInv, OnItsWay
  <1>4. f.kind = "start" => proc = "none"
    BY <1>2, <1>3 DEF WireInv, OnItsWay
  <1>5. WireTyped'
    <2>1. got' \in Seq(ServerFrames)
      BY <1>1, <1>2, Appended DEF WireInv, WireTyped
    <2>2. proc' \in {"none", "running", "killed", "exited"} /\ conn' \in {"open", "closing", "closed"}
      BY <1>1 DEF WireInv, WireTyped
    <2> QED BY <1>1, <1>2, <2>1, <2>2 DEF WireInv, WireTyped
  <1>6. OnItsWay'
    <2>1. ASSUME NEW i \in 1 .. Len(toServer')
          PROVE  /\ toServer'[i].kind # "start"
                 /\ toServer'[i].kind = "bye" => conn' # "open"
      <3>1. i + 1 \in 1 .. Len(toServer) /\ toServer'[i] = toServer[i + 1] /\ i + 1 # 1
        BY <1>2
      <3> QED BY <3>1, <1>1 DEF WireInv, OnItsWay
    <2>2. proc' # "none"
      BY <1>1, <1>3 DEF WireInv, WireTyped
    <2>3. proc = "exited" => proc' = "exited"
      BY <1>1, <1>4
    <2> QED BY <1>1, <2>1, <2>2, <2>3 DEF WireInv, OnItsWay
  <1>7. conn' # "open" => conn # "open"
    BY <1>1, <1>2, <1>3 DEF WireInv, OnItsWay
  <1>8. ASSUME Dying PROVE Dying'
    <2>2. CASE proc \in {"killed", "exited"}
      BY <2>2, <1>1, <1>4 DEF Dying
    <2>3. CASE proc \notin {"killed", "exited"}
      <3>1. PICK i \in 1 .. Len(toServer) :
              toServer[i].kind = "kill" /\ \A j \in 1 .. i - 1 : toServer[j].kind # "bye"
        BY <1>8, <2>3 DEF Dying, KillAhead
      <3>2. CASE i = 1
        BY <3>1, <3>2, <1>1, <1>2, <1>3, <2>3 DEF Dying, WireInv, WireTyped
      <3>3. CASE i # 1
        <4>1. i - 1 \in 1 .. Len(toServer') /\ toServer'[i - 1].kind = "kill"
          BY <3>1, <3>3, <1>2
        <4>2. ASSUME NEW j \in 1 .. (i - 1) - 1 PROVE toServer'[j].kind # "bye"
          <5>1. j + 1 \in 1 .. i - 1 /\ j \in 1 .. Len(toServer')
            BY <4>1
          <5> QED BY <5>1, <3>1, <1>2
        <4>3. conn' # "closed"
          <5>1. 1 \in 1 .. i - 1
            BY <3>3
          <5> QED BY <5>1, <3>1, <1>1, <1>2
        <4> QED BY <4>1, <4>2, <4>3 DEF Dying, KillAhead
      <3> QED BY <3>2, <3>3
    <2> QED BY <2>2, <2>3
  <1> QED BY <1>1, <1>5, <1>6, <1>7, <1>8 DEF WireInv

(* The far end and the network take nothing from a process that is to die
   but with the connection, and close none that has not had its SIGTERM. *)
LEMMA WireStep ==
  ASSUME WireInv, WireNext
  PROVE  /\ WireInv'
         /\ Dying /\ ~dropped' => Dying'
         /\ conn' # "open" /\ ~dropped' => conn # "open" \/ Dying'
         /\ dropped => dropped'
  <1>1. ASSUME NEW ch \in Channels, Emit(ch)
        PROVE  WireInv' /\ (Dying => Dying') /\ UNCHANGED <<conn, dropped>>
    <2>1. /\ wrote' = [wrote EXCEPT ![ch] = @ + 1]
          /\ toClient' = Append(toClient, Half(ch, wrote[ch] + 1))
          /\ UNCHANGED <<proc, toServer, got, conn, dropped>>
      BY <1>1 DEF Emit
    <2>2. Half(ch, wrote[ch] + 1) \in ClientFrames /\ Half(ch, wrote[ch] + 1).kind = "half"
      <3>1. wrote[ch] + 1 \in Nat
        BY DEF WireInv, WireTyped
      <3> QED BY <3>1, FramesAreFrames
    <2>3. /\ toClient' \in Seq(ClientFrames)
          /\ \A i \in 1 .. Len(toClient') : toClient'[i].kind = "finished" => proc = "exited"
      BY <2>1, <2>2, Appended DEF WireInv, WireTyped, OnItsWay
    <2>4. wrote' \in [Channels -> Nat]
      BY <2>1 DEF WireInv, WireTyped
    <2> QED BY <2>1, <2>3, <2>4 DEF WireInv, WireTyped, OnItsWay, Dying, KillAhead
  <1>2. CASE Exit
    <2>1. /\ proc' = "exited"
          /\ toClient' = toClient \/ toClient' = Append(toClient, Frame("finished"))
          /\ UNCHANGED <<wrote, toServer, got, conn, dropped>>
          /\ proc # "none"
      BY <1>2 DEF Exit
    <2>2. toClient' \in Seq(ClientFrames)
      <3>1. Frame("finished") \in ClientFrames /\ toClient \in Seq(ClientFrames)
        BY FramesAreFrames DEF WireInv, WireTyped
      <3> QED BY <2>1, <3>1
    <2>3. OnItsWay'
      BY <2>1 DEF WireInv, OnItsWay
    <2>4. WireTyped'
      BY <2>1, <2>2 DEF WireInv, WireTyped
    <2>5. Dying'
      BY <2>1 DEF Dying
    <2> QED BY <2>1, <2>3, <2>4, <2>5 DEF WireInv
  <1>3. CASE ServeFrame
    BY <1>3, FrameServed
  <1>4. CASE ServerCloses
    BY <1>4 DEF ServerCloses, WireInv, WireTyped, OnItsWay, Dying
  <1>5. CASE Drop
    <2>1. /\ conn' = "closed" /\ dropped' = TRUE /\ toServer' = <<>>
          /\ UNCHANGED <<proc, wrote, got>>
      BY <1>5 DEF Drop
    <2>2. PICK k \in 0 .. Len(toClient) : toClient' = SubSeq(toClient, 1, k)
      BY <1>5 DEF Drop
    <2>3. /\ toClient' \in Seq(ClientFrames)
          /\ \A i \in 1 .. Len(toClient') : toClient'[i].kind = "finished" => proc = "exited"
      BY <2>2, CutShort DEF WireInv, WireTyped, OnItsWay
    <2>4. toServer' \in Seq(ServerFrames) /\ Len(toServer') = 0
      BY <2>1
    <2> QED BY <2>1, <2>3, <2>4 DEF WireInv, WireTyped, OnItsWay
  <1> QED BY <1>1, <1>2, <1>3, <1>4, <1>5 DEF WireNext

LEMMA WireStarts ==
  ASSUME WireInit
  PROVE  WireInv
  <1>1. toServer = <<Frame("start")>> /\ toServer \in Seq(ServerFrames) /\ Len(toServer) = 1
        /\ toServer[1].kind = "start" /\ toServer # <<>>
    BY FramesAreFrames DEF WireInit
  <1>2. toClient \in Seq(ClientFrames) /\ got \in Seq(ServerFrames) /\ Len(toClient) = 0
    BY DEF WireInit
  <1> QED BY <1>1, <1>2 DEF WireInit, WireInv, WireTyped, OnItsWay

-----------------------------------------------------------------------------
(* Text: what a decoder makes of the bytes that come *)

Runes(ch, r) == [k \in 1 .. r |-> Rune(ch, k)]
Bytes(r, half) == 2 * r + (IF half = NoHalf THEN 0 ELSE 1)

(* A decoder that has made r runes, and holds the first half of the next
   one, or nothing. *)
Decoding(ch, r, heardOf, heldOf) ==
  /\ r \in Nat /\ heardOf = Runes(ch, r)
  /\ heldOf \in {NoHalf, Half(ch, 2 * r + 1)}

IsHalf(f, ch, m) == f.kind = "half" /\ f.ch = ch /\ f.n = m

(* Of the bytes of a channel after the first n, those on their way are a run
   from the next one on, in order. *)
Coming(coming, ch, n, last) ==
  /\ n \in Nat /\ last \in Nat /\ n <= last
  /\ \A i \in 1 .. Len(coming) : coming[i].kind = "half" /\ coming[i].ch = ch =>
       /\ coming[i].n \in n + 1 .. last
       /\ \A j \in 1 .. i - 1 : 
            coming[j].kind = "half" /\ coming[j].ch = ch => coming[j].n < coming[i].n
       /\ \A m \in n + 1 .. coming[i].n : \E j \in 1 .. Len(coming) : IsHalf(coming[j], ch, m)

AllComing(coming, ch, n, last) ==
  \A m \in n + 1 .. last : \E j \in 1 .. Len(coming) : IsHalf(coming[j], ch, m)

(* The process writes one more byte ... *)
LEMMA OneMoreByte ==
  ASSUME NEW coming \in Seq(ClientFrames), NEW ch \in Channels, NEW n \in Nat, NEW last \in Nat,
         Coming(coming, ch, n, last), AllComing(coming, ch, n, last)
  PROVE  LET more == coming \o <<Half(ch, last + 1)>>
         IN  Coming(more, ch, n, last + 1) /\ AllComing(more, ch, n, last + 1)
  <1> DEFINE more == coming \o <<Half(ch, last + 1)>>
             f == Half(ch, last + 1)
  <1>1. /\ Len(more) = Len(coming) + 1 /\ Len(coming) \in Nat /\ more[Len(coming) + 1] = f
        /\ \A i \in 1 .. Len(coming) : more[i] = coming[i]
        /\ f.kind = "half" /\ f.ch = ch /\ f.n = last + 1
    <2>1. f \in ClientFrames
      BY DEF Half, ClientFrames
    <2> QED BY <2>1, Appended DEF Half
  <1> HIDE DEF more, f
  <1>2. AllComing(more, ch, n, last + 1)
    <2> SUFFICES ASSUME NEW m \in n + 1 .. last + 1
                 PROVE  \E j \in 1 .. Len(more) : IsHalf(more[j], ch, m)
      BY DEF AllComing
    <2>1. CASE m = last + 1
      BY <1>1, <2>1 DEF IsHalf
    <2>2. CASE m # last + 1
      <3>1. PICK j \in 1 .. Len(coming) : IsHalf(coming[j], ch, m)
        BY <2>2 DEF AllComing
      <3> QED BY <3>1, <1>1
    <2> QED BY <2>1, <2>2
  <1>3. Coming(more, ch, n, last + 1)
    <2>1. n <= last + 1
      BY DEF Coming
    <2> SUFFICES ASSUME NEW i \in 1 .. Len(more), more[i].kind = "half", more[i].ch = ch
                 PROVE  /\ more[i].n \in n + 1 .. last + 1
                        /\ \A j \in 1 .. i - 1 :
                             more[j].kind = "half" /\ more[j].ch = ch => more[j].n < more[i].n
                        /\ \A m \in n + 1 .. more[i].n :
                             \E j \in 1 .. Len(more) : IsHalf(more[j], ch, m)
      BY <2>1 DEF Coming
    <2>2. more[i].n \in n + 1 .. last + 1
      BY <1>1 DEF Coming
    <2>3. \A j \in 1 .. i - 1 : more[j].kind = "half" /\ more[j].ch = ch => more[j].n < more[i].n
      <3> SUFFICES ASSUME NEW j \in 1 .. i - 1, more[j].kind = "half", more[j].ch = ch
                   PROVE  more[j].n < more[i].n
        OBVIOUS
      <3>1. j \in 1 .. Len(coming) /\ more[j] = coming[j]
        BY <1>1
      <3>2. CASE i = Len(coming) + 1
        <4>1. coming[j].n \in n + 1 .. last
          BY <3>1 DEF Coming
        <4> QED BY <1>1, <3>1, <3>2, <4>1
      <3>3. CASE i # Len(coming) + 1
        <4>1. i \in 1 .. Len(coming) /\ more[i] = coming[i]
          BY <1>1, <3>3
        <4> QED BY <3>1, <4>1 DEF Coming
      <3> QED BY <3>2, <3>3
    <2>4. ASSUME NEW m \in n + 1 .. more[i].n
          PROVE  \E j \in 1 .. Len(more) : IsHalf(more[j], ch, m)
      <3>1. m \in n + 1 .. last + 1
        BY <2>2
      <3> QED BY <1>2, <3>1 DEF AllComing
    <2> QED BY <2>2, <2>3, <2>4
  <1> QED BY <1>2, <1>3 DEF more, f

(* ... or some other frame is sent. *)
LEMMA OtherFrame ==
  ASSUME NEW coming \in Seq(ClientFrames), NEW ch \in Channels, NEW n \in Nat, NEW last \in Nat,
         NEW f \in ClientFrames, f.kind # "half" \/ f.ch # ch,
         Coming(coming, ch, n, last)
  PROVE  LET more == coming \o <<f>>
         IN  /\ Coming(more, ch, n, last)
             /\ AllComing(coming, ch, n, last) => AllComing(more, ch, n, last)
  <1> DEFINE more == coming \o <<f>>
  <1>1. /\ Len(more) = Len(coming) + 1 /\ Len(coming) \in Nat /\ more[Len(coming) + 1] = f
        /\ \A i \in 1 .. Len(coming) : more[i] = coming[i]
    BY Appended
  <1> HIDE DEF more
  <1>2. \A m, j : j \in 1 .. Len(coming) /\ IsHalf(coming[j], ch, m) =>
                  j \in 1 .. Len(more) /\ IsHalf(more[j], ch, m)
    BY <1>1
  <1>3. AllComing(coming, ch, n, last) => AllComing(more, ch, n, last)
    BY <1>2 DEF AllComing
  <1>4. Coming(more, ch, n, last)
    <2> SUFFICES ASSUME NEW i \in 1 .. Len(more), more[i].kind = "half", more[i].ch = ch
                 PROVE  /\ more[i].n \in n + 1 .. last
                        /\ \A j \in 1 .. i - 1 :
                             more[j].kind = "half" /\ more[j].ch = ch => more[j].n < more[i].n
                        /\ \A m \in n + 1 .. more[i].n :
                             \E j \in 1 .. Len(more) : IsHalf(more[j], ch, m)
      BY DEF Coming
    <2>1. i \in 1 .. Len(coming) /\ more[i] = coming[i]
      BY <1>1
    <2>2. more[i].n \in n + 1 .. last
      BY <2>1 DEF Coming
    <2>3. \A j \in 1 .. i - 1 : more[j].kind = "half" /\ more[j].ch = ch => more[j].n < more[i].n
      BY <1>1, <2>1 DEF Coming
    <2>4. ASSUME NEW m \in n + 1 .. more[i].n
          PROVE  \E j \in 1 .. Len(more) : IsHalf(more[j], ch, m)
      <3>1. PICK j \in 1 .. Len(coming) : IsHalf(coming[j], ch, m)
        BY <2>1 DEF Coming
      <3> QED BY <1>2, <3>1
    <2> QED BY <2>2, <2>3, <2>4
  <1> QED BY <1>3, <1>4 DEF more

(* The connection is lost, with the last frames. *)
LEMMA FramesLost ==
  ASSUME NEW coming \in Seq(ClientFrames), NEW ch \in Channels, NEW n \in Nat, NEW last \in Nat,
         Coming(coming, ch, n, last), NEW k \in 0 .. Len(coming)
  PROVE  Coming(SubSeq(coming, 1, k), ch, n, last)
  <1> DEFINE kept == SubSeq(coming, 1, k)
  <1>1. Len(kept) = k /\ Len(coming) \in Nat /\ \A i \in 1 .. k : kept[i] = coming[i] /\ i \in 1 .. Len(coming)
    BY CutShort
  <1> HIDE DEF kept
  <1> SUFFICES ASSUME NEW i \in 1 .. k, coming[i].kind = "half", coming[i].ch = ch
               PROVE  /\ coming[i].n \in n + 1 .. last
                      /\ \A j \in 1 .. i - 1 :
                           coming[j].kind = "half" /\ coming[j].ch = ch => coming[j].n < coming[i].n
                      /\ \A m \in n + 1 .. coming[i].n :
                           \E j \in 1 .. k : IsHalf(coming[j], ch, m)
    <2>1. n <= last
      BY DEF Coming
    <2> QED BY <1>1, <2>1 DEF Coming, kept
  <1>2. i \in 1 .. Len(coming)
    BY <1>1
  <1>3. ASSUME NEW m \in n + 1 .. coming[i].n PROVE \E j \in 1 .. k : IsHalf(coming[j], ch, m)
    <2>1. PICK j \in 1 .. Len(coming) : IsHalf(coming[j], ch, m)
      BY <1>2 DEF Coming
    <2>2. j > i => coming[i].n < coming[j].n
      BY <1>2, <2>1 DEF Coming, IsHalf
    <2>3. m <= coming[i].n /\ coming[j].n = m /\ coming[i].n \in Nat
      BY <1>2, <2>1 DEF IsHalf, Coming
    <2> QED BY <2>1, <2>2, <2>3
  <1> QED BY <1>2, <1>3 DEF Coming

(* The first frame is taken: a byte of the channel, which is the next ... *)
LEMMA NextByte ==
  ASSUME NEW coming \in Seq(ClientFrames), NEW ch \in Channels, NEW n \in Nat, NEW last \in Nat,
         Coming(coming, ch, n, last), coming # <<>>,
         coming[1].kind = "half", coming[1].ch = ch
  PROVE  /\ coming[1] = Half(ch, n + 1)
         /\ Coming(Tail(coming), ch, n + 1, last)
         /\ AllComing(coming, ch, n, last) => AllComing(Tail(coming), ch, n + 1, last)
  <1> DEFINE rest == Tail(coming)
  <1>1. /\ Len(rest) = Len(coming) - 1 /\ Len(coming) \in Nat \ {0} /\ coming[1] \in ClientFrames
        /\ \A i \in 1 .. Len(rest) : rest[i] = coming[i + 1]
    BY Tailed
  <1> HIDE DEF rest
  <1>2. coming[1].n = n + 1
    <2>1. 1 \in 1 .. Len(coming) /\ coming[1].n \in n + 1 .. last
      BY <1>1 DEF Coming
    <2>2. PICK j \in 1 .. Len(coming) : IsHalf(coming[j], ch, n + 1)
      BY <2>1 DEF Coming
    <2>3. j # 1 => coming[1].n < n + 1
      BY <1>1, <2>2 DEF Coming, IsHalf
    <2> QED BY <2>1, <2>2, <2>3 DEF IsHalf
  <1>3. ASSUME NEW m, NEW j \in 1 .. Len(coming), m # n + 1, IsHalf(coming[j], ch, m)
        PROVE  j - 1 \in 1 .. Len(rest) /\ IsHalf(rest[j - 1], ch, m)
    <2>1. j # 1
      BY <1>2, <1>3 DEF IsHalf
    <2>2. j - 1 \in 1 .. Len(rest) /\ (j - 1) + 1 = j
      <3>1. Len(rest) = Len(coming) - 1 /\ Len(coming) \in Nat /\ j \in Nat /\ 1 <= j /\ j <= Len(coming)
        BY <1>1
      <3> QED BY <2>1, <3>1
    <2>3. \A i \in 1 .. Len(rest) : rest[i] = coming[i + 1]
      BY <1>1
    <2>4. rest[j - 1] = coming[(j - 1) + 1]
      BY <2>2, <2>3, Zenon
    <2>5. rest[j - 1] = coming[j]
      BY <2>2, <2>4, Zenon
    <2> QED BY <1>3, <2>2, <2>5
  <1>4. AllComing(coming, ch, n, last) => AllComing(rest, ch, n + 1, last)
    <2> SUFFICES ASSUME AllComing(coming, ch, n, last), NEW m \in (n + 1) + 1 .. last
                 PROVE  \E j \in 1 .. Len(rest) : IsHalf(rest[j], ch, m)
      BY Zenon DEF AllComing
    <2> m \in n + 1 .. last
      OBVIOUS
    <2>1. PICK j \in 1 .. Len(coming) : IsHalf(coming[j], ch, m)
      BY DEF AllComing
    <2>2. m # n + 1
      OBVIOUS
    <2> QED BY <1>3, <2>1, <2>2
  <1>5. Coming(rest, ch, n + 1, last)
    <2>1. n + 1 <= last
      BY <1>1, <1>2 DEF Coming
    <2> SUFFICES ASSUME NEW i \in 1 .. Len(rest), rest[i].kind = "half", rest[i].ch = ch
                 PROVE  /\ rest[i].n \in n + 2 .. last
                        /\ \A j \in 1 .. i - 1 :
                             rest[j].kind = "half" /\ rest[j].ch = ch => rest[j].n < rest[i].n
                        /\ \A m \in n + 2 .. rest[i].n :
                             \E j \in 1 .. Len(rest) : IsHalf(rest[j], ch, m)
      BY <2>1 DEF Coming
    <2>2. i + 1 \in 1 .. Len(coming) /\ rest[i] = coming[i + 1] /\ 1 \in 1 .. (i + 1) - 1
      BY <1>1
    <2>3. rest[i].n \in n + 1 .. last /\ coming[1].n < rest[i].n
      BY <2>2 DEF Coming
    <2>4. \A j \in 1 .. i - 1 : rest[j].kind = "half" /\ rest[j].ch = ch => rest[j].n < rest[i].n
      <3> SUFFICES ASSUME NEW j \in 1 .. i - 1, rest[j].kind = "half", rest[j].ch = ch
                   PROVE  rest[j].n < rest[i].n
        OBVIOUS
      <3>1. j + 1 \in 1 .. (i + 1) - 1 /\ rest[j] = coming[j + 1]
        BY <1>1
      <3> QED BY <2>2, <3>1 DEF Coming
    <2>5. ASSUME NEW m \in n + 2 .. rest[i].n
          PROVE  \E j \in 1 .. Len(rest) : IsHalf(rest[j], ch, m)
      <3>1. PICK j \in 1 .. Len(coming) : IsHalf(coming[j], ch, m)
        BY <2>2 DEF Coming
      <3>2. m # n + 1
        OBVIOUS
      <3> QED BY <1>3, <3>1, <3>2
    <2> QED BY <1>2, <2>3, <2>4, <2>5
  <1> QED BY <1>1, <1>2, <1>4, <1>5 DEF rest, Half, ClientFrames

(* ... or some other frame. *)
LEMMA NextOther ==
  ASSUME NEW coming \in Seq(ClientFrames), NEW ch \in Channels, NEW n \in Nat, NEW last \in Nat,
         Coming(coming, ch, n, last), coming # <<>>,
         coming[1].kind # "half" \/ coming[1].ch # ch
  PROVE  /\ Coming(Tail(coming), ch, n, last)
         /\ AllComing(coming, ch, n, last) => AllComing(Tail(coming), ch, n, last)
  <1> DEFINE rest == Tail(coming)
  <1>1. /\ Len(rest) = Len(coming) - 1 /\ Len(coming) \in Nat \ {0} /\ coming[1] \in ClientFrames
        /\ \A i \in 1 .. Len(rest) : rest[i] = coming[i + 1]
    BY Tailed
  <1> HIDE DEF rest
  <1>3. \A m, j : j \in 1 .. Len(coming) /\ IsHalf(coming[j], ch, m) =>
          j - 1 \in 1 .. Len(rest) /\ IsHalf(rest[j - 1], ch, m)
    BY <1>1 DEF IsHalf
  <1>4. AllComing(coming, ch, n, last) => AllComing(rest, ch, n, last)
    BY <1>3 DEF AllComing
  <1>5. Coming(rest, ch, n, last)
    <2> SUFFICES ASSUME NEW i \in 1 .. Len(rest), rest[i].kind = "half", rest[i].ch = ch
                 PROVE  /\ rest[i].n \in n + 1 .. last
                        /\ \A j \in 1 .. i - 1 :
                             rest[j].kind = "half" /\ rest[j].ch = ch => rest[j].n < rest[i].n
                        /\ \A m \in n + 1 .. rest[i].n :
                             \E j \in 1 .. Len(rest) : IsHalf(rest[j], ch, m)
      BY DEF Coming
    <2>2. i + 1 \in 1 .. Len(coming) /\ rest[i] = coming[i + 1]
      BY <1>1
    <2>3. rest[i].n \in n + 1 .. last
      BY <2>2 DEF Coming
    <2>4. \A j \in 1 .. i - 1 : rest[j].kind = "half" /\ rest[j].ch = ch => rest[j].n < rest[i].n
      <3> SUFFICES ASSUME NEW j \in 1 .. i - 1, rest[j].kind = "half", rest[j].ch = ch
                   PROVE  rest[j].n < rest[i].n
        OBVIOUS
      <3>1. j + 1 \in 1 .. (i + 1) - 1 /\ rest[j] = coming[j + 1]
        BY <1>1
      <3> QED BY <2>2, <3>1 DEF Coming
    <2>5. ASSUME NEW m \in n + 1 .. rest[i].n
          PROVE  \E j \in 1 .. Len(rest) : IsHalf(rest[j], ch, m)
      <3>1. PICK j \in 1 .. Len(coming) : IsHalf(coming[j], ch, m)
        BY <2>2 DEF Coming
      <3> QED BY <1>3, <3>1
    <2> QED BY <2>3, <2>4, <2>5
  <1> QED BY <1>4, <1>5 DEF rest

(* What the decoder makes of the next byte. *)
LEMMA ByteDecoded ==
  ASSUME NEW ch \in Channels, NEW r \in Nat, NEW heardOf, NEW heldOf,
         Decoding(ch, r, heardOf, heldOf),
         NEW half, half = Half(ch, Bytes(r, heldOf) + 1)
  PROVE  \E s \in Nat :
           /\ Decoding(ch, s, heardOf \o Decoded(heldOf, half), Holds(half))
           /\ Bytes(s, Holds(half)) = Bytes(r, heldOf) + 1
  <1>0. NoHalf # Half(ch, 2 * r + 1) /\ half.n = Bytes(r, heldOf) + 1 /\ half.ch = ch
    BY DEF NoHalf, Half
  <1>1. CASE heldOf = NoHalf
    <2>1. half.n = 2 * r + 1 /\ half.n % 2 = 1
      BY <1>0, <1>1 DEF Bytes
    <2>2. Decoded(heldOf, half) = <<>> /\ Holds(half) = Half(ch, 2 * r + 1)
      BY <1>1, <2>1, <1>0 DEF Decoded, Holds
    <2>3. heardOf \o <<>> = heardOf
      <3>1. heardOf \in Seq({Rune(ch, k) : k \in Nat})
        BY DEF Decoding, Runes
      <3> QED BY <3>1
    <2>4. Bytes(r, Holds(half)) = Bytes(r, heldOf) + 1
      BY <1>0, <1>1, <2>2 DEF Bytes
    <2> QED BY <2>2, <2>3, <2>4 DEF Decoding
  <1>2. CASE heldOf = Half(ch, 2 * r + 1)
    <2>1. half.n = 2 * r + 2 /\ half.n % 2 # 1 /\ half.n \div 2 = r + 1 /\ half.n - 1 = 2 * r + 1
      BY <1>0, <1>2 DEF Bytes
    <2>2. Decoded(heldOf, half) = <<Rune(ch, r + 1)>> /\ Holds(half) = NoHalf
      BY <1>0, <1>2, <2>1 DEF Decoded, Holds
    <2>3. heardOf \o <<Rune(ch, r + 1)>> = Runes(ch, r + 1)
      <3>1. heardOf \in Seq({Rune(ch, k) : k \in Nat}) /\ Len(heardOf) = r
            /\ \A k \in 1 .. r : heardOf[k] = Rune(ch, k)
        BY DEF Decoding, Runes
      <3>2. Runes(ch, r + 1) \in Seq({Rune(ch, k) : k \in Nat}) /\ Len(Runes(ch, r + 1)) = r + 1
            /\ \A k \in 1 .. r + 1 : Runes(ch, r + 1)[k] = Rune(ch, k)
        BY DEF Runes
      <3> DEFINE S == {Rune(ch, k) : k \in Nat}
                 one == heardOf \o <<Rune(ch, r + 1)>>
      <3>3. one \in Seq(S) /\ Len(one) = r + 1 /\ one[r + 1] = Rune(ch, r + 1)
            /\ \A k \in 1 .. r : one[k] = Rune(ch, k)
        <4>1. Rune(ch, r + 1) \in S
          OBVIOUS
        <4> HIDE DEF S
        <4> QED BY <3>1, <4>1, Appended DEF S
      <3> HIDE DEF one
      <3>4. \A k \in 1 .. r + 1 : one[k] = Runes(ch, r + 1)[k]
        BY <3>2, <3>3
      <3>5. one = Runes(ch, r + 1)
        BY <3>2, <3>3, <3>4, SameSeq
      <3> QED BY <3>5 DEF one
    <2>4. Bytes(r + 1, NoHalf) = Bytes(r, heldOf) + 1
      BY <1>0, <1>2 DEF Bytes
    <2>5. heardOf \o Decoded(heldOf, half) = Runes(ch, r + 1)
      BY <2>2, <2>3 DEF Decoding
    <2>6. Decoding(ch, r + 1, heardOf \o Decoded(heldOf, half), Holds(half))
      BY <2>2, <2>5 DEF Decoding
    <2> QED BY <2>2, <2>4, <2>6
  <1> QED BY <1>1, <1>2 DEF Decoding

(* With no byte left, the flushed text is the text of all. *)
LEMMA TextFlushed ==
  ASSUME NEW ch \in Channels, NEW r \in Nat, NEW heardOf, NEW heldOf,
         Decoding(ch, r, heardOf, heldOf)
  PROVE  /\ heardOf \o Flushed(heldOf) = TextOf(ch, Bytes(r, heldOf))
         /\ heardOf = SubSeq(TextOf(ch, Bytes(r, heldOf)), 1, Bytes(r, heldOf) \div 2)
  <1>0. NoHalf # Half(ch, 2 * r + 1)
    BY DEF NoHalf, Half
  <1>1. /\ Bytes(r, heldOf) \div 2 = r
        /\ Bytes(r, heldOf) % 2 = (IF heldOf = NoHalf THEN 0 ELSE 1)
    BY DEF Bytes
  <1>2. heardOf \o Flushed(heldOf) = TextOf(ch, Bytes(r, heldOf))
    <2>1. heldOf # NoHalf => heldOf.ch = ch
      BY DEF Decoding, Half
    <2>2. heardOf = [k \in 1 .. Bytes(r, heldOf) \div 2 |-> Rune(ch, k)]
      BY <1>1 DEF Decoding, Runes
    <2>3. Flushed(heldOf) = IF Bytes(r, heldOf) % 2 = 1 THEN <<Broken(ch)>> ELSE <<>>
      BY <1>1, <2>1 DEF Flushed
    <2> QED BY <2>2, <2>3 DEF TextOf
  <1>3. heardOf = SubSeq(heardOf \o Flushed(heldOf), 1, r)
    <2> DEFINE S == {Rune(ch, k) : k \in Nat} \cup {Broken(ch), Broken(heldOf.ch)}
    <2>1. heardOf \in Seq(S) /\ Len(heardOf) = r
      BY DEF Decoding, Runes
    <2>2. Flushed(heldOf) \in Seq(S)
      <3>1. Broken(heldOf.ch) \in S
        OBVIOUS
      <3> HIDE DEF S
      <3> QED BY <3>1 DEF Flushed
    <2> HIDE DEF S
    <2> QED BY <2>1, <2>2
  <1> QED BY <1>1, <1>2, <1>3

-----------------------------------------------------------------------------
(* The text of a session of either SDK *)

IsFunction(f) == f = [ch \in Channels |-> f[ch]]

BytesHeard(ch) == Bytes(Len(heard[ch]), held[ch])
FinishComing == \E i \in 1 .. Len(toClient) : toClient[i].kind = "finished"

(* What has been heard and what is still coming is what was written - all of
   it, unless the connection was lost. *)
Listening(ch) ==
  /\ Decoding(ch, Len(heard[ch]), heard[ch], held[ch])
  /\ text[ch] = heard[ch]
  /\ Coming(toClient, ch, BytesHeard(ch), wrote[ch])
  /\ conn = "open" \/ FinishComing => AllComing(toClient, ch, BytesHeard(ch), wrote[ch])

FinishIsLast ==
  \A i \in 1 .. Len(toClient) : toClient[i].kind = "finished" => i = Len(toClient)

TextInv ==
  /\ IsFunction(text) /\ IsFunction(held) /\ IsFunction(heard)
  /\ FinishIsLast
  /\ result = "pending" => \A ch \in Channels : Listening(ch)
  /\ result = "exit" => proc = "exited" /\ toClient = <<>>
  /\ ResultComplete

LEMMA TextStarts ==
  ASSUME WireInit, TextInit
  PROVE  TextInv
  <1>1. Len(toClient) = 0 /\ conn = "open" /\ result = "pending"
    BY DEF WireInit, TextInit
  <1>2. ASSUME NEW ch \in Channels PROVE Listening(ch)
    <2>1. heard[ch] = <<>> /\ text[ch] = <<>> /\ held[ch] = NoHalf /\ wrote[ch] = 0
      BY DEF WireInit, TextInit
    <2>2. Runes(ch, 0) = <<>> /\ Len(heard[ch]) = 0
      BY <2>1 DEF Runes
    <2>3. BytesHeard(ch) = 0
      BY <2>1, <2>2 DEF BytesHeard, Bytes
    <2> QED BY <1>1, <2>1, <2>2, <2>3 DEF Listening, Decoding, Coming, AllComing
  <1> QED BY <1>1, <1>2 DEF TextInit, TextInv, IsFunction, FinishIsLast, ResultComplete

LEMMA HeardText ==
  ASSUME NEW c \in Channels, Decoding(c, Len(heard[c]), heard[c], held[c])
  PROVE  /\ heard[c] \o Flushed(held[c]) = TextOf(c, BytesHeard(c))
         /\ heard[c] = SubSeq(TextOf(c, BytesHeard(c)), 1, BytesHeard(c) \div 2)
  <1> DEFINE r == Len(heard[c])
             heardOf == heard[c]
             heldOf == held[c]
  <1>1. r \in Nat /\ Decoding(c, r, heardOf, heldOf)
    BY DEF Decoding
  <1>2. BytesHeard(c) = Bytes(r, heldOf)
    BY DEF BytesHeard
  <1> HIDE DEF r, heardOf, heldOf
  <1>3. /\ heardOf \o Flushed(heldOf) = TextOf(c, Bytes(r, heldOf))
        /\ heardOf = SubSeq(TextOf(c, Bytes(r, heldOf)), 1, Bytes(r, heldOf) \div 2)
    BY <1>1, TextFlushed
  <1> QED BY <1>2, <1>3 DEF heardOf, heldOf

LEMMA HeardBytes ==
  ASSUME NEW ch \in Channels, Decoding(ch, Len(heard[ch]), heard[ch], held[ch])
  PROVE  BytesHeard(ch) \in Nat
  <1>1. Len(heard[ch]) \in Nat
    BY DEF Decoding
  <1>2. \A r \in Nat : \A half : Bytes(r, half) \in Nat
    BY DEF Bytes
  <1> QED BY <1>1, <1>2 DEF BytesHeard

(* A step that sends nothing to the client, and takes nothing from it. *)
LEMMA TextStays ==
  ASSUME TextInv, UNCHANGED <<toClient, wrote, proc, heard, held, text>>,
         result' = result \/ result' \notin {"pending", "exit"},
         conn' = "open" => conn = "open"
  PROVE  TextInv'
  <1>1. \A ch \in Channels : Listening(ch) => Listening(ch)'
    BY DEF Listening, BytesHeard, FinishComing
  <1>2. FinishIsLast' /\ IsFunction(text)' /\ IsFunction(held)' /\ IsFunction(heard)'
    BY DEF TextInv, FinishIsLast, IsFunction
  <1>3. ResultComplete'
    BY DEF TextInv, ResultComplete
  <1> QED BY <1>1, <1>2, <1>3 DEF TextInv

(* The process and the network. *)
LEMMA TextWire ==
  ASSUME WireInv, TextInv, WireNext, UNCHANGED <<result, text, held, heard>>
  PROVE  TextInv'
  <1>0. IsFunction(text)' /\ IsFunction(held)' /\ IsFunction(heard)'
    BY DEF TextInv, IsFunction
  <1>t. toClient \in Seq(ClientFrames) /\ Len(toClient) \in Nat /\ wrote \in [Channels -> Nat]
    BY DEF WireInv, WireTyped
  <1>1. ASSUME NEW ch \in Channels, Emit(ch)
        PROVE  TextInv'
    <2> DEFINE f == Half(ch, wrote[ch] + 1)
    <2>1. /\ proc \in {"running", "killed"} /\ conn = "open"
          /\ wrote' = [wrote EXCEPT ![ch] = @ + 1]
          /\ toClient' = toClient \o <<f>>
          /\ UNCHANGED <<proc, conn>>
          /\ f \in ClientFrames /\ f.kind = "half" /\ f.ch = ch
      <3>1. wrote[ch] + 1 \in Nat
        BY <1>t
      <3>2. f \in ClientFrames /\ f.kind = "half" /\ f.ch = ch
        BY <3>1, FramesAreFrames DEF Half
      <3> QED BY <1>1, <1>t, <3>2, Appended DEF Emit
    <2>2. FinishIsLast' /\ ~FinishComing'
      <3>1. \A i \in 1 .. Len(toClient) : toClient[i].kind # "finished"
        BY <2>1 DEF WireInv, OnItsWay
      <3>2. \A i \in 1 .. Len(toClient') : toClient'[i].kind # "finished"
        BY <1>t, <2>1, <3>1, Appended
      <3> QED BY <3>2 DEF FinishIsLast, FinishComing
    <2>3. ASSUME result = "pending", NEW c \in Channels PROVE Listening(c)'
      <3>1. /\ Listening(c) /\ AllComing(toClient, c, BytesHeard(c), wrote[c])
            /\ BytesHeard(c) \in Nat /\ BytesHeard(c)' = BytesHeard(c)
        BY <2>1, <2>3, HeardBytes DEF TextInv, Listening, BytesHeard
      <3>2. CASE c = ch
        <4>1. wrote'[c] = wrote[c] + 1 /\ wrote[c] \in Nat
          BY <1>t, <2>1, <3>2
        <4>2. /\ Coming(toClient', c, BytesHeard(c), wrote[c] + 1)
              /\ AllComing(toClient', c, BytesHeard(c), wrote[c] + 1)
          BY <1>t, <2>1, <3>1, <3>2, <4>1, OneMoreByte DEF Listening
        <4> QED BY <3>1, <4>1, <4>2 DEF Listening
      <3>3. CASE c # ch
        <4>1. wrote'[c] = wrote[c] /\ wrote[c] \in Nat
          BY <1>t, <2>1, <3>3
        <4> HIDE DEF f
        <4>2. /\ Coming(toClient', c, BytesHeard(c), wrote[c])
              /\ AllComing(toClient', c, BytesHeard(c), wrote[c])
          BY <1>t, <2>1, <3>1, <3>3, <4>1, OtherFrame DEF Listening
        <4> QED BY <3>1, <4>1, <4>2 DEF Listening
      <3> QED BY <3>2, <3>3
    <2>4. result # "exit"
      BY <2>1 DEF TextInv
    <2> QED BY <1>0, <2>2, <2>3, <2>4 DEF TextInv, ResultComplete
  <1>2. CASE Exit
    <2>0. /\ proc \in {"running", "killed"} /\ UNCHANGED <<wrote, conn>>
          /\ toClient' = IF conn = "open" THEN Append(toClient, Frame("finished")) ELSE toClient
      BY <1>2 DEF Exit
    <2>1. result # "exit"
      BY <2>0 DEF TextInv
    <2>2. \A i \in 1 .. Len(toClient) : toClient[i].kind # "finished"
      BY <2>0 DEF WireInv, OnItsWay
    <2>3. CASE conn = "open"
      <3> DEFINE f == Frame("finished")
      <3>1. f \in ClientFrames /\ f.kind = "finished"
        BY FramesAreFrames
      <3> HIDE DEF f
      <3>2. toClient' = toClient \o <<f>> /\ Len(toClient') = Len(toClient) + 1
            /\ \A i \in 1 .. Len(toClient) : toClient'[i] = toClient[i]
        BY <1>t, <2>0, <2>3, <3>1, Appended DEF f
      <3>3. FinishIsLast'
        <4>1. ASSUME NEW i \in 1 .. Len(toClient'), toClient'[i].kind = "finished"
              PROVE  i = Len(toClient')
          <5>1. i # Len(toClient) + 1 => i \in 1 .. Len(toClient)
            BY <1>t, <3>2
          <5> QED BY <2>2, <3>2, <4>1, <5>1
        <4> QED BY <4>1 DEF FinishIsLast
      <3>4. ASSUME result = "pending", NEW c \in Channels PROVE Listening(c)'
        <4>1. /\ Listening(c) /\ AllComing(toClient, c, BytesHeard(c), wrote[c])
              /\ BytesHeard(c) \in Nat /\ BytesHeard(c)' = BytesHeard(c) /\ wrote[c] \in Nat
          BY <1>t, <2>3, <3>4, HeardBytes DEF TextInv, Listening, BytesHeard
        <4>2. /\ Coming(toClient', c, BytesHeard(c), wrote[c])
              /\ AllComing(toClient', c, BytesHeard(c), wrote[c])
          BY <1>t, <3>1, <3>2, <4>1, OtherFrame DEF Listening
        <4> QED BY <2>0, <4>1, <4>2 DEF Listening
      <3> QED BY <1>0, <2>1, <3>3, <3>4 DEF TextInv, ResultComplete
    <2>4. CASE conn # "open"
      <3>1. toClient' = toClient
        BY <2>0, <2>4
      <3>2. \A ch \in Channels : Listening(ch) => Listening(ch)'
        BY <2>0, <3>1 DEF Listening, BytesHeard, FinishComing
      <3>3. FinishIsLast'
        BY <3>1 DEF TextInv, FinishIsLast
      <3> QED BY <1>0, <2>1, <3>2, <3>3 DEF TextInv, ResultComplete
    <2> QED BY <2>3, <2>4
  <1>3. CASE ServeFrame \/ ServerCloses
    <2>1. /\ UNCHANGED <<toClient, wrote>> /\ (conn' = "open" => conn = "open")
          /\ proc = "exited" => proc' = "exited"
      <3>1. CASE ServeFrame
        <4>1. UNCHANGED <<toClient, wrote>> /\ (conn' = "open" => conn = "open")
          BY <3>1 DEF ServeFrame
        <4>2. proc = "exited" => proc' = "exited"
          <5>1. toServer # <<>> /\ toServer \in Seq(ServerFrames)
            BY <3>1 DEF ServeFrame, WireInv, WireTyped
          <5>2. Head(toServer) = toServer[1] /\ 1 \in 1 .. Len(toServer)
            BY <5>1, Tailed
          <5>3. proc = "exited" => Head(toServer).kind # "start"
            BY <5>2 DEF WireInv, OnItsWay
          <5> QED BY <3>1, <5>3 DEF ServeFrame
        <4> QED BY <4>1, <4>2
      <3>2. CASE ServerCloses
        BY <3>2 DEF ServerCloses
      <3> QED BY <1>3, <3>1, <3>2
    <2>2. \A ch \in Channels : Listening(ch) => Listening(ch)'
      BY <2>1 DEF Listening, BytesHeard, FinishComing
    <2>3. FinishIsLast' /\ ResultComplete'
      BY <2>1 DEF TextInv, FinishIsLast, ResultComplete
    <2> QED BY <1>0, <2>1, <2>2, <2>3 DEF TextInv
  <1>4. CASE Drop
    <2>1. conn' = "closed" /\ UNCHANGED <<proc, wrote>>
      BY <1>4 DEF Drop
    <2>2. PICK k \in 0 .. Len(toClient) : toClient' = SubSeq(toClient, 1, k)
      BY <1>4 DEF Drop
    <2>3. /\ Len(toClient') = k /\ \A i \in 1 .. k : toClient'[i] = toClient[i]
          /\ toClient' \in Seq(ClientFrames)
      BY <1>t, <2>2, CutShort
    <2>4. FinishIsLast' /\ (FinishComing' => k = Len(toClient) /\ FinishComing)
      BY <1>t, <2>3 DEF TextInv, FinishIsLast, FinishComing
    <2>5. k = Len(toClient) => toClient' = toClient
      BY <1>t, <2>3, SameSeq
    <2>6. ASSUME result = "pending", NEW c \in Channels PROVE Listening(c)'
      <3>1. /\ Listening(c) /\ BytesHeard(c) \in Nat /\ BytesHeard(c)' = BytesHeard(c)
            /\ wrote[c] \in Nat
        BY <1>t, <2>6, HeardBytes DEF TextInv, Listening, BytesHeard
      <3>2. Coming(toClient', c, BytesHeard(c), wrote[c])
        BY <1>t, <2>2, <3>1, FramesLost DEF Listening
      <3>3. FinishComing' => AllComing(toClient', c, BytesHeard(c), wrote[c])
        BY <2>4, <2>5, <3>1 DEF Listening
      <3> QED BY <2>1, <3>1, <3>2, <3>3 DEF Listening
    <2>7. result = "exit" => toClient' = <<>>
      <3>1. toClient = <<>> => Len(toClient) = 0
        BY <1>t
      <3> QED BY <2>3, <2>5, <3>1 DEF TextInv
    <2> QED BY <1>0, <2>1, <2>4, <2>6, <2>7 DEF TextInv, ResultComplete
  <1> QED BY <1>1, <1>2, <1>3, <1>4 DEF WireNext

(* The client takes a binary frame. *)
LEMMA TextHears ==
  ASSUME WireInv, TextInv, toClient # <<>>, Head(toClient).kind = "half",
         toClient' = Tail(toClient), OnBinary(Head(toClient)), UNCHANGED <<proc, wrote>>,
         result' = result \/ result' \notin {"pending", "exit"},
         conn' = "open" => conn = "open"
  PROVE  TextInv'
  <1> DEFINE f == toClient[1]
             ch == f.ch
             new == Decoded(held[ch], f)
  <1>1. /\ toClient \in Seq(ClientFrames) /\ wrote \in [Channels -> Nat]
        /\ Len(toClient) \in Nat \ {0} /\ Len(toClient') = Len(toClient) - 1
        /\ f = Head(toClient) /\ f \in ClientFrames /\ f.kind = "half" /\ ch \in Channels
        /\ \A i \in 1 .. Len(toClient') : toClient'[i] = toClient[i + 1]
    <2>1. toClient \in Seq(ClientFrames) /\ wrote \in [Channels -> Nat]
      BY DEF WireInv, WireTyped
    <2>2. /\ Len(toClient) \in Nat \ {0} /\ Len(toClient') = Len(toClient) - 1
          /\ f = Head(toClient) /\ f \in ClientFrames
          /\ \A i \in 1 .. Len(toClient) - 1 : toClient'[i] = toClient[i + 1]
      BY <2>1, Tailed
    <2>3. f.kind = "half" /\ ch \in Channels
      BY <2>2 DEF ClientFrames
    <2> QED BY <2>1, <2>2, <2>3
  <1>2. /\ text' = [text EXCEPT ![ch] = @ \o new]
        /\ heard' = [heard EXCEPT ![ch] = @ \o new]
        /\ held' = [held EXCEPT ![ch] = Holds(f)]
    BY <1>1 DEF OnBinary, Keeps
  <1> HIDE DEF new, f, ch
  <1>3. IsFunction(text)' /\ IsFunction(held)' /\ IsFunction(heard)'
    BY <1>2 DEF TextInv, IsFunction
  <1>4. FinishIsLast' /\ (FinishComing' => FinishComing)
    <2>1. \A i \in 1 .. Len(toClient') : i + 1 \in 1 .. Len(toClient) /\ toClient'[i] = toClient[i + 1]
      BY <1>1
    <2>2. ASSUME NEW i \in 1 .. Len(toClient'), toClient'[i].kind = "finished"
          PROVE  i = Len(toClient') /\ FinishComing
      <3>1. i + 1 \in 1 .. Len(toClient) /\ toClient[i + 1].kind = "finished"
        BY <2>1, <2>2
      <3>2. i + 1 = Len(toClient)
        BY <3>1 DEF TextInv, FinishIsLast
      <3>3. i = Len(toClient')
        <4>1. Len(toClient') = Len(toClient) - 1 /\ Len(toClient) \in Nat
          BY <1>1
        <4>2. i \in Nat
          OBVIOUS
        <4> QED BY <3>2, <4>1, <4>2
      <3>4. FinishComing
        BY <3>1 DEF FinishComing
      <3> QED BY <3>3, <3>4
    <2> QED BY <2>2 DEF FinishIsLast, FinishComing
  <1>5. result # "exit" /\ result' # "exit"
    BY DEF TextInv
  <1>6. ASSUME result = "pending", NEW c \in Channels PROVE Listening(c)'
    <2>1. /\ Listening(c) /\ BytesHeard(c) \in Nat /\ wrote[c] \in Nat
          /\ Decoding(c, Len(heard[c]), heard[c], held[c]) /\ text[c] = heard[c]
      BY <1>1, <1>6, HeardBytes DEF TextInv, Listening
    <2>2. CASE c = ch
      <3>1. f.kind = "half" /\ f.ch = c
        BY <1>1, <2>2 DEF ch
      <3>2. /\ f = Half(c, BytesHeard(c) + 1)
            /\ Coming(toClient', c, BytesHeard(c) + 1, wrote[c])
            /\ conn' = "open" \/ FinishComing' => AllComing(toClient', c, BytesHeard(c) + 1, wrote[c])
        <4>1. Coming(toClient, c, BytesHeard(c), wrote[c])
          BY <2>1 DEF Listening
        <4>2. /\ toClient[1] = Half(c, BytesHeard(c) + 1)
              /\ Coming(Tail(toClient), c, BytesHeard(c) + 1, wrote[c])
              /\ AllComing(toClient, c, BytesHeard(c), wrote[c])
                   => AllComing(Tail(toClient), c, BytesHeard(c) + 1, wrote[c])
          <5>1. toClient[1].kind = "half" /\ toClient[1].ch = c
            BY <3>1 DEF f
          <5> QED BY <1>1, <2>1, <4>1, <5>1, NextByte
        <4> QED BY <1>4, <2>1, <4>2 DEF f, Listening
      <3>3. /\ heard'[c] = heard[c] \o Decoded(held[c], f) /\ text'[c] = heard'[c]
            /\ held'[c] = Holds(f)
        BY <1>2, <2>1, <2>2 DEF TextInv, IsFunction, new
      <3>4. Len(heard[c]) \in Nat /\ BytesHeard(c) = Bytes(Len(heard[c]), held[c])
        BY <2>1 DEF Decoding, BytesHeard
      <3>5. PICK s \in Nat :
              /\ Decoding(c, s, heard[c] \o Decoded(held[c], f), Holds(f))
              /\ Bytes(s, Holds(f)) = BytesHeard(c) + 1
        BY <2>1, <3>2, <3>4, ByteDecoded
      <3>6. Len(heard'[c]) = s
        <4>1. heard'[c] = Runes(c, s)
          BY <3>3, <3>5 DEF Decoding
        <4> QED BY <4>1 DEF Runes
      <3>7. BytesHeard(c)' = BytesHeard(c) + 1
        BY <3>3, <3>5, <3>6 DEF BytesHeard
      <3> QED BY <3>2, <3>3, <3>5, <3>6, <3>7 DEF Listening
    <2>3. CASE c # ch
      <3>1. toClient[1].ch # c
        BY <2>3 DEF ch, f
      <3>2. heard'[c] = heard[c] /\ text'[c] = text[c] /\ held'[c] = held[c]
        BY <1>2, <2>3 DEF TextInv, IsFunction
      <3>3. BytesHeard(c)' = BytesHeard(c)
        BY <3>2 DEF BytesHeard
      <3>4. /\ Coming(toClient', c, BytesHeard(c), wrote[c])
            /\ AllComing(toClient, c, BytesHeard(c), wrote[c])
                 => AllComing(toClient', c, BytesHeard(c), wrote[c])
        <4>1. Coming(toClient, c, BytesHeard(c), wrote[c])
          BY <2>1 DEF Listening
        <4> QED BY <1>1, <2>1, <3>1, <4>1, NextOther
      <3> QED BY <1>4, <2>1, <3>2, <3>3, <3>4 DEF Listening
    <2> QED BY <2>2, <2>3
  <1> QED BY <1>3, <1>4, <1>5, <1>6 DEF TextInv, ResultComplete

(* The client takes the finished event: nothing comes after it, so the text
   of a session that is still pending is the text of all that was written. *)
LEMMA TextFinishes ==
  ASSUME WireInv, TextInv, toClient # <<>>, Head(toClient).kind = "finished",
         toClient' = Tail(toClient), UNCHANGED <<proc, wrote, heard>>,
         IF result = "pending" THEN result' = "exit" /\ Flush ELSE UNCHANGED <<result, text, held>>
  PROVE  TextInv'
  <1>1. /\ toClient \in Seq(ClientFrames) /\ wrote \in [Channels -> Nat]
        /\ 1 \in 1 .. Len(toClient) /\ Head(toClient) = toClient[1]
        /\ toClient' \in Seq(ClientFrames) /\ Len(toClient') = Len(toClient) - 1
    <2>1. toClient \in Seq(ClientFrames) /\ wrote \in [Channels -> Nat]
      BY DEF WireInv, WireTyped
    <2> QED BY <2>1, Tailed
  <1>2. toClient[1].kind = "finished" /\ Len(toClient) = 1 /\ proc = "exited" /\ FinishComing
    BY <1>1 DEF TextInv, FinishIsLast, WireInv, OnItsWay, FinishComing
  <1>3. toClient' = <<>> /\ FinishIsLast'
    BY <1>1, <1>2 DEF FinishIsLast
  <1>4. result # "exit"
    BY DEF TextInv
  <1>5. CASE result = "pending"
    <2>1. /\ text' = [ch \in Channels |-> text[ch] \o Flushed(held[ch])]
          /\ held' = [ch \in Channels |-> NoHalf] /\ result' = "exit"
      BY <1>5 DEF Flush
    <2>2. IsFunction(text)' /\ IsFunction(held)' /\ IsFunction(heard)'
      BY <2>1 DEF IsFunction, TextInv
    <2>3. ASSUME NEW c \in Channels
          PROVE  /\ text'[c] = TextOf(c, wrote[c])
                 /\ heard[c] = SubSeq(text'[c], 1, wrote[c] \div 2)
      <3>1. /\ Decoding(c, Len(heard[c]), heard[c], held[c]) /\ text[c] = heard[c]
            /\ BytesHeard(c) \in Nat /\ wrote[c] \in Nat /\ BytesHeard(c) <= wrote[c]
            /\ AllComing(toClient, c, BytesHeard(c), wrote[c])
        BY <1>1, <1>2, <1>5, HeardBytes DEF TextInv, Listening, Coming
      <3>2. BytesHeard(c) = wrote[c]
        <4> SUFFICES ASSUME BytesHeard(c) < wrote[c] PROVE FALSE
          BY <3>1
        <4>1. PICK j \in 1 .. Len(toClient) : IsHalf(toClient[j], c, BytesHeard(c) + 1)
          <5>1. BytesHeard(c) + 1 \in BytesHeard(c) + 1 .. wrote[c]
            BY <3>1
          <5> QED BY <3>1, <5>1 DEF AllComing
        <4> QED BY <1>2, <4>1 DEF IsHalf
      <3>4. /\ heard[c] \o Flushed(held[c]) = TextOf(c, wrote[c])
            /\ heard[c] = SubSeq(TextOf(c, wrote[c]), 1, wrote[c] \div 2)
        BY <3>1, <3>2, HeardText
      <3>5. text'[c] = heard[c] \o Flushed(held[c])
        BY <2>1, <3>1
      <3> QED BY <3>4, <3>5
    <2>4. ResultComplete'
      BY <2>3 DEF ResultComplete
    <2> QED BY <1>2, <1>3, <2>1, <2>2, <2>4 DEF TextInv
  <1>6. CASE result # "pending"
    <2>1. UNCHANGED <<result, text, held, heard>>
      BY <1>6
    <2> QED BY <1>3, <1>4, <1>6, <2>1 DEF TextInv, IsFunction, ResultComplete
  <1> QED BY <1>5, <1>6

(* The session is over before it has a result. *)
LEMMA TextLost ==
  ASSUME TextInv, UNCHANGED <<toClient, proc, wrote, heard>>,
         conn' = "open" => conn = "open",
         IF result = "pending" THEN result' \notin {"pending", "exit"} /\ Flush
                               ELSE UNCHANGED <<result, text, held>>
  PROVE  TextInv'
  <1>1. CASE result = "pending"
    BY <1>1 DEF TextInv, IsFunction, FinishIsLast, ResultComplete, Flush
  <1>2. CASE result # "pending"
    BY <1>2, TextStays
  <1> QED BY <1>1, <1>2

-----------------------------------------------------------------------------
(* The TypeScript session: its invariant *)

LEMMA Joined ==
  ASSUME NEW S, NEW s \in Seq(S), NEW fs \in Seq(S)
  PROVE  /\ s \o fs \in Seq(S) /\ Len(s \o fs) = Len(s) + Len(fs)
         /\ Len(s) \in Nat /\ Len(fs) \in Nat
         /\ \A i \in 1 .. Len(s) : (s \o fs)[i] = s[i]
         /\ \A k \in 1 .. Len(fs) : (s \o fs)[Len(s) + k] = fs[k]
  OBVIOUS

(* The client sends frames in one go. *)
LEMMA FramesSent ==
  ASSUME WireInv, NEW fs \in Seq(ServerFrames), conn = "open", conn' # "closed",
         toServer' = toServer \o fs, UNCHANGED <<proc, toClient>>,
         \A k \in 1 .. Len(fs) : fs[k].kind # "start" /\ (fs[k].kind = "bye" => conn' # "open")
  PROVE  /\ toServer' \in Seq(ServerFrames)
         /\ OnItsWay'
         /\ Dying => Dying'
         /\ Len(fs) > 0 /\ fs[1].kind = "kill" => Dying'
  <1>1. /\ toServer' \in Seq(ServerFrames) /\ Len(toServer') = Len(toServer) + Len(fs)
        /\ Len(toServer) \in Nat /\ Len(fs) \in Nat
        /\ \A i \in 1 .. Len(toServer) : toServer'[i] = toServer[i]
        /\ \A k \in 1 .. Len(fs) : toServer'[Len(toServer) + k] = fs[k]
    <2>1. toServer \in Seq(ServerFrames)
      BY DEF WireInv, WireTyped
    <2> QED BY <2>1, Joined
  <1>2. OnItsWay'
    <2>1. ASSUME NEW i \in 1 .. Len(toServer')
          PROVE  /\ toServer'[i].kind = "start" => i = 1 /\ proc' = "none"
                 /\ toServer'[i].kind = "bye" => conn' # "open"
      <3>1. CASE i \in 1 .. Len(toServer)
        BY <1>1, <3>1 DEF WireInv, OnItsWay
      <3>2. CASE i \notin 1 .. Len(toServer)
        <4>1. i - Len(toServer) \in 1 .. Len(fs) /\ toServer'[i] = fs[i - Len(toServer)]
          BY <1>1, <3>2
        <4> QED BY <4>1
      <3> QED BY <3>1, <3>2
    <2>2. proc' = "none" /\ conn' # "closed" => toServer' # <<>> /\ toServer'[1].kind = "start"
      <3> SUFFICES ASSUME proc = "none" PROVE toServer' # <<>> /\ toServer'[1].kind = "start"
        OBVIOUS
      <3>1. toServer # <<>> /\ toServer[1].kind = "start"
        BY DEF WireInv, OnItsWay
      <3>2. Len(toServer) >= 1
        BY <3>1, <1>1 DEF WireInv, WireTyped
      <3> QED BY <3>1, <3>2, <1>1
    <2>3. \A i \in 1 .. Len(toClient') : toClient'[i].kind = "finished" => proc' = "exited"
      BY DEF WireInv, OnItsWay
    <2> QED BY <2>1, <2>2, <2>3 DEF OnItsWay
  <1>3. Dying => Dying'
    <2> SUFFICES ASSUME KillAhead PROVE KillAhead'
      BY DEF Dying
    <2>1. PICK i \in 1 .. Len(toServer) :
            toServer[i].kind = "kill" /\ \A j \in 1 .. i - 1 : toServer[j].kind # "bye"
      BY DEF KillAhead
    <2>2. \A j \in 1 .. i : toServer'[j] = toServer[j]
      BY <1>1
    <2> QED BY <2>1, <2>2, <1>1 DEF KillAhead
  <1>4. ASSUME Len(fs) > 0, fs[1].kind = "kill" PROVE KillAhead'
    <2>1. \A j \in 1 .. Len(toServer) : toServer'[j].kind # "bye"
      BY <1>1 DEF WireInv, OnItsWay
    <2>2. Len(toServer) + 1 \in 1 .. Len(toServer') /\ toServer'[Len(toServer) + 1].kind = "kill"
      BY <1>1, <1>4
    <2>3. \A j \in 1 .. (Len(toServer) + 1) - 1 : toServer'[j].kind # "bye"
      BY <1>1, <2>1
    <2> QED BY <2>2, <2>3 DEF KillAhead
  <1> QED BY <1>1, <1>2, <1>3, <1>4 DEF Dying

TsTyped ==
  /\ WireTyped
  /\ dial \in {"dialing", "activating", "redialing", "open", "failed"}
  /\ readyState \in {"open", "closing", "closed"}
  /\ written \in Nat

(* A socket that is not open, and not lost, closes behind a SIGTERM or after
   the end of the process. *)
ClosedBehindKill ==
  /\ conn # "open" /\ ~dropped => Dying
  /\ readyState # "open" => conn # "open"
  /\ dial # "open" => conn = "open"
  /\ listening => dial = "open"

TsInv == TsTyped /\ OnItsWay /\ ClosedBehindKill

(* The frames of one write. *)
LEMMA CutFrames ==
  ASSUME written \in Nat, NEW size \in Nat
  PROVE  /\ Cut(size) \in Seq(ServerFrames)
         /\ Len(Cut(size)) = (size + ChunkBytes - 1) \div ChunkBytes
         /\ \A k \in 1 .. Len(Cut(size)) :
              /\ Cut(size)[k].kind = "stdin"
              /\ Cut(size)[k].n = written + (IF k * ChunkBytes > size THEN size ELSE k * ChunkBytes)
  <1> DEFINE m == (size + ChunkBytes - 1) \div ChunkBytes
             last(k) == IF k * ChunkBytes > size THEN size ELSE k * ChunkBytes
             frame(k) == [Frame("stdin") EXCEPT !.n = written + last(k)]
  <1>1. m \in Nat
    BY BoundsAssumption
  <1>2. ASSUME NEW k \in 1 .. m
        PROVE  frame(k) \in ServerFrames /\ frame(k).kind = "stdin" /\ frame(k).n = written + last(k)
    <2>1. k * ChunkBytes \in Nat
      BY <1>1, BoundsAssumption
    <2>2. written + last(k) \in Nat
      BY <2>1
    <2> HIDE DEF last
    <2> QED BY <2>2 DEF Frame, ServerFrames
  <1>3. Cut(size) = [k \in 1 .. m |-> frame(k)]
    BY DEF Cut
  <1> HIDE DEF m, frame, last
  <1>4. /\ Cut(size) \in Seq(ServerFrames) /\ Len(Cut(size)) = m
        /\ \A k \in 1 .. m : Cut(size)[k] = frame(k)
    BY <1>1, <1>2, <1>3
  <1> QED BY <1>2, <1>4 DEF m, last

(* The end of stdin. *)
Eof == [Frame("eof") EXCEPT !.n = written]

LEMMA EofFrame ==
  ASSUME written \in Nat
  PROVE  /\ <<Eof>> \in Seq(ServerFrames) /\ Len(<<Eof>>) = 1
         /\ <<Eof>>[1].kind = "eof" /\ <<Eof>>[1].n = written
  BY DEF Eof, Frame, ServerFrames

(* close(), or the signal. *)
LEMMA Aborts ==
  ASSUME TsInv, Abort, dial' = "open", dial = "open" \/ conn = "open",
         UNCHANGED <<proc, wrote, toClient, got, dropped>>
  PROVE  /\ WireInv' /\ readyState' \in {"open", "closing", "closed"}
         /\ conn' # "open" /\ ~dropped => Dying'
         /\ readyState' # "open" => conn' # "open"
  <1>0. WireInv /\ (conn # "open" /\ ~dropped => Dying) /\ (readyState # "open" => conn # "open")
        /\ readyState \in {"open", "closing", "closed"}
    BY DEF TsInv, TsTyped, WireInv, ClosedBehindKill
  <1>1. CASE readyState = "open" /\ conn = "open"
    <2> DEFINE fs == <<Frame("kill"), Frame("bye")>>
    <2>1. toServer' = toServer \o fs /\ conn' = "closing" /\ readyState' = "closing"
      BY <1>1 DEF Abort, SendOpen, SendFrames, Farewells
    <2>2. fs \in Seq(ServerFrames) /\ Len(fs) = 2 /\ fs[1].kind = "kill" /\ fs[2].kind = "bye"
      BY FramesAreFrames
    <2> HIDE DEF fs
    <2>3. \A k \in 1 .. Len(fs) : fs[k].kind # "start" /\ (fs[k].kind = "bye" => conn' # "open")
      BY <2>1, <2>2
    <2>4. UNCHANGED <<proc, toClient>> /\ conn' # "closed" /\ conn = "open" /\ Len(fs) > 0
      BY <1>1, <2>1, <2>2
    <2>5. toServer' \in Seq(ServerFrames) /\ OnItsWay' /\ Dying'
      BY <1>0, <2>1, <2>2, <2>3, <2>4, FramesSent
    <2> QED BY <1>0, <2>1, <2>5 DEF WireInv, WireTyped
  <1>2. CASE ~(readyState = "open" /\ conn = "open")
    <2>1. UNCHANGED <<toServer, conn>> /\ readyState' \in {readyState, "closing"}
          /\ (readyState' = readyState \/ conn # "open")
      BY <1>2 DEF Abort, SendOpen
    <2>2. WireInv' /\ (Dying => Dying')
      BY <1>0, <2>1 DEF WireInv, WireTyped, OnItsWay, Dying, KillAhead
    <2> QED BY <1>0, <2>1, <2>2
  <1> QED BY <1>1, <1>2

(* stdin.write(), stdin.close() or kill(). *)
LEMMA Sends ==
  ASSUME TsInv, NEW fs \in Seq(ServerFrames), SendOpen(fs),
         \A k \in 1 .. Len(fs) : fs[k].kind \notin {"start", "bye"},
         UNCHANGED <<proc, wrote, toClient, got, conn, dropped>>
  PROVE  WireInv' /\ (Dying => Dying')
  <1>0. WireInv
    BY DEF TsInv, TsTyped, WireInv
  <1>1. CASE readyState = "open" /\ conn = "open"
    <2>1. toServer' = toServer \o fs
      BY <1>1 DEF SendOpen, SendFrames
    <2>2. toServer' \in Seq(ServerFrames) /\ OnItsWay' /\ (Dying => Dying')
      BY <1>0, <1>1, <2>1, FramesSent
    <2> QED BY <1>0, <2>2 DEF WireInv, WireTyped
  <1>2. CASE ~(readyState = "open" /\ conn = "open")
    BY <1>0, <1>2 DEF SendOpen, WireInv, WireTyped, OnItsWay, Dying, KillAhead
  <1> QED BY <1>1, <1>2

LEMMA TsInitially == Init => TsInv
  <1> SUFFICES ASSUME Init PROVE TsInv
    OBVIOUS
  <1>1. WireInv
    BY WireStarts DEF Init
  <1>2. TsTyped
    BY <1>1 DEF Init, TsTyped, WireInv
  <1>3. ClosedBehindKill
    BY DEF Init, WireInit, ClosedBehindKill
  <1> QED BY <1>1, <1>2, <1>3 DEF TsInv, WireInv

LEMMA TsInductive == TsInv /\ [Next]_vars => TsInv'
  <1> SUFFICES ASSUME TsInv, [Next]_vars PROVE TsInv'
    OBVIOUS
  <1>0. WireInv /\ written \in Nat
    BY DEF TsInv, TsTyped, WireInv
  <1>1. CASE UNCHANGED vars
    <2>1. UNCHANGED <<proc, wrote, toClient, toServer, got, conn, dropped, dial, readyState, listening, written>>
      BY <1>1 DEF vars, wire, session, calls, stdin
    <2> QED BY <2>1 DEF TsInv, TsTyped, WireTyped, OnItsWay, ClosedBehindKill, Dying, KillAhead
  <1>2. CASE dial = "open" /\ WireNext /\ UNCHANGED <<dial, session, calls>>
    <2>1. /\ WireInv' /\ (Dying /\ ~dropped' => Dying')
          /\ conn' # "open" /\ ~dropped' => conn # "open" \/ Dying'
          /\ dropped => dropped'
      BY <1>0, <1>2, WireStep
    <2>2. UNCHANGED <<readyState, listening, written>> /\ dial = "open" /\ dial' = "open"
      BY <1>2 DEF session, calls, stdin
    <2>3. conn # "open" => conn' # "open"
      BY <1>2 DEF WireNext, Emit, Exit, ServeFrame, ServerCloses, Drop
    <2> QED BY <2>1, <2>2, <2>3 DEF TsInv, TsTyped, WireInv, ClosedBehindKill
  <1>3. CASE DialFails \/ Activated
    <2>1. /\ UNCHANGED <<wire, readyState, listening, written>> /\ dial # "open"
          /\ dial' \in {"activating", "failed", "redialing"}
      BY <1>3 DEF DialFails, Activated, session, calls, stdin
    <2> QED BY <1>0, <2>1, WireAlone DEF TsInv, TsTyped, WireTyped, ClosedBehindKill, wire
  <1>4. CASE DialOpens
    <2>1. /\ dial # "open" /\ dial' = "open" /\ conn = "open"
          /\ UNCHANGED <<proc, wrote, toClient, got, dropped, written>>
      BY <1>4 DEF DialOpens, calls, stdin, TsInv, ClosedBehindKill
    <2>2. CASE AlreadyAborted
      <3>1. Abort
        BY <1>4, <2>2 DEF DialOpens
      <3> QED BY <2>1, <3>1, Aborts DEF TsInv, TsTyped, WireInv, ClosedBehindKill
    <2>3. CASE ~AlreadyAborted
      <3>1. UNCHANGED <<readyState, toServer, conn>>
        BY <1>4, <2>3 DEF DialOpens
      <3>2. OnItsWay'
        BY <1>0, <2>1, <3>1, WireAlone DEF wire
      <3> QED BY <2>1, <3>1, <3>2 DEF TsInv, TsTyped, WireTyped, ClosedBehindKill
    <2> QED BY <2>2, <2>3
  <1>5. CASE OnOutput \/ OnFinished
    <2>1. /\ toClient # <<>> /\ toClient' = Tail(toClient)
          /\ UNCHANGED <<proc, wrote, toServer, got, conn, dropped, dial, readyState, written>>
          /\ listening' = listening \/ listening' = FALSE
      BY <1>5 DEF OnOutput, OnFinished, calls, stdin
    <2>2. /\ toClient' \in Seq(ClientFrames)
          /\ \A i \in 1 .. Len(toClient') : toClient'[i].kind = "finished" => proc = "exited"
      BY <1>0, <2>1, StillFinished
    <2> QED BY <2>1, <2>2 DEF TsInv, TsTyped, WireTyped, OnItsWay, ClosedBehindKill, Dying, KillAhead
  <1>6. CASE OnClose
    <2>1. /\ UNCHANGED <<wire, dial, written>> /\ readyState' = "closed" /\ conn = "closed"
          /\ listening' = listening \/ listening' = FALSE
      BY <1>6 DEF OnClose, calls, stdin
    <2> QED BY <1>0, <2>1, WireAlone DEF TsInv, TsTyped, WireTyped, ClosedBehindKill, wire
  <1>7. ASSUME NEW size \in Sizes, Write(size) PROVE TsInv'
    <2>1. /\ SendOpen(Cut(size)) /\ written' = written + size /\ size \in Nat
          /\ UNCHANGED <<proc, wrote, toClient, got, conn, dropped, dial, readyState, listening>>
      BY <1>7, BoundsAssumption DEF Write, session
    <2>2. WireInv' /\ (Dying => Dying')
      BY <1>0, <2>1, CutFrames, Sends
    <2>3. written' \in Nat
      BY <1>0, <2>1
    <2> QED BY <1>0, <2>1, <2>2, <2>3 DEF TsInv, TsTyped, WireInv, ClosedBehindKill
  <1>e. CASE CloseStdin
    <2> DEFINE fs == <<Eof>>
    <2>1. /\ SendOpen(fs)
          /\ UNCHANGED <<proc, wrote, toClient, got, conn, dropped, dial, readyState, listening, written>>
      BY <1>e DEF CloseStdin, Eof, session
    <2>2. fs \in Seq(ServerFrames) /\ Len(fs) = 1 /\ fs[1].kind = "eof"
      BY <1>0, EofFrame
    <2> HIDE DEF fs
    <2>3. WireInv' /\ (Dying => Dying')
      BY <2>1, <2>2, Sends
    <2> QED BY <2>1, <2>3 DEF TsInv, TsTyped, WireInv, ClosedBehindKill
  <1>8. CASE Kill
    <2> DEFINE fs == <<Frame("kill")>>
    <2>1. /\ SendOpen(fs)
          /\ UNCHANGED <<proc, wrote, toClient, got, conn, dropped, dial, readyState, listening, written>>
      BY <1>8 DEF Kill, session, stdin
    <2>2. fs \in Seq(ServerFrames) /\ Len(fs) = 1 /\ fs[1].kind = "kill"
      BY FramesAreFrames
    <2> HIDE DEF fs
    <2>3. WireInv' /\ (Dying => Dying')
      BY <2>1, <2>2, Sends
    <2> QED BY <2>1, <2>3 DEF TsInv, TsTyped, WireInv, ClosedBehindKill
  <1>9. CASE Close \/ (SignalFires /\ listening)
    <2>1. /\ Abort /\ dial = "open"
          /\ UNCHANGED <<proc, wrote, toClient, got, dropped, dial, listening, written>>
      BY <1>9 DEF Close, SignalFires, stdin, TsInv, ClosedBehindKill
    <2> QED BY <2>1, Aborts DEF TsInv, TsTyped, WireInv, ClosedBehindKill
  <1>10. CASE SignalFires /\ ~listening
    <2>1. UNCHANGED <<wire, dial, readyState, listening, written>>
      BY <1>10 DEF SignalFires, wire, stdin
    <2> QED BY <1>0, <2>1, WireAlone DEF TsInv, TsTyped, WireTyped, ClosedBehindKill, wire
  <1> QED BY <1>1, <1>2, <1>3, <1>4, <1>5, <1>6, <1>7, <1>e, <1>8, <1>9, <1>10 DEF Next, Dialing, Event

LEMMA TsInvariant == Spec => []TsInv
  BY TsInitially, TsInductive, PTL DEF Spec

(***************************************************************************)
(* Whoever ends a connection that is not lost, and whenever, the process   *)
(* has had its SIGTERM when the socket is closed (commandSession.ts:192).  *)
(***************************************************************************)
THEOREM AlwaysAbortKills == Spec => []AbortKills
  <1>1. TsInv => AbortKills
    BY DEF TsInv, ClosedBehindKill, AbortKills, Dying, KillAhead
  <1> QED BY <1>1, TsInvariant, PTL

LEMMA TsTextInvariant == Spec => []TextInv
  <1>1. Init => TextInv
    BY TextStarts DEF Init
  <1>2. TsInv /\ TextInv /\ [Next]_vars => TextInv'
    <2> SUFFICES ASSUME TsInv, TextInv, [Next]_vars PROVE TextInv'
      OBVIOUS
    <2>0. WireInv
      BY DEF TsInv, TsTyped, WireInv
    <2>1. CASE dial = "open" /\ WireNext /\ UNCHANGED <<dial, session, calls>>
      BY <2>0, <2>1, TextWire DEF session
    <2>2. CASE OnOutput
      <3>1. /\ toClient # <<>> /\ Head(toClient).kind = "half" /\ toClient' = Tail(toClient)
            /\ OnBinary(Head(toClient)) /\ UNCHANGED <<proc, wrote, result, conn>>
        BY <2>2 DEF OnOutput
      <3> QED BY <2>0, <3>1, TextHears
    <2>3. CASE OnFinished
      <3>1. /\ toClient # <<>> /\ Head(toClient).kind = "finished" /\ toClient' = Tail(toClient)
            /\ UNCHANGED <<proc, wrote, heard>>
            /\ IF result = "pending" THEN result' = "exit" /\ Flush
                                     ELSE UNCHANGED <<result, text, held>>
        BY <2>3 DEF OnFinished
      <3> QED BY <2>0, <3>1, TextFinishes
    <2>4. CASE OnClose
      <3>1. /\ UNCHANGED <<toClient, proc, wrote, heard, conn>>
            /\ IF result = "pending" THEN result' \notin {"pending", "exit"} /\ Flush
                                     ELSE UNCHANGED <<result, text, held>>
        BY <2>4 DEF OnClose, wire
      <3> QED BY <3>1, TextLost
    <2>5. CASE \/ Dialing \/ (\E size \in Sizes : Write(size)) \/ CloseStdin
               \/ Kill \/ Close \/ SignalFires \/ UNCHANGED vars
      <3>1. /\ UNCHANGED <<toClient, wrote, proc, heard, held, text, result>>
            /\ conn' = "open" => conn = "open"
        BY <2>5 DEF Dialing, DialFails, Activated, DialOpens, Write, CloseStdin, Kill, Close, SignalFires, Abort,
                    vars, wire, session
      <3> QED BY <3>1, TextStays
    <2> QED BY <2>1, <2>2, <2>3, <2>4, <2>5 DEF Next, Event
  <1> QED BY <1>1, <1>2, TsInvariant, PTL DEF Spec

-----------------------------------------------------------------------------
(* Sessions that nobody has broken off *)

(* The socket is open until the process has ended, and the finished event is
   in front of its end. *)
FinishAwaited ==
  /\ conn = "open" \/ (conn = "closed" /\ proc = "exited")
  /\ proc = "exited" => FinishComing

LEMMA AwaitedWire ==
  ASSUME WireInv, WireNext, FinishAwaited, ~dropped'
  PROVE  FinishAwaited'
  <1>1. /\ conn = "open" \/ (conn = "closed" /\ proc = "exited")
        /\ proc = "exited" => FinishComing
    BY DEF FinishAwaited
  <1>t. toClient \in Seq(ClientFrames)
    BY DEF WireInv, WireTyped
  <1>2. ASSUME NEW ch \in Channels, Emit(ch)
        PROVE  FinishAwaited'
    BY <1>1, <1>2 DEF Emit, FinishAwaited
  <1>3. CASE Exit
    <2>1. /\ conn = "open" /\ conn' = "open"
          /\ toClient' = toClient \o <<Frame("finished")>>
      BY <1>1, <1>3, <1>t, FramesAreFrames, Appended DEF Exit
    <2>2. Len(toClient) + 1 \in 1 .. Len(toClient') /\ toClient'[Len(toClient) + 1].kind = "finished"
      BY <2>1, <1>t, FramesAreFrames, Appended
    <2> QED BY <2>1, <2>2 DEF FinishAwaited, FinishComing
  <1>4. CASE ServeFrame
    <2>1. conn = "open" /\ toServer # <<>>
      BY <1>1, <1>4 DEF ServeFrame
    <2>2. 1 \in 1 .. Len(toServer) /\ Head(toServer) = toServer[1]
      BY <2>1, Tailed DEF WireInv, WireTyped
    <2>3. Head(toServer).kind # "bye" /\ (Head(toServer).kind = "start" => proc = "none")
      BY <2>1, <2>2 DEF WireInv, OnItsWay
    <2>4. /\ conn' = conn /\ toClient' = toClient
          /\ proc' = "exited" => proc = "exited"
      BY <1>4, <2>3 DEF ServeFrame
    <2> QED BY <1>1, <2>1, <2>4 DEF FinishAwaited, FinishComing
  <1>5. CASE ServerCloses
    BY <1>1, <1>5 DEF ServerCloses, FinishAwaited, FinishComing
  <1>6. ~Drop
    BY DEF Drop
  <1> QED BY <1>1, <1>2, <1>3, <1>4, <1>5, <1>6 DEF WireNext

LEMMA AwaitedRead ==
  ASSUME WireInv, FinishAwaited, toClient # <<>>, Head(toClient).kind # "finished",
         toClient' = Tail(toClient), UNCHANGED <<proc, conn>>
  PROVE  FinishAwaited'
  <1>1. /\ Head(toClient) = toClient[1] /\ Len(toClient') = Len(toClient) - 1
        /\ Len(toClient) \in Nat
        /\ \A i \in 1 .. Len(toClient) - 1 : toClient'[i] = toClient[i + 1]
    BY Tailed DEF WireInv, WireTyped
  <1>2. ASSUME FinishComing PROVE FinishComing'
    <2>1. PICK i \in 1 .. Len(toClient) : toClient[i].kind = "finished"
      BY <1>2 DEF FinishComing
    <2>2. i # 1
      BY <1>1, <2>1
    <2>3. i - 1 \in 1 .. Len(toClient') /\ toClient'[i - 1] = toClient[i]
      BY <1>1, <2>2
    <2> QED BY <2>1, <2>3 DEF FinishComing
  <1> QED BY <1>2 DEF FinishAwaited

(* The socket has not ended before the finished event was read. *)
LEMMA NotTheEnd ==
  ASSUME FinishAwaited, conn = "closed", toClient = <<>>
  PROVE  FALSE
  <1>1. FinishComing /\ Len(toClient) = 0
    BY DEF FinishAwaited
  <1> QED BY <1>1 DEF FinishComing

(* Neither the network nor the caller has broken a TypeScript session off. *)
Unbroken == ~dropped /\ ~closeCalled /\ ~aborted

UnbrokenInv ==
  Unbroken => /\ result # "lost" /\ readyState # "closing"
              /\ result = "pending" => FinishAwaited

LEMMA UnbrokenInductive == TsInv /\ UnbrokenInv /\ [Next]_vars => UnbrokenInv'
  <1> SUFFICES ASSUME TsInv, UnbrokenInv, [Next]_vars, Unbroken' PROVE UnbrokenInv'
    BY DEF UnbrokenInv
  <1>0. WireInv /\ readyState \in {"open", "closing", "closed"}
    BY DEF TsInv, TsTyped, WireInv
  <1>u. Unbroken
    BY <1>0, WireStep
       DEF Unbroken, Next, Dialing, DialFails, Activated, DialOpens, Event, OnOutput, OnFinished, OnClose,
           Write, CloseStdin, Kill, Close, SignalFires, vars, wire, calls
  <1>i. result # "lost" /\ readyState # "closing" /\ (result = "pending" => FinishAwaited)
    BY <1>u DEF UnbrokenInv
  <1>1. CASE dial = "open" /\ WireNext /\ UNCHANGED <<dial, session, calls>>
    <2>1. UNCHANGED <<result, readyState>>
      BY <1>1 DEF session
    <2>2. FinishAwaited => FinishAwaited'
      BY <1>0, <1>1, AwaitedWire DEF Unbroken
    <2> QED BY <1>i, <2>1, <2>2 DEF UnbrokenInv
  <1>2. CASE OnOutput
    <2>1. /\ toClient # <<>> /\ Head(toClient).kind # "finished" /\ toClient' = Tail(toClient)
          /\ UNCHANGED <<proc, conn, result, readyState>>
      BY <1>2 DEF OnOutput
    <2>2. FinishAwaited => FinishAwaited'
      BY <1>0, <2>1, AwaitedRead
    <2> QED BY <1>i, <2>1, <2>2 DEF UnbrokenInv
  <1>3. CASE OnFinished
    BY <1>i, <1>3 DEF OnFinished, UnbrokenInv
  <1>4. CASE OnClose
    <2>1. /\ conn = "closed" /\ toClient = <<>> /\ readyState' = "closed"
          /\ result # "pending" => result' = result
      BY <1>i, <1>4 DEF OnClose
    <2>2. result # "pending"
      BY <1>i, <2>1, NotTheEnd
    <2> QED BY <1>i, <2>1, <2>2 DEF UnbrokenInv
  <1>5. CASE \/ Dialing \/ (\E size \in Sizes : Write(size)) \/ CloseStdin
             \/ Kill \/ UNCHANGED vars
    <2>1. UNCHANGED <<proc, toClient, conn, result, readyState>>
      BY <1>5, <1>u DEF Unbroken, Dialing, DialFails, Activated, DialOpens, AlreadyAborted, Write, CloseStdin, Kill,
                        vars, wire, session
    <2> QED BY <1>i, <2>1 DEF UnbrokenInv, FinishAwaited, FinishComing
  <1>6. ~Close /\ ~SignalFires
    BY DEF Close, SignalFires, Unbroken
  <1> QED BY <1>1, <1>2, <1>3, <1>4, <1>5, <1>6 DEF Next, Event

(***************************************************************************)
(* In every execution, and for any amount of output, the result of wait()  *)
(* holds all the process wrote, rune by rune (commandSession.ts:126), and  *)
(* it is withheld only from a session that was broken off: the end of a    *)
(* socket that the server has closed is never taken for a lost connection  *)
(* (commandSession.ts:242-274).                                            *)
(***************************************************************************)
THEOREM AlwaysSessionHonest == Spec => []SessionHonest
  <1>1. Init => UnbrokenInv
    <2> SUFFICES ASSUME Init PROVE UnbrokenInv
      OBVIOUS
    <2> QED BY DEF Init, WireInit, TextInit, UnbrokenInv, Unbroken, FinishAwaited
  <1>2. TextInv /\ UnbrokenInv => SessionHonest
    BY DEF TextInv, UnbrokenInv, Unbroken, SessionHonest
  <1> QED BY <1>1, <1>2, TsTextInvariant, TsInvariant, UnbrokenInductive, PTL DEF Spec

-----------------------------------------------------------------------------
(* What the process is given of the writes *)

Stdin(s, i) == s[i].kind = "stdin"
Ends(s, i) == {0} \cup {s[j].n : j \in {k \in 1 .. i - 1 : Stdin(s, k)}}
Latest(s, m, i) == m \in Ends(s, i) /\ \A l \in Ends(s, i) : l <= m

(* Every frame takes up where the ones before it left off. *)
Placed(s, i) ==
  /\ Stdin(s, i) => \E m \in Ends(s, i) : Latest(s, m, i) /\ s[i].n - m \in 1 .. ChunkBytes
  /\ s[i].kind = "eof" => Latest(s, s[i].n, i)

InOrder(s) == \A i \in 1 .. Len(s) : Placed(s, i)

GivenInv ==
  /\ InOrder(got \o toServer)
  /\ conn = "open" => Latest(got \o toServer, written, Len(got \o toServer) + 1)

LEMMA InEnds ==
  ASSUME NEW s, NEW i, NEW x
  PROVE  x \in Ends(s, i) <=> x = 0 \/ \E j \in 1 .. i - 1 : Stdin(s, j) /\ x = s[j].n
  BY DEF Ends

LEMMA SameEnds ==
  ASSUME NEW s, NEW t, NEW i \in Nat, \A k \in 1 .. i - 1 : s[k] = t[k]
  PROVE  Ends(s, i) = Ends(t, i) /\ \A m : Latest(s, m, i) <=> Latest(t, m, i)
  <1>1. Ends(s, i) = Ends(t, i)
    BY DEF Ends, Stdin
  <1> QED BY <1>1 DEF Latest

LEMMA SamePlace ==
  ASSUME NEW s, NEW t, NEW i, NEW j, s[i] = t[j], Ends(s, i) = Ends(t, j), Placed(s, i)
  PROVE  Placed(t, j)
  BY DEF Placed, Stdin, Latest

(* A frame that is no stdin changes nothing, taken out ... *)
LEMMA TakenOut ==
  ASSUME NEW s \in Seq(ServerFrames), NEW t \in Seq(ServerFrames), NEW p \in 1 .. Len(s),
         ~Stdin(s, p), Len(t) = Len(s) - 1, InOrder(s),
         \A i \in 1 .. p - 1 : t[i] = s[i],
         \A i \in p .. Len(t) : t[i] = s[i + 1]
  PROVE  /\ InOrder(t)
         /\ \A m : Latest(s, m, Len(s) + 1) => Latest(t, m, Len(t) + 1)
  <1>0. Len(s) \in Nat /\ Len(t) \in Nat
    OBVIOUS
  <1>1. ASSUME NEW i \in p .. Len(t) + 1 PROVE Ends(t, i) = Ends(s, i + 1)
    <2>1. ASSUME NEW k \in 1 .. i - 1, Stdin(t, k)
          PROVE  \E j \in 1 .. i : Stdin(s, j) /\ s[j].n = t[k].n
      <3>1. CASE k < p
        <4>1. k \in 1 .. i /\ t[k] = s[k]
          BY <1>0, <3>1
        <4> QED BY <2>1, <4>1 DEF Stdin
      <3>2. CASE k >= p
        <4>1. k + 1 \in 1 .. i /\ t[k] = s[k + 1]
          BY <1>0, <3>2
        <4> QED BY <2>1, <4>1 DEF Stdin
      <3> QED BY <3>1, <3>2
    <2>2. ASSUME NEW j \in 1 .. i, Stdin(s, j)
          PROVE  \E k \in 1 .. i - 1 : Stdin(t, k) /\ t[k].n = s[j].n
      <3>1. CASE j < p
        <4>1. j \in 1 .. i - 1 /\ t[j] = s[j]
          BY <1>0, <3>1
        <4> QED BY <2>2, <4>1 DEF Stdin
      <3>2. CASE j > p
        <4>1. j - 1 \in p .. Len(t) /\ j - 1 \in 1 .. i - 1 /\ t[j - 1] = s[j]
          BY <1>0, <3>2
        <4> QED BY <2>2, <4>1 DEF Stdin
      <3>3. j # p
        BY <2>2
      <3> QED BY <1>0, <3>1, <3>2, <3>3
    <2>3. (i + 1) - 1 = i
      BY <1>0
    <2>4. ASSUME NEW x PROVE x \in Ends(t, i) <=> x \in Ends(s, i + 1)
      <3>1. x \in Ends(t, i) <=> x = 0 \/ \E k \in 1 .. i - 1 : Stdin(t, k) /\ x = t[k].n
        BY DEF Ends
      <3>2. x \in Ends(s, i + 1) <=> x = 0 \/ \E j \in 1 .. i : Stdin(s, j) /\ x = s[j].n
        BY <2>3 DEF Ends
      <3> QED BY <2>1, <2>2, <3>1, <3>2
    <2> QED BY <2>4
  <1>2. ASSUME NEW i \in p .. Len(t) + 1, NEW m PROVE Latest(s, m, i + 1) <=> Latest(t, m, i)
    BY <1>1 DEF Latest
  <1>3. InOrder(t)
    <2> SUFFICES ASSUME NEW i \in 1 .. Len(t) PROVE Placed(t, i)
      BY DEF InOrder
    <2>1. CASE i < p
      <3>1. i \in 1 .. Len(s) /\ t[i] = s[i] /\ i \in Nat
        BY <1>0, <2>1
      <3>2. \A k \in 1 .. i - 1 : s[k] = t[k]
        BY <1>0, <2>1
      <3> QED BY <3>1, <3>2, SameEnds, SamePlace DEF InOrder
    <2>2. CASE i >= p
      <3>1. i \in p .. Len(t) + 1 /\ i + 1 \in 1 .. Len(s) /\ t[i] = s[i + 1]
        BY <1>0, <2>2
      <3> QED BY <1>1, <3>1, SamePlace DEF InOrder
    <2> QED BY <1>0, <2>1, <2>2
  <1>4. ASSUME NEW m, Latest(s, m, Len(s) + 1) PROVE Latest(t, m, Len(t) + 1)
    <2>1. Len(t) + 1 \in p .. Len(t) + 1 /\ Len(s) + 1 = (Len(t) + 1) + 1
      BY <1>0
    <2> QED BY <1>2, <1>4, <2>1
  <1> QED BY <1>3, <1>4

(* ... or sent; the end of stdin is sent behind what was written. *)
LEMMA OtherSent ==
  ASSUME NEW s \in Seq(ServerFrames), NEW fs \in Seq(ServerFrames), InOrder(s),
         \A k \in 1 .. Len(fs) :
           ~Stdin(fs, k) /\ (fs[k].kind = "eof" => Latest(s, fs[k].n, Len(s) + 1))
  PROVE  /\ InOrder(s \o fs)
         /\ \A m : Latest(s, m, Len(s) + 1) => Latest(s \o fs, m, Len(s \o fs) + 1)
  <1> DEFINE t == s \o fs
  <1>0. /\ Len(t) = Len(s) + Len(fs) /\ Len(s) \in Nat /\ Len(fs) \in Nat
        /\ \A i \in 1 .. Len(s) : t[i] = s[i]
        /\ \A k \in 1 .. Len(fs) : t[Len(s) + k] = fs[k]
    BY Joined
  <1> HIDE DEF t
  <1>1. ASSUME NEW i \in 1 .. Len(t), Stdin(t, i) PROVE i \in 1 .. Len(s)
    <2> SUFFICES ASSUME i > Len(s) PROVE FALSE
      BY <1>0
    <2>1. i - Len(s) \in 1 .. Len(fs) /\ t[i] = fs[i - Len(s)]
      BY <1>0
    <2> QED BY <1>1, <2>1 DEF Stdin
  <1>2. ASSUME NEW i \in Len(s) + 1 .. Len(t) + 1 PROVE Ends(t, i) = Ends(s, Len(s) + 1)
    <2>1. (Len(s) + 1) - 1 = Len(s) /\ 1 .. Len(s) \subseteq 1 .. i - 1
          /\ 1 .. i - 1 \subseteq 1 .. Len(t)
      BY <1>0
    <2>2. \A k \in 1 .. Len(s) : t[k] = s[k] /\ (Stdin(t, k) <=> Stdin(s, k))
      BY <1>0 DEF Stdin
    <2>3. \A x : x \in Ends(t, i) <=> x \in Ends(s, Len(s) + 1)
      BY <1>1, <2>1, <2>2, InEnds
    <2> QED BY <2>3
  <1>3. InOrder(t)
    <2> SUFFICES ASSUME NEW i \in 1 .. Len(t) PROVE Placed(t, i)
      BY DEF InOrder
    <2>1. CASE i \in 1 .. Len(s)
      <3>1. t[i] = s[i] /\ i \in Nat /\ \A k \in 1 .. i - 1 : s[k] = t[k]
        BY <1>0, <2>1
      <3> QED BY <2>1, <3>1, SameEnds, SamePlace DEF InOrder
    <2>2. CASE i \notin 1 .. Len(s)
      <3>1. i - Len(s) \in 1 .. Len(fs) /\ t[i] = fs[i - Len(s)] /\ i \in Len(s) + 1 .. Len(t) + 1
        BY <1>0, <2>2
      <3>2. Ends(t, i) = Ends(s, Len(s) + 1)
        BY <1>2, <3>1
      <3>3. ~Stdin(t, i) /\ (t[i].kind = "eof" => Latest(s, t[i].n, Len(s) + 1))
        BY <3>1 DEF Stdin
      <3> QED BY <3>2, <3>3 DEF Placed, Latest
    <2> QED BY <2>1, <2>2
  <1>4. \A m : Latest(s, m, Len(s) + 1) => Latest(t, m, Len(t) + 1)
    <2>1. Len(t) + 1 \in Len(s) + 1 .. Len(t) + 1
      BY <1>0
    <2> QED BY <1>2, <2>1 DEF Latest
  <1> QED BY <1>3, <1>4 DEF t

(* A write is sent. *)
LEMMA WriteSent ==
  ASSUME NEW s \in Seq(ServerFrames), InOrder(s), written \in Nat, NEW size \in Nat \ {0},
         Latest(s, written, Len(s) + 1)
  PROVE  /\ InOrder(s \o Cut(size))
         /\ Latest(s \o Cut(size), written + size, Len(s \o Cut(size)) + 1)
  <1> DEFINE t == s \o Cut(size)
             W == written
             m == (size + ChunkBytes - 1) \div ChunkBytes
             last(k) == IF k * ChunkBytes > size THEN size ELSE k * ChunkBytes
  <1>c. /\ Cut(size) \in Seq(ServerFrames) /\ Len(Cut(size)) = m
        /\ \A k \in 1 .. m : Cut(size)[k].kind = "stdin" /\ Cut(size)[k].n = W + last(k)
    BY CutFrames
  <1>b. size \in Nat \ {0} /\ ChunkBytes \in Nat \ {0}
    BY BoundsAssumption
  <1>w. W \in Nat /\ written + size = W + size
    OBVIOUS
  <1>m. m \in Nat /\ m >= 1 /\ m * ChunkBytes >= size /\ (m - 1) * ChunkBytes < size
    BY <1>b
  <1>l. \A k \in 1 .. m : /\ last(k) \in 1 .. size
                          /\ k < m => last(k) = k * ChunkBytes
                          /\ k = m => last(k) = size
                          /\ last(k) - (k - 1) * ChunkBytes \in 1 .. ChunkBytes
    <2> SUFFICES ASSUME NEW k \in 1 .. m
                 PROVE  /\ last(k) \in 1 .. size
                        /\ k < m => last(k) = k * ChunkBytes
                        /\ k = m => last(k) = size
                        /\ last(k) - (k - 1) * ChunkBytes \in 1 .. ChunkBytes
      OBVIOUS
    <2>1. k * ChunkBytes \in Nat \ {0} /\ (k - 1) * ChunkBytes = k * ChunkBytes - ChunkBytes
          /\ (k - 1) * ChunkBytes \in Nat
      BY <1>b, <1>m
    <2>2. (k - 1) * ChunkBytes <= (m - 1) * ChunkBytes /\ (k < m => k * ChunkBytes <= (m - 1) * ChunkBytes)
      BY <1>b, <1>m
    <2> QED BY <1>b, <1>m, <2>1, <2>2
  <1>0. /\ Len(t) = Len(s) + m /\ Len(s) \in Nat
        /\ \A i \in 1 .. Len(s) : t[i] = s[i]
        /\ \A k \in 1 .. m : t[Len(s) + k] = Cut(size)[k]
    BY <1>c, <1>m, Joined
  <1> HIDE DEF t, W, m, last
  <1>k. \A k \in 1 .. m + 1 : k \in Nat /\ k >= 1 /\ (Len(s) + k) - 1 = Len(s) + (k - 1)
                                 /\ 1 .. k - 1 \subseteq 1 .. m
    BY <1>0, <1>m
  <1>s. (Len(s) + 1) - 1 = Len(s)
    BY <1>0
  (* The ends before frame k of the write. *)
  <1>1. ASSUME NEW k \in 1 .. m + 1, NEW x
        PROVE  x \in Ends(t, Len(s) + k)
                 <=> x \in Ends(s, Len(s) + 1) \/ \E j \in 1 .. k - 1 : x = W + last(j)
    <2>1. ASSUME NEW i \in 1 .. (Len(s) + k) - 1, Stdin(t, i)
          PROVE  \/ i \in 1 .. Len(s) /\ Stdin(s, i) /\ t[i].n = s[i].n
                 \/ i - Len(s) \in 1 .. k - 1 /\ t[i].n = W + last(i - Len(s))
      <3>1. CASE i <= Len(s)
        BY <1>0, <2>1, <3>1 DEF Stdin
      <3>2. CASE i > Len(s)
        <4>1. i - Len(s) \in 1 .. k - 1 /\ i - Len(s) \in 1 .. m /\ Len(s) + (i - Len(s)) = i
          BY <1>0, <1>m, <3>2
        <4> QED BY <1>0, <1>c, <4>1
      <3> QED BY <1>0, <3>1, <3>2
    <2>2. ASSUME NEW i \in 1 .. Len(s), Stdin(s, i)
          PROVE  i \in 1 .. (Len(s) + k) - 1 /\ Stdin(t, i) /\ t[i].n = s[i].n
      BY <1>0, <1>m, <2>2 DEF Stdin
    <2>3. ASSUME NEW j \in 1 .. k - 1
          PROVE  Len(s) + j \in 1 .. (Len(s) + k) - 1 /\ Stdin(t, Len(s) + j) /\ t[Len(s) + j].n = W + last(j)
      <3>1. j \in 1 .. m /\ Len(s) + j \in 1 .. (Len(s) + k) - 1
        BY <1>0, <1>m
      <3>2. t[Len(s) + j] = Cut(size)[j]
        BY <1>0, <3>1
      <3> QED BY <1>c, <3>1, <3>2 DEF Stdin
    <2>4. x \in Ends(s, Len(s) + 1) <=> x = 0 \/ \E i \in 1 .. Len(s) : Stdin(s, i) /\ x = s[i].n
      BY <1>s, InEnds
    <2>5. x \in Ends(t, Len(s) + k)
            <=> x = 0 \/ \E i \in 1 .. (Len(s) + k) - 1 : Stdin(t, i) /\ x = t[i].n
      BY InEnds
    <2>6. CASE x \in Ends(t, Len(s) + k)
      BY <2>1, <2>4, <2>5, <2>6
    <2>7. CASE x \in Ends(s, Len(s) + 1)
      BY <2>2, <2>4, <2>5, <2>7
    <2>8. CASE \E j \in 1 .. k - 1 : x = W + last(j)
      BY <2>3, <2>5, <2>8
    <2> QED BY <2>6, <2>7, <2>8
  (* The latest is where the frame before ended. *)
  <1>2. ASSUME NEW k \in 1 .. m + 1
        PROVE  Latest(t, W + (IF k = 1 THEN 0 ELSE last(k - 1)), Len(s) + k)
    <2>1. W \in Ends(s, Len(s) + 1) /\ \A x \in Ends(s, Len(s) + 1) : x <= W
      BY DEF Latest, W
    <2>2. \A x \in Ends(s, Len(s) + 1) : x \in Nat
      <3>1. ASSUME NEW j \in 1 .. Len(s) PROVE s[j].n \in Nat
        <4>1. s[j] \in ServerFrames
          OBVIOUS
        <4> QED BY <4>1 DEF ServerFrames
      <3> QED BY <1>s, <3>1, InEnds
    <2>3. CASE k = 1
      <3>1. \A x : x \in Ends(t, Len(s) + k) <=> x \in Ends(s, Len(s) + 1)
        BY <1>1, <2>3
      <3>2. W + (IF k = 1 THEN 0 ELSE last(k - 1)) = W
        BY <1>w, <2>3
      <3> QED BY <2>1, <3>1, <3>2 DEF Latest
    <2>4. CASE k # 1
      <3>1. k - 1 \in 1 .. k - 1 /\ k - 1 \in 1 .. m
        BY <1>m, <2>4
      <3>2. /\ last(k - 1) \in 1 .. size
            /\ k - 1 < m => last(k - 1) = (k - 1) * ChunkBytes
            /\ k - 1 = m => last(k - 1) = size
        BY <1>l, <3>1
      <3>3. ASSUME NEW j \in 1 .. k - 1 PROVE last(j) <= last(k - 1) /\ last(j) \in Nat
        <4>1. /\ j \in 1 .. m /\ j * ChunkBytes <= (k - 1) * ChunkBytes
              /\ j * ChunkBytes \in Nat /\ (k - 1) * ChunkBytes \in Nat
          BY <1>b, <1>m
        <4>2. last(j) \in 1 .. size /\ (j < m => last(j) = j * ChunkBytes)
          BY <1>l, <4>1
        <4> QED BY <1>b, <1>m, <3>1, <3>2, <4>1, <4>2
      <3>4. W + last(k - 1) \in Ends(t, Len(s) + k)
        BY <1>1, <3>1
      <3>5. ASSUME NEW x \in Ends(t, Len(s) + k) PROVE x <= W + last(k - 1)
        <4>0. last(k - 1) \in Nat
          BY <1>b, <3>2
        <4>1. CASE x \in Ends(s, Len(s) + 1)
          BY <1>w, <2>1, <2>2, <4>0, <4>1
        <4>2. CASE \E j \in 1 .. k - 1 : x = W + last(j)
          <5>1. PICK j \in 1 .. k - 1 : x = W + last(j)
            BY <4>2
          <5>2. last(j) <= last(k - 1) /\ last(j) \in Nat
            BY <3>3
          <5> QED BY <1>w, <4>0, <5>1, <5>2
        <4> QED BY <1>1, <4>1, <4>2
      <3> QED BY <2>4, <3>4, <3>5 DEF Latest
    <2> QED BY <2>3, <2>4
  <1>3. InOrder(t)
    <2> SUFFICES ASSUME NEW i \in 1 .. Len(t) PROVE Placed(t, i)
      BY DEF InOrder
    <2>1. CASE i \in 1 .. Len(s)
      <3>1. t[i] = s[i] /\ i \in Nat /\ \A k \in 1 .. i - 1 : s[k] = t[k]
        BY <1>0, <2>1
      <3> QED BY <2>1, <3>1, SameEnds, SamePlace DEF InOrder
    <2>2. CASE i \notin 1 .. Len(s)
      <3> DEFINE k == i - Len(s)
                 x == W + (IF k = 1 THEN 0 ELSE last(k - 1))
      <3>1. k \in 1 .. m /\ k \in 1 .. m + 1 /\ Len(s) + k = i
            /\ t[i].n = W + last(k) /\ t[i].kind = "stdin"
        <4>1. k \in 1 .. m /\ k \in 1 .. m + 1 /\ Len(s) + k = i
          BY <1>0, <1>m, <2>2
        <4> QED BY <1>0, <1>c, <4>1
      <3>2. Latest(t, x, i)
        BY <1>2, <3>1
      <3>i. k \in Nat /\ k >= 1 /\ k <= m
        BY <1>m, <3>1
      <3> HIDE DEF k
      <3>3. t[i].n - x \in 1 .. ChunkBytes
        <4>1. k # 1 => k - 1 \in 1 .. m /\ last(k - 1) = (k - 1) * ChunkBytes
          <5>1. k # 1 => k - 1 \in 1 .. m /\ k - 1 < m
            BY <1>m, <3>i
          <5> QED BY <1>l, <5>1
        <4>2. last(k) - (k - 1) * ChunkBytes \in 1 .. ChunkBytes /\ last(k) \in Nat
          BY <1>l, <1>b, <3>1
        <4>3. (k - 1) * ChunkBytes \in Nat /\ (k = 1 => (k - 1) * ChunkBytes = 0)
          BY <1>b, <1>m, <3>1
        <4> QED BY <1>w, <1>b, <3>1, <4>1, <4>2, <4>3
      <3> HIDE DEF x
      <3> QED BY <3>1, <3>2, <3>3 DEF Placed, Latest
    <2> QED BY <2>1, <2>2
  <1>4. Latest(t, written + size, Len(t) + 1)
    <2>1. m + 1 \in 1 .. m + 1 /\ m + 1 # 1 /\ (m + 1) - 1 = m /\ Len(s) + (m + 1) = Len(t) + 1
      BY <1>0, <1>m
    <2>2. last(m) = size
      BY <1>l, <1>m
    <2> QED BY <1>2, <1>w, <2>1, <2>2
  <1> QED BY <1>3, <1>4 DEF t

(* An empty write sends nothing. *)
LEMMA EmptyWriteSent ==
  ASSUME NEW s \in Seq(ServerFrames), InOrder(s), written \in Nat,
         Latest(s, written, Len(s) + 1)
  PROVE  /\ InOrder(s \o Cut(0))
         /\ Latest(s \o Cut(0), written + 0, Len(s \o Cut(0)) + 1)
  <1>1. (0 + ChunkBytes - 1) \div ChunkBytes = 0
    BY BoundsAssumption
  <1>2. Cut(0) \in Seq(ServerFrames) /\ Len(Cut(0)) = 0
    BY <1>1, CutFrames
  <1> QED BY <1>2, OtherSent

(* The server takes the first frame. *)
LEMMA GivenServed ==
  ASSUME NEW served \in Seq(ServerFrames), NEW coming \in Seq(ServerFrames), coming # <<>>,
         NEW now,
         now = IF coming[1].kind \in {"stdin", "eof"} THEN Append(served, coming[1]) ELSE served,
         InOrder(served \o coming)
  PROVE  /\ InOrder(now \o Tail(coming))
         /\ \A m : Latest(served \o coming, m, Len(served \o coming) + 1)
                     => Latest(now \o Tail(coming), m, Len(now \o Tail(coming)) + 1)
  <1> DEFINE s == served \o coming
             t == now \o Tail(coming)
  <1>1. /\ Len(coming) \in Nat \ {0} /\ coming[1] \in ServerFrames
        /\ Tail(coming) \in Seq(ServerFrames) /\ Len(Tail(coming)) = Len(coming) - 1
        /\ \A i \in 1 .. Len(coming) - 1 : Tail(coming)[i] = coming[i + 1]
    BY Tailed
  <1>2. /\ s \in Seq(ServerFrames) /\ Len(s) = Len(served) + Len(coming) /\ Len(served) \in Nat
        /\ \A i \in 1 .. Len(served) : s[i] = served[i]
        /\ \A k \in 1 .. Len(coming) : s[Len(served) + k] = coming[k]
    BY Joined
  <1>3. CASE coming[1].kind \in {"stdin", "eof"}
    <2>1. /\ now \in Seq(ServerFrames) /\ Len(now) = Len(served) + 1
          /\ \A i \in 1 .. Len(served) : now[i] = served[i]
          /\ now[Len(served) + 1] = coming[1]
      BY <1>1, <1>3, Appended
    <2>2. /\ t \in Seq(ServerFrames) /\ Len(t) = Len(now) + Len(Tail(coming))
          /\ \A i \in 1 .. Len(now) : t[i] = now[i]
          /\ \A k \in 1 .. Len(Tail(coming)) : t[Len(now) + k] = Tail(coming)[k]
      BY <1>1, <2>1, Joined
    <2> HIDE DEF s, t
    <2>3. Len(t) = Len(s)
      BY <1>1, <1>2, <2>1, <2>2
    <2>4. ASSUME NEW i \in 1 .. Len(s) PROVE s[i] = t[i]
      <3>1. CASE i <= Len(served)
        <4>1. i \in 1 .. Len(served) /\ i \in 1 .. Len(now)
          BY <1>2, <2>1, <3>1
        <4> QED BY <1>2, <2>1, <2>2, <4>1
      <3>2. CASE i = Len(served) + 1
        <4>1. t[i] = coming[1]
          BY <1>2, <2>1, <2>2, <3>2
        <4>2. s[i] = coming[1]
          BY <1>1, <1>2, <3>2
        <4> QED BY <4>1, <4>2
      <3>3. CASE i > Len(served) + 1
        <4> DEFINE k == i - Len(served)
        <4>1. k \in 1 .. Len(coming) /\ Len(served) + k = i /\ k - 1 \in 1 .. Len(coming) - 1
              /\ Len(now) + (k - 1) = i /\ (k - 1) + 1 = k
          BY <1>1, <1>2, <2>1, <3>3
        <4> HIDE DEF k
        <4>2. s[i] = coming[k]
          BY <1>2, <4>1
        <4>3. t[i] = Tail(coming)[k - 1] /\ Tail(coming)[k - 1] = coming[k]
          BY <1>1, <2>2, <4>1
        <4> QED BY <4>2, <4>3
      <3> QED BY <1>2, <3>1, <3>2, <3>3
    <2>5. s = t
      BY <1>2, <2>2, <2>3, <2>4, SameSeq
    <2> QED BY <2>5 DEF s, t
  <1>4. CASE coming[1].kind \notin {"stdin", "eof"}
    <2> DEFINE p == Len(served) + 1
    <2>1. now = served
      BY <1>4
    <2>2. /\ t \in Seq(ServerFrames) /\ Len(t) = Len(served) + Len(Tail(coming))
          /\ \A i \in 1 .. Len(served) : t[i] = served[i]
          /\ \A k \in 1 .. Len(Tail(coming)) : t[Len(served) + k] = Tail(coming)[k]
      <3>1. t = served \o Tail(coming)
        BY <2>1
      <3> HIDE DEF t
      <3> QED BY <1>1, <3>1, Joined
    <2>s. InOrder(s)
      OBVIOUS
    <2> HIDE DEF s, t
    <2>3. p \in 1 .. Len(s) /\ Len(t) = Len(s) - 1
      BY <1>1, <1>2, <2>2
    <2>4. ~Stdin(s, p)
      BY <1>1, <1>2, <1>4 DEF Stdin
    <2>5. \A i \in 1 .. p - 1 : t[i] = s[i]
      BY <1>2, <2>2
    <2>6. ASSUME NEW i \in p .. Len(t) PROVE t[i] = s[i + 1]
      <3> DEFINE k == i - Len(served)
      <3>1. k \in 1 .. Len(coming) - 1 /\ Len(served) + k = i
            /\ k + 1 \in 1 .. Len(coming) /\ Len(served) + (k + 1) = i + 1
        BY <1>1, <1>2, <2>2
      <3> HIDE DEF k
      <3> QED BY <1>1, <1>2, <2>2, <3>1
    <2> HIDE DEF p
    <2>7. /\ InOrder(t)
          /\ \A m : Latest(s, m, Len(s) + 1) => Latest(t, m, Len(t) + 1)
      BY <1>2, <2>2, <2>s, <2>3, <2>4, <2>5, <2>6, TakenOut
    <2> QED BY <2>7 DEF s, t
  <1> QED BY <1>3, <1>4

LEMMA GivenDropped ==
  ASSUME NEW served \in Seq(ServerFrames), NEW coming \in Seq(ServerFrames),
         InOrder(served \o coming)
  PROVE  InOrder(served \o <<>>)
  <1> DEFINE s == served \o coming
  <1>1. /\ Len(s) = Len(served) + Len(coming) /\ Len(served) \in Nat /\ Len(coming) \in Nat
        /\ \A i \in 1 .. Len(served) : s[i] = served[i]
    BY Joined
  <1>2. served \o <<>> = served
    OBVIOUS
  <1>3. InOrder(s)
    OBVIOUS
  <1> HIDE DEF s
  <1> SUFFICES ASSUME NEW i \in 1 .. Len(served) PROVE Placed(served, i)
    BY <1>2 DEF InOrder
  <1>4. i \in 1 .. Len(s) /\ s[i] = served[i] /\ i \in Nat
        /\ \A k \in 1 .. i - 1 : s[k] = served[k]
    BY <1>1
  <1> QED BY <1>3, <1>4, SameEnds, SamePlace DEF InOrder

LEMMA Together ==
  ASSUME NEW S, NEW a \in Seq(S), NEW b \in Seq(S), NEW c \in Seq(S)
  PROVE  a \o (b \o c) = (a \o b) \o c
  <1>1. /\ a \o (b \o c) \in Seq(S) /\ (a \o b) \o c \in Seq(S)
        /\ Len(a \o (b \o c)) = Len((a \o b) \o c)
    OBVIOUS
  <1>2. \A k \in 1 .. Len(a \o (b \o c)) : (a \o (b \o c))[k] = ((a \o b) \o c)[k]
    OBVIOUS
  <1> QED BY <1>1, <1>2, SameSeq

(* Frames other than stdin are sent, and the close handshake may begin. *)
LEMMA GivenSends ==
  ASSUME TsInv, GivenInv, NEW fs \in Seq(ServerFrames), SendOpen(fs),
         \A k \in 1 .. Len(fs) : ~Stdin(fs, k) /\ (fs[k].kind = "eof" => fs[k].n = written),
         UNCHANGED <<got, written>>, conn' = "open" => conn = "open"
  PROVE  GivenInv'
  <1> DEFINE s == got \o toServer
  <1>1. got \in Seq(ServerFrames) /\ toServer \in Seq(ServerFrames)
    BY DEF TsInv, TsTyped, WireTyped
  <1>2. CASE toServer' = toServer
    BY <1>2 DEF GivenInv
  <1>3. CASE toServer' = toServer \o fs /\ conn = "open"
    <2>1. got' \o toServer' = s \o fs /\ s \in Seq(ServerFrames)
      <3>1. s \in Seq(ServerFrames)
        BY <1>1, Joined
      <3>2. got \o (toServer \o fs) = s \o fs
        BY <1>1, Together
      <3> QED BY <1>3, <3>1, <3>2
    <2>2. InOrder(s) /\ (conn = "open" => Latest(s, written, Len(s) + 1))
      BY DEF GivenInv
    <2> HIDE DEF s
    <2>f. \A k \in 1 .. Len(fs) :
            ~Stdin(fs, k) /\ (fs[k].kind = "eof" => Latest(s, fs[k].n, Len(s) + 1))
      BY <1>3, <2>2
    <2>3. InOrder(s \o fs) /\ \A m : Latest(s, m, Len(s) + 1) => Latest(s \o fs, m, Len(s \o fs) + 1)
      BY <2>1, <2>2, <2>f, OtherSent
    <2> QED BY <2>1, <2>2, <2>3 DEF GivenInv
  <1> QED BY <1>2, <1>3 DEF SendOpen, SendFrames

LEMMA GivenAborts ==
  ASSUME TsInv, GivenInv, Abort, UNCHANGED <<got, written>>
  PROVE  GivenInv'
  <1> DEFINE fs == <<Frame("kill"), Frame("bye")>>
  <1>1. fs \in Seq(ServerFrames) /\ \A k \in 1 .. Len(fs) : ~Stdin(fs, k) /\ fs[k].kind # "eof"
    <2>1. fs \in Seq(ServerFrames) /\ Len(fs) = 2 /\ fs[1].kind = "kill" /\ fs[2].kind = "bye"
      BY FramesAreFrames
    <2> HIDE DEF fs
    <2> QED BY <2>1 DEF Stdin
  <1>2. CASE readyState = "open"
    <2>1. SendOpen(fs) /\ (conn' = "open" => conn = "open")
      BY <1>2 DEF Abort, Farewells
    <2> HIDE DEF fs
    <2> QED BY <1>1, <2>1, GivenSends
  <1>3. CASE readyState # "open"
    BY <1>3 DEF Abort, GivenInv
  <1> QED BY <1>2, <1>3

LEMMA GivenInductive == TsInv /\ GivenInv /\ [Next]_vars => GivenInv'
  <1> SUFFICES ASSUME TsInv, GivenInv, [Next]_vars PROVE GivenInv'
    OBVIOUS
  <1> DEFINE s == got \o toServer
  <1>0. /\ got \in Seq(ServerFrames) /\ toServer \in Seq(ServerFrames) /\ written \in Nat
        /\ InOrder(s) /\ (conn = "open" => Latest(s, written, Len(s) + 1))
    BY DEF TsInv, TsTyped, WireTyped, GivenInv
  <1>1. CASE /\ UNCHANGED <<got, toServer, written>>
             /\ conn' = "open" => conn = "open"
    BY <1>1 DEF GivenInv
  <1>2. CASE dial = "open" /\ WireNext /\ UNCHANGED <<dial, session, calls>>
    <2>0. written' = written
      BY <1>2 DEF calls, stdin
    <2>1. CASE ServeFrame
      <3>1. /\ toServer # <<>> /\ toServer' = Tail(toServer) /\ Head(toServer) = toServer[1]
            /\ got' = IF toServer[1].kind \in {"stdin", "eof"} THEN Append(got, toServer[1]) ELSE got
            /\ conn' = "open" => conn = "open"
        <4>1. toServer # <<>> /\ Head(toServer) = toServer[1]
          BY <1>0, <2>1, Tailed DEF ServeFrame
        <4> QED BY <2>1, <4>1 DEF ServeFrame
      <3>2. /\ InOrder(got' \o Tail(toServer))
            /\ \A m : Latest(s, m, Len(s) + 1)
                        => Latest(got' \o Tail(toServer), m, Len(got' \o Tail(toServer)) + 1)
        BY <1>0, <3>1, GivenServed
      <3> QED BY <1>0, <2>0, <3>1, <3>2 DEF GivenInv
    <2>2. CASE Drop
      <3>1. conn' = "closed" /\ toServer' = <<>> /\ got' = got
        BY <2>2 DEF Drop
      <3>2. InOrder(got \o <<>>)
        BY <1>0, GivenDropped
      <3> QED BY <3>1, <3>2 DEF GivenInv
    <2>3. CASE ~ServeFrame /\ ~Drop
      <3>1. UNCHANGED <<got, toServer, written>> /\ (conn' = "open" => conn = "open")
        BY <1>2, <2>0, <2>3 DEF WireNext, Emit, Exit, ServerCloses
      <3> QED BY <1>1, <3>1
    <2> QED BY <2>1, <2>2, <2>3
  <1>3. CASE Dialing
    <2>1. CASE DialOpens /\ AlreadyAborted
      BY <2>1, GivenAborts DEF DialOpens, calls, stdin
    <2>2. CASE ~(DialOpens /\ AlreadyAborted)
      <3>1. UNCHANGED <<got, toServer, written, conn>>
        BY <1>3, <2>2 DEF Dialing, DialFails, Activated, DialOpens, wire, calls, stdin
      <3> QED BY <1>1, <3>1
    <2> QED BY <2>1, <2>2
  <1>4. CASE Event
    <2>1. UNCHANGED <<got, toServer, written, conn>>
      BY <1>4 DEF Event, OnOutput, OnFinished, OnClose, wire, calls, stdin
    <2> QED BY <1>1, <2>1
  <1>5. ASSUME NEW size \in Sizes, Write(size) PROVE GivenInv'
    <2>1. /\ SendOpen(Cut(size)) /\ written' = written + size /\ UNCHANGED <<got, conn>>
          /\ size \in Nat
      BY <1>5, BoundsAssumption DEF Write
    <2>2. Cut(size) \in Seq(ServerFrames)
      BY <1>0, <2>1, CutFrames
    <2>3. CASE conn # "open"
      <3>1. toServer' = toServer
        BY <2>1, <2>3 DEF SendOpen
      <3> QED BY <2>1, <2>3, <3>1 DEF GivenInv
    <2>4. CASE conn = "open"
      <3>1. toServer' = toServer \o Cut(size)
        BY <2>1, <2>4 DEF SendOpen, SendFrames, TsInv, ClosedBehindKill
      <3>2. got' \o toServer' = s \o Cut(size) /\ s \in Seq(ServerFrames)
        <4>1. s \in Seq(ServerFrames)
          BY <1>0, Joined
        <4>2. got \o (toServer \o Cut(size)) = s \o Cut(size)
          BY <1>0, <2>2, Together
        <4> QED BY <2>1, <3>1, <4>1, <4>2
      <3> HIDE DEF s
      <3>3. /\ InOrder(s \o Cut(size))
            /\ Latest(s \o Cut(size), written + size, Len(s \o Cut(size)) + 1)
        <4>1. CASE size = 0
          BY <1>0, <2>4, <3>2, <4>1, EmptyWriteSent
        <4>2. CASE size # 0
          BY <1>0, <2>1, <2>4, <3>2, <4>2, WriteSent
        <4> QED BY <4>1, <4>2
      <3> QED BY <2>1, <3>2, <3>3 DEF GivenInv
    <2> QED BY <2>3, <2>4
  <1>e. CASE CloseStdin
    <2>1. SendOpen(<<Eof>>) /\ UNCHANGED <<got, conn, written>>
      BY <1>e DEF CloseStdin, Eof
    <2>2. /\ <<Eof>> \in Seq(ServerFrames)
          /\ \A k \in 1 .. Len(<<Eof>>) :
               ~Stdin(<<Eof>>, k) /\ (<<Eof>>[k].kind = "eof" => <<Eof>>[k].n = written)
      BY <1>0, EofFrame DEF Stdin
    <2> QED BY <2>1, <2>2, GivenSends
  <1>6. CASE Kill
    <2> DEFINE fs == <<Frame("kill")>>
    <2>1. SendOpen(fs) /\ UNCHANGED <<got, conn, written>>
      BY <1>6 DEF Kill, stdin
    <2>2. fs \in Seq(ServerFrames) /\ \A k \in 1 .. Len(fs) : ~Stdin(fs, k) /\ fs[k].kind # "eof"
      <3>1. fs \in Seq(ServerFrames) /\ Len(fs) = 1 /\ fs[1].kind = "kill"
        BY FramesAreFrames
      <3> HIDE DEF fs
      <3> QED BY <3>1 DEF Stdin
    <2> HIDE DEF fs
    <2> QED BY <2>1, <2>2, GivenSends
  <1>7. CASE Close
    BY <1>7, GivenAborts DEF Close, stdin
  <1>8. CASE SignalFires
    <2>1. CASE listening
      BY <1>8, <2>1, GivenAborts DEF SignalFires, stdin
    <2>2. CASE ~listening
      <3>1. UNCHANGED <<got, toServer, written, conn>>
        BY <1>8, <2>2 DEF SignalFires, stdin
      <3> QED BY <1>1, <3>1
    <2> QED BY <2>1, <2>2
  <1>9. CASE UNCHANGED vars
    <2>1. UNCHANGED <<got, toServer, written, conn>>
      BY <1>9 DEF vars, wire, calls, stdin
    <2> QED BY <1>1, <2>1
  <1> QED BY <1>2, <1>3, <1>4, <1>5, <1>e, <1>6, <1>7, <1>8, <1>9 DEF Next

(***************************************************************************)
(* In every execution, for any size of a write and of a chunk, what the    *)
(* process has been given and what is on its way is what has been written, *)
(* in order (commandSession.ts:146-155).                                   *)
(***************************************************************************)
THEOREM AlwaysStdinExact == Spec => []StdinExact
  <1>1. Init => GivenInv
    <2> SUFFICES ASSUME Init PROVE GivenInv
      OBVIOUS
    <2> DEFINE s == <<Frame("start")>>
    <2>1. got \o toServer = s /\ written = 0
      <3>1. got \o toServer = s
        BY FramesAreFrames DEF Init, WireInit
      <3> QED BY <3>1 DEF Init
    <2>2. Len(s) = 1 /\ ~Stdin(s, 1) /\ s[1].kind # "eof"
      BY FramesAreFrames DEF Stdin
    <2> HIDE DEF s
    <2>3. \A i \in 1 .. Len(s) : ~Stdin(s, i) /\ s[i].kind # "eof"
      BY <2>2
    <2>4. Ends(s, Len(s) + 1) = {0}
      BY <2>2, <2>3 DEF Ends
    <2> QED BY <2>1, <2>3, <2>4 DEF GivenInv, InOrder, Placed, Latest
  <1>2. GivenInv => StdinExact
    BY DEF GivenInv, StdinExact, InOrder, Placed, Latest, Ends, Stdin
  <1> QED BY <1>1, <1>2, GivenInductive, TsInvariant, PTL DEF Spec

-----------------------------------------------------------------------------
(* The Python session: its invariant *)

TaskStates == {"idle", "locking", "sending", "waiting", "killed", "joining", "closing", "ended"}
Endings == {"none", "noop", "written", "raised", "sent", "exit", "lost", "closed", "cancelled"}
Results == {"pending", "exit", "lost", "closed", "cancelled"}

PyTyped ==
  /\ WireTyped
  /\ result \in Results
  /\ reader \in {"unstarted", "reading", "cancelled", "leaving", "ended"}
  /\ lock \in Writers \cup {Nobody}
  /\ pc \in [Tasks -> TaskStates]
  /\ sent \in [Writers -> Nat]
  /\ ended \in [Tasks -> Endings]

(* A reader that leaves the loop closes the socket; a closer that cancelled
   it closes the socket in its place. *)
NothingLeft ==
  /\ reader = "leaving" => conn # "open"
  /\ reader = "ended" => conn # "open" \/ \E c \in Closers : pc[c] = "joining"
  /\ \A c \in Closers :
       /\ pc[c] = "closing" => conn # "open" /\ reader = "ended" /\ result # "pending"
       /\ ended[c] = "closed" => conn = "closed" /\ reader = "ended" /\ result # "pending"

(* Somebody has begun to end the session. *)
Ending ==
  \/ result # "pending" \/ conn # "open" \/ reader = "cancelled"
  \/ \E c \in Closers : pc[c] \in {"killed", "joining", "closing"}

EndingKills == cancels = {} /\ ~raised /\ ~dropped /\ Ending => Dying

PyInv == PyTyped /\ OnItsWay /\ NothingLeft /\ EndingKills

LEMMA SocketClosed ==
  ASSUME WireInv, CloseSocket, proc' = proc,
         toClient' = toClient \/ (toClient # <<>> /\ toClient' = Tail(toClient))
  PROVE  /\ toServer' \in Seq(ServerFrames)
         /\ toClient' \in Seq(ClientFrames)
         /\ OnItsWay'
         /\ Dying => Dying'
         /\ conn' \in {"closing", "closed"}
         /\ conn = "closed" => conn' = "closed"
         /\ conn = "closing" => conn' = "closing"
  <1>1. CASE conn = "open"
    BY <1>1, ClientSends, FramesAreFrames DEF CloseSocket, SendFrames
  <1>2. CASE conn # "open"
    <2>1. /\ toClient' \in Seq(ClientFrames)
          /\ \A i \in 1 .. Len(toClient') : toClient'[i].kind = "finished" => proc = "exited"
      BY StillFinished
    <2>2. conn' = conn /\ toServer' = toServer
      BY <1>2 DEF CloseSocket
    <2> QED BY <1>2, <2>1, <2>2 DEF WireInv, WireTyped, OnItsWay, Dying, KillAhead
  <1> QED BY <1>1, <1>2

LEMMA PyWire == PyInv => WireInv
  BY DEF PyInv, PyTyped, WireInv

LEMMA PyWireStep ==
  ASSUME PyInv, WireNext, UNCHANGED <<pySession, tasks>>
  PROVE  PyInv'
  <1>1. UNCHANGED <<result, text, held, heard, raised, reader, lock, pc, sent, ended, cancels>>
    BY DEF pySession, tasks
  <1>2. /\ WireInv'
        /\ Dying /\ ~dropped' => Dying'
        /\ conn' # "open" /\ ~dropped' => conn # "open" \/ Dying'
        /\ dropped => dropped'
    <2>1. WireInv
      BY DEF PyInv, PyTyped, WireInv
    <2> QED BY <2>1, WireStep
  <1>3. NothingLeft'
    <2>1. (conn = "closed" => conn' = "closed") /\ (conn # "open" => conn' # "open")
      BY DEF WireNext, Emit, Exit, ServeFrame, ServerCloses, Drop, PyInv, PyTyped, WireTyped
    <2> QED BY <1>1, <2>1 DEF PyInv, NothingLeft
  <1>4. EndingKills'
    BY <1>1, <1>2 DEF PyInv, EndingKills, Ending
  <1>5. PyTyped'
    BY <1>1, <1>2 DEF PyInv, PyTyped, WireInv
  <1> QED BY <1>2, <1>3, <1>4, <1>5 DEF PyInv, WireInv

-----------------------------------------------------------------------------
(* The reader *)

LEMMA ReadStep ==
  ASSUME PyInv, ReaderStarts \/ ReadBinary \/ ReaderEnds
  PROVE  PyInv'
  <1>1. CASE ReaderStarts
    <2>1. UNCHANGED <<wire, result, raised, lock, pc, sent, ended, cancels>>
          /\ reader = "unstarted" /\ reader' = "reading"
      BY <1>1 DEF ReaderStarts, tasks
    <2>2. OnItsWay' /\ (Dying => Dying')
      BY <2>1, WireAlone, PyWire
    <2>3. PyTyped' /\ NothingLeft'
      BY <2>1 DEF PyInv, PyTyped, WireTyped, NothingLeft, wire
    <2>4. EndingKills'
      BY <2>1, <2>2 DEF PyInv, EndingKills, Ending, wire
    <2> QED BY <2>2, <2>3, <2>4 DEF PyInv
  <1>2. CASE ReadBinary
    <2>1. /\ toClient # <<>> /\ toClient' = Tail(toClient)
          /\ UNCHANGED <<proc, wrote, toServer, got, conn, dropped, result, raised, reader>>
          /\ UNCHANGED <<lock, pc, sent, ended, cancels>>
      BY <1>2 DEF ReadBinary, tasks
    <2>2. /\ toClient' \in Seq(ClientFrames)
          /\ \A i \in 1 .. Len(toClient') : toClient'[i].kind = "finished" => proc = "exited"
      BY <2>1, StillFinished, PyWire
    <2> QED BY <2>1, <2>2
            DEF PyInv, PyTyped, WireTyped, OnItsWay, NothingLeft, EndingKills, Ending, Dying, KillAhead
  <1>3. CASE ReaderEnds
    <2>1. UNCHANGED <<wire, result, raised, lock, pc, sent, ended, cancels>>
          /\ reader = "leaving" /\ reader' = "ended" /\ conn = "closed"
      BY <1>3 DEF ReaderEnds, tasks
    <2>2. OnItsWay' /\ (Dying => Dying')
      BY <2>1, WireAlone, PyWire
    <2>3. PyTyped' /\ NothingLeft'
      BY <2>1 DEF PyInv, PyTyped, WireTyped, NothingLeft, wire
    <2>4. EndingKills'
      BY <2>1, <2>2 DEF PyInv, EndingKills, Ending, wire
    <2> QED BY <2>2, <2>3, <2>4 DEF PyInv
  <1> QED BY <1>1, <1>2, <1>3

(* The three ways out of the loop close the socket. *)
LEMMA LeaveStep ==
  ASSUME PyInv, CallbackRaises \/ ReadFinished \/ ReaderUnwinds
  PROVE  PyInv'
  <1>1. /\ CloseSocket /\ reader' = "leaving"
        /\ toClient' = toClient \/ (toClient # <<>> /\ toClient' = Tail(toClient))
        /\ result' = result \/ result' \in {"exit", "lost"}
        /\ result # "pending" => result' = result
        /\ UNCHANGED <<proc, wrote, got, dropped, lock, pc, sent, ended, cancels>>
        /\ reader \notin {"leaving", "ended"}
        /\ raised => raised'
    BY DEF CallbackRaises, ReadFinished, ReaderUnwinds, Settle, tasks
  <1>2. /\ toServer' \in Seq(ServerFrames) /\ toClient' \in Seq(ClientFrames)
        /\ OnItsWay' /\ (Dying => Dying')
        /\ conn' \in {"closing", "closed"}
        /\ conn = "closed" => conn' = "closed"
    BY <1>1, SocketClosed, PyWire
  <1>3. PyTyped'
    BY <1>1, <1>2 DEF PyInv, PyTyped, WireTyped, Results
  <1>4. NothingLeft'
    BY <1>1, <1>2 DEF PyInv, NothingLeft
  <1>5. EndingKills'
    <2> SUFFICES ASSUME cancels = {}, ~raised', ~dropped PROVE Dying'
      BY <1>1 DEF EndingKills
    <2>1. CASE CallbackRaises
      BY <2>1 DEF CallbackRaises
    <2>2. CASE ReadFinished
      <3>1. toClient # <<>> /\ Head(toClient).kind = "finished"
        BY <2>2 DEF ReadFinished
      <3>2. Head(toClient) = toClient[1] /\ 1 \in 1 .. Len(toClient)
        BY <3>1, Tailed DEF PyInv, PyTyped, WireTyped
      <3>3. proc = "exited"
        BY <3>1, <3>2 DEF PyInv, OnItsWay
      <3> QED BY <3>3, <1>1 DEF Dying
    <2>3. CASE ReaderUnwinds
      <3>1. Ending
        BY <2>3 DEF ReaderUnwinds, ReadOut, Ending
      <3> QED BY <3>1, <1>1, <1>2 DEF PyInv, EndingKills
    <2> QED BY <2>1, <2>2, <2>3
  <1> QED BY <1>2, <1>3, <1>4, <1>5 DEF PyInv

-----------------------------------------------------------------------------
(* The tasks *)

(* A task that is not closing the session moves between other states. *)
LEMMA TaskMoves ==
  ASSUME PyInv, NEW t \in Tasks, NEW s \in TaskStates, NEW e \in Endings,
         pc[t] \notin {"killed", "joining", "closing"},
         s \notin {"killed", "joining", "closing"},
         t \in Closers => e # "closed",
         pc' = [pc EXCEPT ![t] = s],
         ended' = ended \/ ended' = [ended EXCEPT ![t] = e]
  PROVE  /\ pc' \in [Tasks -> TaskStates] /\ ended' \in [Tasks -> Endings]
         /\ \A c \in Closers :
              /\ pc'[c] \in {"killed", "joining", "closing"} => pc'[c] = pc[c]
              /\ pc[c] \in {"killed", "joining", "closing"} => pc'[c] = pc[c]
              /\ ended'[c] = "closed" => ended[c] = "closed"
  BY DEF PyInv, PyTyped, WireTyped, Tasks

(* A task sends a frame, or nothing. *)
LEMMA TaskStep ==
  ASSUME PyInv, NEW t \in Tasks, NEW s \in TaskStates, NEW e \in Endings,
         pc[t] \notin {"killed", "joining", "closing"},
         s \notin {"killed", "joining", "closing"},
         t \in Closers => e # "closed",
         pc' = [pc EXCEPT ![t] = s],
         ended' = ended \/ ended' = [ended EXCEPT ![t] = e],
         \/ toServer' = toServer
         \/ conn = "open" /\ \E f \in ServerFrames : f.kind \notin {"start", "bye"} /\ toServer' = toServer \o <<f>>,
         UNCHANGED <<proc, wrote, toClient, got, conn, dropped, result, raised, reader, cancels>>,
         lock' \in Writers \cup {Nobody}, sent' \in [Writers -> Nat]
  PROVE  PyInv'
  <1>1. toServer' \in Seq(ServerFrames) /\ OnItsWay' /\ (Dying => Dying')
    <2>1. CASE toServer' = toServer
      BY <2>1 DEF PyInv, PyTyped, WireTyped, OnItsWay, Dying, KillAhead
    <2>2. CASE toServer' # toServer
      <3>1. PICK f \in ServerFrames : f.kind \notin {"start", "bye"} /\ toServer' = toServer \o <<f>>
        BY <2>2
      <3> QED BY <2>2, <3>1, ClientSends, PyWire
    <2> QED BY <2>1, <2>2
  <1>2. /\ pc' \in [Tasks -> TaskStates] /\ ended' \in [Tasks -> Endings]
        /\ \A c \in Closers :
             /\ pc'[c] \in {"killed", "joining", "closing"} => pc'[c] = pc[c]
             /\ pc[c] \in {"killed", "joining", "closing"} => pc'[c] = pc[c]
             /\ ended'[c] = "closed" => ended[c] = "closed"
    BY TaskMoves
  <1>3. PyTyped'
    BY <1>1, <1>2 DEF PyInv, PyTyped, WireTyped
  <1>4. NothingLeft'
    BY <1>2 DEF PyInv, NothingLeft
  <1>5. EndingKills'
    BY <1>1, <1>2 DEF PyInv, EndingKills, Ending
  <1> QED BY <1>1, <1>3, <1>4, <1>5 DEF PyInv

LEMMA WriteStep ==
  ASSUME PyInv, NEW w \in Writers, WriterStep(w)
  PROVE  PyInv'
  <1>0. w \in Tasks /\ Nobody \in Writers \cup {Nobody} /\ w \in Writers \cup {Nobody}
        /\ {"locking", "sending", "ended"} \subseteq TaskStates
        /\ {"noop", "written", "raised"} \subseteq Endings
    BY DEF Tasks, TaskStates, Endings
  <1>t. lock \in Writers \cup {Nobody} /\ sent \in [Writers -> Nat]
    BY DEF PyInv, PyTyped, WireTyped
  <1>1. CASE CallWrite(w)
    <2>1. /\ pc[w] = "idle"
          /\ UNCHANGED <<wire, result, raised, reader, lock, sent, cancels>>
          /\ \/ pc' = [pc EXCEPT ![w] = "ended"] /\ ended' = [ended EXCEPT ![w] = "noop"]
             \/ pc' = [pc EXCEPT ![w] = "locking"] /\ ended' = ended
      BY <1>1 DEF CallWrite, Called, End, pySession
    <2> QED BY <1>0, <1>t, <2>1, TaskStep DEF wire
  <1>2. CASE Lock(w)
    <2>1. /\ pc[w] = "locking" /\ lock' = w /\ pc' = [pc EXCEPT ![w] = "sending"]
          /\ UNCHANGED <<wire, result, raised, reader, sent, ended, cancels>>
      BY <1>2 DEF Lock, pySession
    <2> QED BY <1>0, <1>t, <2>1, TaskStep DEF wire
  <1>3. CASE SendChunk(w)
    <2> DEFINE f == StdinFrame(w, sent[w] + 1)
    <2>1. f \in ServerFrames /\ f.kind \notin {"start", "bye"} /\ sent[w] + 1 \in Nat
      <3>1. sent[w] + 1 \in Nat
        BY <1>t
      <3> QED BY <3>1, FramesAreFrames
    <2>2. UNCHANGED <<proc, wrote, toClient, got, conn, dropped, result, raised, reader, cancels>>
          /\ pc[w] = "sending"
      BY <1>3 DEF SendChunk, pySession
    <2>3. CASE conn = "open" /\ sent[w] + 1 = Frames(w)
      <3>1. /\ toServer' = toServer \o <<f>> /\ sent' = [sent EXCEPT ![w] = @ + 1]
            /\ pc' = [pc EXCEPT ![w] = "ended"] /\ ended' = [ended EXCEPT ![w] = "written"]
            /\ lock' = Nobody
        BY <1>3, <2>3 DEF SendChunk, SendFrames, End
      <3>2. sent' \in [Writers -> Nat]
        BY <1>t, <2>1, <3>1
      <3> HIDE DEF f
      <3> QED BY <1>0, <2>1, <2>2, <2>3, <3>1, <3>2, TaskStep
    <2>4. CASE conn = "open" /\ sent[w] + 1 # Frames(w)
      <3>1. /\ toServer' = toServer \o <<f>> /\ sent' = [sent EXCEPT ![w] = @ + 1]
            /\ pc' = pc /\ ended' = ended /\ lock' = lock
        BY <1>3, <2>4 DEF SendChunk, SendFrames
      <3>2. sent' \in [Writers -> Nat] /\ pc' = [pc EXCEPT ![w] = "sending"]
        BY <1>0, <1>t, <2>1, <2>2, <3>1 DEF PyInv, PyTyped, WireTyped
      <3> HIDE DEF f
      <3> QED BY <1>0, <1>t, <2>1, <2>2, <2>4, <3>1, <3>2, TaskStep
    <2>5. CASE conn # "open"
      <3>1. /\ toServer' = toServer /\ sent' = sent /\ lock' = Nobody
            /\ pc' = [pc EXCEPT ![w] = "ended"] /\ ended' = [ended EXCEPT ![w] = "raised"]
        BY <1>3, <2>5 DEF SendChunk, End
      <3> QED BY <1>0, <1>t, <2>2, <3>1, TaskStep
    <2> QED BY <2>3, <2>4, <2>5
  <1> QED BY <1>1, <1>2, <1>3 DEF WriterStep

LEMMA WaitStep ==
  ASSUME PyInv, NEW a \in Waiters, Wait(a) \/ Waited(a) \/ CancelWait(a)
  PROVE  PyInv'
  <1>0. a \in Tasks /\ a \notin Closers /\ (result # "pending" => result \in Endings)
        /\ {"waiting", "ended"} \subseteq TaskStates /\ {"cancelled", "none"} \subseteq Endings
    <2>1. a \in Tasks /\ a \notin Closers
      BY TasksAssumption DEF Tasks
    <2>2. result \in Results
      BY DEF PyInv, PyTyped, WireTyped
    <2> QED BY <2>1, <2>2 DEF TaskStates, Endings, Results
  <1>t. lock \in Writers \cup {Nobody} /\ sent \in [Writers -> Nat]
    BY DEF PyInv, PyTyped, WireTyped
  <1>1. CASE Wait(a)
    <2>1. /\ pc[a] = "idle" /\ pc' = [pc EXCEPT ![a] = "waiting"]
          /\ UNCHANGED <<wire, result, raised, reader, lock, sent, ended, cancels>>
      BY <1>1 DEF Wait, Called, pySession
    <2> QED BY <1>0, <1>t, <2>1, TaskStep DEF wire
  <1>2. CASE Waited(a)
    <2>1. /\ pc[a] = "waiting" /\ pc' = [pc EXCEPT ![a] = "ended"]
          /\ ended' = [ended EXCEPT ![a] = result] /\ result # "pending"
          /\ UNCHANGED <<wire, result, raised, reader, lock, sent, cancels>>
      BY <1>2 DEF Waited, End, pySession
    <2> QED BY <1>0, <1>t, <2>1, TaskStep DEF wire
  <1>3. CASE CancelWait(a)
    <2>1. /\ pc[a] = "waiting" /\ pc' = [pc EXCEPT ![a] = "ended"]
          /\ ended' = [ended EXCEPT ![a] = "cancelled"]
          /\ result' = "cancelled" /\ cancels' # {} /\ result = "pending"
          /\ UNCHANGED <<wire, raised, reader, lock, sent>>
      BY <1>3 DEF CancelWait, End
    <2>2. /\ pc' \in [Tasks -> TaskStates] /\ ended' \in [Tasks -> Endings]
          /\ \A c \in Closers :
               /\ pc'[c] \in {"killed", "joining", "closing"} => pc'[c] = pc[c]
               /\ pc[c] \in {"killed", "joining", "closing"} => pc'[c] = pc[c]
               /\ ended'[c] = "closed" => ended[c] = "closed"
      BY <1>0, <2>1, TaskMoves
    <2>3. OnItsWay'
      BY <2>1, WireAlone, PyWire
    <2>4. PyTyped'
      BY <2>1, <2>2 DEF PyInv, PyTyped, WireTyped, Results, wire
    <2>5. NothingLeft'
      BY <2>1, <2>2 DEF PyInv, NothingLeft, wire
    <2>6. EndingKills'
      BY <2>1 DEF EndingKills
    <2> QED BY <2>3, <2>4, <2>5, <2>6 DEF PyInv
  <1> QED BY <1>1, <1>2, <1>3

LEMMA KillStep ==
  ASSUME PyInv, NEW k \in Killers, CallKill(k)
  PROVE  PyInv'
  <1>1. k \in Tasks /\ "ended" \in TaskStates /\ {"noop", "sent", "raised"} \subseteq Endings
        /\ Frame("kill") \in ServerFrames /\ Frame("kill").kind = "kill"
    BY FramesAreFrames DEF Tasks, TaskStates, Endings
  <1>2. /\ pc[k] = "idle" /\ pc' = [pc EXCEPT ![k] = "ended"]
        /\ \E e \in {"noop", "sent", "raised"} : ended' = [ended EXCEPT ![k] = e]
        /\ toServer' = toServer \/ (conn = "open" /\ toServer' = toServer \o <<Frame("kill")>>)
        /\ UNCHANGED <<proc, wrote, toClient, got, conn, dropped, result, raised, reader, cancels>>
        /\ UNCHANGED <<lock, sent>>
    BY DEF CallKill, Called, End, SendFrames, pySession
  <1>3. PICK e \in Endings : ended' = [ended EXCEPT ![k] = e] /\ e # "closed"
    BY <1>1, <1>2
  <1>4. lock' \in Writers \cup {Nobody} /\ sent' \in [Writers -> Nat]
    BY <1>2 DEF PyInv, PyTyped, WireTyped
  <1>5. \/ toServer' = toServer
        \/ conn = "open" /\ \E f \in ServerFrames : f.kind \notin {"start", "bye"} /\ toServer' = toServer \o <<f>>
    BY <1>1, <1>2
  <1> QED BY <1>1, <1>2, <1>3, <1>4, <1>5, TaskStep

(* The steps of close(), each by one closer. *)
LEMMA CloseStep ==
  ASSUME PyInv, NEW c \in Closers, CloserStep(c)
  PROVE  PyInv'
  <1>0. /\ c \in Tasks /\ pc \in [Tasks -> TaskStates] /\ ended \in [Tasks -> Endings]
        /\ Closers \subseteq Tasks
        /\ {"killed", "joining", "closing", "ended"} \subseteq TaskStates /\ "closed" \in Endings
    BY DEF Tasks, TaskStates, Endings, PyInv, PyTyped, WireTyped
  <1>1. CASE CallClose(c) /\ Signals
    <2>1. /\ pc[c] = "idle" /\ result = "pending" /\ pc' = [pc EXCEPT ![c] = "killed"]
          /\ IF conn = "open" THEN toServer' = toServer \o <<Frame("kill")>> ELSE toServer' = toServer
          /\ UNCHANGED <<proc, wrote, toClient, got, conn, dropped, result, raised, reader>>
          /\ UNCHANGED <<lock, sent, ended, cancels>>
      BY <1>1 DEF CallClose, Called, Signals, SendFrames
    <2>2. /\ toServer' \in Seq(ServerFrames) /\ OnItsWay' /\ (Dying => Dying')
          /\ conn = "open" => Dying'
      <3>1. CASE conn = "open"
        BY <2>1, <3>1, FramesAreFrames, ClientSends, PyWire
      <3>2. CASE conn # "open"
        BY <2>1, <3>2 DEF PyInv, PyTyped, WireTyped, OnItsWay, Dying, KillAhead
      <3> QED BY <3>1, <3>2
    <2>3. PyTyped'
      BY <1>0, <2>1, <2>2 DEF PyInv, PyTyped, WireTyped
    <2>4. NothingLeft'
      BY <1>0, <2>1 DEF PyInv, NothingLeft
    <2>5. EndingKills'
      BY <2>1, <2>2 DEF PyInv, EndingKills, Ending
    <2> QED BY <2>2, <2>3, <2>4, <2>5 DEF PyInv
  <1>2. CASE (CallClose(c) /\ ~Signals) \/ CloseCancels(c)
    <2>1. /\ pc[c] \in {"idle", "killed"} /\ pc' = [pc EXCEPT ![c] = "joining"]
          /\ CancelReader
          /\ UNCHANGED <<wire, result, raised, lock, sent, ended, cancels>>
      BY <1>2 DEF CallClose, Called, CloseCancels, wire
    <2>2. Ending
      BY <1>2 DEF CallClose, CloseCancels, Signals, Ending
    <2>3. OnItsWay' /\ (Dying => Dying')
      BY <2>1, WireAlone, PyWire
    <2>4. /\ reader' \in {"unstarted", "reading", "cancelled", "leaving", "ended"}
          /\ reader' # "leaving" /\ (reader = "ended" => reader' = "ended")
      BY <2>1 DEF CancelReader, PyInv, PyTyped, WireTyped
    <2>5. PyTyped'
      BY <1>0, <2>1, <2>4 DEF PyInv, PyTyped, WireTyped, wire
    <2>6. NothingLeft'
      <3>1. pc'[c] = "joining" /\ \A d \in Closers : d # c => pc'[d] = pc[d]
        BY <1>0, <2>1
      <3> QED BY <2>1, <2>4, <3>1 DEF PyInv, NothingLeft, wire
    <2>7. EndingKills'
      BY <2>1, <2>2, <2>3 DEF PyInv, EndingKills, wire
    <2> QED BY <2>3, <2>5, <2>6, <2>7 DEF PyInv
  <1>3. CASE CloseSettles(c)
    <2>1. /\ pc[c] = "joining" /\ pc' = [pc EXCEPT ![c] = "closing"]
          /\ reader = "ended" /\ CloseSocket
          /\ result' = IF result = "pending" THEN "closed" ELSE result
          /\ UNCHANGED <<proc, wrote, toClient, got, dropped, raised, reader>>
          /\ UNCHANGED <<lock, sent, ended, cancels>>
      BY <1>3 DEF CloseSettles, SettledByClose
    <2>2. /\ toServer' \in Seq(ServerFrames) /\ OnItsWay' /\ (Dying => Dying')
          /\ conn' \in {"closing", "closed"} /\ (conn = "closed" => conn' = "closed")
      BY <2>1, SocketClosed, PyWire
    <2>3. PyTyped' /\ result' # "pending"
      BY <1>0, <2>1, <2>2 DEF PyInv, PyTyped, WireTyped, Results
    <2>4. NothingLeft'
      BY <1>0, <2>1, <2>2, <2>3 DEF PyInv, NothingLeft
    <2>5. EndingKills'
      <3>1. Ending
        BY <2>1 DEF Ending
      <3> QED BY <2>1, <2>2, <3>1 DEF PyInv, EndingKills
    <2> QED BY <2>2, <2>3, <2>4, <2>5 DEF PyInv
  <1>4. CASE Closed(c)
    <2>1. /\ pc[c] = "closing" /\ conn = "closed" /\ pc' = [pc EXCEPT ![c] = "ended"]
          /\ ended' = [ended EXCEPT ![c] = "closed"]
          /\ UNCHANGED <<wire, result, raised, reader, lock, sent, cancels>>
      BY <1>4 DEF Closed, End, pySession
    <2>2. OnItsWay' /\ (Dying => Dying')
      BY <2>1, WireAlone, PyWire
    <2>3. PyTyped'
      BY <1>0, <2>1 DEF PyInv, PyTyped, WireTyped, wire
    <2>4. NothingLeft'
      BY <1>0, <2>1 DEF PyInv, NothingLeft, wire
    <2>5. EndingKills'
      <3>1. Ending
        BY <2>1 DEF Ending
      <3> QED BY <2>1, <2>2, <3>1 DEF PyInv, EndingKills, wire
    <2> QED BY <2>2, <2>3, <2>4, <2>5 DEF PyInv
  <1> QED BY <1>1, <1>2, <1>3, <1>4 DEF CloserStep

-----------------------------------------------------------------------------
(* The invariant *)

LEMMA PyInitially == PyInit => PyInv
  <1> SUFFICES ASSUME PyInit PROVE PyInv
    OBVIOUS
  <1>1. WireInv
    BY WireStarts DEF PyInit
  <1>2. PyTyped
    BY <1>1 DEF PyInit, TextInit, WireInv, PyTyped, TaskStates, Endings, Results
  <1>3. NothingLeft /\ EndingKills
    BY DEF PyInit, WireInit, TextInit, NothingLeft, EndingKills, Ending, Tasks
  <1> QED BY <1>1, <1>2, <1>3 DEF PyInv, WireInv

LEMMA PyInductive == PyInv /\ [PyNext]_pyVars => PyInv'
  <1> SUFFICES ASSUME PyInv, [PyNext]_pyVars PROVE PyInv'
    OBVIOUS
  <1>1. CASE UNCHANGED pyVars
    <2>1. UNCHANGED <<proc, wrote, toClient, toServer, got, conn, dropped, result, raised, reader,
                      lock, pc, sent, ended, cancels>>
      BY <1>1 DEF pyVars, wire, pySession, tasks
    <2> QED BY <2>1 DEF PyInv, PyTyped, WireTyped, OnItsWay, NothingLeft, EndingKills, Ending, Dying, KillAhead
  <1>2. CASE WireNext /\ UNCHANGED <<pySession, tasks>>
    BY <1>2, PyWireStep
  <1>3. CASE ReaderStep
    BY <1>3, ReadStep, LeaveStep DEF ReaderStep
  <1>4. ASSUME NEW w \in Writers, WriterStep(w) PROVE PyInv'
    BY <1>4, WriteStep
  <1>5. ASSUME NEW a \in Waiters, Wait(a) \/ Waited(a) \/ CancelWait(a) PROVE PyInv'
    BY <1>5, WaitStep
  <1>6. ASSUME NEW k \in Killers, CallKill(k) PROVE PyInv'
    BY <1>6, KillStep
  <1>7. ASSUME NEW c \in Closers, CloserStep(c) PROVE PyInv'
    BY <1>7, CloseStep
  <1> QED BY <1>1, <1>2, <1>3, <1>4, <1>5, <1>6, <1>7 DEF PyNext

LEMMA PyInvariant == PySpec => []PyInv
  BY PyInitially, PyInductive, PTL DEF PySpec

(***************************************************************************)
(* close() leaves no reader, no pending result and no open socket, and the *)
(* process, if still connected, has had its SIGTERM, in every execution    *)
(* (command_session.py:186-201 and 219-220).                               *)
(***************************************************************************)
THEOREM AlwaysCloseCleans == PySpec => []CloseCleans
  <1>1. PyInv => CloseCleans
    <2> SUFFICES ASSUME PyInv PROVE CloseCleans
      OBVIOUS
    <2>1. NoLeak
      BY DEF PyInv, NothingLeft, NoLeak
    <2>2. ASSUME cancels = {}, ~raised, ~dropped, NEW c \in Closers, ended[c] = "closed"
          PROVE  proc \in {"killed", "exited"}
      <3>1. conn = "closed" /\ result # "pending"
        BY <2>2 DEF PyInv, NothingLeft
      <3> QED BY <2>2, <3>1 DEF PyInv, EndingKills, Ending, Dying, KillAhead
    <2> QED BY <2>1, <2>2 DEF CloseCleans, CloseKills
  <1> QED BY <1>1, PyInvariant, PTL

-----------------------------------------------------------------------------
(* Chunks of stdin *)

IsStdin(f) == f.kind \in {"stdin", "eof"}

(* The last stdin frame among those served and the first m that are on
   their way, if there is one, is chunk n of ch. *)
LastChunk(served, coming, m, ch, n) ==
  \/ \E j \in 1 .. m :
       /\ IsStdin(coming[j]) /\ coming[j].ch = ch /\ coming[j].n = n
       /\ \A k \in j + 1 .. m : ~IsStdin(coming[k])
  \/ /\ \A k \in 1 .. m : ~IsStdin(coming[k])
     /\ served = <<>> \/ (served[Len(served)].ch = ch /\ served[Len(served)].n = n)

(* A chunk follows the one before it ... *)
Continues(served, coming) ==
  \A i \in 1 .. Len(coming) :
    IsStdin(coming[i]) /\ coming[i].n > 1 =>
      LastChunk(served, coming, i - 1, coming[i].ch, coming[i].n - 1)

(* ... and who is about to send one holds the lock and has sent the last. *)
Sent(served, coming, w, s) == s > 0 => LastChunk(served, coming, Len(coming), w, s)

OneWriteAtATime ==
  \A w \in Writers :
    /\ pc[w] \in {"idle", "locking"} => sent[w] = 0
    /\ pc[w] = "sending" =>
         lock = w /\ (conn = "open" => Sent(got, toServer, w, sent[w]))

ChunkInv == Continues(got, toServer) /\ OneWriteAtATime /\ ChunksContiguous

LEMMA AnotherFrame ==
  ASSUME NEW served, NEW coming \in Seq(ServerFrames), NEW f \in ServerFrames,
         Continues(served, coming),
         IsStdin(f) /\ f.n > 1 => LastChunk(served, coming, Len(coming), f.ch, f.n - 1)
  PROVE  /\ Continues(served, coming \o <<f>>)
         /\ IsStdin(f) => LastChunk(served, coming \o <<f>>, Len(coming \o <<f>>), f.ch, f.n)
         /\ ~IsStdin(f) => \A w, s : Sent(served, coming, w, s) => Sent(served, coming \o <<f>>, w, s)
  <1> DEFINE more == coming \o <<f>>
  <1>1. /\ Len(more) = Len(coming) + 1 /\ Len(coming) \in Nat /\ more[Len(coming) + 1] = f
        /\ \A i \in 1 .. Len(coming) : more[i] = coming[i]
    BY Appended
  <1> HIDE DEF more
  <1>2. ASSUME NEW m \in 0 .. Len(coming), NEW ch, NEW n, LastChunk(served, coming, m, ch, n)
        PROVE  LastChunk(served, more, m, ch, n)
    BY <1>1, <1>2 DEF LastChunk
  <1>3. Continues(served, more)
    <2> SUFFICES ASSUME NEW i \in 1 .. Len(more), IsStdin(more[i]), more[i].n > 1
                 PROVE  LastChunk(served, more, i - 1, more[i].ch, more[i].n - 1)
      BY DEF Continues
    <2>1. CASE i = Len(coming) + 1
      <3>1. more[i] = f /\ i - 1 = Len(coming) /\ Len(coming) \in 0 .. Len(coming)
        BY <1>1, <2>1
      <3> QED BY <1>2, <3>1
    <2>2. CASE i # Len(coming) + 1
      <3>1. i \in 1 .. Len(coming) /\ more[i] = coming[i] /\ i - 1 \in 0 .. Len(coming)
        BY <1>1, <2>2
      <3> QED BY <1>2, <3>1 DEF Continues
    <2> QED BY <2>1, <2>2
  <1>4. ASSUME IsStdin(f) PROVE LastChunk(served, more, Len(more), f.ch, f.n)
    <2>1. Len(more) \in 1 .. Len(more) /\ more[Len(more)] = f
      BY <1>1
    <2> QED BY <1>1, <1>4, <2>1 DEF LastChunk
  <1>5. ASSUME ~IsStdin(f), NEW w, NEW s, Sent(served, coming, w, s)
        PROVE  Sent(served, more, w, s)
    BY <1>1, <1>5 DEF Sent, LastChunk
  <1> QED BY <1>3, <1>4, <1>5 DEF more

(* The server takes the first frame. *)
LEMMA FirstServed ==
  ASSUME NEW served \in Seq(ServerFrames), NEW coming \in Seq(ServerFrames), coming # <<>>,
         Continues(served, coming),
         NEW now, now = IF IsStdin(coming[1]) THEN Append(served, coming[1]) ELSE served
  PROVE  /\ Continues(now, Tail(coming))
         /\ \A w, s : Sent(served, coming, w, s) => Sent(now, Tail(coming), w, s)
         /\ IsStdin(coming[1]) /\ coming[1].n > 1 /\ served # <<>> =>
              /\ served[Len(served)].ch = coming[1].ch
              /\ served[Len(served)].n = coming[1].n - 1
  <1> DEFINE rest == Tail(coming)
  <1>1. /\ Len(rest) = Len(coming) - 1 /\ Len(coming) \in Nat \ {0} /\ coming[1] \in ServerFrames
        /\ \A i \in 1 .. Len(rest) : rest[i] = coming[i + 1]
    BY Tailed
  <1>2. IsStdin(coming[1]) => now # <<>> /\ now[Len(now)] = coming[1]
    BY <1>1
  <1> HIDE DEF rest
  <1>3. ASSUME NEW m \in 1 .. Len(coming), NEW ch, NEW n, LastChunk(served, coming, m, ch, n)
        PROVE  LastChunk(now, rest, m - 1, ch, n)
    <2>0. \A k \in 1 .. m - 1 : k + 1 \in 2 .. m /\ rest[k] = coming[k + 1]
      BY <1>1
    <2>1. CASE \A k \in 1 .. m : ~IsStdin(coming[k])
      <3>1. served = <<>> \/ (served[Len(served)].ch = ch /\ served[Len(served)].n = n)
        BY <1>3, <2>1 DEF LastChunk
      <3>2. now = served
        BY <2>1, <1>1
      <3>3. \A k \in 1 .. m - 1 : ~IsStdin(rest[k])
        BY <2>0, <2>1
      <3> QED BY <3>1, <3>2, <3>3 DEF LastChunk
    <2>2. CASE ~ \A k \in 1 .. m : ~IsStdin(coming[k])
      <3>1. PICK j \in 1 .. m :
              /\ IsStdin(coming[j]) /\ coming[j].ch = ch /\ coming[j].n = n
              /\ \A k \in j + 1 .. m : ~IsStdin(coming[k])
        BY <1>3, <2>2 DEF LastChunk
      <3>2. CASE j = 1
        <4>1. \A k \in 1 .. m - 1 : ~IsStdin(rest[k])
          BY <2>0, <3>1, <3>2
        <4> QED BY <1>2, <3>1, <3>2, <4>1 DEF LastChunk
      <3>3. CASE j # 1
        <4>1. j - 1 \in 1 .. m - 1 /\ rest[j - 1] = coming[j]
          BY <2>0, <3>3
        <4>2. ASSUME NEW k \in (j - 1) + 1 .. m - 1 PROVE ~IsStdin(rest[k])
          BY <2>0, <3>1
        <4> QED BY <3>1, <4>1, <4>2 DEF LastChunk
      <3> QED BY <3>2, <3>3
    <2> QED BY <2>1, <2>2
  <1>4. Continues(now, rest)
    <2> SUFFICES ASSUME NEW i \in 1 .. Len(rest), IsStdin(rest[i]), rest[i].n > 1
                 PROVE  LastChunk(now, rest, i - 1, rest[i].ch, rest[i].n - 1)
      BY DEF Continues
    <2>1. i + 1 \in 1 .. Len(coming) /\ rest[i] = coming[i + 1] /\ (i + 1) - 1 = i
          /\ i \in 1 .. Len(coming)
      BY <1>1
    <2>2. LastChunk(served, coming, i, rest[i].ch, rest[i].n - 1)
      BY <2>1 DEF Continues
    <2> QED BY <1>3, <2>1, <2>2
  <1>5. ASSUME NEW w, NEW s, Sent(served, coming, w, s) PROVE Sent(now, rest, w, s)
    <2>1. Len(coming) \in 1 .. Len(coming) /\ Len(rest) = Len(coming) - 1
      BY <1>1
    <2> QED BY <1>3, <1>5, <2>1 DEF Sent
  <1>6. ASSUME IsStdin(coming[1]), coming[1].n > 1, served # <<>>
        PROVE  served[Len(served)].ch = coming[1].ch /\ served[Len(served)].n = coming[1].n - 1
    <2>1. 1 \in 1 .. Len(coming)
      BY <1>1
    <2>2. LastChunk(served, coming, 0, coming[1].ch, coming[1].n - 1)
      BY <1>6, <2>1 DEF Continues
    <2> QED BY <1>6, <2>2 DEF LastChunk
  <1> QED BY <1>4, <1>5, <1>6 DEF rest

(* A step that sends and delivers no stdin, and whose writers at most take
   the lock. *)
LEMMA ChunksKept ==
  ASSUME PyInv, ChunkInv, got' = got, sent' = sent,
         \/ toServer' = toServer
         \/ \E f \in ServerFrames : ~IsStdin(f) /\ toServer' = toServer \o <<f>>
         \/ conn' = "closed" /\ toServer' = <<>>,
         conn' = "open" => conn = "open",
         \A w \in Writers :
           /\ pc'[w] \in {"idle", "locking"} => pc[w] \in {"idle", "locking"}
           /\ pc'[w] = "sending" => \/ pc[w] = "sending" /\ lock' = lock
                                    \/ pc[w] = "locking" /\ lock' = w
  PROVE  ChunkInv'
  <1>1. /\ Continues(got, toServer')
        /\ conn' = "open" =>
             \A w \in Writers : Sent(got, toServer, w, sent[w]) => Sent(got, toServer', w, sent[w])
    <2>1. CASE toServer' = toServer
      BY <2>1 DEF ChunkInv
    <2>2. CASE \E f \in ServerFrames : ~IsStdin(f) /\ toServer' = toServer \o <<f>>
      <3>1. PICK f \in ServerFrames : ~IsStdin(f) /\ toServer' = toServer \o <<f>>
        BY <2>2
      <3>2. toServer \in Seq(ServerFrames) /\ Continues(got, toServer)
        BY DEF PyInv, PyTyped, WireTyped, ChunkInv
      <3> QED BY <3>1, <3>2, AnotherFrame
    <2>3. CASE conn' = "closed" /\ toServer' = <<>>
      BY <2>3 DEF Continues
    <2> QED BY <2>1, <2>2, <2>3
  <1>2. OneWriteAtATime'
    <2> SUFFICES ASSUME NEW w \in Writers
                 PROVE  /\ pc'[w] \in {"idle", "locking"} => sent'[w] = 0
                        /\ pc'[w] = "sending" =>
                             lock' = w /\ (conn' = "open" => Sent(got', toServer', w, sent'[w]))
      BY DEF OneWriteAtATime
    <2>1. /\ pc[w] \in {"idle", "locking"} => sent[w] = 0
          /\ pc[w] = "sending" => lock = w /\ (conn = "open" => Sent(got, toServer, w, sent[w]))
      BY DEF ChunkInv, OneWriteAtATime
    <2>2. sent[w] = 0 => Sent(got, toServer', w, sent[w])
      BY DEF Sent
    <2> QED BY <1>1, <2>1, <2>2
  <1>3. ChunksContiguous'
    BY DEF ChunkInv, ChunksContiguous
  <1> QED BY <1>1, <1>2, <1>3 DEF ChunkInv

LEMMA ChunksServed ==
  ASSUME PyInv, ChunkInv, ServeFrame, UNCHANGED <<pySession, tasks>>
  PROVE  ChunkInv'
  <1>1. /\ toServer # <<>> /\ toServer' = Tail(toServer)
        /\ Head(toServer) = toServer[1] /\ toServer[1] \in ServerFrames
        /\ got' = IF IsStdin(toServer[1]) THEN Append(got, toServer[1]) ELSE got
        /\ conn' = "open" => conn = "open"
        /\ UNCHANGED <<lock, pc, sent>>
    <2>1. toServer # <<>> /\ Head(toServer) = toServer[1] /\ toServer[1] \in ServerFrames
      BY Tailed DEF ServeFrame, PyInv, PyTyped, WireTyped
    <2> QED BY <2>1 DEF ServeFrame, IsStdin, tasks
  <1>2. /\ Continues(got', toServer')
        /\ \A w, s : Sent(got, toServer, w, s) => Sent(got', toServer', w, s)
        /\ IsStdin(toServer[1]) /\ toServer[1].n > 1 /\ got # <<>> =>
             got[Len(got)].ch = toServer[1].ch /\ got[Len(got)].n = toServer[1].n - 1
    <2>1. got \in Seq(ServerFrames) /\ toServer \in Seq(ServerFrames) /\ Continues(got, toServer)
      BY DEF PyInv, PyTyped, WireTyped, ChunkInv
    <2> QED BY <1>1, <2>1, FirstServed
  <1>3. OneWriteAtATime'
    BY <1>1, <1>2 DEF ChunkInv, OneWriteAtATime
  <1>4. ChunksContiguous'
    <2>0. got \in Seq(ServerFrames) /\ Len(got) \in Nat
      BY DEF PyInv, PyTyped, WireTyped
    <2>1. CASE ~IsStdin(toServer[1])
      BY <1>1, <2>1 DEF ChunkInv, ChunksContiguous
    <2>2. CASE IsStdin(toServer[1])
      <3>1. /\ Len(got') = Len(got) + 1 /\ got'[Len(got) + 1] = toServer[1]
            /\ \A i \in 1 .. Len(got) : got'[i] = got[i]
        BY <1>1, <2>0, <2>2
      <3> SUFFICES ASSUME NEW i \in 2 .. Len(got'), got'[i].n > 1
                   PROVE  got'[i - 1].ch = got'[i].ch /\ got'[i - 1].n = got'[i].n - 1
        BY DEF ChunksContiguous
      <3>2. CASE i = Len(got) + 1
        <4>1. got'[i] = toServer[1] /\ i - 1 = Len(got) /\ got # <<>> /\ got'[i - 1] = got[Len(got)]
          BY <2>0, <3>1, <3>2
        <4> QED BY <1>2, <2>2, <4>1
      <3>3. CASE i # Len(got) + 1
        <4>1. i \in 2 .. Len(got) /\ got'[i] = got[i] /\ got'[i - 1] = got[i - 1]
          BY <2>0, <3>1, <3>3
        <4> QED BY <4>1 DEF ChunkInv, ChunksContiguous
      <3> QED BY <3>2, <3>3
    <2> QED BY <2>1, <2>2
  <1> QED BY <1>2, <1>3, <1>4 DEF ChunkInv

LEMMA ChunksWritten ==
  ASSUME PyInv, ChunkInv, NEW w \in Writers, WriterStep(w)
  PROVE  ChunkInv'
  <1>0. pc \in [Tasks -> TaskStates] /\ sent \in [Writers -> Nat] /\ Writers \subseteq Tasks
    BY DEF PyInv, PyTyped, WireTyped, Tasks
  <1>1. CASE CallWrite(w)
    <2>1. /\ UNCHANGED <<got, sent, toServer, conn, lock>> /\ pc[w] = "idle"
          /\ pc' = [pc EXCEPT ![w] = "ended"] \/ pc' = [pc EXCEPT ![w] = "locking"]
      BY <1>1 DEF CallWrite, Called, End, wire
    <2> QED BY <1>0, <2>1, ChunksKept
  <1>2. CASE Lock(w)
    <2>1. /\ UNCHANGED <<got, sent, toServer, conn>> /\ pc[w] = "locking"
          /\ pc' = [pc EXCEPT ![w] = "sending"] /\ lock' = w /\ lock = Nobody
      BY <1>2 DEF Lock, LockFree, wire
    <2>2. \A v \in Writers : pc[v] # "sending"
      BY <2>1, TasksAssumption DEF ChunkInv, OneWriteAtATime
    <2> QED BY <1>0, <2>1, <2>2, ChunksKept
  <1>3. CASE SendChunk(w)
    <2> DEFINE f == StdinFrame(w, sent[w] + 1)
    <2>0. /\ pc[w] = "sending" /\ lock = w
          /\ \A v \in Writers : v # w => pc[v] # "sending"
          /\ conn = "open" => Sent(got, toServer, w, sent[w])
      BY <1>3 DEF SendChunk, ChunkInv, OneWriteAtATime
    <2>1. CASE conn # "open"
      <3>1. /\ UNCHANGED <<got, sent, toServer, conn>>
            /\ pc' = [pc EXCEPT ![w] = "ended"]
        BY <1>3, <2>1 DEF SendChunk, End
      <3> QED BY <1>0, <2>0, <3>1, ChunksKept
    <2>2. CASE conn = "open"
      <3>1. sent[w] + 1 \in Nat /\ sent[w] \in Nat /\ (sent[w] + 1) - 1 = sent[w]
        BY <1>0
      <3>2. f \in ServerFrames /\ IsStdin(f) /\ f.ch = w /\ f.n = sent[w] + 1
        BY <3>1, FramesAreFrames DEF IsStdin
      <3>3. /\ UNCHANGED <<got, conn>> /\ sent' = [sent EXCEPT ![w] = @ + 1]
            /\ toServer' = toServer \o <<f>>
            /\ \/ pc' = [pc EXCEPT ![w] = "ended"]
               \/ pc' = pc /\ lock' = lock
        BY <1>3, <2>2 DEF SendChunk, SendFrames, End
      <3> HIDE DEF f
      <3>4. f.n > 1 => LastChunk(got, toServer, Len(toServer), f.ch, f.n - 1)
        BY <2>0, <2>2, <3>1, <3>2 DEF Sent
      <3>5. Continues(got, toServer') /\ LastChunk(got, toServer', Len(toServer'), w, sent[w] + 1)
        <4>1. toServer \in Seq(ServerFrames) /\ Continues(got, toServer)
          BY DEF PyInv, PyTyped, WireTyped, ChunkInv
        <4> QED BY <3>2, <3>3, <3>4, <4>1, AnotherFrame
      <3>6. OneWriteAtATime'
        <4> SUFFICES ASSUME NEW v \in Writers
                     PROVE  /\ pc'[v] \in {"idle", "locking"} => sent'[v] = 0
                            /\ pc'[v] = "sending" =>
                                 lock' = v /\ (conn' = "open" => Sent(got', toServer', v, sent'[v]))
          BY DEF OneWriteAtATime
        <4>1. CASE v = w
          <5>1. sent'[w] = sent[w] + 1
            BY <1>0, <3>3
          <5>2. Sent(got', toServer', w, sent'[w])
            BY <3>3, <3>5, <5>1 DEF Sent
          <5> QED BY <1>0, <2>0, <3>3, <4>1, <5>2
        <4>2. CASE v # w
          BY <1>0, <2>0, <3>3, <4>2 DEF ChunkInv, OneWriteAtATime
        <4> QED BY <4>1, <4>2
      <3>7. ChunksContiguous'
        BY <3>3 DEF ChunkInv, ChunksContiguous
      <3> QED BY <3>3, <3>5, <3>6, <3>7 DEF ChunkInv
    <2> QED BY <2>1, <2>2
  <1> QED BY <1>1, <1>2, <1>3 DEF WriterStep

(* A task outside the two states of a writer moves to another such state. *)
LEMMA ChunksLeft ==
  ASSUME PyInv, ChunkInv, NEW t \in Tasks, NEW s \in TaskStates \ {"idle", "locking", "sending"},
         pc' = [pc EXCEPT ![t] = s], UNCHANGED <<lock, sent, got>>,
         \/ toServer' = toServer
         \/ \E f \in ServerFrames : ~IsStdin(f) /\ toServer' = toServer \o <<f>>,
         conn' = "open" => conn = "open"
  PROVE  ChunkInv'
  <1>1. pc \in [Tasks -> TaskStates] /\ Writers \subseteq Tasks
    BY DEF PyInv, PyTyped, WireTyped, Tasks
  <1>2. \A w \in Writers : pc'[w] = pc[w] \/ pc'[w] \notin {"idle", "locking", "sending"}
    BY <1>1
  <1> QED BY <1>2, ChunksKept

LEMMA NoStdin ==
  /\ Frame("kill") \in ServerFrames /\ ~IsStdin(Frame("kill"))
  /\ Frame("bye") \in ServerFrames /\ ~IsStdin(Frame("bye"))
  BY FramesAreFrames DEF IsStdin

LEMMA ClosedQuietly ==
  ASSUME CloseSocket
  PROVE  /\ \/ toServer' = toServer
            \/ \E f \in ServerFrames : ~IsStdin(f) /\ toServer' = toServer \o <<f>>
         /\ conn' = "open" => conn = "open"
  BY NoStdin DEF CloseSocket, SendFrames

LEMMA ChunksInductive == PyInv /\ ChunkInv /\ [PyNext]_pyVars => ChunkInv'
  <1> SUFFICES ASSUME PyInv, ChunkInv, [PyNext]_pyVars PROVE ChunkInv'
    OBVIOUS
  <1>0. {"waiting", "ended", "killed", "joining", "closing"}
          \subseteq TaskStates \ {"idle", "locking", "sending"}
    BY DEF TaskStates
  <1>1. CASE UNCHANGED pyVars
    <2>1. UNCHANGED <<toServer, got, conn, lock, pc, sent>>
      BY <1>1 DEF pyVars, wire, tasks
    <2> QED BY <2>1, ChunksKept
  <1>2. CASE WireNext /\ UNCHANGED <<pySession, tasks>>
    <2>1. CASE ServeFrame
      BY <1>2, <2>1, ChunksServed
    <2>2. CASE ~ServeFrame
      <3>1. /\ UNCHANGED <<got, lock, pc, sent>>
            /\ conn' = conn \/ conn' = "closed"
            /\ toServer' = toServer \/ (conn' = "closed" /\ toServer' = <<>>)
        BY <1>2, <2>2 DEF WireNext, Emit, Exit, ServerCloses, Drop, tasks
      <3> QED BY <3>1, ChunksKept
    <2> QED BY <2>1, <2>2
  <1>3. CASE ReaderStep
    <2>1. /\ UNCHANGED <<got, lock, pc, sent>>
          /\ CloseSocket \/ UNCHANGED <<conn, toServer>>
      BY <1>3 DEF ReaderStep, ReaderStarts, ReadBinary, CallbackRaises, ReadFinished,
                  ReaderUnwinds, ReaderEnds, wire, tasks
    <2>2. /\ \/ toServer' = toServer
             \/ \E f \in ServerFrames : ~IsStdin(f) /\ toServer' = toServer \o <<f>>
          /\ conn' = "open" => conn = "open"
      BY <2>1, ClosedQuietly
    <2> QED BY <2>1, <2>2, ChunksKept
  <1>4. ASSUME NEW w \in Writers, WriterStep(w) PROVE ChunkInv'
    BY <1>4, ChunksWritten
  <1>5. ASSUME NEW a \in Waiters, Wait(a) \/ Waited(a) \/ CancelWait(a) PROVE ChunkInv'
    <2>1. /\ UNCHANGED <<got, lock, sent, toServer, conn>> /\ a \in Tasks
          /\ pc' = [pc EXCEPT ![a] = "waiting"] \/ pc' = [pc EXCEPT ![a] = "ended"]
      BY <1>5 DEF Wait, Waited, CancelWait, End, wire, Tasks
    <2> QED BY <1>0, <2>1, ChunksLeft
  <1>6. ASSUME NEW k \in Killers, CallKill(k) PROVE ChunkInv'
    <2>1. /\ UNCHANGED <<got, lock, sent, conn>> /\ k \in Tasks
          /\ pc' = [pc EXCEPT ![k] = "ended"]
          /\ toServer' = toServer \/ toServer' = toServer \o <<Frame("kill")>>
      BY <1>6 DEF CallKill, End, SendFrames, Tasks
    <2> QED BY <1>0, <2>1, NoStdin, ChunksLeft
  <1>7. ASSUME NEW c \in Closers, CloserStep(c) PROVE ChunkInv'
    <2>1. /\ UNCHANGED <<got, lock, sent>> /\ c \in Tasks
          /\ \E s \in {"killed", "joining", "closing", "ended"} : pc' = [pc EXCEPT ![c] = s]
          /\ \/ conn' = conn /\ (toServer' = toServer \/ toServer' = toServer \o <<Frame("kill")>>)
             \/ CloseSocket
      BY <1>7 DEF CloserStep, CallClose, CloseCancels, CloseSettles, Closed, End, SendFrames, wire, Tasks
    <2>2. /\ \/ toServer' = toServer
             \/ \E f \in ServerFrames : ~IsStdin(f) /\ toServer' = toServer \o <<f>>
          /\ conn' = "open" => conn = "open"
      BY <2>1, NoStdin, ClosedQuietly
    <2> QED BY <1>0, <2>1, <2>2, ChunksLeft
  <1> QED BY <1>1, <1>2, <1>3, <1>4, <1>5, <1>6, <1>7 DEF PyNext

LEMMA ChunkInvariant == PySpec => []ChunkInv
  <1>1. PyInit => ChunkInv
    <2> SUFFICES ASSUME PyInit PROVE ChunkInv
      OBVIOUS
    <2>1. toServer = <<Frame("start")>> /\ got = <<>> /\ ~IsStdin(Frame("start"))
      BY FramesAreFrames DEF PyInit, WireInit, IsStdin
    <2>2. Continues(got, toServer) /\ ChunksContiguous
      BY <2>1 DEF Continues, ChunksContiguous
    <2>3. OneWriteAtATime
      BY DEF PyInit, OneWriteAtATime, Tasks
    <2> QED BY <2>2, <2>3 DEF ChunkInv
  <1> QED BY <1>1, ChunksInductive, PyInvariant, PTL DEF PySpec

(***************************************************************************)
(* The chunks of a write reach the process one right after the other, in   *)
(* every execution, whoever else writes (command_session.py:112-114).      *)
(***************************************************************************)
THEOREM AlwaysChunksContiguous == PySpec => []ChunksContiguous
  <1>1. ChunkInv => ChunksContiguous
    BY DEF ChunkInv
  <1> QED BY <1>1, ChunkInvariant, PTL
-----------------------------------------------------------------------------
(* The result of a Python session *)

LEMMA PyTextInductive == PyInv /\ TextInv /\ [PyNext]_pyVars => TextInv'
  <1> SUFFICES ASSUME PyInv, TextInv, [PyNext]_pyVars PROVE TextInv'
    OBVIOUS
  <1>0. WireInv /\ (CloseSocket => (conn' = "open" => conn = "open"))
    BY PyWire DEF CloseSocket
  <1>1. CASE UNCHANGED pyVars
    BY <1>1, TextStays DEF pyVars, wire, pySession
  <1>2. CASE WireNext /\ UNCHANGED <<pySession, tasks>>
    BY <1>0, <1>2, TextWire DEF pySession
  <1>3. CASE ReaderStep
    <2>1. CASE ReaderStarts \/ ReaderEnds
      BY <2>1, TextStays DEF ReaderStarts, ReaderEnds, wire
    <2>2. CASE ReadBinary
      <3>1. /\ toClient # <<>> /\ Head(toClient).kind = "half" /\ toClient' = Tail(toClient)
            /\ OnBinary(Head(toClient)) /\ UNCHANGED <<proc, wrote, result, conn>>
        BY <2>2 DEF ReadBinary
      <3> QED BY <1>0, <3>1, TextHears
    <2>3. CASE CallbackRaises
      <3>1. /\ toClient # <<>> /\ Head(toClient).kind = "half" /\ toClient' = Tail(toClient)
            /\ OnBinary(Head(toClient)) /\ UNCHANGED <<proc, wrote>>
            /\ result' = result \/ result' \notin {"pending", "exit"}
            /\ conn' = "open" => conn = "open"
        BY <1>0, <2>3 DEF CallbackRaises
      <3> QED BY <1>0, <3>1, TextHears
    <2>4. CASE ReadFinished
      <3>1. /\ toClient # <<>> /\ Head(toClient).kind = "finished" /\ toClient' = Tail(toClient)
            /\ UNCHANGED <<proc, wrote, heard>>
            /\ IF result = "pending" THEN result' = "exit" /\ Flush
                                     ELSE UNCHANGED <<result, text, held>>
        BY <2>4 DEF ReadFinished, Settle
      <3> QED BY <1>0, <3>1, TextFinishes
    <2>5. CASE ReaderUnwinds
      <3>1. /\ UNCHANGED <<toClient, proc, wrote, heard>> /\ (conn' = "open" => conn = "open")
            /\ IF result = "pending" THEN result' \notin {"pending", "exit"} /\ Flush
                                     ELSE UNCHANGED <<result, text, held>>
        BY <1>0, <2>5 DEF ReaderUnwinds, Settle
      <3> QED BY <3>1, TextLost
    <2> QED BY <1>3, <2>1, <2>2, <2>3, <2>4, <2>5 DEF ReaderStep
  <1>4. ASSUME NEW w \in Writers, WriterStep(w) PROVE TextInv'
    BY <1>4, TextStays DEF WriterStep, CallWrite, Lock, SendChunk, wire, pySession
  <1>5. ASSUME NEW a \in Waiters, Wait(a) \/ Waited(a) \/ CancelWait(a) PROVE TextInv'
    BY <1>5, TextStays DEF Wait, Waited, CancelWait, wire, pySession
  <1>6. ASSUME NEW k \in Killers, CallKill(k) PROVE TextInv'
    BY <1>6, TextStays DEF CallKill, pySession
  <1>7. ASSUME NEW c \in Closers, CloserStep(c) PROVE TextInv'
    <2>1. /\ UNCHANGED <<toClient, wrote, proc, heard, held, text>>
          /\ result' = result \/ result' \notin {"pending", "exit"}
          /\ conn' = "open" => conn = "open"
      BY <1>0, <1>7 DEF CloserStep, CallClose, CloseCancels, CloseSettles, Closed, SettledByClose,
                        wire, pySession
    <2> QED BY <2>1, TextStays
  <1> QED BY <1>1, <1>2, <1>3, <1>4, <1>5, <1>6, <1>7 DEF PyNext

(* Nobody has broken the session off. *)
Quiet == ~dropped /\ ~raised /\ \A c \in Closers : pc[c] = "idle"

(* The reader is at work, and will find the finished event. *)
ReadsOn ==
  /\ reader # "cancelled" /\ result \notin {"lost", "closed"}
  /\ reader \in {"unstarted", "reading"} => FinishAwaited

QuietInv == Quiet => ReadsOn

LEMMA QuietRead ==
  ASSUME PyInv, TextInv, QuietInv, ReaderStep, Quiet'
  PROVE  ReadsOn'
  <1>1. UNCHANGED <<dropped, pc>> /\ (raised => raised')
    BY DEF ReaderStep, ReaderStarts, ReadBinary, CallbackRaises, ReadFinished, ReaderUnwinds,
           ReaderEnds, wire, tasks
  <1>2. Quiet /\ ReadsOn
    BY <1>1 DEF Quiet, QuietInv
  <1>3. CASE ReaderStarts
    BY <1>2, <1>3 DEF ReaderStarts, ReadsOn, FinishAwaited, FinishComing, wire
  <1>4. CASE ReadBinary
    <2>1. /\ toClient # <<>> /\ Head(toClient).kind # "finished" /\ toClient' = Tail(toClient)
          /\ UNCHANGED <<proc, conn, reader, result>>
      BY <1>4 DEF ReadBinary
    <2>2. FinishAwaited => FinishAwaited'
      BY <2>1, AwaitedRead, PyWire
    <2> QED BY <1>2, <2>1, <2>2 DEF ReadsOn
  <1>5. ~CallbackRaises
    BY DEF CallbackRaises, Quiet
  <1>6. CASE ReadFinished
    BY <1>2, <1>6 DEF ReadFinished, Settle, ReadsOn
  <1>7. ~ReaderUnwinds
    <2> SUFFICES ASSUME ReaderUnwinds PROVE FALSE
      OBVIOUS
    <2>1. reader = "reading" /\ toClient = <<>> /\ conn = "closed"
      BY <1>2 DEF ReaderUnwinds, ReadOut, ReadsOn
    <2> QED BY <1>2, <2>1, NotTheEnd DEF ReadsOn
  <1>8. CASE ReaderEnds
    BY <1>2, <1>8 DEF ReaderEnds, ReadsOn
  <1> QED BY <1>3, <1>4, <1>5, <1>6, <1>7, <1>8 DEF ReaderStep

(* What the tasks do, but for close(), leaves the reader and the far end
   alone. *)
LEMMA QuietTasks ==
  ASSUME QuietInv, Quiet', Quiet' => Quiet,
         UNCHANGED <<proc, conn, toClient, reader>>,
         result' = result \/ result' = "cancelled"
  PROVE  ReadsOn'
  BY DEF QuietInv, ReadsOn, FinishAwaited, FinishComing

LEMMA QuietInductive == PyInv /\ TextInv /\ QuietInv /\ [PyNext]_pyVars => QuietInv'
  <1> SUFFICES ASSUME PyInv, TextInv, QuietInv, [PyNext]_pyVars, Quiet'
               PROVE  ReadsOn'
    BY DEF QuietInv
  <1>0. pc \in [Tasks -> TaskStates] /\ Closers \subseteq Tasks
    BY DEF PyInv, PyTyped, Tasks
  <1>1. CASE UNCHANGED pyVars
    BY <1>1, QuietTasks DEF Quiet, pyVars, wire, pySession, tasks
  <1>2. CASE WireNext /\ UNCHANGED <<pySession, tasks>>
    <2>1. UNCHANGED <<raised, reader, result, pc>> /\ (dropped => dropped')
      BY <1>2, WireStep, PyWire DEF pySession, tasks
    <2>2. Quiet
      BY <2>1 DEF Quiet
    <2>3. FinishAwaited => FinishAwaited'
      BY <1>2, AwaitedWire, PyWire DEF Quiet
    <2> QED BY <2>1, <2>2, <2>3 DEF QuietInv, ReadsOn
  <1>3. CASE ReaderStep
    BY <1>3, QuietRead
  <1>4. ASSUME NEW t \in Tasks, NEW s \in TaskStates \ {"idle"}, pc' = pc \/ pc' = [pc EXCEPT ![t] = s],
               UNCHANGED <<dropped, raised>>
        PROVE  Quiet' => Quiet
    BY <1>0, <1>4 DEF Quiet
  <1>s. {"locking", "sending", "ended", "waiting"} \subseteq TaskStates \ {"idle"}
    BY DEF TaskStates
  <1>5. ASSUME NEW w \in Writers, WriterStep(w)
        PROVE  ReadsOn'
    <2>1. /\ UNCHANGED <<proc, conn, toClient, reader, result, dropped, raised>> /\ w \in Tasks
          /\ \/ pc' = pc
             \/ \E s \in {"locking", "sending", "ended", "waiting"} : pc' = [pc EXCEPT ![w] = s]
      BY <1>5 DEF WriterStep, CallWrite, Lock, SendChunk, End, wire, pySession, Tasks
    <2>2. Quiet' => Quiet
      BY <1>4, <1>s, <2>1
    <2> QED BY <2>1, <2>2, QuietTasks
  <1>6. ASSUME NEW a \in Waiters, Wait(a) \/ Waited(a) \/ CancelWait(a)
        PROVE  ReadsOn'
    <2>1. /\ UNCHANGED <<proc, conn, toClient, reader, dropped, raised>> /\ a \in Tasks
          /\ result' = result \/ result' = "cancelled"
          /\ \E s \in {"locking", "sending", "ended", "waiting"} : pc' = [pc EXCEPT ![a] = s]
      BY <1>6 DEF Wait, Waited, CancelWait, End, wire, pySession, Tasks
    <2>2. Quiet' => Quiet
      BY <1>4, <1>s, <2>1
    <2> QED BY <2>1, <2>2, QuietTasks
  <1>7. ASSUME NEW k \in Killers, CallKill(k)
        PROVE  ReadsOn'
    <2>1. /\ UNCHANGED <<proc, conn, toClient, reader, result, dropped, raised>> /\ k \in Tasks
          /\ \E s \in {"locking", "sending", "ended", "waiting"} : pc' = [pc EXCEPT ![k] = s]
      BY <1>7 DEF CallKill, End, pySession, Tasks
    <2>2. Quiet' => Quiet
      BY <1>4, <1>s, <2>1
    <2> QED BY <2>1, <2>2, QuietTasks
  <1>8. ASSUME NEW c \in Closers, CloserStep(c) PROVE FALSE
    <2>1. \E s \in {"killed", "joining", "closing", "ended"} : pc' = [pc EXCEPT ![c] = s]
      BY <1>8 DEF CloserStep, CallClose, CloseCancels, CloseSettles, Closed, End
    <2> QED BY <1>0, <2>1 DEF Quiet
  <1> QED BY <1>1, <1>2, <1>3, <1>5, <1>6, <1>7, <1>8 DEF PyNext

(***************************************************************************)
(* In every execution, a result is complete, and one is withheld only from *)
(* a session that lost its connection, whose callback raised, or that was  *)
(* closed: the reader never takes a socket the server has closed for a     *)
(* lost one, because the finished event is in front of its end             *)
(* (command_session.py:183 and 252-290).                                   *)
(***************************************************************************)
THEOREM AlwaysResultHonest == PySpec => []ResultHonest
  <1>1. PyInit => TextInv /\ QuietInv
    <2> SUFFICES ASSUME PyInit PROVE TextInv /\ QuietInv
      OBVIOUS
    <2>1. TextInv
      BY TextStarts DEF PyInit
    <2>2. QuietInv
      BY DEF PyInit, WireInit, TextInit, QuietInv, Quiet, ReadsOn, FinishAwaited
    <2> QED BY <2>1, <2>2
  <1>2. PyInv /\ TextInv /\ QuietInv => ResultHonest
    <2> SUFFICES ASSUME TextInv, QuietInv PROVE ResultHonest
      OBVIOUS
    <2>1. ResultComplete
      BY DEF TextInv
    <2>2. LossHasACause
      BY DEF QuietInv, Quiet, ReadsOn, LossHasACause
    <2> QED BY <2>1, <2>2 DEF ResultHonest
  <1>3. PyInv /\ TextInv /\ QuietInv /\ [PyNext]_pyVars => (TextInv /\ QuietInv)'
    BY PyTextInductive, QuietInductive
  <1> QED BY <1>1, <1>2, <1>3, PyInvariant, PTL DEF PySpec


-----------------------------------------------------------------------------
(* The types of both sessions, with the orders their counters keep to. *)

HeldTyped ==
  /\ IsFunction(held)
  /\ \A ch \in Channels : held[ch] = NoHalf \/ held[ch].ch = ch

LEMMA HeldStays ==
  ASSUME HeldTyped,
         \/ held' = held
         \/ Flush
         \/ \E half \in ClientFrames : half.kind = "half" /\ OnBinary(half)
  PROVE  HeldTyped'
  <1>1. CASE Flush
    BY <1>1 DEF Flush, HeldTyped, IsFunction
  <1>2. ASSUME NEW half \in ClientFrames, OnBinary(half) PROVE HeldTyped'
    <2>1. held' = [held EXCEPT ![half.ch] = Keeps(half)] /\ half.ch \in Channels
      BY <1>2 DEF OnBinary, ClientFrames
    <2>2. Keeps(half) = NoHalf \/ Keeps(half).ch = half.ch
      BY DEF Keeps, Holds
    <2> QED BY <2>1, <2>2 DEF HeldTyped, IsFunction
  <1> QED BY <1>1, <1>2 DEF HeldTyped

LEMMA HeldStarts == TextInit => HeldTyped
  BY DEF TextInit, HeldTyped, IsFunction

LEMMA FirstFrame ==
  ASSUME WireTyped, toClient # <<>>
  PROVE  Head(toClient) \in ClientFrames
  BY DEF WireTyped

(* Every state of the TypeScript session is well typed, a closed socket has *)
(* settled the result, and the calls keep to their bounds.                  *)
THEOREM TypeCorrect == Spec => []TypeOK
  <1> DEFINE Typed == TypeOK /\ HeldTyped
  <1>1. Init => Typed
    <2> SUFFICES ASSUME Init PROVE Typed
      OBVIOUS
    <2>1. HeldTyped
      BY HeldStarts DEF Init
    <2>2. TypeOK
      <3>1. /\ dial = "dialing" /\ readyState = "open" /\ result = "pending"
            /\ listening = FALSE /\ aborted = FALSE /\ closeCalled = FALSE
            /\ written = 0 /\ writes = 0 /\ eofs = 0 /\ kills = 0
        BY DEF Init, TextInit
      <3>2. /\ written \in Nat /\ writes \in 0 .. MaxWrites
            /\ eofs \in 0 .. MaxEofs /\ kills \in 0 .. MaxKills
        BY <3>1, BoundsAssumption
      <3>3. {listening, aborted, closeCalled} \subseteq BOOLEAN
        BY <3>1, Zenon
      <3> QED BY <2>1, <3>1, <3>2, <3>3, Zenon DEF TypeOK, HeldTyped
    <2> QED BY <2>1, <2>2
  <1>2. TsInv /\ Typed /\ [Next]_vars => Typed'
    <2> SUFFICES ASSUME TsInv, Typed, [Next]_vars PROVE Typed'
      OBVIOUS
    <2> USE BoundsAssumption
    <2>0. WireTyped
      BY DEF TsInv, TsTyped
    <2>1. HeldTyped'
      <3>1. CASE OnOutput
        BY <2>0, <3>1, FirstFrame, HeldStays DEF OnOutput
      <3>2. CASE OnFinished \/ OnClose
        BY <3>2, HeldStays DEF OnFinished, OnClose
      <3>3. CASE (dial = "open" /\ WireNext /\ UNCHANGED <<dial, session, calls>>)
                 \/ Dialing \/ (\E size \in Sizes : Write(size)) \/ CloseStdin
                 \/ Kill \/ Close \/ SignalFires \/ UNCHANGED vars
        <4>1. held' = held
          BY <3>3 DEF Dialing, DialFails, Activated, DialOpens, Write, CloseStdin, Kill, Close,
                      SignalFires, vars, session
        <4> QED BY <4>1, HeldStays
      <3> QED BY <3>1, <3>2, <3>3 DEF Next, Event
    <2>2. /\ dial' \in {"dialing", "activating", "redialing", "open", "failed"}
          /\ {listening', aborted', closeCalled'} \subseteq BOOLEAN
          /\ written' \in Nat /\ writes' \in 0 .. MaxWrites
          /\ eofs' \in 0 .. MaxEofs /\ kills' \in 0 .. MaxKills
      <3> USE DEF TypeOK
      <3>1. CASE (dial = "open" /\ WireNext /\ UNCHANGED <<dial, session, calls>>)
                 \/ UNCHANGED vars
        BY <3>1 DEF session, calls, stdin, vars
      <3>2. CASE Dialing
        BY <3>2 DEF Dialing, DialFails, Activated, DialOpens, session, calls, stdin
      <3>3. CASE Event
        BY <3>3 DEF Event, OnOutput, OnFinished, OnClose, calls, stdin
      <3>4. ASSUME NEW size \in Sizes, Write(size)
            PROVE  /\ dial' = dial /\ UNCHANGED <<listening, aborted, closeCalled, eofs, kills>>
                   /\ written' \in Nat /\ writes' \in 0 .. MaxWrites
        BY <3>4 DEF Write, session
      <3>e. CASE CloseStdin
        BY <3>e DEF CloseStdin, session
      <3>5. CASE Kill
        BY <3>5 DEF Kill, session, stdin
      <3>6. CASE Close
        BY <3>6 DEF Close, stdin
      <3>7. CASE SignalFires
        BY <3>7 DEF SignalFires, stdin
      <3> QED BY <3>1, <3>2, <3>3, <3>4, <3>e, <3>5, <3>6, <3>7 DEF Next
    <2>3. /\ readyState' \in {"open", "closing", "closed"}
          /\ readyState' = "closed" => result' # "pending"
          /\ result' \in {"pending", "exit", "lost"}
      <3> USE DEF TypeOK
      <3>1. CASE (dial = "open" /\ WireNext /\ UNCHANGED <<dial, session, calls>>)
                 \/ UNCHANGED vars \/ DialFails \/ Activated
                 \/ (\E size \in Sizes : Write(size)) \/ CloseStdin \/ Kill
        BY <3>1 DEF session, vars, DialFails, Activated, Write, CloseStdin, Kill
      <3>2. CASE DialOpens \/ Close \/ SignalFires
        BY <3>2 DEF DialOpens, Close, SignalFires, Abort
      <3>3. CASE Event
        BY <3>3 DEF Event, OnOutput, OnFinished, OnClose
      <3> QED BY <3>1, <3>2, <3>3 DEF Next, Dialing
    <2> QED BY <2>1, <2>2, <2>3 DEF TypeOK, HeldTyped
  <1>3. Typed => TypeOK
    OBVIOUS
  <1> QED BY <1>1, <1>2, <1>3, TsInvariant, PTL DEF Spec

Counted == \A w \in Writers :
  /\ sent[w] \in 0 .. Frames(w)
  /\ pc[w] = "sending" => sent[w] < Frames(w)

LEMMA CountedStays ==
  ASSUME PyInv, ChunkInv, Counted, [PyNext]_pyVars
  PROVE  Counted'
  <1>0. /\ pc \in [Tasks -> TaskStates] /\ sent \in [Writers -> Nat] /\ Writers \subseteq Tasks
        /\ \A w \in Writers : Frames(w) \in Nat \ {0}
    BY TasksAssumption DEF PyInv, PyTyped, Tasks, Frames
  <1>1. ASSUME sent' = sent, NEW t \in Tasks, NEW s \in TaskStates \ {"sending"},
               pc' = [pc EXCEPT ![t] = s]
        PROVE  Counted'
    BY <1>0, <1>1 DEF Counted, Frames
  <1>2. CASE UNCHANGED <<pc, sent>>
    BY <1>2 DEF Counted, Frames
  <1>3. CASE (WireNext /\ UNCHANGED <<pySession, tasks>>) \/ ReaderStep \/ UNCHANGED pyVars
    <2>1. UNCHANGED <<pc, sent>>
      BY <1>3 DEF tasks, pyVars, ReaderStep, ReaderStarts, ReadBinary, CallbackRaises,
                  ReadFinished, ReaderUnwinds, ReaderEnds
    <2> QED BY <1>2, <2>1
  <1>s. {"idle", "locking", "waiting", "killed", "joining", "closing", "ended"}
          \subseteq TaskStates \ {"sending"}
    BY DEF TaskStates
  <1>4. ASSUME NEW w \in Writers, CallWrite(w) PROVE Counted'
    BY <1>0, <1>1, <1>4, <1>s DEF CallWrite, End
  <1>5. ASSUME NEW w \in Writers, Lock(w) PROVE Counted'
    <2>1. pc' = [pc EXCEPT ![w] = "sending"] /\ sent' = sent /\ sent[w] = 0
      BY <1>5 DEF Lock, ChunkInv, OneWriteAtATime
    <2> QED BY <1>0, <2>1 DEF Counted, Frames
  <1>6. ASSUME NEW w \in Writers, SendChunk(w) PROVE Counted'
    <2>1. pc[w] = "sending" /\ w \in Tasks /\ sent[w] < Frames(w) /\ sent[w] \in Nat
          /\ Frames(w) \in Nat
      BY <1>0, <1>6 DEF SendChunk, Counted
    <2>2. CASE conn # "open"
      <3>1. sent' = sent /\ pc' = [pc EXCEPT ![w] = "ended"]
        BY <1>6, <2>2 DEF SendChunk, End
      <3> QED BY <1>1, <1>s, <2>1, <3>1
    <2>3. CASE conn = "open"
      <3>1. /\ sent' = [sent EXCEPT ![w] = @ + 1]
            /\ IF sent[w] + 1 = Frames(w) THEN pc' = [pc EXCEPT ![w] = "ended"] ELSE pc' = pc
        BY <1>6, <2>3 DEF SendChunk, End
      <3>2. \A v \in Writers \ {w} : sent'[v] = sent[v] /\ pc'[v] = pc[v]
        BY <1>0, <3>1
      <3>3. sent'[w] = sent[w] + 1
        BY <1>0, <3>1
      <3>4. pc'[w] = "sending" => sent[w] + 1 # Frames(w)
        BY <1>0, <2>1, <3>1
      <3>5. sent'[w] \in 0 .. Frames(w) /\ (pc'[w] = "sending" => sent'[w] < Frames(w))
        BY <2>1, <3>3, <3>4
      <3> QED BY <3>2, <3>5 DEF Counted, Frames
    <2> QED BY <2>2, <2>3
  <1>7. ASSUME NEW a \in Waiters, Wait(a) \/ Waited(a) \/ CancelWait(a) PROVE Counted'
    <2>1. sent' = sent /\ a \in Tasks /\ \E s \in {"waiting", "ended"} : pc' = [pc EXCEPT ![a] = s]
      BY <1>7 DEF Wait, Waited, CancelWait, End, Tasks
    <2> QED BY <1>1, <1>s, <2>1
  <1>8. ASSUME NEW k \in Killers, CallKill(k) PROVE Counted'
    <2>1. sent' = sent /\ k \in Tasks /\ pc' = [pc EXCEPT ![k] = "ended"]
      BY <1>8 DEF CallKill, End, Tasks
    <2> QED BY <1>1, <1>s, <2>1
  <1>9. ASSUME NEW c \in Closers, CloserStep(c) PROVE Counted'
    <2>1. /\ sent' = sent /\ c \in Tasks
          /\ \E s \in {"killed", "joining", "closing", "ended"} : pc' = [pc EXCEPT ![c] = s]
      BY <1>9 DEF CloserStep, CallClose, CloseCancels, CloseSettles, Closed, End, Tasks
    <2> QED BY <1>1, <1>s, <2>1
  <1> QED BY <1>3, <1>4, <1>5, <1>6, <1>7, <1>8, <1>9 DEF PyNext, WriterStep

LEMMA PyHeldStays ==
  ASSUME WireTyped, HeldTyped, [PyNext]_pyVars
  PROVE  HeldTyped'
  <1>1. CASE ReadBinary \/ CallbackRaises
    BY <1>1, FirstFrame, HeldStays DEF ReadBinary, CallbackRaises
  <1>2. CASE ReadFinished \/ ReaderUnwinds
    BY <1>2, HeldStays DEF ReadFinished, ReaderUnwinds, Settle
  <1>3. CASE ReaderStarts \/ ReaderEnds \/ UNCHANGED pyVars
             \/ (WireNext /\ UNCHANGED <<pySession, tasks>>)
    BY <1>3, HeldStays DEF ReaderStarts, ReaderEnds, pyVars, pySession
  <1>4. ASSUME NEW w \in Writers, WriterStep(w) PROVE held' = held
    BY <1>4 DEF WriterStep, CallWrite, Lock, SendChunk, pySession
  <1>5. ASSUME NEW a \in Waiters, Wait(a) \/ Waited(a) \/ CancelWait(a) PROVE held' = held
    BY <1>5 DEF Wait, Waited, CancelWait, pySession
  <1>6. ASSUME NEW k \in Killers, CallKill(k) PROVE held' = held
    BY <1>6 DEF CallKill, pySession
  <1>7. ASSUME NEW c \in Closers, CloserStep(c) PROVE held' = held
    BY <1>7 DEF CloserStep, CallClose, CloseCancels, CloseSettles, Closed, pySession
  <1> QED BY <1>1, <1>2, <1>3, <1>4, <1>5, <1>6, <1>7, HeldStays DEF PyNext, ReaderStep

LEMMA CancelsStay ==
  ASSUME dropped \in BOOLEAN, cancels \subseteq Waiters, [PyNext]_pyVars
  PROVE  dropped' \in BOOLEAN /\ cancels' \subseteq Waiters
  <1>1. CASE UNCHANGED pyVars
    BY <1>1 DEF pyVars, wire, tasks
  <1>2. CASE WireNext /\ UNCHANGED <<pySession, tasks>>
    BY <1>2 DEF WireNext, Emit, Exit, ServeFrame, ServerCloses, Drop, tasks
  <1>3. CASE ReaderStep
    BY <1>3 DEF ReaderStep, ReaderStarts, ReadBinary, CallbackRaises, ReadFinished,
                ReaderUnwinds, ReaderEnds, wire, tasks
  <1>4. ASSUME NEW w \in Writers, WriterStep(w) PROVE UNCHANGED <<dropped, cancels>>
    BY <1>4 DEF WriterStep, CallWrite, Lock, SendChunk, wire
  <1>5. ASSUME NEW a \in Waiters, Wait(a) \/ Waited(a) \/ CancelWait(a)
        PROVE  dropped' = dropped /\ cancels' \subseteq cancels \cup {a}
    BY <1>5 DEF Wait, Waited, CancelWait, wire
  <1>6. ASSUME NEW k \in Killers, CallKill(k) PROVE UNCHANGED <<dropped, cancels>>
    BY <1>6 DEF CallKill
  <1>7. ASSUME NEW c \in Closers, CloserStep(c) PROVE UNCHANGED <<dropped, cancels>>
    BY <1>7 DEF CloserStep, CallClose, CloseCancels, CloseSettles, Closed, wire
  <1> QED BY <1>1, <1>2, <1>3, <1>4, <1>5, <1>6, <1>7 DEF PyNext

(* Every state of the Python session is well typed, and no writer sends     *)
(* more than the frames of its call.                                        *)
THEOREM PyTypeCorrect == PySpec => []PyTypeOK
  <1> DEFINE Typed == HeldTyped /\ Counted /\ dropped \in BOOLEAN /\ cancels \subseteq Waiters
  <1>1. PyInit => Typed
    <2> SUFFICES ASSUME PyInit PROVE Typed
      OBVIOUS
    <2>1. HeldTyped
      BY HeldStarts DEF PyInit
    <2>2. dropped \in BOOLEAN /\ cancels \subseteq Waiters
      BY DEF PyInit, WireInit
    <2>3. \A w \in Writers : sent[w] = 0 /\ pc[w] = "idle" /\ Frames(w) \in Nat
      BY TasksAssumption DEF PyInit, Frames, Tasks
    <2> QED BY <2>1, <2>2, <2>3 DEF Counted
  <1>2. PyInv /\ ChunkInv /\ Typed /\ [PyNext]_pyVars => Typed'
    BY PyHeldStays, CountedStays, CancelsStay DEF PyInv, PyTyped
  <1>3. PyInv /\ Typed => PyTypeOK
    BY DEF PyInv, PyTyped, WireTyped, HeldTyped, Counted, PyTypeOK, Results, TaskStates, Endings
  <1> QED BY <1>1, <1>2, <1>3, PyInvariant, ChunkInvariant, PTL DEF PySpec
=============================================================================
