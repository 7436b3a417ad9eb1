---------------------------- MODULE SessionText -----------------------------
(***************************************************************************)
(* What a command session of either SDK has made of the process's output:  *)
(* two decoders, the text behind each, and the result that settles once.   *)
(* The two SDKs differ in who may settle it, and when.                     *)
(***************************************************************************)
EXTENDS ExecWire

VARIABLES
  result,      \* _result: "pending", or how it was settled
  text,        \* _stdout and _stderr
  held,        \* the half rune in each decoder
  heard        \* history: what the callbacks were called with

TextInit ==
  /\ result = "pending"
  /\ text = [ch \in Channels |-> <<>>]
  /\ held = [ch \in Channels |-> NoHalf]
  /\ heard = [ch \in Channels |-> <<>>]

(* Mutant: a half rune is dropped at the end of its frame. *)
HoldsNothing(half) == NoHalf

(* decode(payload, {stream: true}): the rest is kept for the next frame. *)
Keeps(half) == Holds(half)

(* A binary frame: decode it, keep the text, hand it to the callback. *)
OnBinary(half) ==
  LET new == Decoded(held[half.ch], half)
  IN /\ text' = [text EXCEPT ![half.ch] = @ \o new]
     /\ heard' = [heard EXCEPT ![half.ch] = @ \o new]
     /\ held' = [held EXCEPT ![half.ch] = Keeps(half)]

(* _flush: the bytes left in the decoders end the text. *)
Flush ==
  /\ text' = [ch \in Channels |-> text[ch] \o Flushed(held[ch])]
  /\ held' = [ch \in Channels |-> NoHalf]

(***************************************************************************)
(* The result of wait() holds all the process wrote, in order and rune by  *)
(* rune, however the wire cut it: "Streaming decoders carry partial        *)
(* multi-byte runes across frame boundaries" (commandSession.ts:126).  The *)
(* callbacks have heard the same, but for a rune left unfinished.          *)
(***************************************************************************)
ResultComplete ==
  result = "exit" =>
    \A ch \in Channels :
      /\ text[ch] = TextOf(ch, wrote[ch])
      /\ heard[ch] = SubSeq(text[ch], 1, wrote[ch] \div 2)
=============================================================================
