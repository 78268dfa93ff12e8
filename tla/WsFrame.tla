------------------------------ MODULE WsFrame ------------------------------
(***************************************************************************)
(* protocols_rfc6455.c, byte by byte: _decode unmasks a frame in place,    *)
(* moving the payload over the header, in steps of 16 bytes, of 8 and of   *)
(* 1; protocol_rfc6455_frame and protocol_rfc6455_close write frames.      *)
(* A byte is what was at some place on the wire, and the bytes of the mask *)
(* it was XORed with.                                                      *)
(***************************************************************************)
EXTENDS Integers, Sequences

CONSTANTS Lens,     \* lengths of payloads that arrive
          Behind,   \* bytes of the next frame that are already in the buffer
          OutLens   \* lengths of messages the server sends

ASSUME LensAssumption == Lens \subseteq Nat
ASSUME BehindAssumption == Behind \in Nat

(* A length is a guint64: nothing is left of it after four times 16 bits.  *)
ASSUME OutLensAssumption ==
  \A n \in OutLens :
    n \in Nat /\ (((n \div 65536) \div 65536) \div 65536) \div 65536 = 0

VARIABLES
  header_len,  \* 6, 8 or 14, by the form of the length the client chose
  len,         \* length of the payload
  rbuff,       \* the read buffer from the frame on, and the NUL behind it
  at,          \* i, the next byte of the payload
  pass,        \* bytes per step of the current loop, 0 after the last one
  status,      \* "decoding", or what _decode returns
  out          \* the frame the server writes next: the bytes of its length,
               \* its payload's length, and the number of bytes written

frameVars == <<header_len, len, rbuff, at, pass, status, out>>

Wire(p) == [from |-> p, by |-> {}]
NUL == [from |-> -1, by |-> {}]
NoOut == [length |-> <<0>>, payload |-> 0, wrote |-> 2]

FrameInit ==
  /\ header_len \in {6, 8, 14}
  /\ len \in Lens
  /\ rbuff = [p \in 0 .. header_len + len + Behind |-> Wire(p)]
  /\ at = 0
  /\ pass = 16
  /\ status = "decoding"
  /\ out = NoOut

(* XORing twice with the same byte undoes it.                              *)
Xor(b, m) == [b EXCEPT !.by = (@ \cup {m}) \ (@ \cap {m})]

(* max: where a loop ends, one rounding up and the one there is.           *)
WholeUp(w) == (len + (w - 1)) - ((len + (w - 1)) % w)
Whole(w) == len - (len % w)

(* The byte of the mask for byte p of the payload, counted from the start  *)
(* of the step in mask128, and from that of the payload in mask.c.         *)
MaskByte(w, p) == IF w = 1 THEN p % 4 ELSE (p - at) % 4

(* One turn of the loop with steps of w bytes.                             *)
Unmask(w) ==
  /\ pass = w
  /\ at < Whole(w)
  /\ rbuff' = [p \in DOMAIN rbuff |->
                 IF p \in at .. at + w - 1 THEN Xor(rbuff[header_len + p], MaskByte(w, p))
                                           ELSE rbuff[p]]
  /\ at' = at + w
  /\ UNCHANGED <<header_len, len, pass, status, out>>

NextPass(w, next) ==
  /\ pass = w
  /\ at >= Whole(w)
  /\ pass' = next
  /\ UNCHANGED <<header_len, len, rbuff, at, status, out>>

(* The payload is terminated and checked to be UTF-8.                      *)
Terminate ==
  /\ pass = 0
  /\ status = "decoding"
  /\ rbuff' = [rbuff EXCEPT ![len] = NUL]
  /\ status' \in {"OK", "FATAL"}
  /\ UNCHANGED <<header_len, len, at, pass, out>>

-----------------------------------------------------------------------------
(* The lengths in headers, as the bytes that follow the first one; GLib's  *)
(* conversions to and from big endian go 16 bits at a time here.           *)

Hi(w) == (w \div 256) % 256
Lo(w) == w % 256
Word(hi, lo) == hi * 256 + lo

Medium(n) == <<126, Hi(n), Lo(n)>>
Long(n) ==
  LET m == n \div 65536
      k == m \div 65536
      j == k \div 65536
  IN <<127, Hi(j), Lo(j), Hi(k), Lo(k), Hi(m), Lo(m), Hi(n), Lo(n)>>

(* protocol_rfc6455_frame with the two-byte form up to 2^16, and as it is. *)
LengthBytesTo64K(n) == IF n <= 125 THEN <<n>> ELSE IF n <= 65536 THEN Medium(n) ELSE Long(n)

LengthBytes(n) == IF n <= 125 THEN <<n>> ELSE IF n <= 65535 THEN Medium(n) ELSE Long(n)

(* _decode: how many bytes the length takes, and what it says.             *)
LengthSize(b) == IF b <= 125 THEN 1 ELSE IF b = 126 THEN 3 ELSE 9

ReadLength(b) ==
  IF b[1] <= 125 THEN b[1]
  ELSE IF b[1] = 126 THEN Word(b[2], b[3])
  ELSE ((Word(b[2], b[3]) * 65536 + Word(b[4], b[5])) * 65536 + Word(b[6], b[7])) * 65536
         + Word(b[8], b[9])

(* protocol_rfc6455_close: the payload length of the frame, its error      *)
(* code, its text, and the number of bytes that qev_write is given.        *)
CloseFrame == [
  exiting   |-> [len |-> 2,  code |-> 1001, text |-> "", wrote |-> 4],
  handshake |-> [len |-> 19, code |-> 1002, text |-> "invalid handshake", wrote |-> 21],
  format    |-> [len |-> 22, code |-> 1002, text |-> "invalid event format", wrote |-> 24],
  mask      |-> [len |-> 23, code |-> 1002, text |-> "client must mask data", wrote |-> 25],
  opcode    |-> [len |-> 2,  code |-> 1003, text |-> "", wrote |-> 4],
  utf8      |-> [len |-> 2,  code |-> 1007, text |-> "", wrote |-> 4],
  timeout   |-> [len |-> 16, code |-> 1008, text |-> "client timeout", wrote |-> 18],
  memory    |-> [len |-> 2,  code |-> 1009, text |-> "", wrote |-> 4],
  other     |-> [len |-> 0,  code |-> 0,    text |-> "", wrote |-> 2]]

(* QIO_HANDSHAKE and HEARTBEAT, which are sent as they stand.              *)
TextFrame == [
  ohai      |-> [len |-> 9,  text |-> "/qio/ohai"],
  heartbeat |-> [len |-> 21, text |-> "/qio/heartbeat:0=null"]]

(* How long these texts are, which is no fact of the provers.              *)
ASSUME TextsAssumption ==
  /\ Len("") = 0
  /\ Len("invalid handshake") = 17
  /\ Len("invalid event format") = 20
  /\ Len("client must mask data") = 21
  /\ Len("client timeout") = 14
  /\ Len("/qio/ohai") = 9
  /\ Len("/qio/heartbeat:0=null") = 21

(* Once the message is dealt with the server writes something: an event of *)
(* n bytes, a close frame, or one of the texts.                            *)
Write(frame) ==
  /\ status # "decoding"
  /\ out = NoOut
  /\ out' = frame
  /\ UNCHANGED <<header_len, len, rbuff, at, pass, status>>

WriteEvent(n) ==
  Write([length |-> LengthBytes(n), payload |-> n, wrote |-> 1 + Len(LengthBytes(n)) + n])

WriteClose(r) ==
  LET f == CloseFrame[r]
      code_len == IF f.code = 0 THEN 0 ELSE 2
  IN Write([length |-> <<f.len>>, payload |-> code_len + Len(f.text), wrote |-> f.wrote])

WriteText(r) ==
  LET f == TextFrame[r]
  IN Write([length |-> <<f.len>>, payload |-> Len(f.text), wrote |-> 2 + Len(f.text)])

FrameNext ==
  \/ Unmask(16) \/ NextPass(16, 8)
  \/ Unmask(8) \/ NextPass(8, 1)
  \/ Unmask(1) \/ NextPass(1, 0)
  \/ Terminate
  \/ \E n \in OutLens : WriteEvent(n)
  \/ \E r \in DOMAIN CloseFrame : WriteClose(r)
  \/ \E r \in DOMAIN TextFrame : WriteText(r)

FrameSpec == FrameInit /\ [][FrameNext]_frameVars

-----------------------------------------------------------------------------
FrameOK ==
  /\ header_len \in {6, 8, 14}
  /\ len \in Nat
  /\ DOMAIN rbuff = 0 .. header_len + len + Behind
  /\ at \in 0 .. len
  /\ pass \in {16, 8, 1, 0}
  /\ status \in {"decoding", "OK", "FATAL"}

(* Unmasking moves the payload over itself.  The bytes done so far are the *)
(* payload's, each XORed once with its own byte of the mask, whatever the  *)
(* steps were; the bytes still to be read, and those of the next frame,    *)
(* are as they came; a decoded message ends where the payload ends.        *)
DecodedInPlace ==
  /\ \A p \in 0 .. at - 1 : rbuff[p] = [from |-> header_len + p, by |-> {p % 4}]
  /\ \A p \in DOMAIN rbuff :
       p >= header_len + at \/ p >= header_len + len => rbuff[p] = Wire(p)
  /\ status # "decoding" => at = len /\ rbuff[len] = NUL

(* A frame the server writes says how long it is: the length that          *)
(* protocol_rfc6455_frame writes is the one _decode would read, on both    *)
(* sides of every boundary between the forms, and the hand-written lengths *)
(* of the other frames count what is in them.                              *)
FramesAgree ==
  /\ LengthSize(out.length[1]) = Len(out.length)
  /\ ReadLength(out.length) = out.payload
  /\ out.wrote = 1 + Len(out.length) + out.payload
=============================================================================
