-------------------------------- MODULE Wire --------------------------------
(***************************************************************************)
(* One direction of a TCP connection (net.cpp): sendFrame to recvFrame     *)
(* between nodes, sendLine to recvLine between client and server.  send    *)
(* takes and recv returns any number of bytes, so a message may arrive in  *)
(* pieces and several in one piece; the connection may break at any time.  *)
(***************************************************************************)
EXTENDS Codec

CONSTANTS
  MaxFrame,   \* kMaxFrameBytes
  Chunk       \* the 4096 bytes recvLine asks for

VARIABLES
  mode,       \* "frame" or "line"
  sent,       \* the messages the sender sends, in order
  next,       \* the number of the message that is sent next
  out,        \* bytes writeAll has not yet handed to send
  pipe,       \* bytes on their way
  buf,        \* what the receiver has read of messages not yet returned
  got,        \* the messages returned to the receiver's caller
  ended       \* why the receiver gave up: "no", "refused" or "lost"

wireVars == <<mode, sent, next, out, pipe, buf, got, ended>>

\* The bytes sendFrame and sendLine write.
BytesOf(m) == IF mode = "frame" THEN U32(Len(m)) \o m ELSE Append(m, "\n")

\* The sender starts on its next message.
Write ==
  /\ out = <<>> /\ next <= Len(sent)
  /\ out' = BytesOf(sent[next])
  /\ next' = next + 1
  /\ UNCHANGED <<mode, sent, pipe, buf, got, ended>>

\* send takes n bytes of what writeAll has left.
SendSome ==
  \E n \in 1..Len(out) :
    /\ pipe' = pipe \o SubSeq(out, 1, n)
    /\ out' = SubSeq(out, n + 1, Len(out))
    /\ UNCHANGED <<mode, sent, next, buf, got, ended>>

\* recv moves n bytes from the pipe to the buffer.
Receive(n) ==
  /\ buf' = buf \o SubSeq(pipe, 1, n)
  /\ pipe' = SubSeq(pipe, n + 1, Len(pipe))

-----------------------------------------------------------------------------
(* recvFrame.                                                               *)

\* The length in the header, 0 while the header is not complete.
FrameLength == Max({r.val : r \in ReadInt(buf, Wide)} \cup {0})

\* The number of bytes readExact still wants for the header or the payload.
Wanted ==
  IF Len(buf) < Wide THEN Wide - Len(buf) ELSE Wide + FrameLength - Len(buf)

\* Mutant: a frame of the greatest size is refused too.
TooLong_AtLimit(n) == n >= MaxFrame

TooLong(n) == n > MaxFrame

RecvFrame ==
  /\ mode = "frame" /\ ended = "no"
  /\ \/ /\ TooLong(FrameLength)
        /\ ended' = "refused"
        /\ UNCHANGED <<pipe, buf, got>>
     \/ /\ ~TooLong(FrameLength)
        /\ \E n \in 1..Min({Wanted, Len(pipe)}) : Receive(n)
        /\ UNCHANGED <<got, ended>>
     \/ /\ ~TooLong(FrameLength)
        /\ Wanted = 0
        /\ got' = Append(got, SubSeq(buf, Wide + 1, Len(buf)))
        /\ buf' = <<>>
        /\ UNCHANGED <<pipe, ended>>
  /\ UNCHANGED <<mode, sent, next, out>>

-----------------------------------------------------------------------------
(* recvLine, with the buffer that its caller keeps between calls.           *)

StripCR(line) ==
  IF line # <<>> /\ Last(line) = "\r" THEN Front(line) ELSE line

\* Mutant: the bytes after the newline are dropped with the line.
ReturnLine_ClearsBuffer ==
  LET nl == Min({k \in 1..Len(buf) : buf[k] = "\n"})
  IN  /\ got' = Append(got, StripCR(SubSeq(buf, 1, nl - 1)))
      /\ buf' = <<>>
      /\ UNCHANGED <<pipe, ended>>

\* Mutant: recvLine waits for input before it looks into the buffer.
ReturnLine_PollsFirst ==
  LET nl == Min({k \in 1..Len(buf) : buf[k] = "\n"})
  IN  /\ pipe # <<>> \/ nl = Len(buf)
      /\ got' = Append(got, StripCR(SubSeq(buf, 1, nl - 1)))
      /\ buf' = SubSeq(buf, nl + 1, Len(buf))
      /\ UNCHANGED <<pipe, ended>>

\* The first line of the buffer is returned.
ReturnLine ==
  LET nl == Min({k \in 1..Len(buf) : buf[k] = "\n"})
  IN  /\ got' = Append(got, StripCR(SubSeq(buf, 1, nl - 1)))
      /\ buf' = SubSeq(buf, nl + 1, Len(buf))
      /\ UNCHANGED <<pipe, ended>>

RecvLine ==
  /\ mode = "line" /\ ended = "no"
  /\ \/ Contains(buf, "\n") /\ ReturnLine
     \/ /\ ~Contains(buf, "\n")
        /\ \E n \in 1..Min({Chunk, Len(pipe)}) : Receive(n)
        /\ ended' = IF Len(buf') > MaxFrame THEN "refused" ELSE "no"
        /\ UNCHANGED got
  /\ UNCHANGED <<mode, sent, next, out>>

\* The timeout passes, or the peer closes or dies: the receiver gets nullopt
\* and closes, and what was on its way is lost.
Break ==
  /\ ended = "no"
  /\ ended' = "lost"
  /\ UNCHANGED <<mode, sent, next, out, pipe, buf, got>>

WireInit(m, messages) ==
  /\ mode = m /\ sent = messages /\ next = 1
  /\ out = <<>> /\ pipe = <<>> /\ buf = <<>> /\ got = <<>>
  /\ ended = "no"

WireNext == Write \/ SendSome \/ RecvFrame \/ RecvLine \/ Break

\* Both threads keep running; the network carries what it is given.
WireFairness ==
  /\ WF_wireVars(Write \/ SendSome)
  /\ WF_wireVars(RecvFrame \/ RecvLine)

-----------------------------------------------------------------------------
\* What the receiver's callers get is what was sent, message by message and in
\* order, however the bytes are cut into pieces (recvFrame, recvLine).
InOrder ==
  LET expected(m) == IF mode = "line" THEN StripCR(m) ELSE m
  IN  /\ Len(got) <= Len(sent)
      /\ \A k \in 1..Len(got) : got[k] = expected(sent[k])

\* Only a message near the limit is refused: any frame of up to
\* kMaxFrameBytes, and any line that still fits with a whole chunk behind it,
\* is taken whatever pieces it comes in.
RefusedOnlyLong ==
  ended = "refused" =>
    \E k \in 1..Len(sent) :
      Len(sent[k]) > (IF mode = "frame" THEN MaxFrame ELSE MaxFrame - Chunk)

\* Unless the connection ends, every message is returned; a line that came
\* together with an earlier one does not wait for more input.
AllArrive == <>(ended # "no" \/ Len(got) = Len(sent))
=============================================================================
