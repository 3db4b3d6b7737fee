------------------------------ MODULE ExecClient ------------------------------
(***************************************************************************)
(* The TypeScript client at the other end of ExecStream: the frames cut    *)
(* into chunks where the network likes, decodeChunk that puts them         *)
(* together again, and what the caller of `stream` or `result` is given.   *)
(*                                                                         *)
(* A frame is HeaderLen + PayloadLen units; a unit knows its frame and its *)
(* place in it, so that a header read at the wrong place is not a header.  *)
(***************************************************************************)
EXTENDS ExecStream, FiniteSets, FiniteSetsExt

CONSTANTS
  HeaderLen,   \* units of a frame's header
  PayloadLen   \* units of a frame's payload

ASSUME FrameAssumption == HeaderLen \in Nat \ {0} /\ PayloadLen \in Nat \ {0}

VARIABLES
  killed,     \* the child ends by a signal
  taken,      \* units of the answer the client has read
  buffer,     \* units read and not decoded (DecodeState.buffer)
  done,       \* the status was decoded (DecodeState.done)
  decoded,    \* the events decoded
  outcome     \* "open", "ok", "failed" or "lost"

serverVars == vars
clientVars == <<killed, taken, buffer, done, decoded, outcome>>
allVars == <<serverVars, clientVars>>

FrameLen == HeaderLen + PayloadLen
Unit(e, i) == [frame |-> e, at |-> i]
Units == [frame : Events, at : 1..FrameLen]

\* frame::encode of every event the server put into the body.
Wire == [k \in 1..(FrameLen * Len(received)) |->
           Unit(received[((k - 1) \div FrameLen) + 1], ((k - 1) % FrameLen) + 1)]

ClientTypeOK ==
  /\ TypeOK
  /\ killed \in BOOLEAN /\ done \in BOOLEAN
  /\ taken \in 0..Len(Wire)
  /\ buffer \in Seq(Units) /\ Len(buffer) < FrameLen
  /\ decoded \in Seq(Events)
  /\ outcome \in {"open", "ok", "failed", "lost"}

ClientInit ==
  /\ Init
  /\ killed \in BOOLEAN
  /\ taken = 0 /\ buffer = <<>> /\ done = FALSE
  /\ decoded = <<>> /\ outcome = "open"

-----------------------------------------------------------------------------
(* Decoding.                                                               *)

\* decodeChunk, the loop over `text`: the frames that are whole, in order.
Whole(text) == Len(text) \div FrameLen
Frames(text) == [i \in 1..Whole(text) |-> text[(i - 1) * FrameLen + 1].frame]
Rest(text) == SubSeq(text, Whole(text) * FrameLen + 1, Len(text))

\* A header is refused as soon as it is there, before its payload is.
BadHeader(text) ==
  \E i \in 0..Whole(text) :
    /\ Len(text) - i * FrameLen >= HeaderLen
    /\ text[i * FrameLen + 1].at # 1

\* A status ends the stream: nothing may follow it, in its chunk or in another.
AfterStatus(text) ==
  \E i \in DOMAIN Frames(text) : Frames(text)[i] = Status /\ i * FrameLen < Len(text)

\* Mutant: what the last chunk left is not kept.
Text_Forgets(chunk) == chunk

Text(chunk) == buffer \o chunk

\* One chunk; of an error the frames before it in the chunk are lost.  The status
\* of a killed child is a CommandFailed in the place of an Exit.
Decode(chunk) ==
  LET text == Text(chunk)
      status == \E i \in DOMAIN Frames(text) : Frames(text)[i] = Status
  IN IF done \/ BadHeader(text) \/ AfterStatus(text)
     THEN outcome' = "failed" /\ UNCHANGED <<buffer, done, decoded>>
     ELSE /\ buffer' = Rest(text)
          /\ done' = status
          /\ IF status /\ killed
             THEN outcome' = "failed" /\ decoded' = decoded \o Front(Frames(text))
             ELSE UNCHANGED outcome /\ decoded' = decoded \o Frames(text)

-----------------------------------------------------------------------------
(* The client.                                                             *)

\* The next chunk of a frame stream, as long as the network makes it.
ReadChunk ==
  /\ outcome = "open" /\ response \in {"stream", "ended"}
  /\ \E n \in 1..(Len(Wire) - taken) :
       /\ taken' = taken + n
       /\ Decode(SubSeq(Wire, taken + 1, taken + n))
  /\ UNCHANGED <<killed, serverVars>>

\* Stream.onEnd: a body that ends without a status is truncated.
ReadEnd ==
  /\ outcome = "open" /\ response = "ended" /\ taken = Len(Wire)
  /\ outcome' = IF done THEN "ok" ELSE "failed"
  /\ UNCHANGED <<killed, taken, buffer, done, decoded, serverVars>>

\* directResult and directEvents: one text of each stream, then the status.  Of a
\* killed child `stream` still gives the output, `result` only fails.
ReadDirect ==
  /\ outcome = "open" /\ response = "json"
  /\ outcome' = IF killed THEN "failed" ELSE "ok"
  /\ decoded' = OnChannel("stdout") \o OnChannel("stderr")
                  \o (IF killed THEN <<>> ELSE <<Status>>)
  /\ UNCHANGED <<killed, taken, buffer, done, serverVars>>

\* The connection breaks, whatever was on its way (a TransportError), or the caller
\* interrupts the call.
Lose ==
  /\ outcome = "open"
  /\ outcome' = "lost"
  /\ UNCHANGED <<killed, taken, buffer, done, decoded, serverVars>>

\* The server's end of a connection that was lost or given up.
Notice == outcome \in {"failed", "lost"} /\ Disconnect /\ UNCHANGED clientVars

\* What the caller has: `stream` gives events as they come, `result` all or none;
\* `exec` is the one or the other, as the response is.
Operations == {"stream", "result"}
Given(operation) ==
  IF operation = "stream" \/ outcome = "ok" THEN decoded ELSE <<>>

\* takeLines, of `lines`: what a chunk completes, and what it leaves.  A text is a sequence
\* of CR, LF and others.  A carriage return at the very end is held back.
CR == "cr"
LF == "lf"
After(text, i, c) == IF i = 1 THEN FALSE ELSE text[i - 1] = c
Ends(text) == {i \in DOMAIN text : \/ text[i] = CR /\ i < Len(text)
                                   \/ text[i] = LF /\ ~After(text, i, CR)}
\* Mutant: a line ends at its carriage return.
Past_Half(text, i) == i
Past(text, i) == IF text[i] = CR /\ text[i + 1] = LF THEN i + 1 ELSE i
From(text, i) == 1 + Max({0} \cup {Past(text, j) : j \in {k \in Ends(text) : k < i}})

\* The k-th of a set of numbers.
Nth(S, k) == CHOOSE i \in S : Cardinality({j \in S : j <= i}) = k

TakeLines(state, chunk) ==
  LET text == state.buffer \o chunk
  IN [buffer |-> SubSeq(text, From(text, Len(text) + 1), Len(text)),
      lines |-> state.lines \o [k \in 1..Cardinality(Ends(text)) |->
                  LET i == Nth(Ends(text), k)
                  IN SubSeq(text, From(text, i), i - 1)]]

\* endLines: the last line, of a stream that is over.
EndLines(tail) ==
  IF tail = <<>> THEN <<>> ELSE <<IF Last(tail) = CR THEN Front(tail) ELSE tail>>

LinesOf(chunks) ==
  LET after[k \in 0..Len(chunks)] ==
        IF k = 0 THEN [buffer |-> <<>>, lines |-> <<>>] ELSE TakeLines(after[k - 1], chunks[k])
      end == after[Len(chunks)]
  IN end.lines \o EndLines(end.buffer)

-----------------------------------------------------------------------------

Settled == outcome # "open"

Serve == Work /\ UNCHANGED clientVars

CallOver == Answered /\ SendersGone /\ Settled /\ UNCHANGED allVars

CallNext ==
  Serve \/ ReadChunk \/ ReadEnd \/ ReadDirect \/ Lose \/ Notice \/ CallOver

CallSpec == ClientInit /\ [][CallNext]_allVars /\ Fairness

-----------------------------------------------------------------------------
(* Safety.                                                                 *)

GivenOn(o, c) == On(Given(o), c)

\* However the answer is cut up, the caller gets each stream in order and without a
\* gap; an Exit comes last, once, of a child that was not killed, and vouches for
\* both streams; a call that ends well has had it.
GivenIsTrue ==
  \A o \in Operations :
    /\ \A c \in Channels : IsPrefix(GivenOn(o, c), FirstN(c, written[c]))
    /\ \A i \in DOMAIN Given(o) :
         Given(o)[i] = Status =>
           /\ i = Len(Given(o)) /\ ~killed
           /\ \A c \in Channels : GivenOn(o, c) = FirstN(c, written[c]) /\ ~Open(c)
    /\ outcome = "ok" => Status \in Range(Given(o))

\* A call whose connection holds fails only of a killed child: no way to cut the
\* answer makes the decoder refuse it or miss its end.
FailsForAReason == outcome = "failed" => killed

\* Lines are those of the whole text, wherever it was cut, also between the two halves of
\* a CRLF: a line feed after a carriage return is dropped, each of what is left of the two
\* ends a line, and there is none after the last.  Said of texts of up to MaxText.
MaxText == 5
Plain(text) ==
  LET kept == {i \in DOMAIN text : text[i] = LF => ~After(text, i, CR)}
  IN [k \in 1..Cardinality(kept) |-> LET c == text[Nth(kept, k)] IN IF c = CR THEN LF ELSE c]
Split(text) ==
  LET ends == {0} \cup {i \in DOMAIN text : text[i] = LF}
             \cup (IF text = <<>> \/ Last(text) = LF THEN {} ELSE {Len(text) + 1})
  IN [k \in 1..(Cardinality(ends) - 1) |-> SubSeq(text, Nth(ends, k) + 1, Nth(ends, k + 1) - 1)]
Cut(text, cuts) ==
  LET at == cuts \cup {0, Len(text)}
  IN [k \in 1..(Cardinality(at) - 1) |-> SubSeq(text, Nth(at, k) + 1, Nth(at, k + 1))]
LinesOfAnyCut ==
  \A n \in 0..MaxText : \A text \in [1..n -> {CR, LF, "x"}], cuts \in SUBSET (1..(n - 1)) :
    LinesOf(Cut(text, cuts)) = Split(Plain(text))

\* `lines` reads the result of a call that ended well.
LinesAreTrue == outcome = "ok" => LinesOfAnyCut

\* The server's answer and the client's reading of it tell one story: what the
\* child wrote; and no queue on the way outgrows its bound.
CallerIsToldTheTruth ==
  ClientTypeOK /\ AnswerIsTrue /\ GivenIsTrue /\ FailsForAReason

-----------------------------------------------------------------------------
(* Liveness.                                                               *)

\* The collection ends by its deadline, however much or little the child writes.
\* Once the child is gone and its pipes are closed, the call of a caller who reads
\* on comes to an end, and no task of the request is left on the server: also when
\* the client had gone or the connection was lost before.
CallEnds ==
  /\ response = "collect" ~> response # "collect"
  /\ (/\ WF_allVars(Stream /\ UNCHANGED clientVars)
      /\ WF_allVars(ReadChunk) /\ WF_allVars(ReadEnd) /\ WF_allVars(ReadDirect)) =>
       ((\A c \in Channels : ~Open(c)) ~> Settled /\ Answered /\ SendersGone)

=============================================================================
