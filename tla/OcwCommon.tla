----------------------------- MODULE OcwCommon -----------------------------
(***************************************************************************)
(* ocw-common: one grpc-web call of a worker run.  The request message is  *)
(* framed (encode_body), sent and answered under one deadline              *)
(* (fetch_from_remote_grpc_web), and the reply is taken out of its frame   *)
(* (decode_body).  A frame is a flag byte, the length of the payload in    *)
(* four bytes, high byte first, and the payload; a reply to a unary call   *)
(* is a data frame and a trailers frame, or a trailers frame alone when    *)
(* the service reports an error.                                           *)
(*                                                                         *)
(* A protobuf message is named by its bytes; T::decode accepts the members *)
(* of Messages.  The service is external: what it may send is a set of     *)
(* replies, and the body may break off anywhere: the reader of the body    *)
(* ends at an i/o error as it does at the end of the body.                 *)
(***************************************************************************)
EXTENDS Naturals, Sequences

CONSTANTS
    Base,              \* values of a byte (256)
    Messages,          \* protobuf messages, as byte sequences
    TrailerTexts,      \* what a trailers frame may carry, as byte sequences
    Codes,             \* http status codes of the service
    ContentTypes,      \* content types the service names
    None,              \* no such header, or no such frame
    DEADLINE,          \* seconds until the headers of the reply must be there (10)
    MaxElapsed         \* bound: seconds a call is followed for

Byte == 0 .. Base - 1

ASSUME CommonAssumption ==
    /\ Base \in Nat \ {0, 1}
    /\ Messages \cup TrailerTexts \subseteq Seq(Byte)
    /\ \A p \in Messages \cup TrailerTexts : Len(p) < Base * Base * Base * Base
    /\ DEADLINE \in Nat
    /\ MaxElapsed \in Nat

ASSUME NoneAssumption ==
    /\ None \notin Messages \cup TrailerTexts
    /\ None \notin {"application/grpc-web", "application/grpc-web+proto",
                    "application/grpc-web-text+proto"}

VARIABLES
    phase,       \* "idle", "sending", "waiting" for headers, "reading" the body, "done"
    elapsed,     \* seconds since fetch_from_remote_grpc_web was called
    request,     \* the bytes that are sent
    asked,       \* the message that was to be sent
    reply,       \* what the service sends; None before it answers
    received,    \* the body as far as it was read
    result       \* what the caller gets in the end

vars == <<phase, elapsed, request, asked, reply, received, result>>

-----------------------------------------------------------------------------
(* Frames *)

\* a number without its lowest byte
High(n) == n \div Base

\* Mutant: the length is put low byte first.
put_u32_LittleEndian(n) ==
    <<n % Base, High(n) % Base, High(High(n)) % Base, High(High(High(n))) % Base>>

\* Mutant: a short message fits one byte of length.
put_u32_LowByte(n) == <<0, 0, 0, n>>

\* "len as u32", high byte first
put_u32(n) ==
    <<High(High(High(n))) % Base, High(High(n)) % Base, High(n) % Base, n % Base>>

get_u32(b) == ((b[1] * Base + b[2]) * Base + b[3]) * Base + b[4]

encode_body(input) == <<0>> \o put_u32(Len(input)) \o input

\* Buf::advance and split_to panic past the end
Remaining(b, n) == SubSeq(b, n + 1, Len(b))

Panicked == [status |-> "panic", message |-> None, trailers |-> None]
Decoded(m, t) == [status |-> "decoded", message |-> m, trailers |-> t]
Failed(e) == [status |-> e, message |-> None, trailers |-> None]

\* Mutant: the message is cut at the end of the body when it is too short.
decode_frame_CutShort(body) ==
    IF Len(body) < 5 THEN Panicked
    ELSE LET len == get_u32(SubSeq(body, 2, 5))
             message == SubSeq(body, 6, IF 5 + len > Len(body) THEN Len(body) ELSE 5 + len)
         IN  IF message \notin Messages THEN Panicked
             ELSE Decoded(message, Remaining(body, 10 + len))

\* Mutant: trailers are expected after the second header.
decode_frame_SomeTrailer(body) ==
    IF Len(body) < 5 THEN Panicked
    ELSE LET len == get_u32(SubSeq(body, 2, 5))
             message == SubSeq(body, 6, 5 + len)
         IN  IF Len(body) <= 10 + len \/ message \notin Messages THEN Panicked
             ELSE Decoded(message, Remaining(body, 10 + len))

\* The flag of the first frame and the header of the second are skipped, not
\* looked at; too few bytes anywhere is a panic.
decode_frame(body) ==
    IF Len(body) < 5 THEN Panicked
    ELSE LET len == get_u32(SubSeq(body, 2, 5))
             message == SubSeq(body, 6, 5 + len)
         IN  IF Len(body) < 10 + len \/ message \notin Messages THEN Panicked
             ELSE Decoded(message, Remaining(body, 10 + len))

\* Only GrpcWebTextProto is base64 decoded.  Bytes that are no base64 text panic
\* there; base64 text that is not decoded states, as a frame, a length far past
\* its end (its characters are 0x2b and up) and panics in split_to.
decode_body(body, grpc_content_type) ==
    IF body.form = (IF grpc_content_type = "GrpcWebTextProto" THEN "base64" ELSE "binary")
    THEN decode_frame(body.bytes)
    ELSE Panicked

GrpcWebContentType(content_type) ==
    CASE content_type \in {"application/grpc-web", "application/grpc-web+proto"} -> "GrpcWeb"
      [] content_type = "application/grpc-web-text+proto" -> "GrpcWebTextProto"
      [] OTHER -> "Unknown"

-----------------------------------------------------------------------------
(* The service.  Its frames are put together as the protocol says, not with *)
(* the operators above.                                                     *)

TextTypes == {"application/grpc-web-text", "application/grpc-web-text+proto"}

LengthBytes(n) ==
    CHOOSE b \in [1 .. 4 -> Byte] : n = ((b[1] * Base + b[2]) * Base + b[3]) * Base + b[4]

Frame(flag, payload) ==
    IF payload = None THEN <<>> ELSE <<flag>> \o LengthBytes(Len(payload)) \o payload

\* the flag of a trailers frame has the high bit
Bytes(answer) == Frame(0, answer.message) \o Frame(Base \div 2, answer.trailers)

\* a reply with its trailers, a reply without (they are http headers), an error
Replies ==
    [code : Codes, content_type : ContentTypes,
     message : Messages \cup {None}, trailers : TrailerTexts \cup {None}]

\* what a reader of the request finds in it
ServiceReads(bytes) ==
    {m \in Messages : bytes = Frame(0, m)}

-----------------------------------------------------------------------------
Init ==
    /\ phase = "idle"
    /\ elapsed = 0
    /\ request = <<>>
    /\ asked = None
    /\ reply = None
    /\ received = <<>>
    /\ result = Failed("none")

\* the deadline is fixed and the request is built
Fetch(input) ==
    /\ phase = "idle"
    /\ phase' = "sending"
    /\ elapsed' = 0
    /\ asked' = input
    /\ request' = encode_body(input)
    /\ reply' = None
    /\ received' = <<>>
    /\ result' = Failed("none")

\* the call is over: the caller has an error or dies
Ends(r) ==
    /\ phase' = "done"
    /\ result' = r

\* request.deadline(deadline).send() returns
Send ==
    /\ phase = "sending"
    /\ phase' = "waiting"
    /\ UNCHANGED <<elapsed, request, asked, reply, received, result>>

\* the connection breaks while the request is sent or the reply awaited
ConnectionBreaks ==
    /\ phase \in {"sending", "waiting"} /\ reply = None
    /\ Ends(Failed("IoError"))
    /\ UNCHANGED <<elapsed, request, asked, reply, received>>

\* Mutant: pending.wait() for pending.try_wait(deadline).
DeadlineReached_SendOnly ==
    /\ phase = "sending" /\ elapsed >= DEADLINE
    /\ Ends(Failed("IoError"))
    /\ UNCHANGED <<elapsed, request, asked, reply, received>>

\* the one deadline of send(), which reports it as IoError, and of try_wait
DeadlineReached ==
    /\ phase \in {"sending", "waiting"} /\ reply = None /\ elapsed >= DEADLINE
    /\ Ends(Failed(IF phase = "sending" THEN "IoError" ELSE "DeadlineReached"))
    /\ UNCHANGED <<elapsed, request, asked, reply, received>>

\* the headers of the reply arrive at the node
ServiceAnswers ==
    /\ phase = "waiting" /\ reply = None /\ elapsed < DEADLINE
    /\ \E answer \in Replies : reply' = answer
    /\ UNCHANGED <<phase, elapsed, request, asked, received, result>>

\* how the call ends on the headers of this reply, if it does: the content type
\* is unwrapped before the status code is checked
HeadersResult(answer) ==
    IF answer.content_type = None THEN {Panicked}
    ELSE IF answer.code # 200 THEN {Failed("Unknown")}
    ELSE {}

\* pending.try_wait(deadline) has a reply
HandleHeaders ==
    /\ phase = "waiting" /\ reply # None
    /\ \/ HeadersResult(reply) = {} /\ phase' = "reading" /\ UNCHANGED result
       \/ \E r \in HeadersResult(reply) : Ends(r)
    /\ UNCHANGED <<elapsed, request, asked, reply, received>>

\* base64 text that breaks off inside a group of four characters is no base64
Forms(answer, n) ==
    IF answer.content_type \notin TextTypes THEN {"binary"}
    ELSE IF n = Len(Bytes(answer)) THEN {"base64"} ELSE {"base64", "broken"}

\* response.body().collect(), all of the body or what came before an i/o error,
\* and the caller's decode_body
Collect ==
    /\ phase = "reading"
    /\ \E n \in 0 .. Len(Bytes(reply)) : \E form \in Forms(reply, n) :
          /\ received' = SubSeq(Bytes(reply), 1, n)
          /\ Ends(decode_body([form |-> form, bytes |-> received'],
                              GrpcWebContentType(reply.content_type)))
    /\ UNCHANGED <<elapsed, request, asked, reply>>

\* Time passes while the call is under way.  A wait that is over is noticed
\* before more time passes; the body has no deadline.
Tick ==
    /\ phase \in {"sending", "waiting", "reading"}
    /\ phase \in {"sending", "waiting"} => elapsed < DEADLINE
    /\ elapsed < MaxElapsed
    /\ elapsed' = elapsed + 1
    /\ UNCHANGED <<phase, request, asked, reply, received, result>>

\* the run goes on to its next call, or ends
Return ==
    /\ phase = "done"
    /\ phase' = "idle"
    /\ UNCHANGED <<elapsed, request, asked, reply, received, result>>

Next ==
    \/ \E input \in Messages : Fetch(input)
    \/ Send
    \/ ServiceAnswers
    \/ HandleHeaders
    \/ ConnectionBreaks
    \/ DeadlineReached
    \/ Collect
    \/ Tick
    \/ Return

Spec == Init /\ [][Next]_vars

\* The worker's thread goes on and time passes; the service need not answer,
\* and once it has, need not send its body.
Fairness ==
    /\ WF_vars(Tick)
    /\ WF_vars(HandleHeaders)
    /\ WF_vars(DeadlineReached)

FairSpec == Spec /\ Fairness

-----------------------------------------------------------------------------
(* Properties *)

Results == {"none", "IoError", "DeadlineReached", "Unknown", "panic", "decoded"}

\* Every variable has its type; a request is bytes, whatever was asked.
TypeOK ==
    /\ phase \in {"idle", "sending", "waiting", "reading", "done"}
    /\ elapsed \in 0 .. MaxElapsed
    /\ request \in Seq(Byte)
    /\ asked \in Messages \cup {None}
    /\ reply \in Replies \cup {None}
    /\ received \in Seq(Byte)
    /\ result.status \in Results

\* encode_body: a service that reads the request by the protocol finds the
\* message that was to be sent, and could not take it for another one.
RequestIsReadBack == asked # None => ServiceReads(request) = {asked}

\* A message that decode_body returns is the one the service sent, with status
\* 200, although flags, trailers and the length of the second frame are not
\* looked at: neither a body that breaks off before the header of the trailers is
\* over, nor one whose only frame holds the trailers of an error, is ever taken
\* for a message.  A body that breaks off inside the trailers is decoded, with
\* the whole message and a part of the trailers.
DecodedIsReply ==
    result.status = "decoded" =>
        /\ reply.code = 200
        /\ result.message = reply.message
        /\ reply.trailers # None
        /\ Len(result.trailers) <= Len(reply.trailers)
        /\ result.trailers = SubSeq(reply.trailers, 1, Len(result.trailers))

\* A complete reply of the service is decoded, in both encodings the code knows,
\* empty messages and empty trailers included: the caller only panics on replies
\* that are cut, lack a frame, or are of a content type that is not known.
GoodReplyDecodes ==
    (/\ phase = "done" /\ reply # None
     /\ reply.code = 200
     /\ reply.content_type \in {"application/grpc-web", "application/grpc-web+proto",
                                "application/grpc-web-text+proto"}
     /\ None \notin {reply.message, reply.trailers}
     /\ received = Bytes(reply))
    => result = Decoded(reply.message, reply.trailers)

\* The wait for the headers ends, with a reply or at the deadline, also when the
\* service never answers or never takes the request.  (Reading the body may take
\* forever.)
HeadersAwaitedFinitely == phase \in {"sending", "waiting"} ~> phase \in {"reading", "done"}
=============================================================================
