-------------------------------- MODULE Http --------------------------------
(***************************************************************************)
(* What becomes of the text of requests and responses on one connection.   *)
(*                                                                         *)
(* The client sends its requests one after the other without waiting.  The *)
(* reader cuts the stream into headers and parses them; a request thread   *)
(* makes the request anew from what was parsed, sends it to the server of  *)
(* the worker, and reads header and body of the answer; the writer sends   *)
(* header and body to the client.  Client and servers may close at any     *)
(* byte.                                                                   *)
(*                                                                         *)
(* Queue, locks and the end of the connection are in Worker, the exchange  *)
(* of a body in ChunkPipe; here a response is received and sent at once.   *)
(***************************************************************************)
EXTENDS HttpText

CONSTANTS Sessions,   \* what clients send: sequences of requests [line, headers, body]
          Answers,    \* what servers send: [line, headers, body, length], the length -1 where
                      \* the headers do not give it
          Host        \* host and port of the server of this worker

\* A message on the wire.
Header(m)  == m.line[1] \o <<"SP">> \o m.line[2] \o <<"SP">> \o m.line[3] \o CRLF
              \o m.headers \o CRLF
Message(m) == Header(m) \o m.body

\* A first line of three words, none with a character that ends it, and a header that goes
\* to its first blank line.
IsMessage(m) ==
    /\ m.line \in [1 .. 3 -> Seq(STRING)] /\ m.headers \in Seq(STRING) /\ m.body \in Seq(STRING)
    /\ \A i \in 1 .. 3 : ToSet(m.line[i]) \cap {"LF", "NUL"} = {}
    /\ \A i \in 1 .. 2 : "SP" \notin ToSet(m.line[i])
    /\ \A n \in 4 .. Len(Header(m)) :
         (\A k \in n - 3 .. n : Header(m)[k] \in {"CR", "LF"}) <=> n = Len(Header(m))

\* The lines of a header behind its first: where each begins, and its LF.
Lines(text) ==
    {line \in (2 .. Len(text)) \X (2 .. Len(text)) :
       /\ line[1] <= line[2] /\ text[line[1] - 1] = "LF" /\ text[line[2]] = "LF"
       /\ \A i \in line[1] .. line[2] - 1 : text[i] # "LF"}

\* Those that give the length of the body, and their digits.
LengthLines(text) ==
    {line \in Lines(text) : /\ text[line[1]] \in {"Content-Length", "CONTENT-LENGTH", "content-length"}
                            /\ text[line[1] + 1] = ":"}
DigitsOf(text, line) == SubSeq(text, line[1] + 3, line[2] - 2)

\* Each line ends in CR LF, each line of the header has its colon, and a length is a number.
WellFormed(m) ==
    LET text == Header(m)
    IN  /\ ToSet(text) \cap {"NUL", "NULL"} = {}
        /\ \A i \in 2 .. Len(text) : text[i] = "LF" <=> text[i - 1] = "CR"
        /\ \A line \in Lines(text) : line[2] < Len(text) =>
             \E i \in line[1] .. line[2] - 2 : text[i] = ":"
        /\ \A line \in LengthLines(text) : /\ text[line[1] + 2] = "SP"
                                            /\ IsDecimal(DigitsOf(text, line))

\* A length that is given is that of the body.
IsAnswer(m) ==
    /\ IsMessage(m) /\ WellFormed(m) /\ m.length \in {-1, Len(m.body)}
    /\ m.length = -1 <=> LengthLines(Header(m)) = {}
    /\ \A line \in LengthLines(Header(m)) : Decimal(DigitsOf(Header(m), line)) = m.length

ASSUME HttpAssumption ==
    /\ \A session \in Sessions : /\ session \in Seq(ToSet(session))
                                /\ \A k \in DOMAIN session : IsMessage(session[k])
    /\ \A answer \in Answers : IsAnswer(answer)

VARIABLES
    session,      \* the requests of the client
    stream,       \* what the reader has not read of them
    reader,       \* read_work: "reading", "stopped"
    worker,       \* the process: "alive", "crashed"
    requests,     \* the HTTPRequest of each request thread
    thread,       \* where each request thread is
    forwarded,    \* what each has sent to the server
    answer,       \* history: what the server answers each
    response,     \* and what it has received
    writer,       \* write_work: the request it answers next, 0 if it will never end
    output        \* what the client has been sent

vars == <<session, stream, reader, worker, requests, thread, forwarded, answer, response,
          writer, output>>

NoAnswer   == [line |-> NULL, headers |-> <<>>, body |-> <<>>, length |-> -1]
NoResponse == [header |-> NULL, length |-> -1, body |-> <<>>]

Init ==
    /\ session \in Sessions
    /\ stream = FlattenSeq([k \in DOMAIN session |-> Message(session[k])])
    /\ reader = "reading" /\ worker = "alive"
    /\ requests = <<>> /\ thread = <<>> /\ forwarded = <<>> /\ answer = <<>> /\ response = <<>>
    /\ writer = 1 /\ output = <<>>

\* What may be there to read of a text whose sender may close at any byte: the whole of
\* it, or less than its header.
Received(text) == {text} \cup {SubSeq(text, 1, n) : n \in 0 .. HeaderLength(text) - 1}

\* What is left of a text behind its header.
AfterHeader(text) == SubSeq(text, HeaderLength(text) + 1, Len(text))
-----------------------------------------------------------------------------
\* A header that comes of what is there to read, as read_headers reads it.
HeaderRead(got, type) ==
    {[header |-> header, read |-> ReadHeaders(header, type), received |-> got # <<>>] :
        header \in Headers(got)}

Parses(h)  == h.received /\ h.read.end = "ok"
Crashes(h) == h.received /\ h.read.end = "crash"

\* receive_http_request in read_work: at the end of the stream, and at a header that
\* does not parse, the reader stops; otherwise the request gets a thread.
ReceiveRequest ==
    /\ worker = "alive" /\ reader = "reading"
    /\ \E got \in Received(stream) :
       \E h \in HeaderRead(got, RQST) :
         LET With(s, x) == IF Parses(h) THEN Append(s, x) ELSE s
         IN  /\ stream' = IF HeaderEnds(got) = {} THEN <<>> ELSE AfterHeader(got)
             /\ worker' = IF Crashes(h) THEN "crashed" ELSE worker
             /\ reader' = IF Parses(h) THEN reader ELSE "stopped"
             /\ requests' = With(requests, h.read.http)
             /\ thread' = With(thread, "created")
             /\ forwarded' = With(forwarded, NULL)
             /\ answer' = With(answer, NoAnswer)
             /\ response' = With(response, NoResponse)
    /\ UNCHANGED <<session, writer, output>>

ForwardRequestUnchecked(k) ==
    /\ worker = "alive" /\ thread[k] = "created"
    /\ thread' = [thread EXCEPT ![k] = "forwarded"]
    /\ forwarded' = [forwarded EXCEPT ![k] = MakeSimpleRequest(requests[k], Host)]
    /\ UNCHANGED <<session, stream, reader, worker, requests, answer, response, writer, output>>

\* request_work up to send_http_request: the Host of the client is replaced by the server's.
ForwardRequest(k) ==
    LET text == MakeSimpleRequest(requests[k], Host)
    IN  /\ worker = "alive" /\ thread[k] = "created"
        /\ thread' = [thread EXCEPT ![k] = IF text = NULL THEN "failed" ELSE "forwarded"]
        /\ forwarded' = [forwarded EXCEPT ![k] = text]
        /\ UNCHANGED <<session, stream, reader, worker, requests, answer, response, writer, output>>

\* receive_http_chunks: content_len bytes of the body, or those that come.
Body(text, read) ==
    LET rest == AfterHeader(text)
    IN  IF read.end # "ok" \/ read.http.req_content_len < 1 THEN <<>>
        ELSE SubSeq(rest, 1, Min({read.http.req_content_len, Len(rest)}))

\* receive_http_response_header and receive_http_chunks.  A header that does not parse,
\* or that is empty, ends the thread, but the buffer stays for the writer to find.
ReceiveResponse(k) ==
    /\ worker = "alive" /\ thread[k] = "forwarded"
    /\ \E a \in Answers :
       \E got \in Received(Message(a)) \cup {SubSeq(Message(a), 1, Len(Message(a)) - 1)} :
       \E h \in HeaderRead(got, RESP) :
         /\ answer' = [answer EXCEPT ![k] = a]
         /\ response' = [response EXCEPT ![k] =
                           [header |-> h.header, length |-> h.read.http.req_content_len,
                            body |-> Body(got, h.read)]]
         /\ thread' = [thread EXCEPT ![k] = IF Parses(h) THEN "answered" ELSE "failed"]
         /\ worker' = IF Crashes(h) THEN "crashed" ELSE worker
    /\ UNCHANGED <<session, stream, reader, requests, forwarded, writer, output>>

\* write_work: header and body, and then the next; it is done with a body when it has
\* sent as many bytes as the header says, and never if that is none.
SendResponseAnyLength ==
    /\ worker = "alive" /\ writer \in DOMAIN response
    /\ thread[writer] \in {"answered", "failed"} /\ response[writer].header # NULL
    /\ output' = output \o response[writer].header \o response[writer].body
    /\ writer' = writer + 1
    /\ UNCHANGED <<session, stream, reader, worker, requests, thread, forwarded, answer, response>>

SendResponse ==
    /\ worker = "alive" /\ writer \in DOMAIN response
    /\ thread[writer] \in {"answered", "failed"} /\ response[writer].header # NULL
    /\ output' = output \o response[writer].header \o response[writer].body
    /\ writer' = IF response[writer].length = Len(response[writer].body)
                    /\ response[writer].body # <<>>
                 THEN writer + 1 ELSE 0
    /\ UNCHANGED <<session, stream, reader, worker, requests, thread, forwarded, answer, response>>

Next == \/ ReceiveRequest
        \/ \E k \in DOMAIN thread : ForwardRequest(k) \/ ReceiveResponse(k)
        \/ SendResponse

Spec == Init /\ [][Next]_vars
-----------------------------------------------------------------------------
(* What reaches the other side                                             *)

TypeOK ==
    /\ session \in Sessions
    /\ stream \in Text
    /\ reader \in {"reading", "stopped"} /\ worker \in {"alive", "crashed"}
    /\ thread \in Seq({"created", "forwarded", "answered", "failed"})
    /\ {DOMAIN requests, DOMAIN forwarded, DOMAIN answer, DOMAIN response} = {DOMAIN thread}
    /\ \A k \in DOMAIN thread :
         /\ requests[k].req_content_len \in Int
         /\ thread[k] = "answered" => response[k].header # NULL
         /\ thread[k] \in {"forwarded", "answered"} => forwarded[k] # NULL
    /\ writer \in 0 .. Len(thread) + 1
    /\ output \in Text

\* The requests a reader can tell apart: no body has come before.
Readable(k) == \A j \in 1 .. k - 1 : session[j].body = <<>>

\* read_headers, make_simple_request: the server is asked the k-th request the client has
\* sent, method, resource and protocol each in full, or is asked nothing, however the
\* headers are spelled, whatever their data are and wherever the client has closed.
ForwardsTheRequest ==
    \A k \in DOMAIN forwarded : Readable(k) /\ forwarded[k] # NULL =>
        LET line == session[k].line
        IN  forwarded[k] = line[1] \o <<"SP">> \o line[2] \o <<"SP">> \o line[3]
                           \o <<"LF", "Host", ":", "SP">> \o Host \o <<"LF", "LF">>

\* read_work: of requests that are well formed and without a body, the reader reads every
\* one and stops where the client has closed, not before.
ReadsToTheEnd ==
    (\A k \in DOMAIN session : WellFormed(session[k]) /\ session[k].body = <<>>) =>
        /\ reader = "stopped" => stream = <<>>
        /\ worker = "alive"

\* get_header: req_content_len of a response is the length its server has announced, or
\* none; never a part of the number, wherever the header has broken off.
LengthIsServers ==
    \A k \in DOMAIN response : thread[k] = "answered" =>
        \/ response[k].length = answer[k].length
        \/ response[k].length = -1 /\ HeaderEnds(response[k].header) = {}

\* receive_http_header2, receive_http_chunks, write_work: the client reads the answers of
\* its requests in their order, each from its first byte and without a gap; after the first
\* that has broken off it reads nothing but what the buffer of that header had behind it.
ClientReadsAnswers ==
    LET all == FlattenSeq([k \in DOMAIN answer |-> IF answer[k] = NoAnswer THEN <<>>
                                                   ELSE Message(answer[k])])
    IN  IsPrefix(output, all) \/ (output # <<>> /\ Last(output) = "?" /\ IsPrefix(Front(output), all))
=============================================================================
