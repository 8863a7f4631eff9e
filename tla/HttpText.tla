------------------------------ MODULE HttpText ------------------------------
(***************************************************************************)
(* How Heimdall reads the text of HTTP messages: where a header ends on    *)
(* the socket, and what the parser of http_request.c makes of it.          *)
(*                                                                         *)
(* A text is a sequence of tokens.  The characters the parsers look at are *)
(* tokens of their own ("CR", "LF", "SP", ":", the digits); a word none of *)
(* them looks into, such as the name of a header, is one token.  The       *)
(* parsers work in place: they cut a buffer into C strings by writing NULs *)
(* into it, which "NUL" stands for.                                        *)
(***************************************************************************)
EXTENDS Helper

\* Words, and the characters; "?" is a byte nobody has written.
Token == STRING \cup {"NUL", "NULL", "?", "SP", "CR", "LF"}
Text  == Seq(Token)

CRLF == <<"CR", "LF">>

\* A decimal number as a sender writes it: one digit or more, and no zero before others.
IsDecimal(digits) ==
    /\ digits # <<>> /\ ToSet(digits) \subseteq ToSet(Digits)
    /\ digits[1] = "0" => Len(digits) = 1

Decimal(digits) ==
    LET value[i \in 0 .. Len(digits)] ==
          IF i = 0 THEN 0 ELSE 10 * value[i - 1] + Value[digits[i]]
    IN  value[Len(digits)]

RQST == 0
RESP == 1

Until(buf, from, end) == SubSeq(buf, from, IF end = 0 THEN Len(buf) ELSE end - 1)

\* The C string at an index of a buffer: up to the first NUL.
CString(buf, from) == Until(buf, from, SelectInSubSeq(buf, from, Len(buf), LAMBDA c : c = "NUL"))

\* A line cut at its first colon: the name, and the data from the second character after
\* the colon.  The colon of a line that has none is 0.  A line that ends with its colon
\* has its data in what follows it.
CutAt(buf, line, at, colon) ==
    [colon  |-> colon,
     name   |-> [k \in 1 .. colon - 1 |-> Lower(line[k])],
     buffer |-> IF colon = 0 THEN buf ELSE [buf EXCEPT ![at] = "NUL"],
     data   |-> CString(buf, at + 2)]

Cut(buf, start) ==
    LET line  == CString(buf, start)
        colon == SelectInSeq(line, LAMBDA c : c = ":")
    IN  CutAt(buf, line, start + colon - 1, colon)
-----------------------------------------------------------------------------
(* The header on the socket                                                *)

HeaderEndsTogether(text) ==
    {n \in 4 .. Len(text) : Len(SelectSeq(SubSeq(text, 1, n), LAMBDA c : c \in {"CR", "LF"})) = 4}

\* The code counts CRs and LFs in a row, whichever they are; four of them end the header.
HeaderEnds(text) == {n \in 4 .. Len(text) : \A k \in n - 3 .. n : text[k] \in {"CR", "LF"}}

\* receive_http_header2 reads one byte at a time: up to the blank line, or to the end of
\* the stream.
HeaderLength(text) == IF HeaderEnds(text) = {} THEN Len(text) ELSE Min(HeaderEnds(text))

\* What it leaves in header.  Each byte is copied with strcpy from a variable no NUL
\* follows, so what lies behind it in memory comes along, until the next byte overwrites
\* it or, at a blank line, a NUL does.  At the end of the stream it stays.
Headers(text) ==
    LET read == SubSeq(text, 1, HeaderLength(text))
    IN  IF HeaderEnds(text) = {} THEN {read, Append(read, "?")} ELSE {read}
-----------------------------------------------------------------------------
(* The parser                                                              *)

\* The fields of HTTPRequest that are used, for a request or a response.
NewHttpRequest ==
    [req_type |-> NULL, req_resource |-> NULL, req_protocol |-> NULL,
     resp_code |-> NULL, resp_msg |-> NULL, req_host |-> NULL, req_content_len |-> -1]

\* The first line, cut at its first two spaces.  The third piece is what is left.
Pieces(buf, len) ==
    LET IsSpace(c) == c = "SP"
        one == SelectInSubSeq(buf, 1, len, IsSpace)
        two == IF one = 0 THEN 0 ELSE SelectInSubSeq(buf, one + 1, len, IsSpace)
    IN  [first  |-> IF one = 0 THEN NULL ELSE SubSeq(buf, 1, one - 1),
         second |-> IF two = 0 THEN NULL ELSE SubSeq(buf, one + 1, two - 1),
         third  |-> IF two = 0 THEN NULL ELSE CString(buf, two + 1)]

GetRequest(http, buf, len) ==
    LET p == Pieces(buf, len)
    IN  [http EXCEPT !.req_type = p.first, !.req_resource = p.second, !.req_protocol = p.third]

GetResponse(http, buf, len) ==
    LET p == Pieces(buf, len)
    IN  [http EXCEPT !.req_protocol = p.first, !.resp_code = p.second, !.resp_msg = p.third]

\* The headers that are not used are read and dropped.  A line without a colon returns
\* NULL, which read_headers dereferences.
SetHeader(r, cut, length) ==
    [r EXCEPT
      !.buffer = cut.buffer,
      !.http   = CASE cut.name = <<"content-length">> -> [@ EXCEPT !.req_content_len = length.value]
                   [] cut.name = <<"host">> -> [@ EXCEPT !.req_host = cut.data]
                   [] OTHER -> @,
      !.end    = IF cut.colon = 0 THEN "crash"
                 ELSE IF cut.name = <<"content-length">> /\ ~length.ok THEN "error"
                 ELSE @]

GetHeader(r, start) ==
    LET cut == Cut(r.buffer, start) IN SetHeader(r, cut, StrToInt(cut.data))

\* read_headers: a line ends at an LF, and the character before that, whatever it is, is
\* cut off; the lines end where a CR LF follows.
ReadLine(r, i, type) ==
    LET cut    == IF i > 1 THEN [r.buffer EXCEPT ![i - 1] = "NUL"] ELSE r.buffer
        first  == [r EXCEPT !.buffer = cut,
                            !.http = IF type = RQST THEN GetRequest(@, cut, i - 1)
                                                    ELSE GetResponse(@, cut, i - 1)]
        parsed == IF r.start = 1 THEN first ELSE GetHeader([r EXCEPT !.buffer = cut], r.start)
        last   == i + 2 <= Len(cut) /\ SubSeq(cut, i + 1, i + 2) = CRLF
    IN  [parsed EXCEPT !.start = i + 1,
                       !.end = IF @ = "lines" /\ last THEN "ok" ELSE @]

ReadLines(text, type) ==
    LET loop[i \in 0 .. Len(text)] ==
          IF i = 0 THEN [buffer |-> text, start |-> 1, http |-> NewHttpRequest, end |-> "lines"]
          ELSE LET r == loop[i - 1] IN
               IF r.end = "lines" /\ r.buffer[i] = "LF" THEN ReadLine(r, i, type) ELSE r
    IN  loop[Len(text)]

HeadersRead(read) == [end |-> IF read.end = "lines" THEN "ok" ELSE read.end, http |-> read.http]

ReadHeadersUnended(text, type) == HeadersRead(ReadLines(text \o CRLF, type))

\* A last line without its line end is not read.
ReadHeaders(text, type) == HeadersRead(ReadLines(text, type))

\* make_simple_request: what is sent to a server.  NULL when a part is not set.
MakeSimpleRequest(http, host) ==
    IF NULL \in {http.req_type, http.req_resource, http.req_protocol} THEN NULL
    ELSE http.req_type \o <<"SP">> \o http.req_resource \o <<"SP">> \o http.req_protocol
         \o <<"LF", "Host", ":", "SP">> \o host \o <<"LF", "LF">>
=============================================================================
