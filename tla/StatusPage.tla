----------------------------- MODULE StatusPage -----------------------------
(***************************************************************************)
(* What the updater makes of the status page of a server: http_response.c, *)
(* apache_status.c.  The page is whatever receive_http has read when a     *)
(* read returned less than it was asked for, so any beginning of the       *)
(* response may be all there is.                                           *)
(***************************************************************************)
EXTENDS HttpText

(* Pages                                                                   *)

\* The lines of a page that give a number under one of these names: where each begins, and
\* its LF.
LinesNamed(body, names) ==
    {line \in (1 .. Len(body)) \X (1 .. Len(body)) :
       /\ line[1] < line[2] /\ (line[1] = 1 \/ body[line[1] - 1] = "LF")
       /\ body[line[1]] \in names /\ body[line[1] + 1] = ":"
       /\ body[line[2]] = "LF" /\ \A i \in line[1] .. line[2] - 1 : body[i] # "LF"}

IdleLines(body) == LinesNamed(body, {"IdleWorkers", "idleworkers"})
BusyLines(body) == LinesNamed(body, {"BusyWorkers", "busyworkers"})

\* Each of the lines gives this number in decimal; -1 if there is none.
Give(body, lines, number) ==
    /\ lines = {} => number = -1
    /\ \A line \in lines :
         LET digits == SubSeq(body, line[1] + 3, line[2] - 1)
         IN  /\ body[line[1] + 2] = "SP"
             /\ IsDecimal(digits) /\ Decimal(digits) = number

\* The body of the page of a server with so many idle and busy workers, which gives the
\* busy ones first.
IsStatus(body, idle, busy) ==
    /\ Give(body, IdleLines(body), idle)
    /\ Give(body, BusyLines(body), busy)
    /\ \A line \in IdleLines(body) :
         BusyLines(body) = {} \/ \E before \in BusyLines(body) : before[2] < line[1]
-----------------------------------------------------------------------------
(* The parser                                                              *)

\* What retrieve and parse come to: "ok", "error" (the page does not parse), "crash".
Report(end, status) == [end |-> end, idle |-> status.idle, busy |-> status.busy]

NewStatusZero == [idle |-> 0, busy |-> 0]

\* new_apache_server_status.
NewStatus == [idle |-> -1, busy |-> -1]

\* get_data.  Names other than these need no number (the two totals are like uptime).  A
\* line without a colon leaves text NULL for strcmp.
SetData(r, cut, number) ==
    [r EXCEPT
      !.buffer = cut.buffer,
      !.idle   = IF cut.name = <<"idleworkers">> THEN number.value ELSE @,
      !.busy   = IF cut.name = <<"busyworkers">> THEN number.value ELSE @,
      !.end    = IF cut.colon = 0 THEN "crash"
                 ELSE IF /\ cut.name \in {<<"idleworkers">>, <<"busyworkers">>, <<"uptime">>}
                         /\ ~number.ok THEN "error"
                 ELSE @]

GetData(r, start) == LET cut == Cut(r.buffer, start) IN SetData(r, cut, StrToInt(cut.data))

\* parse_apache_status: the lines that end, up to an empty one.
ParseLine(r, i) ==
    LET parsed == GetData([r EXCEPT !.buffer[i] = "NUL"], r.start)
        last   == i = Len(r.buffer) \/ r.buffer[i + 1] = "LF"
    IN  [parsed EXCEPT !.start = i + 1,
                       !.end = IF @ = "lines" /\ last THEN "ok" ELSE @]

ParseNext(r, i) == IF r.end = "lines" /\ r.buffer[i] = "LF" THEN ParseLine(r, i) ELSE r

ParseLines(page) ==
    LET loop[i \in 0 .. Len(page)] ==
          IF i = 0 THEN [buffer |-> page, start |-> 1, end |-> "lines",
                         idle |-> NewStatus.idle, busy |-> NewStatus.busy]
          ELSE ParseNext(loop[i - 1], i)
    IN  loop[Len(page)]

StatusRead(read) == Report(IF read.end = "lines" THEN "ok" ELSE read.end, read)

ParseStatus(page) == StatusRead(ParseLines(page))

BehindBlank(text, blank) == SubSeq(text, blank + 4, Len(text))

\* get_http_response: the head is what precedes the first blank line, without the end of
\* its last line, and the body what follows.  Its result is not looked at, and the body of
\* a response that has no blank line, or a head that does not parse, is NULL for strdup.
Respond(text, blank) ==
    IF blank = 0 THEN Report("crash", NewStatus)
    ELSE IF ReadHeaders(SubSeq(text, 1, blank - 1), RESP).end # "ok" THEN Report("crash", NewStatus)
    ELSE ParseStatus(BehindBlank(text, blank))

BlankLine(text) ==
    LET at == {i \in 1 .. Len(text) - 3 : SubSeq(text, i, i + 3) = CRLF \o CRLF}
    IN  IF at = {} THEN 0 ELSE Min(at)

GetHttpResponse(text) == Respond(text, BlankLine(text))

\* What a status page may come to, wherever its transfer breaks off.
Reports(page) == {GetHttpResponse(SubSeq(page, 1, n)) : n \in 0 .. Len(page)}
=============================================================================
