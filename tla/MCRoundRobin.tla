---------------------------- MODULE MCRoundRobin ----------------------------
(* RoundRobin on small instances.                                          *)
EXTENDS RoundRobin, TLC

CONSTANT garbage

Line(name, data) == <<name, ":", "SP">> \o data \o <<"LF">>

Response(body) == <<"HTTP/1.1", "SP", "200", "SP", "OK", "CR", "LF", "Server", ":", "SP", "s">>
                  \o CRLF \o CRLF \o body

\* A page of Apache: the busy workers first, the scoreboard last.
Page(idle, busy, idleText, busyText) ==
    [idle |-> idle, busy |-> busy,
     text |-> Response(Line("Uptime", <<"7">>) \o Line("BusyWorkers", busyText)
                       \o Line("IdleWorkers", idleText) \o Line("Scoreboard", <<"_">>))]

\* Servers with eight workers: weights 1 and 2.
TwoWeights == {Page(1, 7, <<"1">>, <<"7">>), Page(3, 5, <<"3">>, <<"5">>)}

\* Also a saturated server with ten workers (weight 1), one with five (weight 0), one with
\* a single worker, a page that does not parse, and one that is no status page.
AllPages ==
    TwoWeights \cup
    {Page(0, 10, <<"0">>, <<"1", "0">>), Page(0, 5, <<"0">>, <<"5">>), Page(0, 1, <<"0">>, <<"1">>),
     [idle |-> -1, busy |-> -1, text |-> Response(Line("Uptime", <<"7", "d">>))],
     [idle |-> -1, busy |-> -1, text |-> Response(<<"<html>", "LF">>)]}
=============================================================================
