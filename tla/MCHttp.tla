------------------------------- MODULE MCHttp -------------------------------
(* Http on small instances.                                                *)
EXTENDS Http

Request(method, resource, headers, body) ==
    [line |-> <<<<method>>, <<resource>>, <<"HTTP/1.1">>>>,
     headers |-> headers, body |-> body]

Field(name, data) == <<name, ":", "SP">> \o data \o CRLF

Get   == Request("GET", "/a", Field("Host", <<"h", ":", "8", "0">>), <<>>)
Empty == Request("GET", "/b", <<"Accept", ":">> \o CRLF \o Field("CONTENT-LENGTH", <<"0">>), <<>>)
Post  == Request("POST", "/c", Field("Content-Length", <<"1">>), <<"x">>)
Bare  == Request("GET", "/d", <<"Host">> \o CRLF, <<>>)
Bad   == Request("GET", "/e", Field("Content-Length", <<"1", "x">>), <<>>)

MCSessions == {<<Get, Empty>>, <<Post, Get>>, <<Bare>>, <<Bad>>}

Answer(headers, body, length) ==
    [line |-> <<<<"HTTP/1.1">>, <<"200">>, <<"OK">>>>,
     headers |-> headers, body |-> body, length |-> length]

MCAnswers == {Answer(Field("Content-Length", <<"1", "0">>), [k \in 1 .. 10 |-> "y"], 10),
              Answer(Field("content-length", <<"1">>), <<"z">>, 1),
              Answer(<<>>, <<"z">>, -1)}

MCHost == <<"server", ":80">>
=============================================================================
