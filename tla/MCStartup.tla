----------------------------- MODULE MCStartup -----------------------------
(* Startup on small instances.                                             *)
EXTENDS Startup

Line(key, value) == <<key, "SP">> \o value

\* The main file, with other lines after its own.
File(lines) ==
    <<<<"#", "SP", "STATELESSRR">>, <<>>,
      Line("algorithm_selection", <<"0">>), Line("pre_fork", <<"2">>),
      Line("print_enable", <<"1">>), Line("log_level", <<"3">>),
      Line("server_main_port", <<"8", "0", "8", "0">>), Line("backlog", <<"1", "0">>),
      Line("max_fd", <<"4">>)>> \o lines

\* The server file, with lines before its own.
Servers(lines) == lines \o <<<<"N", "a", "m", "e", ":", "n1">>, <<"I", "P", ":", "a1">>, <<>>,
                             <<"I", "P", ":", "a2">>>>

Input(lines, servers) == [config |-> File(lines), servers |-> servers]

\* Two workers; and one, state-aware, with more servers counted than there are and lines
\* of both parities before the addresses.
Good == {Input(<<>>, Servers(<<>>)),
         Input(<<Line("algorithm_selection", <<"1">>), Line("pre_fork", <<"0">>)>>,
               Servers(<<<<"#", "SP", "I", "P">>, <<"#", "SP">>>>))}

\* Files with something wrong in them.
Bad == {Input(<<Line("workers", <<"2">>)>>, Servers(<<>>)),
        Input(<<<<"pre_fork">>>>, Servers(<<>>)),
        Input(<<Line("algorithm_selection", <<"2">>)>>, Servers(<<>>)),
        Input(<<Line("algorithm_selection", <<"x">>)>>, Servers(<<>>)),
        Input(<<Line("log_level", <<"x">>)>>, Servers(<<>>)),
        Input(<<>>, NULL),
        Input(<<Line("max_fd", <<"4", "k">>)>>, Servers(<<<<"#">>, <<"b">>>>))}

MCInputs == Good \cup Bad
=============================================================================
