--------------------------- MODULE Configuration ---------------------------
(***************************************************************************)
(* What Heimdall makes of its two files: heimdall_config.c,                *)
(* server_config.c, and what the conversions and the log do with it.       *)
(*                                                                         *)
(* A file is a sequence of lines without their LF.  In the main file a key *)
(* is one token, in the server file each character is one, because the     *)
(* servers are counted by pairs of characters.                             *)
(***************************************************************************)
EXTENDS Helper, FiniteSets

Keys == {"algorithm_selection", "pre_fork", "print_enable", "log_level", "write_enable",
         "log_file_req", "log_file_resp", "timeout_worker", "killer_time", "update_time",
         "server_config", "server_main_port", "backlog", "max_fd", "sockets_path",
         "max_thread_pchild"}

Skipped(line) == line = <<>> \/ line[1] = "#"
-----------------------------------------------------------------------------
(* The main file                                                           *)

\* init_config and config_handler, one line: a later line replaces an earlier one, and a
\* key that is not known ends the parse.  In a line without a space _get reads on in what
\* the buffer held before.
ConfigLine(read, line) ==
    IF read.end # "ok" \/ Skipped(line) THEN read
    ELSE IF "SP" \notin ToSet(line) THEN [read EXCEPT !.end = "overrun"]
    ELSE IF line[1] \notin Keys \/ line[2] # "SP" THEN [read EXCEPT !.end = "exit"]
    ELSE [read EXCEPT !.values[line[1]] = SubSeq(line, 3, Len(line))]

\* new_config.  A key that no line gives is a pointer nobody has set, in memory that no
\* one has used before: NULL.
Config(file) ==
    LET loop[i \in 0 .. Len(file)] ==
          IF i = 0 THEN [end |-> "ok", values |-> [k \in Keys |-> NULL]]
          ELSE ConfigLine(loop[i - 1], file[i])
    IN  loop[Len(file)]

IsNumber(string) == string # NULL /\ StrToInt(string).ok

\* i, d and e convert log_level and print_enable in every call, and report a conversion
\* that fails by calling e again.
LogWorks(values) == IsNumber(values["log_level"]) /\ IsNumber(values["print_enable"])
-----------------------------------------------------------------------------
(* The server file                                                         *)

\* One line: the value of a line of this type is stored behind the ones before it.
Store(stored, line, type) ==
    IF IsPrefix(Append(type, ":"), line)
    THEN Append(stored, SubSeq(line, Len(type) + 2, Len(line)))
    ELSE stored

\* The values of this type, in the order of the file.
Values(file, type) ==
    LET loop[i \in 0 .. Len(file)] ==
          IF i = 0 THEN <<>> ELSE Store(loop[i - 1], file[i], type)
    IN  loop[Len(file)]

\* parse_line: the addresses it stores.
Addresses(file) == Values(file, <<"I", "P">>)

\* line_get has no colon to stop at.
HasBareLine(file) == \E i \in DOMAIN file : ~Skipped(file[i]) /\ ":" \notin ToSet(file[i])

PairsThrough(file) ==
    LET text == FlattenSeq([i \in DOMAIN file |-> Append(file[i], "LF")])
    IN  {k \in 1 .. Len(text) - 1 : k % 2 = 1 /\ SubSeq(text, k, k + 1) = <<"I", "P">>}

\* What fgets reads two characters at a time, from the start of each line.
Pairs(file) ==
    UNION {{<<i, k>> : k \in {n \in 1 .. Len(file[i]) - 1 :
                                n % 2 = 1 /\ SubSeq(file[i], n, n + 1) = <<"I", "P">>}} :
             i \in DOMAIN file}

\* count_server.
CountServer(file) == Cardinality(Pairs(file))

\* init_scheduler: a node for each server counted.  What it takes from behind the last
\* address stored is a pointer nobody has set.
ServerPool(file) ==
    [i \in 1 .. CountServer(file) |-> IF i <= Len(Addresses(file)) THEN Addresses(file)[i] ELSE NULL]
-----------------------------------------------------------------------------
(* Together                                                                *)

\* main up to do_prefork: get_config, get_log, get_scheduler, for a server file, or NULL
\* if there is none.  What it may end in.
Configured(read, servers) ==
    LET algorithm == read.values["algorithm_selection"] IN
    IF read.end = "exit" THEN {"exited"}
    ELSE IF read.end = "overrun" THEN {"exited", "crashed"}
    ELSE IF algorithm = NULL THEN {"crashed"}
    ELSE IF ~IsNumber(algorithm) THEN IF LogWorks(read.values) THEN {"exited"} ELSE {"crashed"}
    ELSE IF StrToInt(algorithm).value \notin {0, 1} THEN {"exited"}
    ELSE IF ~LogWorks(read.values) \/ servers = NULL THEN {"crashed"}
    ELSE {"prefork"} \cup IF HasBareLine(servers) THEN {"crashed"} ELSE {}

\* do_prefork: the digits of what is no number count.
Prefork(values) ==
    LET n == StrToInt(values["pre_fork"]).value IN IF n = 0 THEN 1 ELSE n
=============================================================================
