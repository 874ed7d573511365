------------------------------ MODULE MCLaunch ------------------------------
(***************************************************************************)
(* Instances of Launch for TLC.                                            *)
(***************************************************************************)
EXTENDS Launch, TLC

CONSTANTS s1, s2, j1

SessionSymmetry == Permutations({s1, s2})

-----------------------------------------------------------------------------
(* The machine *)

Usr == <<"usr">>
Lib64 == <<"lib64">>
Programs == <<"usr", "bin">>
Opt == <<"opt">>
Bridge == <<"opt", "bridge">>
Ws == <<"ws">>
Src == <<"ws", "src">>
Note == <<"ws", "note">>
Data == <<"data">>
Sheet == <<"data", "sheet">>
Nowhere == <<"gone">>

\* /lib64 is a baseline path this host does not have.
Machine ==
    Usr :> "dir" @@ Programs :> "file" @@ Lib64 :> "absent" @@ Opt :> "dir"
    @@ Bridge :> "file" @@ Ws :> "dir" @@ Src :> "dir" @@ Note :> "file"
    @@ Data :> "dir" @@ Sheet :> "file" @@ Nowhere :> "absent"

Baseline == {Usr, Lib64}
Vanishing == {Ws, Src, Data}
Location ==
    [p \in {"sh", "git", "cat", "bridge"} |-> IF p = "bridge" THEN Bridge ELSE Programs]

-----------------------------------------------------------------------------
(* Command lines *)

Desc(length, echo, broken) == [length |-> length, echoes |-> <<echo>>, broken |-> broken]
Good == Desc(40, "", FALSE)
ToolOf(name, desc) == [name |-> <<name>>, desc |-> desc]
GitLog == ToolOf("git_log", Good)
NativeGitLog == [name |-> <<"native", "git_log">>, desc |-> Good]

Flagged(provider, tool, desc, bridge) ==
    [config |-> NotGiven, provider |-> provider, tool |-> tool, desc |-> desc,
     bridge |-> bridge]
File(provider, program, tools) ==
    [provider |-> provider, program |-> program, args |-> <<"call">>, tools |-> tools]
Configured(file) ==
    [config |-> file, provider |-> NotGiven, tool |-> NotGiven, desc |-> NotGiven,
     bridge |-> NotGiven]

CommandLines ==
    {Flagged(NotGiven, NotGiven, NotGiven, NotGiven),
     Flagged("docs", NotGiven, Good, "bridge"),
     [Configured(Unreadable) EXCEPT !.tool = <<"search">>]}
    \cup {Flagged(provider, <<"search">>, desc, "bridge") :
             provider \in {"docs", "native"},
             desc \in {Good, Desc(10, "", FALSE), Desc(9, "", FALSE), Desc(121, "", FALSE),
                       Desc(40, "search", FALSE), Desc(40, "", TRUE)}}
    \cup {Configured(Unreadable)}
    \cup {Configured(File(provider, program, tools)) :
             provider \in {"docs", " "}, program \in {"bridge", " "},
             tools \in {<<>>, <<GitLog, ToolOf("search", Good)>>, <<GitLog, NativeGitLog>>,
                        <<ToolOf("search", Good), ToolOf("search", Good)>>,
                        <<ToolOf(" ", Good)>>, <<ToolOf("search", Desc(0, "", FALSE))>>}}

-----------------------------------------------------------------------------
(* Requests *)

Fs(form, path) == [form |-> form, closed |-> TRUE, absolute |-> TRUE, arg |-> path]
Verb(form) == [form |-> form, arg |-> NoArg]
ToolName ==
    {<<"git_diff">>, <<"git_log">>, <<"read_file">>, <<"search">>, <<"docs", "git_log">>,
     <<"native", "git_log">>}
ToolWire(name) == [form |-> "tool", arg |-> name]
NotClosed == [form |-> "fs.read", closed |-> FALSE, absolute |-> TRUE, arg |-> Ws]

Opens ==
    [workspace : {Ws}, tier : {"dev-none", "kernel-lsm"},
     capabilities :
        {{Verb("proc.spawn"), Fs("fs.write", Src), Fs("fs.read", Data)},
         {ToolWire(<<"git_log">>), ToolWire(<<"docs", "git_log">>), Fs("fs.write", Sheet)},
         {ToolWire(<<"search">>), Fs("fs.read", Opt)}}]
    \cup [workspace : {Ws}, tier : {"container", "process-token"},
          capabilities : {{Verb("proc.spawn")}}]
    \cup [workspace : {Ws, Nowhere}, tier : {"dev-none"}, capabilities : {{NotClosed}, {}}]

Calls ==
    {[name |-> name, params |-> << >>] :
        name \in {<<"git_log">>, <<"native", "git_log">>, <<"docs", "git_log">>, <<"search">>}}
    \cup {[name |-> <<"read_file">>, params |-> params] : params \in {<< >>, "path" :> "note"}}

Payloads ==
    {[kind |-> "command"]} \cup [kind : {"code"}, good : BOOLEAN]
    \cup {[kind |-> "capability", name |-> c.name, params |-> c.params] : c \in Calls}

Starts ==
    [payload : Payloads, cwd : {Ws, Src}, capabilities : {{}}]
    \cup [payload : {[kind |-> "command"], [kind |-> "code", good |-> TRUE]},
          cwd : {Note, Data, Nowhere}, capabilities : {{}}]
    \cup [payload : {[kind |-> "command"], [kind |-> "code", good |-> TRUE]}, cwd : {Ws},
          capabilities : {{NotClosed}, {Fs("fs.write", Src)}, {Fs("fs.write", Ws)},
                          {Fs("fs.read", Sheet)}, {ToolWire(<<"git_log">>)}}]

=============================================================================
