------------------------------ MODULE MCLoader ------------------------------
(* Loader for TLC: the directory trees to check.                             *)
EXTENDS Loader

Strings == STRING

Eproc  == <<".", "p">>     \* .eproc
Plugin == <<".", "n">>     \* a suffix that ends with a letter of .json

Json   == <<"json">>
Both   == <<"json", "yaml">>

SourceOf(tree_, suffix_, decoders_) == [tree |-> tree_, suffix |-> suffix_, decoders |-> decoders_]

File(dir_, base_, doc_) ==
  [kind |-> "file", dir |-> dir_, base |-> base_, doc |-> doc_,
   executable |-> FALSE, readable |-> TRUE, valid |-> TRUE]

Script(dir_, base_) == [File(dir_, base_, Blank) EXCEPT !.executable = TRUE]

Scalar(word) == [form |-> "scalar", words |-> <<word>>]
List(words_) == [form |-> "list", words |-> words_]

Runs ==
  {Absent, List(<<>>), List(<<"a", "b">>), Scalar("s"), Scalar(""),
   [form |-> "null", words |-> <<>>], [form |-> "number", words |-> <<"7">>]}

ParamOf(type_, stdin_, isTmpFile_) ==
  [type |-> type_, stdin |-> stdin_, isInput |-> FALSE, isTmpFile |-> isTmpFile_]

OutputOf(name_, type_, isTmpFile_) == [name |-> name_, type |-> type_, isTmpFile |-> isTmpFile_]

\* What a manifest may say.
Docs ==
  {[Blank EXCEPT !.driver = driver, !.mode = mode, !.run = run, !.command = command,
                 !.args = args, !.docker = docker] :
     driver \in {"", "shell", "exec", "docker", "goplugin"}, mode \in {"", "call", "stream"},
     run \in Runs, command \in {Absent, Scalar("c")}, args \in {<<>>, <<"x">>},
     docker \in BOOLEAN}
  \cup
  {[Blank EXCEPT !.params = params, !.output = output, !.type = type, !.interface = interface] :
     params \in {<<>>, <<ParamOf("string", FALSE, FALSE), ParamOf("binary", TRUE, FALSE)>>,
                 <<ParamOf("file", FALSE, FALSE), ParamOf("binary", FALSE, TRUE)>>},
     output \in {OutputOf("", "line", FALSE), OutputOf("", "file", FALSE), OutputOf("o", "file", FALSE),
                 OutputOf("o", "", TRUE), OutputOf("", "", TRUE)},
     type \in {"", "shell"}, interface \in {"", "default", "stream"}}

\* One manifest of every kind, in either format, and the script run.
Manifests ==
  {SourceOf(<<File(<<"d">>, Eproc \o ext, doc), Script(<<"d">>, <<"r", ".", "s">>)>>, Eproc, Both) :
     ext \in {JSON, YAML}, doc \in Docs}

\* A script with an extension or without, one of the name of the procedure, and
\* one that only begins with that name.
ScriptFiles ==
  <<Script(<<"d">>, <<"a">>), Script(<<"d">>, <<"a", "b">>), Script(<<"d">>, <<"d", ".", "s">>),
    Script(<<"d">>, <<"e">>), Script(<<"d">>, <<"m", ".", "s">>), Script(<<"d">>, <<"r", ".", "s">>),
    Script(<<"z">>, <<"a">>)>>

\* One manifest in a directory with any of these scripts, all or none executable.
Scripted ==
  {SourceOf(<<File(<<"d">>, before \o Eproc \o JSON, Blank)>>
            \o SelectSeq([i \in 1..7 |-> [ScriptFiles[i] EXCEPT !.executable = i \in runnable]],
                         LAMBDA f : f.executable \/ keep),
          Eproc, Json) :
     before \in {<<>>, <<"a">>, <<"r">>}, keep \in BOOLEAN, runnable \in SUBSET (1..7)}

\* A manifest in a directory whose name is a pattern of the other's, and one in
\* that other directory, each with or without a script; and one whose own name is
\* a pattern.
Patterns ==
  {SourceOf(<<File(<<"d", "1">>, Eproc \o JSON, Blank),
              [File(<<"d", "1">>, <<"r", ".", "s">>, Blank) EXCEPT !.executable = one],
              File(<<"d", letter>>, before \o Eproc \o JSON, Blank),
              [File(<<"d", letter>>, before \o <<".", "s">>, Blank) EXCEPT !.executable = two],
              [File(<<"d", letter>>, <<"r">>, Blank) EXCEPT !.executable = three]>>,
            Eproc, Json) :
     letter \in {"?", "[1]", "[", "a"}, before \in {<<"a">>, <<"[1]">>, <<"?">>},
     one \in BOOLEAN, two \in BOOLEAN, three \in BOOLEAN}

Shell == [Blank EXCEPT !.driver = "shell", !.run = Scalar("s")]
Named == [Shell EXCEPT !.name = <<"b">>]

\* Every name that a file may have, good or bad, before another manifest.
Entries ==
  {File(<<"d">>, before \o suffix_ \o ext, doc) :
     before \in {<<>>, <<"a">>, <<"j">>, <<"a", ".", "n">>}, suffix_ \in {Eproc, Plugin},
     ext \in {JSON, YAML, <<".", "b">>, <<>>}, doc \in {Shell, Named}}

Named2 ==
  {SourceOf(<<[f EXCEPT !.readable = readable, !.valid = valid], File(<<"z">>, suffix_ \o JSON, Shell)>>,
          suffix_, decoders_) :
     f \in Entries, suffix_ \in {Eproc, Plugin}, decoders_ \in {Json, Both, <<"yaml", "json">>},
     readable \in BOOLEAN, valid \in BOOLEAN}

\* What is no file at all.
Others ==
  {SourceOf(<<[File(<<"d">>, Eproc \o JSON, Shell) EXCEPT !.kind = kind],
            File(<<"d">>, <<"a">> \o Eproc \o JSON, Shell)>>, Eproc, Json) : kind \in {"dir", "error"}}

AllSources == Manifests \cup Scripted \cup Patterns \cup Named2 \cup Others

\* Manifests that are loaded, one of them with more than one word.
Argv ==
  {SourceOf(<<File(<<"d">>, Eproc \o JSON, [Shell EXCEPT !.run = List(<<"a", "b">>), !.mode = mode])>>,
          Eproc, Json) : mode \in {"call", "stream"}}

==============================================================================
