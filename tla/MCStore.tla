------------------------------- MODULE MCStore -------------------------------
(* Store for TLC: the trees to load and the manifests to register.           *)
EXTENDS Store, MCLoader

Symmetry == Permutations(Callers)

Stream == [Shell EXCEPT !.mode = "stream"]
Docker   == [Stream EXCEPT !.driver = "docker", !.docker = TRUE]
Goplugin == [Shell EXCEPT !.driver = "goplugin"]

Pair(one, other) ==
  SourceOf(<<File(<<"d">>, <<"a">> \o Eproc \o JSON, one), File(<<"z">>, <<"a">> \o Eproc \o JSON, other)>>,
           Eproc, Json)

\* Procedures of two names and of one, in both modes; one in a container; one
\* that has no driver, after one that has; one that cannot be loaded.
Trees ==
  {Pair(Stream, [Stream EXCEPT !.name = <<"b">>]), Pair(Shell, Stream), Pair(Stream, Docker), Pair(Stream, Goplugin),
   Pair(Stream, [Blank EXCEPT !.driver = "exec"])}

Registered ==
  {Normalize(Decode("json", [Stream EXCEPT !.name = name])) : name \in {<<"a">>, <<"c">>}}

==============================================================================
