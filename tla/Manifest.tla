------------------------------- MODULE Manifest -------------------------------
(***************************************************************************)
(* A manifest from the file to the driver: how run and command are decoded *)
(* and what Normalize makes of old field names (manifest/manifest.go),     *)
(* which driver is built (proc.go, newDriver) and what that driver starts. *)
(*                                                                         *)
(* A document is a manifest as written: run and command are nodes, a form  *)
(* and its words.  A field that is not there has the zero value, as after  *)
(* new(manifest.Manifest).  Names are sequences of letters.                *)
(***************************************************************************)
EXTENDS Naturals, Sequences

CONSTANT Text   \* what a field of a manifest may say

ASSUME TextAssumption == {"", "exec", "shell", "call", "default", "file", "out"} \subseteq Text

\* A list has any number of words, a scalar one, what is not there none.
Node ==
  {node \in [form : {"absent", "scalar", "list", "null", "number"}, words : Seq(Text)] :
     /\ node.form \in {"absent", "null"} => node.words = <<>>
     /\ node.form \in {"scalar", "number"} => Len(node.words) = 1}

Param  == [type : Text, stdin : BOOLEAN, isInput : BOOLEAN, isTmpFile : BOOLEAN]
Output == [name : Text, type : Text, isTmpFile : BOOLEAN]

Document ==
  [name : Seq(Text), directory : {<<>>}, driver : Text, type : Text, mode : Text,
   interface : Text, run : Node, command : Node, args : Seq(Text), params : Seq(Param),
   output : Output, docker : BOOLEAN, scriptMode : {FALSE}]

Absent == [form |-> "absent", words |-> <<>>]

Blank ==
  [name |-> <<>>, directory |-> <<>>, driver |-> "", type |-> "", mode |-> "",
   interface |-> "", run |-> Absent, command |-> Absent, args |-> <<>>, params |-> <<>>,
   output |-> [name |-> "", type |-> "", isTmpFile |-> FALSE], docker |-> FALSE,
   scriptMode |-> FALSE]

------------------------------------------------------------------------------
(* Decoding *)

\* A JSON number is neither a string nor a list of strings; a YAML scalar is
\* taken as it is written.
Decodable(format, node) == node.form = "number" => format = "yaml"

\* A scalar is one part.  encoding/json hands null to UnmarshalJSON, which
\* decodes it to the empty string; yaml.v3 leaves the field alone.
Parts(format, node) ==
  IF node.form = "null" /\ format = "json" THEN <<"">> ELSE node.words

RunSpec(format, node) ==
  [parts    |-> Parts(format, node),
   isScript |-> node.form # "list" /\ Parts(format, node) # <<>>]

Decode(format, doc) ==
  [doc EXCEPT !.run = RunSpec(format, @), !.command = Parts(format, @)]

CommandIsEmpty(m) == m.command \in {<<>>, <<"">>}

------------------------------------------------------------------------------
(* Normalize *)
Or(value, default) == IF value = "" THEN default ELSE value

\* Mutant of NormalMode: the old name of call mode is taken for a mode.
NormalModeDefault(mode, interface) == Or(Or(mode, interface), "call")

\* Mutant of NormalMode: the default is filled in before interface is promoted.
NormalModeEarly(mode, interface) ==
  IF mode \in {"", "default"} THEN Or("call", interface) ELSE mode

NormalMode(mode, interface) ==
  IF Or(mode, interface) \in {"", "default"} THEN "call" ELSE Or(mode, interface)

NormalParam(p) == [p EXCEPT !.stdin = p.stdin \/ p.isInput]

\* Mutant of NormalOutput: the macro is named before the type is promoted.
NormalOutputEarly(o) ==
  [o EXCEPT !.name = IF o.type = "file" THEN Or(o.name, "out") ELSE o.name,
            !.type = IF o.isTmpFile THEN Or(o.type, "file") ELSE o.type]

NormalOutput(o) ==
  LET type == IF o.isTmpFile THEN Or(o.type, "file") ELSE o.type IN
  [o EXCEPT !.type = type,
            !.name = IF type = "file" THEN Or(o.name, "out") ELSE o.name]

Normalize(m) ==
  [m EXCEPT
     !.command    = IF m.run.parts = <<>> THEN m.command ELSE m.run.parts,
     !.scriptMode = IF m.run.parts = <<>> THEN m.scriptMode ELSE m.run.isScript,
     !.driver     = Or(Or(m.driver, m.type), "exec"),
     !.mode       = NormalMode(m.mode, m.interface),
     !.params     = [i \in 1..Len(m.params) |-> NormalParam(m.params[i])],
     !.output     = NormalOutput(m.output)]

------------------------------------------------------------------------------
(* newDriver, if the client of a docker driver can be made, and what an Exec *)
(* with that driver starts.                                                  *)
Kind(m) ==
  CASE m.driver \in {"shell", "exec"}      -> "shell"
    [] m.driver = "docker" /\ m.docker     -> "docker"
    [] OTHER                               -> "none"

IsStream(m) == m.mode = "stream"

\* The words that are run.  The shell drivers give bash a script: in call mode
\* all the words joined, in stream mode the first of them, the others being its
\* positional parameters.  The docker drivers are not given the args.
Words(m) ==
  LET all == m.command \o m.args IN
  CASE Kind(m) = "shell" /\ ~IsStream(m) -> all
    [] Kind(m) = "shell" /\ IsStream(m)  -> SubSeq(all, 1, IF all = <<>> THEN 0 ELSE 1)
    [] Kind(m) = "docker"                -> m.command
    [] OTHER                             -> <<>>

\* What an Exec does with a parameter: does it go to stdin, and is its macro the
\* path of a temp file?
ParamUse(p) ==
  [stdin |-> p.stdin,
   path  |-> p.type = "file" \/ (p.type = "binary" /\ p.isTmpFile)]

\* The data the output is read as, and the macro for the path of its temp file.
OutputUse(o) ==
  [type |-> IF o.type = "file" THEN "binary" ELSE o.type,
   path |-> IF o.type \in {"file", "binary"} /\ (o.type = "file" \/ o.isTmpFile)
            THEN o.name ELSE ""]

Plan(m) ==
  [kind   |-> Kind(m), stream |-> IsStream(m), words |-> Words(m),
   quoted |-> ~m.scriptMode,
   params |-> [i \in 1..Len(m.params) |-> ParamUse(m.params[i])],
   output |-> OutputUse(m.output)]

==============================================================================
