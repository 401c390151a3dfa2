-------------------------------- MODULE Loader --------------------------------
(***************************************************************************)
(* The filesystem loader (loader/fs): Load walks a directory tree in       *)
(* lexical order, decodes and normalizes every manifest, gives it a name   *)
(* and looks for its script.                                               *)
(*                                                                         *)
(* The base name of a file is a sequence of letters, because its name and  *)
(* its extension are found by trimming letters.                            *)
(***************************************************************************)
EXTENDS Manifest, SequencesExt, FiniteSetsExt

CONSTANT Sources   \* the trees, with the options of the loader, to check

\* An entry of a tree: kind; dir, the directory it is in; base, its name; doc,
\* what it says; and whether it is executable, readable and valid in its format.
\* No directory has a "*" in its name: it would match more than "?" does.
Entry ==
  [kind : {"file", "dir", "error"}, dir : Seq(Text \ {"*"}), base : Seq(Text), doc : Document,
   executable : BOOLEAN, readable : BOOLEAN, valid : BOOLEAN]

\* tree, its entries in the order of the walk; suffix, procMetaSuffix; decoders,
\* what WithDecoder was given.
Source == [tree : Seq(Entry), suffix : Seq(Text), decoders : Seq({"json", "yaml"})]

ASSUME LoaderAssumption == Sources \subseteq Source

JSON    == <<".", "j", "n">>     \* short for .json
YAML    == <<".", "y", "l">>     \* .yaml and .yml
Scripts == <<<<"r">>, <<"e">>, <<"m">>>>  \* run, exec, main: defaultScriptNames

VARIABLES
  source,    \* what is loaded
  at,        \* the entry the walk has come to
  procs,     \* the manifests loaded so far
  outcome    \* "none" until Load returns "ok" or "err"

loading == <<at, procs, outcome>>
loader  == <<source, at, procs, outcome>>

InitLoader ==
  /\ source \in Sources
  /\ at = 1 /\ procs = <<>> /\ outcome = "none"

------------------------------------------------------------------------------
(* Names of files *)
Ext(base) ==
  LET dots == {i \in 1..Len(base) : base[i] = "."} IN
  IF dots = {} THEN <<>> ELSE SubSeq(base, Max(dots), Len(base))

Stem(base) == SubSeq(base, 1, Len(base) - Len(Ext(base)))

\* strings.TrimRight: letters of a set, as many as there are.
TrimRight(s, letters) ==
  SubSeq(s, 1, Max({0} \cup {i \in 1..Len(s) : s[i] \notin ToSet(letters)}))

TrimSuffix(s, suffix) ==
  IF IsSuffix(suffix, s) THEN SubSeq(s, 1, Len(s) - Len(suffix)) ELSE s

IsManifest(file) == file.kind = "file" /\ IsSuffix(source.suffix, Stem(file.base))

\* Mutant of NameOf: a manifest in the directory form has no name of its own.
NameOfFile(file) == TrimSuffix(TrimRight(file.base, Ext(file.base)), source.suffix)

NameOf(file) ==
  LET base == TrimRight(file.base, Ext(file.base)) IN
  IF base = source.suffix THEN file.dir ELSE TrimSuffix(base, source.suffix)

------------------------------------------------------------------------------
(* loadManifest *)
Supports(decoder, ext) == ext = IF decoder = "json" THEN JSON ELSE YAML

\* The first decoder that can decode the file: MultiDecoder, and 0 for its error.
DecoderOf(file) ==
  SelectInSeq(source.decoders, LAMBDA d :
    /\ Supports(d, Ext(file.base)) /\ file.valid
    /\ Decodable(d, file.doc.run) /\ Decodable(d, file.doc.command))

Loadable(file) == file.readable /\ DecoderOf(file) > 0

Manifest(file) ==
  LET m == Decode(source.decoders[DecoderOf(file)], file.doc) IN
  Normalize(IF m.name = <<>> THEN [m EXCEPT !.name = NameOf(file)] ELSE m)

------------------------------------------------------------------------------
(* findExecutable *)

\* What filepath.Glob reads in a pattern that is not a letter for itself: "?" is
\* any letter; "[1]" stands for a class, and for a letter behind a backslash; "["
\* for a bracket without its end, which makes the whole pattern a bad one.
Special == {"?", "[1]", "["}

Denotes(letter) ==
  CASE letter = "?"   -> Text \ {"[1]"}
    [] letter = "[1]" -> {"1"}
    [] letter = "["   -> {}
    [] OTHER          -> {letter}

Matches(pattern, s) ==
  Len(pattern) = Len(s) /\ \A i \in 1..Len(pattern) : s[i] \in Denotes(pattern[i])

\* The first executable of that name, with any extension; 0 if there is none.
\* Both dir and name are part of a pattern, and not quoted for it: the files are
\* those of any directory that dir matches, and name has to match itself.
FindExec(dir, name) ==
  SelectInSeq(source.tree, LAMBDA f :
    /\ f.kind = "file" /\ Matches(dir, f.dir)
    /\ Matches(name, name) /\ Stem(f.base) = name /\ f.executable)

\* Mutant of Candidates: the conventional names come first.
CandidatesDefaultFirst(name) == Append(Scripts, name)

Candidates(name) == <<name>> \o Scripts

\* The entry of the script of a procedure; 0 if it has none.
FindExecutable(dir, name) ==
  LET k == SelectInSeq(Candidates(name), LAMBDA s : FindExec(dir, s) > 0) IN
  IF k = 0 THEN 0 ELSE FindExec(dir, Candidates(name)[k])

Path(file) == <<file.dir, file.base>>

NeedsScript(m) == CommandIsEmpty(m) /\ m.driver = "exec"

------------------------------------------------------------------------------
(* Load *)
Current == source.tree[at]
Walking == outcome = "none" /\ at <= Len(source.tree)

\* What is not a manifest, and what cannot be visited, is passed over.
Skip ==
  /\ Walking /\ ~IsManifest(Current)
  /\ at' = at + 1
  /\ UNCHANGED <<source, procs, outcome>>

Found(m) ==
  /\ procs' = Append(procs, [m EXCEPT !.directory = Current.dir])
  /\ at'    = at + 1
  /\ UNCHANGED <<source, outcome>>

Load ==
  /\ Walking /\ IsManifest(Current) /\ Loadable(Current)
  /\ ~NeedsScript(Manifest(Current))
  /\ Found(Manifest(Current))

\* An exec procedure without a command becomes a shell procedure.
Discover ==
  LET m == Manifest(Current)
      k == FindExecutable(Current.dir, m.name)
  IN
  /\ Walking /\ IsManifest(Current) /\ Loadable(Current)
  /\ NeedsScript(m) /\ k > 0
  /\ Found([m EXCEPT !.command = <<Path(source.tree[k])>>, !.driver = "shell"])

\* Mutant of LoadFails: what cannot be loaded is passed over.
LoadFailsSkip ==
  /\ Walking /\ IsManifest(Current) /\ ~Loadable(Current)
  /\ at' = at + 1
  /\ UNCHANGED <<source, procs, outcome>>

\* One manifest that cannot be read or decoded, or has no script, ends the walk.
LoadFails ==
  /\ Walking /\ IsManifest(Current)
  /\ Loadable(Current) =>
       /\ NeedsScript(Manifest(Current))
       /\ FindExecutable(Current.dir, Manifest(Current).name) = 0
  /\ outcome' = "err"
  /\ UNCHANGED <<source, at, procs>>

Finish ==
  /\ outcome = "none" /\ at > Len(source.tree)
  /\ outcome' = "ok"
  /\ UNCHANGED <<source, at, procs>>

Walk == Skip \/ Load \/ Discover \/ LoadFails \/ Finish

LoaderSpec == InitLoader /\ [][Walk]_loader

------------------------------------------------------------------------------
(* Properties *)

\* The files that the README calls manifests: a name, or no name at all, then the
\* suffix and the extension of a known format.
IsDocumented(f) ==
  /\ f.kind = "file"
  /\ \E ext \in {JSON, YAML} : IsSuffix(source.suffix \o ext, f.base)

\* Those of the walk so far, and the place of each in the order of the walk.
Documented == {j \in 1..(at - 1) : IsDocumented(source.tree[j])}

Place(j) == Cardinality({l \in Documented : l <= j})

\* A loaded manifest has a driver and a mode that are not the old spellings, and
\* there are no more manifests than files (Normalize).
LoaderTypeOK ==
  /\ at \in 1..Len(source.tree) + 1
  /\ Len(procs) < at
  /\ outcome \in {"none", "ok", "err"}
  /\ \A i \in DOMAIN procs :
       procs[i].driver # "" /\ procs[i].mode \notin {"", "default"}

\* Load returns either an error or every manifest of the tree, in the order of
\* the walk, each with the directory it was found in (Load, Walk's callback).
NothingSkipped ==
  /\ Len(procs) = Cardinality(Documented)
  /\ \A j \in Documented : procs[Place(j)].directory = source.tree[j].dir

\* A procedure is called what its manifest says, or what its file is called
\* before the suffix, or as its directory when there is nothing before it
\* (loadManifest).  Not stated of a suffix that ends with a letter of the
\* extension, of which the code trims more than it should.
NameRight ==
  NothingSkipped => \A j \in Documented :
    LET f      == source.tree[j]
        ext    == Ext(f.base)
        before == SubSeq(f.base, 1, Len(f.base) - Len(source.suffix \o ext))
    IN
    source.suffix # <<>> /\ Last(source.suffix) \notin ToSet(ext) =>
      procs[Place(j)].name = IF f.doc.name # <<>> THEN f.doc.name
                             ELSE IF before # <<>> THEN before ELSE f.dir

\* The place of a script in the order of the README: the name of the procedure,
\* run, exec, main.
Rank(name, f) ==
  IF ~(f.kind = "file" /\ f.executable) THEN 5
  ELSE IF Stem(f.base) = name THEN 1
  ELSE IF Stem(f.base) = Scripts[1] THEN 2
  ELSE IF Stem(f.base) = Scripts[2] THEN 3
  ELSE IF Stem(f.base) = Scripts[3] THEN 4 ELSE 5

Plain(s) == \A i \in 1..Len(s) : s[i] \notin Special

\* What runs is what run says, or else command; an exec procedure that says
\* neither runs the script that comes first in the README's order, of those in
\* its own directory (findExecutable).  Not stated of run: null or command: null,
\* which a JSON manifest takes for the empty command, nor of a directory or a name
\* that means something else when it is read as a pattern.
DiscoveryRight ==
  NothingSkipped => \A j \in Documented :
    LET m     == procs[Place(j)]
        doc   == source.tree[j].doc
        given == IF doc.run.words = <<>> THEN doc.command.words ELSE doc.run.words
        here  == {f \in ToSet(source.tree) : f.dir = m.directory}
    IN
    /\ doc.run.form # "null" /\ doc.command.form # "null"
    /\ Plain(m.directory) /\ Plain(m.name)
    => IF given \in {<<>>, <<"">>} /\ Or(doc.driver, Or(doc.type, "exec")) = "exec"
       THEN \E f \in here :
              /\ m.command = <<Path(f)>>
              /\ Rank(m.name, f) < 5
              /\ \A g \in here : Rank(m.name, f) <= Rank(m.name, g)
       ELSE m.command = given

IsArgv(node) == node.form = "list" /\ node.words # <<>>

LegacyParam(p) == [p EXCEPT !.stdin = FALSE, !.isInput = p.isInput \/ p.stdin]

\* A manifest in the old spelling: type for driver, interface for mode, is_input
\* for stdin, is_tmp_file for an output of type file, command for a run
\* that is a list.
Legacy(doc, old) ==
  [doc EXCEPT
     !.driver    = IF "driver" \in old THEN "" ELSE @,
     !.type      = IF "driver" \in old THEN Or(doc.driver, @) ELSE @,
     !.mode      = IF "mode" \in old THEN "" ELSE @,
     !.interface = IF "mode" \in old
                   THEN Or(IF doc.mode = "call" THEN "default" ELSE doc.mode, @) ELSE @,
     !.params    = IF "stdin" \in old THEN [i \in DOMAIN @ |-> LegacyParam(@[i])] ELSE @,
     !.output    = IF "output" \in old /\ @.type = "file"
                   THEN [@ EXCEPT !.type = "", !.isTmpFile = TRUE] ELSE @,
     !.run       = IF "run" \in old /\ IsArgv(@) THEN Absent ELSE @,
     !.command   = IF "run" \in old /\ IsArgv(doc.run) THEN doc.run ELSE @]

\* A loaded manifest means the same whichever of its fields are spelt in the old
\* way (Normalize, newDriver, proc.Exec).
LegacyAccepted ==
  NothingSkipped => \A j \in Documented :
    \A old \in SUBSET {"driver", "mode", "stdin", "output", "run"} :
      LET f == source.tree[j] IN
      Plan(Manifest([f EXCEPT !.doc = Legacy(f.doc, old)])) = Plan(Manifest(f))

\* Normalize may be called again at any time and changes nothing (its comment).
\* Not stated of a run that is empty and not absent: the script that Load found
\* would be dropped again.
NormalizedOnce ==
  \A i \in DOMAIN procs :
    procs[i].run.parts # <<"">> => Normalize(procs[i]) = procs[i]

\* What is run is what run and args say, each element an argument of its own:
\* README.md:82 and 116.  The code does not keep to it.
ArgvRuns ==
  \A i \in DOMAIN procs :
    Kind(procs[i]) # "none" => Words(procs[i]) = procs[i].command \o procs[i].args

==============================================================================
