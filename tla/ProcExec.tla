------------------------------- MODULE ProcExec -------------------------------
(***************************************************************************)
(* One Exec of a procedure (proc.go) with a shell driver, of call or of    *)
(* stream mode, and what it does with its resources: temp files for        *)
(* parameters of type file and for an output of type file (driver/param.go,*)
(* driver/tmpfile.go), readers given as values (driver/params.go), and the *)
(* output value, which the caller may keep (driver/output.go).  Every      *)
(* failure on the way is a step.                                           *)
(*                                                                         *)
(* Temp file i is that of parameter i, temp file 0 that of the output.     *)
(***************************************************************************)
EXTENDS Naturals, Sequences

CONSTANT MaxParams    \* bound: parameters of the procedure

Types  == {"file", "json", "string"}
Values == {"text", "reader", "bad"}
Kinds  == [type : Types, stdin : BOOLEAN, value : Values]

ASSUME ProcAssumption == MaxParams \in Nat

VARIABLES
  mode,     \* "call" or "stream": the driver of the procedure
  params,   \* dparams: "text" is read afresh each time, a "reader" once, and
            \* "bad" cannot be marshalled
  outFile,  \* out.IsTmpFilepath
  target,   \* "handle" for a *io.Reader and its like, "writer" for the rest
  pc,       \* where Exec is
  pass,     \* which PrepareMacros: 1 for the command, 2 for the arguments
  i,        \* the parameter it, or Release, has come to
  path,     \* the parameters with a tempFilepath
  files,    \* the temp files that exist
  whole,    \* those that were written in full
  drained,  \* parameters whose reader has been read
  outPath,  \* is out.tempFilepath set?
  value,    \* out.Value: "nil", "buffer" or "file"
  stdin,    \* parameters whose whole value the process can read from stdin
  exit,     \* how the process ended
  outcome,  \* what Exec returns
  handle    \* out.Value in the hands of the caller: "none", "buffer", "file"

vars == <<mode, params, outFile, target, pc, pass, i, path, files, whole, drained,
          outPath, value, stdin, exit, outcome, handle>>
config == <<mode, params, outFile, target>>

Inputs == 1..Len(params)
FirstStep == IF mode = "call" THEN "macros" ELSE "input"

Init ==
  /\ mode \in {"call", "stream"}
  /\ params \in UNION {[1..k -> Kinds] : k \in 0..MaxParams}
  /\ outFile \in BOOLEAN /\ target \in {"handle", "writer"}
  /\ pc = "start" /\ pass = 1 /\ i = 1
  /\ path = {} /\ files = {} /\ whole = {} /\ drained = {}
  /\ outPath = FALSE /\ value = "nil" /\ stdin = {}
  /\ exit = "none" /\ outcome = "none" /\ handle = "none"

\* Mutant of Return: nothing is deferred.
ReturnWithoutRelease(how) ==
  /\ pc'      = "returned"
  /\ i'       = 1
  /\ outcome' = how

\* A return runs the deferred dparams.Release.
Return(how) ==
  /\ pc'      = "release"
  /\ i'       = 1
  /\ outcome' = how

------------------------------------------------------------------------------
(* Exec: the count of the parameters is checked, then the driver runs. The *)
(* stream driver replaces no macros.                                       *)
CheckCount ==
  /\ pc = "start"
  /\ \/ pc' = FirstStep /\ UNCHANGED <<i, outcome>>
     \/ Return("err")
  /\ UNCHANGED <<config, pass, path, files, whole, drained, outPath, value, stdin, exit, handle>>

\* Mutant of Fresh: a text too is consumed by whoever reads it first.
FreshOnce(k) == k \notin drained

\* Param.Binary hands out the reader itself; who reads it second gets nothing.
Fresh(k) == params[k].value = "text" \/ k \notin drained

\* Mutant of NeedsFile: the file is written again for the second PrepareMacros.
NeedsFileAgain(k) == params[k].type = "file"

\* A parameter of type file is written when its path is first asked for.
NeedsFile(k) == params[k].type = "file" /\ k \notin path

PrepareFile ==
  /\ pc = "macros" /\ i \in Inputs /\ NeedsFile(i)
  /\ params[i].value # "bad"
  /\ path'    = path \cup {i}
  /\ files'   = files \cup {i}
  /\ drained' = drained \cup {i}
  /\ whole'   = IF Fresh(i) THEN whole \cup {i} ELSE whole \ {i}
  /\ i'       = i + 1
  /\ UNCHANGED <<config, pc, pass, outPath, value, stdin, exit, outcome, handle>>

\* The file cannot be created, or not be written; its path is kept either way.
PrepareFileFails ==
  /\ pc = "macros" /\ i \in Inputs /\ NeedsFile(i)
  /\ params[i].value # "bad"
  /\ path' = path \cup {i}
  /\ \/ UNCHANGED <<files, drained>>
     \/ files' = files \cup {i} /\ drained' = drained \cup {i}
  /\ Return("err")
  /\ UNCHANGED <<config, pass, whole, outPath, value, stdin, exit, handle>>

\* There is no text for the value, or no unused name for its file.
PrepareFails ==
  /\ pc = "macros" /\ i \in Inputs
  /\ \/ NeedsFile(i)
     \/ params[i].type = "json" /\ params[i].value = "bad"
  /\ Return("err")
  /\ UNCHANGED <<config, pass, path, files, whole, drained, outPath, value, stdin, exit, handle>>

PrepareText ==
  /\ pc = "macros" /\ i \in Inputs /\ ~NeedsFile(i)
  /\ params[i].type = "json" => params[i].value # "bad"
  /\ i' = i + 1
  /\ UNCHANGED <<config, pc, pass, path, files, whole, drained, outPath, value, stdin, exit,
                 outcome, handle>>

\* Mutant of PrepareOutput: the macros are prepared over and over.
PrepareOutputAgain ==
  /\ pc = "macros" /\ i = Len(params) + 1
  /\ outPath' = outFile /\ pass' = pass + 1 /\ i' = 1
  /\ UNCHANGED <<config, pc, path, files, whole, drained, value, stdin, exit, outcome, handle>>

\* The synthetic parameter of WithOutput comes last; it only reserves a name.
PrepareOutput ==
  /\ pc = "macros" /\ i = Len(params) + 1
  /\ outPath' = outFile
  /\ IF pass = 1 THEN pass' = 2 /\ i' = 1 /\ UNCHANGED pc
                 ELSE pc' = "input" /\ UNCHANGED <<pass, i>>
  /\ UNCHANGED <<config, path, files, whole, drained, value, stdin, exit, outcome, handle>>

PrepareOutputFails ==
  /\ pc = "macros" /\ i = Len(params) + 1
  /\ outFile /\ ~outPath
  /\ Return("err")
  /\ UNCHANGED <<config, pass, path, files, whole, drained, outPath, value, stdin, exit, handle>>

\* InputStream concatenates the readers, Target makes the buffer for stdout.
Input ==
  LET ins == {k \in Inputs : params[k].stdin} IN
  /\ pc = "input"
  /\ IF \E k \in ins : params[k].value = "bad"
     THEN Return("err") /\ UNCHANGED <<stdin, drained, value>>
     ELSE /\ stdin'   = {k \in ins : Fresh(k)}
          /\ drained' = drained \cup ins
          /\ value'   = "buffer"
          /\ pc'      = "run"
          /\ UNCHANGED <<i, outcome>>
  /\ UNCHANGED <<config, pass, path, files, whole, outPath, exit, handle>>

\* The process may fail at any point, having written its output file or not; it
\* may also remove the files it was given, as mv does.
Run ==
  /\ pc = "run"
  /\ \E removed \in SUBSET (files \cap Inputs),
        made \in IF outPath THEN {{}, {0}} ELSE {{}} :
          files' = (files \ removed) \cup made
  /\ \/ exit' = "ok" /\ pc' = "map" /\ UNCHANGED <<i, outcome>>
     \/ exit' = "err" /\ Return("err")
  /\ UNCHANGED <<config, pass, path, whole, drained, outPath, value, stdin, handle>>

\* MappingResult: the output file is opened, and then out.Value is given to
\* the caller, or copied or decoded, which may fail.
Map ==
  /\ pc = "map"
  /\ pc' = "mapped"
  /\ LET found == IF ~outPath THEN "buffer" ELSE IF 0 \in files THEN "file" ELSE "nil" IN
       \/ /\ found = "nil"
          /\ value' = "nil" /\ outcome' = "err"
          /\ UNCHANGED handle
       \/ /\ found # "nil" /\ target = "handle"
          /\ handle' = found /\ value' = "nil" /\ outcome' = "ok"
       \/ /\ found # "nil" /\ target = "writer"
          /\ value' = found /\ outcome' \in {"ok", "err"}
          /\ UNCHANGED handle
  /\ UNCHANGED <<config, pass, i, path, files, whole, drained, outPath, stdin, exit>>

\* Mutant of ReleaseOutput: the temp file is closed and not removed.
ReleaseOutputKeeps ==
  /\ pc = "mapped"
  /\ value' = "nil"
  /\ Return(outcome)
  /\ UNCHANGED <<config, pass, path, files, whole, drained, outPath, stdin, exit, handle>>

\* out.Release closes the value; closing a temp file removes it.
ReleaseOutput ==
  /\ pc = "mapped"
  /\ files' = IF value = "file" THEN files \ {0} ELSE files
  /\ value' = "nil"
  /\ Return(outcome)
  /\ UNCHANGED <<config, pass, path, whole, drained, outPath, stdin, exit, handle>>

\* The deferred Release of the parameters, in order: the first file that cannot
\* be removed ends it, and its error is dropped.
ReleaseParam ==
  /\ pc = "release"
  /\ \/ /\ i \in Inputs /\ i \in path \cap files
        /\ files' = files \ {i} /\ path' = path \ {i} /\ i' = i + 1
        /\ UNCHANGED pc
     \/ /\ i \in Inputs /\ i \notin path
        /\ i' = i + 1
        /\ UNCHANGED <<files, path, pc>>
     \/ /\ i \in Inputs => i \in path \ files
        /\ pc' = "returned"
        /\ UNCHANGED <<files, path, i>>
  /\ UNCHANGED <<config, pass, whole, drained, outPath, value, stdin, exit, outcome, handle>>

\* The caller closes what it was given.
CloseHandle ==
  /\ pc = "returned" /\ handle # "none"
  /\ handle' = "none"
  /\ files'  = IF handle = "file" THEN files \ {0} ELSE files
  /\ UNCHANGED <<config, pc, pass, i, path, whole, drained, outPath, value, stdin, exit, outcome>>

Next ==
  \/ CheckCount
  \/ PrepareFile \/ PrepareFileFails \/ PrepareFails \/ PrepareText
  \/ PrepareOutput \/ PrepareOutputFails
  \/ Input \/ Run \/ Map \/ ReleaseOutput \/ ReleaseParam \/ CloseHandle

Spec == Init /\ [][Next]_vars

------------------------------------------------------------------------------
(* Properties *)

\* The shape of the state.
TypeOK ==
  /\ i \in 1..(MaxParams + 1) /\ pass \in 1..2
  /\ path \subseteq Inputs /\ files \subseteq Inputs \cup {0}
  /\ whole \subseteq Inputs /\ drained \subseteq Inputs /\ stdin \subseteq Inputs
  /\ value \in {"nil", "buffer", "file"} /\ handle \in {"none", "buffer", "file"}
  /\ exit \in {"none", "ok", "err"} /\ outcome \in {"none", "ok", "err"}

\* When Exec has returned, no temp file of a parameter is left, whichever step
\* failed: dparams.Release "frees resources held by all params", as far as the
\* first file that the process itself has removed.
ParamsReleased ==
  pc = "returned" =>
    \A k \in files \cap Inputs : \E j \in path \ files : j < k

\* Unless the process failed, the output file is left by Exec only in the hands
\* of the caller, and is gone once he has closed the value he was given: also
\* when the copy or the decoding of the output fails, or nothing was run.
OutputKeptAndReleased ==
  pc = "returned" /\ exit # "err" => (0 \in files <=> handle = "file")

\* When the process of call mode runs, every parameter of type file is in its
\* file, whole, though both PrepareMacros ask for its path.
FilesWhole ==
  pc = "run" /\ mode = "call" =>
    \A k \in Inputs : params[k].type = "file" => k \in whole \cap files

\* When the process runs, every parameter with stdin: true can be read from its
\* standard input, whole, or is a reader that its temp file has used up.
StdinWhole ==
  pc = "run" => \A k \in Inputs : params[k].stdin =>
    k \in stdin \/ (params[k].value = "reader" /\ k \in whole \cap files)

==============================================================================
