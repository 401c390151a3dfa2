---------------------------- MODULE ProcExecProofs ----------------------------
(***************************************************************************)
(* Proofs about ProcExec, for procedures of any number of parameters.      *)
(***************************************************************************)
EXTENDS ProcExec, SequenceTheorems, TLAPS

PCs == {"start", "macros", "input", "run", "map", "mapped", "release", "returned"}

------------------------------------------------------------------------------
(* The invariants                                                          *)

\* The configuration, and where Exec can be.
ConfigOK ==
  /\ mode \in {"call", "stream"} /\ params \in Seq(Kinds) /\ Len(params) <= MaxParams
  /\ outFile \in BOOLEAN /\ target \in {"handle", "writer"}

ShapeInv ==
  /\ ConfigOK /\ pc \in PCs
  /\ i <= Len(params) + 1 /\ outPath \in BOOLEAN

\* The file of a parameter is there only while its path is known, and Release
\* has dealt with the parameters before i.
ReleaseInv ==
  /\ files \cap Inputs \subseteq path
  /\ pc = "release" => \A k \in path : i <= k
  /\ ParamsReleased

\* The output file is made by the process, and then it is in the hands of the
\* Output or in those of the caller.
OutputInv ==
  /\ 0 \in files => outPath
  /\ pc \in {"start", "macros", "input", "run"} => 0 \notin files
  /\ pc \in {"start", "macros", "input", "run", "map"} => handle = "none" /\ outcome = "none"
  /\ pc \in {"start", "macros", "input", "run"} => exit = "none"
  /\ pc \in {"map", "mapped"} => exit = "ok"
  /\ pc = "mapped" =>
       /\ 0 \in files <=> "file" \in {handle, value}
       /\ handle = "none" \/ value = "nil"
  /\ pc \in {"release", "returned"} /\ exit # "err" => (0 \in files <=> handle = "file")

\* Until the standard input is put together only files have used readers, and
\* until the process runs a file that has a path is there and whole.
FilesInv ==
  /\ pc = "start" => path = {} /\ pass = 1 /\ i = 1
  /\ pc \in {"start", "macros", "input"} => drained \subseteq path
  /\ pc \in {"start", "macros", "input", "run"} => path \subseteq whole \cap files
  /\ mode = "call" /\ pc \in {"macros", "input", "run"} =>
       \A k \in Inputs : params[k].type = "file" /\ (pc # "macros" \/ pass = 2 \/ k < i) => k \in path

ExecInv == ShapeInv /\ ReleaseInv /\ OutputInv /\ FilesInv /\ FilesWhole /\ StdinWhole

------------------------------------------------------------------------------
(* The shape of the state                                                  *)

\* The parameters are a sequence.
LEMMA InitParams == Init => params \in Seq(Kinds) /\ Len(params) \in 0..MaxParams
<1>. SUFFICES ASSUME Init PROVE params \in Seq(Kinds) /\ Len(params) \in 0..MaxParams
  OBVIOUS
<1>1. PICK k \in 0..MaxParams : params \in [1..k -> Kinds]
  BY DEF Init
<1>2. k \in Nat
  BY <1>1, ProcAssumption
<1>3. params \in Seq(Kinds)
  BY <1>1, <1>2, SeqDef
<1>4. DOMAIN params = 1..k /\ DOMAIN params = 1..Len(params) /\ Len(params) \in Nat
  BY <1>1, <1>3, LenProperties
<1>5. Len(params) = k
  BY <1>2, <1>4
<1>. QED
  BY <1>1, <1>3, <1>5

\* A parameter has a type, a value and a stdin flag.
LEMMA ParamType ==
  ASSUME ConfigOK, NEW k \in Inputs
  PROVE  params[k] \in Kinds
  BY ElementOfSeq DEF ConfigOK, Inputs

LEMMA InitExec == Init => TypeOK /\ ExecInv
<1>. SUFFICES ASSUME Init PROVE TypeOK /\ ExecInv
  OBVIOUS
<1>1. ShapeInv
  <2>1. ConfigOK
    BY InitParams, ProcAssumption DEF Init, ConfigOK
  <2>2. Len(params) \in Nat
    BY InitParams, ProcAssumption
  <2>3. i <= Len(params) + 1
    BY <2>2 DEF Init
  <2>. QED
    BY <2>1, <2>3 DEF Init, ShapeInv, PCs
<1>2. TypeOK
  BY ProcAssumption DEF Init, TypeOK
<1>3. ReleaseInv /\ OutputInv /\ FilesInv /\ FilesWhole /\ StdinWhole
  BY DEF Init, ReleaseInv, ParamsReleased, OutputInv, FilesInv, FilesWhole, StdinWhole
<1>. QED
  BY <1>1, <1>2, <1>3 DEF ExecInv

LEMMA StepShape ==
  ASSUME ShapeInv, TypeOK, [Next]_vars
  PROVE  ShapeInv'
<1>. USE DEF config, Inputs, ShapeInv, ConfigOK, PCs, Return
<1>1. CASE CheckCount
  BY <1>1 DEF CheckCount, FirstStep
<1>2. CASE PrepareFile
  BY <1>2 DEF PrepareFile, TypeOK
<1>3. CASE PrepareFileFails
  BY <1>3 DEF PrepareFileFails
<1>4. CASE PrepareFails
  BY <1>4 DEF PrepareFails
<1>5. CASE PrepareText
  BY <1>5 DEF PrepareText, TypeOK
<1>6. CASE PrepareOutput
  BY <1>6 DEF PrepareOutput, TypeOK
<1>7. CASE PrepareOutputFails
  BY <1>7 DEF PrepareOutputFails
<1>8. CASE Input
  BY <1>8 DEF Input
<1>9. CASE Run
  BY <1>9 DEF Run
<1>10. CASE Map
  BY <1>10 DEF Map
<1>11. CASE ReleaseOutput
  BY <1>11 DEF ReleaseOutput
<1>12. CASE ReleaseParam
  BY <1>12 DEF ReleaseParam, TypeOK
<1>13. CASE CloseHandle
  BY <1>13 DEF CloseHandle
<1>14. CASE UNCHANGED vars
  BY <1>14 DEF vars
<1>. QED
  BY <1>1, <1>2, <1>3, <1>4, <1>5, <1>6, <1>7, <1>8, <1>9, <1>10, <1>11, <1>12,
     <1>13, <1>14 DEF Next

LEMMA StepType ==
  ASSUME ShapeInv, ShapeInv', TypeOK, [Next]_vars
  PROVE  TypeOK'
<1>. USE ProcAssumption
<1>. USE DEF config, Inputs, ShapeInv, ConfigOK, TypeOK, Return
<1>1. CASE CheckCount
  BY <1>1 DEF CheckCount
<1>2. CASE PrepareFile
  BY <1>2 DEF PrepareFile
<1>3. CASE PrepareFileFails
  <2>1. files' \subseteq Inputs' \cup {0} /\ path' \subseteq Inputs' /\ drained' \subseteq Inputs'
    BY <1>3 DEF PrepareFileFails
  <2>. QED
    BY <1>3, <2>1 DEF PrepareFileFails
<1>4. CASE PrepareFails
  BY <1>4 DEF PrepareFails
<1>5. CASE PrepareText
  BY <1>5 DEF PrepareText
<1>6. CASE PrepareOutput
  BY <1>6 DEF PrepareOutput
<1>7. CASE PrepareOutputFails
  BY <1>7 DEF PrepareOutputFails
<1>8. CASE Input
  <2>1. stdin' \subseteq Inputs' /\ drained' \subseteq Inputs' /\ value' \in {"nil", "buffer", "file"}
    BY <1>8 DEF Input
  <2>2. i' \in 1..(MaxParams + 1) /\ outcome' \in {"none", "ok", "err"}
    BY <1>8 DEF Input
  <2>. QED
    BY <1>8, <2>1, <2>2 DEF Input
<1>9. CASE Run
  <2>1. files' \subseteq Inputs' \cup {0}
    BY <1>9 DEF Run
  <2>2. i' \in 1..(MaxParams + 1) /\ outcome' \in {"none", "ok", "err"}
    BY <1>9 DEF Run
  <2>3. exit' \in {"none", "ok", "err"}
    BY <1>9 DEF Run
  <2>. QED
    BY <1>9, <2>1, <2>2, <2>3 DEF Run
<1>10. CASE Map
  BY <1>10 DEF Map
<1>11. CASE ReleaseOutput
  BY <1>11 DEF ReleaseOutput
<1>12. CASE ReleaseParam
  <2>1. i' \in 1..(MaxParams + 1)
    BY <1>12 DEF ReleaseParam
  <2>2. files' \subseteq Inputs' \cup {0} /\ path' \subseteq Inputs'
    BY <1>12 DEF ReleaseParam
  <2>. QED
    BY <1>12, <2>1, <2>2 DEF ReleaseParam
<1>13. CASE CloseHandle
  BY <1>13 DEF CloseHandle
<1>14. CASE UNCHANGED vars
  BY <1>14 DEF vars
<1>. QED
  BY <1>1, <1>2, <1>3, <1>4, <1>5, <1>6, <1>7, <1>8, <1>9, <1>10, <1>11, <1>12,
     <1>13, <1>14 DEF Next

------------------------------------------------------------------------------
(* Each invariant is kept                                                  *)

LEMMA StepRelease ==
  ASSUME ShapeInv, TypeOK, ReleaseInv, [Next]_vars
  PROVE  ReleaseInv'
<1>. USE DEF config, Inputs, ShapeInv, ConfigOK, TypeOK, ReleaseInv, ParamsReleased, Return
<1>1. CASE CheckCount
  BY <1>1 DEF CheckCount, FirstStep
<1>2. CASE PrepareFile
  BY <1>2 DEF PrepareFile
<1>3. CASE PrepareFileFails
  BY <1>3 DEF PrepareFileFails
<1>4. CASE PrepareFails
  <2>1. /\ pc' = "release" /\ i' = 1
        /\ path' = path /\ files' = files /\ Inputs' = Inputs
    BY <1>4 DEF PrepareFails
  <2>. QED
    BY <2>1
<1>5. CASE PrepareText
  BY <1>5 DEF PrepareText
<1>6. CASE PrepareOutput
  BY <1>6 DEF PrepareOutput
<1>7. CASE PrepareOutputFails
  BY <1>7 DEF PrepareOutputFails
<1>8. CASE Input
  BY <1>8 DEF Input
<1>9. CASE Run
  BY <1>9 DEF Run
<1>10. CASE Map
  BY <1>10 DEF Map
<1>11. CASE ReleaseOutput
  BY <1>11 DEF ReleaseOutput
<1>12. CASE ReleaseParam
  <2>. USE <1>12 DEF ReleaseParam
  <2>1. files' \cap Inputs' \subseteq path'
    OBVIOUS
  <2>2. ASSUME pc' = "release", NEW k \in path' PROVE i' <= k
    <3>1. k \in path /\ i' = i + 1 /\ k # i
      BY <2>2
    <3>2. i <= k
      BY <3>1
    <3>3. k \in Int /\ i \in Int
      BY <3>1
    <3>. QED
      BY <3>1, <3>2, <3>3
  <2>3. ASSUME pc' = "returned", NEW k \in files' \cap Inputs' PROVE \E j \in path' \ files' : j < k
    <3>1. files' = files /\ path' = path /\ k \in path /\ i <= k
      BY <2>3
    <3>2. i \in path \ files
      BY <2>3, <3>1
    <3>. QED
      BY <2>3, <3>1, <3>2
  <2>. QED
    BY <2>1, <2>2, <2>3
<1>13. CASE CloseHandle
  BY <1>13 DEF CloseHandle
<1>14. CASE UNCHANGED vars
  BY <1>14 DEF vars
<1>. QED
  BY <1>1, <1>2, <1>3, <1>4, <1>5, <1>6, <1>7, <1>8, <1>9, <1>10, <1>11, <1>12,
     <1>13, <1>14 DEF Next

LEMMA StepOutput ==
  ASSUME ShapeInv, TypeOK, OutputInv, [Next]_vars
  PROVE  OutputInv'
<1>. USE DEF config, Inputs, ShapeInv, ConfigOK, PCs, TypeOK, OutputInv, Return
<1>1. CASE CheckCount
  BY <1>1 DEF CheckCount, FirstStep
<1>2. CASE PrepareFile
  BY <1>2 DEF PrepareFile
<1>3. CASE PrepareFileFails
  BY <1>3 DEF PrepareFileFails
<1>4. CASE PrepareFails
  BY <1>4 DEF PrepareFails
<1>5. CASE PrepareText
  BY <1>5 DEF PrepareText
<1>6. CASE PrepareOutput
  BY <1>6 DEF PrepareOutput
<1>7. CASE PrepareOutputFails
  BY <1>7 DEF PrepareOutputFails
<1>8. CASE Input
  BY <1>8 DEF Input
<1>9. CASE Run
  BY <1>9 DEF Run
<1>10. CASE Map
  BY <1>10 DEF Map
<1>11. CASE ReleaseOutput
  BY <1>11 DEF ReleaseOutput
<1>12. CASE ReleaseParam
  BY <1>12 DEF ReleaseParam
<1>13. CASE CloseHandle
  BY <1>13 DEF CloseHandle
<1>14. CASE UNCHANGED vars
  BY <1>14 DEF vars
<1>. QED
  BY <1>1, <1>2, <1>3, <1>4, <1>5, <1>6, <1>7, <1>8, <1>9, <1>10, <1>11, <1>12,
     <1>13, <1>14 DEF Next

LEMMA StepFiles ==
  ASSUME ShapeInv, TypeOK, FilesInv, [Next]_vars
  PROVE  FilesInv'
<1>. USE DEF config, Inputs, ShapeInv, ConfigOK, PCs, TypeOK, FilesInv, Return
<1>1. CASE CheckCount
  <2>1. /\ pc' \in {"macros", "input", "release"} /\ (mode = "call" => pc' # "input")
        /\ pc' = "macros" => i' = 1 /\ pass' = 1
    BY <1>1 DEF CheckCount, FirstStep
  <2>. QED
    BY <1>1, <2>1 DEF CheckCount
<1>2. CASE PrepareFile
  BY <1>2 DEF PrepareFile, Fresh, NeedsFile
<1>3. CASE PrepareFileFails
  BY <1>3 DEF PrepareFileFails
<1>4. CASE PrepareFails
  BY <1>4 DEF PrepareFails
<1>5. CASE PrepareText
  BY <1>5 DEF PrepareText, NeedsFile
<1>6. CASE PrepareOutput
  BY <1>6 DEF PrepareOutput
<1>7. CASE PrepareOutputFails
  BY <1>7 DEF PrepareOutputFails
<1>8. CASE Input
  BY <1>8 DEF Input
<1>9. CASE Run
  BY <1>9 DEF Run
<1>10. CASE Map
  BY <1>10 DEF Map
<1>11. CASE ReleaseOutput
  BY <1>11 DEF ReleaseOutput
<1>12. CASE ReleaseParam
  BY <1>12 DEF ReleaseParam
<1>13. CASE CloseHandle
  BY <1>13 DEF CloseHandle
<1>14. CASE UNCHANGED vars
  BY <1>14 DEF vars
<1>. QED
  BY <1>1, <1>2, <1>3, <1>4, <1>5, <1>6, <1>7, <1>8, <1>9, <1>10, <1>11, <1>12,
     <1>13, <1>14 DEF Next

LEMMA StepStdin ==
  ASSUME ShapeInv, TypeOK, FilesInv, StdinWhole, [Next]_vars
  PROVE  StdinWhole'
<1>. USE DEF config, Inputs, TypeOK, FilesInv, StdinWhole, Return
<1>1. CASE CheckCount
  BY <1>1 DEF CheckCount, FirstStep
<1>2. CASE PrepareFile
  BY <1>2 DEF PrepareFile
<1>3. CASE PrepareFileFails
  BY <1>3 DEF PrepareFileFails
<1>4. CASE PrepareFails
  BY <1>4 DEF PrepareFails
<1>5. CASE PrepareText
  BY <1>5 DEF PrepareText
<1>6. CASE PrepareOutput
  BY <1>6 DEF PrepareOutput
<1>7. CASE PrepareOutputFails
  BY <1>7 DEF PrepareOutputFails
<1>8. CASE Input
  BY <1>8, ParamType DEF Input, ShapeInv, Kinds, Values, Fresh
<1>9. CASE Run
  BY <1>9 DEF Run
<1>10. CASE Map
  BY <1>10 DEF Map
<1>11. CASE ReleaseOutput
  BY <1>11 DEF ReleaseOutput
<1>12. CASE ReleaseParam
  BY <1>12 DEF ReleaseParam
<1>13. CASE CloseHandle
  BY <1>13 DEF CloseHandle
<1>14. CASE UNCHANGED vars
  BY <1>14 DEF vars
<1>. QED
  BY <1>1, <1>2, <1>3, <1>4, <1>5, <1>6, <1>7, <1>8, <1>9, <1>10, <1>11, <1>12,
     <1>13, <1>14 DEF Next

LEMMA StepExec == TypeOK /\ ExecInv /\ [Next]_vars => (TypeOK /\ ExecInv)'
<1>. SUFFICES ASSUME TypeOK, ExecInv, [Next]_vars PROVE TypeOK' /\ ExecInv'
  OBVIOUS
<1>1. ShapeInv' /\ TypeOK'
  BY StepShape, StepType DEF ExecInv
<1>2. ReleaseInv' /\ OutputInv' /\ FilesInv' /\ StdinWhole'
  BY StepRelease, StepOutput, StepFiles, StepStdin DEF ExecInv
<1>3. FilesWhole'
  BY <1>2 DEF FilesInv, FilesWhole
<1>. QED
  BY <1>1, <1>2, <1>3 DEF ExecInv

LEMMA ExecInvariant == Spec => [](TypeOK /\ ExecInv)
  BY InitExec, StepExec, PTL DEF Spec

------------------------------------------------------------------------------
(* The theorems                                                            *)

\* The variables keep their types: only the parameters there are have files, are
\* read or are given to the process, and one file more is that of the output.
THEOREM TypeCorrect == Spec => []TypeOK
  BY ExecInvariant, PTL

\* When Exec has returned, whichever step failed, the file of no parameter is
\* left behind but after one that the process itself has removed.
THEOREM ReleasesParams == Spec => []ParamsReleased
<1>1. ExecInv => ParamsReleased
  BY DEF ExecInv, ReleaseInv
<1>. QED
  BY <1>1, ExecInvariant, PTL

\* Unless the process failed, the output file is there after Exec exactly as long
\* as the caller holds a value that is it.
THEOREM KeepsOutput == Spec => []OutputKeptAndReleased
<1>1. ExecInv => OutputKeptAndReleased
  BY DEF ExecInv, OutputInv, OutputKeptAndReleased
<1>. QED
  BY <1>1, ExecInvariant, PTL

\* The process of call mode finds every parameter of type file in its file,
\* whole, though the macros are prepared twice and a reader can be read once.
THEOREM PassesFiles == Spec => []FilesWhole
<1>1. ExecInv => FilesWhole
  BY DEF ExecInv
<1>. QED
  BY <1>1, ExecInvariant, PTL

\* The process finds on its standard input every parameter that is meant to be
\* there, unless a file has used up its reader.
THEOREM PassesStdin == Spec => []StdinWhole
<1>1. ExecInv => StdinWhole
  BY DEF ExecInv
<1>. QED
  BY <1>1, ExecInvariant, PTL

==============================================================================
