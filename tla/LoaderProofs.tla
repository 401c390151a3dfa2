----------------------------- MODULE LoaderProofs -----------------------------
(***************************************************************************)
(* Proofs about Manifest and Loader, for any manifests in any trees.       *)
(***************************************************************************)
EXTENDS Loader, SequenceTheorems, FiniteSetTheorems, WellFoundedInduction, TLAPS

------------------------------------------------------------------------------
(* Normalize *)

\* A manifest that has been decoded: a record with these fields.
IsDecoded(m) ==
  m \in [name : {m.name}, directory : {m.directory}, driver : Text, type : Text, mode : Text,
         interface : Text, run : [parts : Seq(Text), isScript : BOOLEAN],
         command : {m.command}, args : {m.args}, params : Seq(Param), output : Output,
         docker : BOOLEAN, scriptMode : BOOLEAN]

NormalInput(p) == p.isInput => p.stdin

\* What Normalize leaves as it is.
NormalForm(m) ==
  /\ m.run.parts # <<>> => m.command = m.run.parts /\ m.scriptMode = m.run.isScript
  /\ m.driver # "" /\ m.mode \notin {"", "default"}
  /\ \A i \in 1..Len(m.params) : NormalInput(m.params[i])
  /\ m.output.isTmpFile => m.output.type # ""
  /\ m.output.type = "file" => m.output.name # ""

LEMMA Literals ==
  /\ "exec" # "" /\ "call" # "" /\ "call" # "default" /\ "file" # "" /\ "out" # ""
  OBVIOUS

LEMMA FunctionIsSequence ==
  ASSUME NEW S, NEW n \in Nat, NEW f \in [1..n -> S]
  PROVE  f \in Seq(S) /\ Len(f) = n
  <1>1. f \in Seq(S)
    BY SeqDef
  <1> QED BY <1>1, LenProperties

LEMMA OneIsSequence == ASSUME NEW S, NEW e \in S PROVE <<e>> \in Seq(S)
  OBVIOUS

LEMMA NormalOutputForm ==
  ASSUME NEW o \in Output
  PROVE  /\ NormalOutput(o) \in Output
         /\ NormalOutput(o).isTmpFile => NormalOutput(o).type # ""
         /\ NormalOutput(o).type = "file" => NormalOutput(o).name # ""
  <1> DEFINE type == IF o.isTmpFile THEN Or(o.type, "file") ELSE o.type
             name == IF type = "file" THEN Or(o.name, "out") ELSE o.name
  <1>1. o.type \in Text /\ o.name \in Text /\ o.isTmpFile \in BOOLEAN
    BY DEF Output
  <1>2. type \in Text /\ (o.isTmpFile => type # "")
    BY <1>1, Literals, TextAssumption DEF Or
  <1>3. name \in Text /\ (type = "file" => name # "")
    <2> HIDE DEF type
    <2> QED BY <1>1, <1>2, Literals, TextAssumption DEF Or
  <1>4. NormalOutput(o) = [o EXCEPT !.type = type, !.name = name]
    BY DEF NormalOutput
  <1> HIDE DEF type, name
  <1> QED BY <1>2, <1>3, <1>4 DEF Output

LEMMA NormalizeForm ==
  ASSUME NEW m, IsDecoded(m)
  PROVE  IsDecoded(Normalize(m)) /\ NormalForm(Normalize(m))
  <1> DEFINE params == [i \in 1..Len(m.params) |-> NormalParam(m.params[i])]
  <1>1. {m.driver, m.type, m.mode, m.interface} \subseteq Text
    BY DEF IsDecoded
  <1>2. params \in Seq(Param) /\ Len(params) = Len(m.params)
        /\ \A i \in 1..Len(params) : NormalInput(params[i])
    <2>1. m.params \in Seq(Param)
      BY DEF IsDecoded
    <2>2. ASSUME NEW p \in Param PROVE NormalParam(p) \in Param /\ NormalInput(NormalParam(p))
      BY DEF NormalParam, NormalInput, Param
    <2>3. \A i \in 1..Len(m.params) : params[i] \in Param /\ NormalInput(params[i])
      BY <2>1, <2>2
    <2>4. params = [i \in 1..Len(m.params) |-> params[i]] /\ Len(m.params) \in Nat
      BY <2>1
    <2> HIDE DEF params
    <2>5. params \in [1..Len(m.params) -> Param]
      BY <2>3, <2>4
    <2>6. params \in Seq(Param) /\ Len(params) = Len(m.params)
      BY <2>5, <2>4, FunctionIsSequence
    <2> QED BY <2>3, <2>6
  <1>3. NormalOutput(m.output) \in Output
        /\ (NormalOutput(m.output).isTmpFile => NormalOutput(m.output).type # "")
        /\ (NormalOutput(m.output).type = "file" => NormalOutput(m.output).name # "")
    BY NormalOutputForm DEF IsDecoded
  <1>4. NormalMode(m.mode, m.interface) \in Text
        /\ NormalMode(m.mode, m.interface) \notin {"", "default"}
    BY <1>1, Literals, TextAssumption DEF NormalMode, Or
  <1>5. Or(Or(m.driver, m.type), "exec") \in Text /\ Or(Or(m.driver, m.type), "exec") # ""
    BY <1>1, Literals, TextAssumption DEF Or
  <1> HIDE DEF params
  <1> DEFINE driver == Or(Or(m.driver, m.type), "exec")
             mode   == NormalMode(m.mode, m.interface)
             output == NormalOutput(m.output)
             n      == Normalize(m)
  <1>6. n = [m EXCEPT
               !.command    = IF m.run.parts = <<>> THEN m.command ELSE m.run.parts,
               !.scriptMode = IF m.run.parts = <<>> THEN m.scriptMode ELSE m.run.isScript,
               !.driver = driver, !.mode = mode, !.params = params, !.output = output]
    BY DEF Normalize, n, params
  <1> HIDE DEF params, driver, mode, output, n
  <1>7. IsDecoded(n)
    BY <1>2, <1>3, <1>4, <1>5, <1>6 DEF IsDecoded, driver, mode, output
  <1>8. NormalForm(n)
    <2>1. /\ n.run = m.run /\ n.driver = driver /\ n.mode = mode
          /\ n.params = params /\ n.output = output
          /\ m.run.parts # <<>> => n.command = m.run.parts /\ n.scriptMode = m.run.isScript
      BY <1>6 DEF IsDecoded
    <2> QED BY <2>1, <1>2, <1>3, <1>4, <1>5 DEF NormalForm, driver, mode, output
  <1> QED BY <1>7, <1>8 DEF n

LEMMA NormalParamStays ==
  ASSUME NEW p \in Param, NormalInput(p)
  PROVE  NormalParam(p) = p
  <1>1. p.stdin \in BOOLEAN /\ p.isInput \in BOOLEAN
    BY DEF Param
  <1>2. (p.stdin \/ p.isInput) = p.stdin
    BY <1>1 DEF NormalInput
  <1>3. NormalParam(p) = [p EXCEPT !.stdin = p.stdin]
    BY <1>2, Zenon DEF NormalParam
  <1> QED BY <1>3 DEF Param

LEMMA NormalFormStays ==
  ASSUME NEW m, IsDecoded(m), NormalForm(m)
  PROVE  Normalize(m) = m
  <1> DEFINE params == [i \in 1..Len(m.params) |-> NormalParam(m.params[i])]
  <1>1. params = m.params
    <2>1. ASSUME NEW i \in 1..Len(m.params) PROVE NormalParam(m.params[i]) = m.params[i]
      <3>1. m.params[i] \in Param
        BY DEF IsDecoded
      <3>2. NormalInput(m.params[i])
        BY DEF NormalForm
      <3> QED BY <3>1, <3>2, NormalParamStays
    <2> QED BY <2>1 DEF IsDecoded
  <1>2. NormalOutput(m.output) = m.output
    BY DEF NormalForm, NormalOutput, Output, Or, IsDecoded
  <1>3. NormalMode(m.mode, m.interface) = m.mode /\ Or(Or(m.driver, m.type), "exec") = m.driver
    BY DEF NormalForm, NormalMode, Or
  <1>4. /\ (IF m.run.parts = <<>> THEN m.command ELSE m.run.parts) = m.command
        /\ (IF m.run.parts = <<>> THEN m.scriptMode ELSE m.run.isScript) = m.scriptMode
    BY DEF NormalForm
  <1> HIDE DEF params
  <1>5. Normalize(m) =
          [m EXCEPT !.command    = IF m.run.parts = <<>> THEN m.command ELSE m.run.parts,
                    !.scriptMode = IF m.run.parts = <<>> THEN m.scriptMode ELSE m.run.isScript,
                    !.driver     = Or(Or(m.driver, m.type), "exec"),
                    !.mode       = NormalMode(m.mode, m.interface),
                    !.params     = params,
                    !.output     = NormalOutput(m.output)]
    BY DEF Normalize, params
  <1>6. Normalize(m) =
          [m EXCEPT !.command = m.command, !.scriptMode = m.scriptMode, !.driver = m.driver,
                    !.mode = m.mode, !.params = m.params, !.output = m.output]
    BY <1>1, <1>2, <1>3, <1>4, <1>5, Zenon
  <1> QED BY <1>6 DEF IsDecoded

\* Normalize is idempotent, whatever the manifest says (Manifest.Normalize).
THEOREM NormalizeIdempotent ==
  ASSUME NEW m, IsDecoded(m)
  PROVE  Normalize(Normalize(m)) = Normalize(m)
  <1>1. IsDecoded(Normalize(m)) /\ NormalForm(Normalize(m))
    BY NormalizeForm
  <1> QED BY <1>1, NormalFormStays

------------------------------------------------------------------------------
(* The manifests that Load has found stay as they are *)

LEMMA ManifestForm ==
  ASSUME NEW f, f.doc \in Document
  PROVE  IsDecoded(Manifest(f)) /\ NormalForm(Manifest(f))
  <1> DEFINE format == source.decoders[DecoderOf(f)]
             m      == Decode(format, f.doc)
             named  == IF m.name = <<>> THEN [m EXCEPT !.name = NameOf(f)] ELSE m
  <1>1. RunSpec(format, f.doc.run) \in [parts : Seq(Text), isScript : BOOLEAN]
    <2>1. f.doc.run \in Node
      BY DEF Document
    <2>2. "" \in Text
      BY TextAssumption
    <2>3. <<"">> \in Seq(Text)
      BY <2>2, OneIsSequence
    <2>4. f.doc.run.words \in Seq(Text)
      BY <2>1 DEF Node
    <2>5. Parts(format, f.doc.run) \in Seq(Text)
      BY <2>3, <2>4 DEF Parts
    <2> QED BY <2>5 DEF RunSpec
  <1>2. IsDecoded(m)
    BY <1>1 DEF Decode, Document, IsDecoded
  <1>3. IsDecoded(named)
    BY <1>2 DEF IsDecoded
  <1>4. Manifest(f) = Normalize(named)
    BY DEF Manifest
  <1> HIDE DEF named
  <1> QED BY <1>3, <1>4, NormalizeForm

\* What Load has found is decoded and normal; a run that is empty but not absent
\* is lost to the script that Load has found.
Kept(m) ==
  /\ IsDecoded(m) /\ m.driver # "" /\ m.mode \notin {"", "default"}
  /\ m.run.parts # <<"">> => NormalForm(m)

LoaderInv ==
  /\ source \in Source
  /\ at \in Nat \ {0}
  /\ \E S : procs \in Seq(S) /\ \A m \in S : Kept(m)

LEMMA FoundKeeps ==
  ASSUME LoaderInv, NEW m, Kept(m), Found(m)
  PROVE  LoaderInv'
  <1> DEFINE p == [m EXCEPT !.directory = Current.dir]
  <1>1. Kept(p)
    <2>1. /\ p.run = m.run /\ p.driver = m.driver /\ p.mode = m.mode /\ p.params = m.params
          /\ p.output = m.output /\ p.command = m.command /\ p.scriptMode = m.scriptMode
      BY DEF Kept, IsDecoded
    <2>2. IsDecoded(p)
      BY DEF Kept, IsDecoded
    <2> QED BY <2>1, <2>2 DEF Kept, NormalForm
  <1>2. source' = source /\ at' = at + 1 /\ procs' = Append(procs, p)
    BY DEF Found
  <1> HIDE DEF p
  <1>3. PICK S : procs \in Seq(S) /\ \A l \in S : Kept(l)
    BY DEF LoaderInv
  <1>4. procs' \in Seq(S \cup {p})
    BY <1>2, <1>3, SeqMonotonic, AppendProperties
  <1>5. \A l \in S \cup {p} : Kept(l)
    BY <1>1, <1>3
  <1>6. source' \in Source /\ at' \in Nat \ {0}
    BY <1>2 DEF LoaderInv
  <1> QED BY <1>4, <1>5, <1>6 DEF LoaderInv

LEMMA CurrentIsEntry ==
  ASSUME LoaderInv, Walking
  PROVE  Current.doc \in Document
  <1>1. source.tree \in Seq(Entry)
    BY DEF LoaderInv, Source
  <1>2. at \in 1..Len(source.tree)
    BY <1>1 DEF LoaderInv, Walking
  <1>3. Current \in Entry
    BY <1>1, <1>2 DEF Current
  <1> QED BY <1>3 DEF Entry

LEMMA LoadKeeps ==
  ASSUME LoaderInv, Load
  PROVE  LoaderInv'
  <1>1. Current.doc \in Document /\ Found(Manifest(Current))
    BY CurrentIsEntry DEF Load
  <1> QED BY <1>1, ManifestForm, FoundKeeps DEF Kept, NormalForm

LEMMA DiscoverKeeps ==
  ASSUME LoaderInv, Discover
  PROVE  LoaderInv'
  <1> DEFINE m == Manifest(Current)
             k == FindExecutable(Current.dir, m.name)
             p == [m EXCEPT !.command = <<Path(source.tree[k])>>, !.driver = "shell"]
  <1>1. Found(p) /\ NeedsScript(m) /\ Walking
    BY DEF Discover
  <1>2. IsDecoded(m) /\ NormalForm(m)
    BY <1>1, CurrentIsEntry, ManifestForm
  <1> HIDE DEF m
  <1>3. m.run.parts \in {<<>>, <<"">>}
    BY <1>1, <1>2 DEF NeedsScript, CommandIsEmpty, NormalForm
  <1>4. /\ p.run = m.run /\ p.driver = "shell" /\ p.mode = m.mode /\ p.params = m.params
        /\ p.output = m.output
    BY <1>2 DEF IsDecoded
  <1>5. IsDecoded(p)
    BY <1>2, TextAssumption DEF IsDecoded
  <1>6. p.run.parts # <<"">> => NormalForm(p)
    BY <1>2, <1>3, <1>4 DEF NormalForm
  <1>7. p.driver # "" /\ p.mode \notin {"", "default"}
    BY <1>2, <1>4 DEF NormalForm
  <1> HIDE DEF p
  <1> QED BY <1>1, <1>5, <1>6, <1>7, FoundKeeps DEF Kept

LEMMA InitKeeps == InitLoader => LoaderInv
  BY LoaderAssumption DEF InitLoader, LoaderInv

LEMMA NextKeeps ==
  ASSUME LoaderInv, [Walk]_loader
  PROVE  LoaderInv'
  <1>1. CASE Load
    BY <1>1, LoadKeeps
  <1>2. CASE Discover
    BY <1>2, DiscoverKeeps
  <1>3. CASE Skip
    BY <1>3 DEF Skip, LoaderInv
  <1>4. CASE LoadFails \/ Finish \/ UNCHANGED loader
    BY <1>4 DEF LoadFails, Finish, loader, LoaderInv
  <1> QED BY <1>1, <1>2, <1>3, <1>4 DEF Walk

\* Whatever the trees hold, a second Normalize of a manifest that Load has found
\* changes nothing (Load, Normalize), unless its run was empty and not absent.
THEOREM LoadedStayNormal == LoaderSpec => []NormalizedOnce
  <1>1. LoaderInv => NormalizedOnce
    <2> SUFFICES ASSUME LoaderInv, NEW i \in DOMAIN procs, procs[i].run.parts # <<"">>
                 PROVE  Normalize(procs[i]) = procs[i]
      BY DEF NormalizedOnce
    <2>1. PICK S : procs \in Seq(S) /\ \A m \in S : Kept(m)
      BY DEF LoaderInv
    <2>2. procs[i] \in S
      BY <2>1, LenProperties, ElementOfSeq
    <2>3. Kept(procs[i])
      BY <2>1, <2>2
    <2> QED BY <2>3, NormalFormStays DEF Kept
  <1> QED BY InitKeeps, NextKeeps, <1>1, PTL DEF LoaderSpec

------------------------------------------------------------------------------
(* The smallest and the greatest *)

LEMMA HasMin ==
  ASSUME NEW T, T \subseteq Nat, T # {}
  PROVE  \E x \in T : \A y \in T : x =< y
  <1>1. IsWellFoundedOn(OpToRel(<, Nat), Nat)
    BY NatLessThanWellFounded
  <1>2. PICK x \in T : \A y \in T : <<y, x>> \notin OpToRel(<, Nat)
    BY <1>1, WFMin
  <1>3. ASSUME NEW y \in T PROVE x =< y
    <2>1. <<y, x>> \notin {ss \in Nat \X Nat : ss[1] < ss[2]}
      BY <1>2 DEF OpToRel
    <2>2. <<y, x>> \in Nat \X Nat
      OBVIOUS
    <2>3. ~(y < x)
      BY <2>1, <2>2
    <2> QED BY <2>3
  <1> QED BY <1>3

LEMMA MinProperty ==
  ASSUME NEW T, T \subseteq Nat, T # {}
  PROVE  Min(T) \in T /\ \A y \in T : Min(T) =< y
  BY HasMin DEF Min

LEMMA HasMax ==
  ASSUME NEW n \in Nat, NEW T, T \subseteq 0..n, T # {}
  PROVE  \E x \in T : \A y \in T : x >= y
  <1> DEFINE U == {n - t : t \in T}
  <1>1. U \subseteq Nat /\ U # {}
    <2>1. \A t \in T : t \in 0..n /\ n - t \in Nat
      OBVIOUS
    <2> QED BY <2>1
  <1> HIDE DEF U
  <1>2. PICK u \in U : \A v \in U : u =< v
    BY <1>1, HasMin
  <1>3. PICK x \in T : u = n - x
    BY DEF U
  <1>4. ASSUME NEW y \in T PROVE x >= y
    <2>1. u =< n - y
      BY <1>2 DEF U
    <2> QED BY <2>1, <1>3
  <1> QED BY <1>4

LEMMA MaxProperty ==
  ASSUME NEW n \in Nat, NEW T, T \subseteq 0..n, T # {}
  PROVE  Max(T) \in T /\ \A y \in T : Max(T) >= y
  BY HasMax DEF Max

LEMMA MaxIs ==
  ASSUME NEW n \in Nat, NEW T, T \subseteq 0..n, NEW k \in T, \A y \in T : k >= y
  PROVE  Max(T) = k
  <1>1. Max(T) \in T /\ \A y \in T : Max(T) >= y
    BY MaxProperty
  <1>2. PICK m \in T : m = Max(T)
    BY <1>1
  <1>3. m >= k /\ k >= m
    BY <1>1, <1>2
  <1>4. m \in Nat /\ k \in Nat
    OBVIOUS
  <1> QED BY <1>2, <1>3, <1>4

------------------------------------------------------------------------------
(* Names of files *)

LEMMA ReverseIs ==
  ASSUME NEW S, NEW s \in Seq(S)
  PROVE  /\ Reverse(s) \in Seq(S) /\ Len(Reverse(s)) = Len(s)
         /\ \A i \in 1..Len(s) : Reverse(s)[i] = s[(Len(s) - i) + 1]
  <1>1. Len(s) \in Nat
    BY LenProperties
  <1>2. \A i \in 1..Len(s) : s[(Len(s) - i) + 1] \in S
    BY <1>1, ElementOfSeq
  <1>3. Reverse(s) \in [1..Len(s) -> S]
    BY <1>2 DEF Reverse
  <1> QED BY <1>1, <1>3, FunctionIsSequence DEF Reverse

LEMMA PrefixIs ==
  ASSUME NEW S, NEW s \in Seq(S), NEW t \in Seq(S)
  PROVE  IsPrefix(s, t) <=> Len(s) <= Len(t) /\ \A i \in 1..Len(s) : s[i] = t[i]
  <1>1. Len(s) \in Nat /\ Len(t) \in Nat
    BY LenProperties
  <1>2. CASE Len(s) <= Len(t)
    <2> DEFINE p == SubSeq(s, 1, Len(s))
               q == SubSeq(t, 1, Len(s))
    <2>1. /\ p \in Seq(S) /\ Len(p) = Len(s) /\ \A i \in 1..Len(s) : p[i] = s[i]
      BY <1>1
    <2>2. /\ q \in Seq(S) /\ Len(q) = Len(s) /\ \A i \in 1..Len(s) : q[i] = t[i]
      BY <1>1, <1>2
    <2>3. IsPrefix(s, t) <=> p = q
      BY <1>2 DEF IsPrefix
    <2> HIDE DEF p, q
    <2>4. p = q <=> \A i \in 1..Len(s) : p[i] = q[i]
      BY <2>1, <2>2, SeqEqual
    <2> QED BY <2>1, <2>2, <2>3, <2>4, <1>2
  <1>3. CASE ~(Len(s) <= Len(t))
    BY <1>3 DEF IsPrefix
  <1> QED BY <1>2, <1>3

LEMMA SuffixIs ==
  ASSUME NEW S, NEW s \in Seq(S), NEW t \in Seq(S)
  PROVE  IsSuffix(s, t) <=>
           /\ Len(s) <= Len(t)
           /\ \A i \in 1..Len(s) : s[i] = t[(Len(t) - Len(s)) + i]
  <1>1. PICK a \in Nat : a = Len(s)
    BY LenProperties
  <1>2. PICK b \in Nat : b = Len(t)
    BY LenProperties
  <1>3. IsSuffix(s, t) <=> /\ a <= b
                           /\ \A i \in 1..a : Reverse(s)[i] = Reverse(t)[i]
    BY <1>1, <1>2, ReverseIs, PrefixIs DEF IsSuffix
  <1>4. a <= b => \A i \in 1..a : /\ Reverse(s)[i] = s[(a - i) + 1]
                                  /\ Reverse(t)[i] = t[(b - i) + 1]
    BY <1>1, <1>2, ReverseIs
  <1>5. ASSUME a <= b, \A i \in 1..a : s[(a - i) + 1] = t[(b - i) + 1], NEW i \in 1..a
        PROVE  s[i] = t[(b - a) + i]
    <2>1. i \in Int /\ 1 <= i /\ i <= a /\ a \in Int /\ b \in Int
      BY <1>1, <1>2
    <2>2. PICK k \in Int : k = (a - i) + 1
      BY <2>1
    <2>3. k \in 1..a
      BY <2>1, <2>2
    <2>4. (a - k) + 1 = i /\ (b - k) + 1 = (b - a) + i
      BY <2>1, <2>2
    <2>5. s[(a - k) + 1] = t[(b - k) + 1]
      BY <2>3, <1>5
    <2> QED BY <2>4, <2>5
  <1>6. ASSUME a <= b, \A i \in 1..a : s[i] = t[(b - a) + i], NEW i \in 1..a
        PROVE  s[(a - i) + 1] = t[(b - i) + 1]
    <2>1. i \in Int /\ 1 <= i /\ i <= a /\ a \in Int /\ b \in Int
      BY <1>1, <1>2
    <2>2. PICK k \in Int : k = (a - i) + 1
      BY <2>1
    <2>3. k \in 1..a
      BY <2>1, <2>2
    <2>4. (b - a) + k = (b - i) + 1
      BY <2>1, <2>2
    <2>5. s[k] = t[(b - a) + k]
      BY <2>3, <1>6
    <2> QED BY <2>2, <2>4, <2>5
  <1> QED BY <1>1, <1>2, <1>3, <1>4, <1>5, <1>6

\* The extension of a known format is the last three letters.
LEMMA FormatExt ==
  ASSUME NEW S, NEW base \in Seq(S), NEW x, x # ".", NEW y, y # "."
  PROVE  Ext(base) = <<".", x, y>> <=>
           /\ Len(base) >= 3
           /\ base[Len(base) - 2] = "." /\ base[Len(base) - 1] = x /\ base[Len(base)] = y
  <1> DEFINE dots == {i \in 1..Len(base) : base[i] = "."}
  <1>1. PICK n \in Nat : n = Len(base)
    BY LenProperties
  <1>2. dots \subseteq 0..n /\ dots \subseteq 1..n
    BY <1>1
  <1>3. ASSUME Ext(base) = <<".", x, y>>
        PROVE  n >= 3 /\ base[n - 2] = "." /\ base[n - 1] = x /\ base[n] = y
    <2>1. dots # {} /\ Ext(base) = SubSeq(base, Max(dots), Len(base))
      BY <1>3 DEF Ext
    <2>2. PICK k \in dots : k = Max(dots)
      BY <2>1, <1>2, MaxProperty
    <2>3. k \in 1..n /\ k \in Int /\ n \in Int
      BY <1>2
    <2>4. \A i \in k..n : base[i] \in S
      BY <2>3, <1>1, ElementOfSeq
    <2>5. /\ Len(SubSeq(base, k, n)) = (n - k) + 1
          /\ \A i \in 1..((n - k) + 1) : SubSeq(base, k, n)[i] = base[(k + i) - 1]
      BY <2>3, <2>4, SubSeqProperties
    <2>6. SubSeq(base, k, n) = <<".", x, y>>
      BY <2>1, <2>2, <1>1, <1>3
    <2> HIDE DEF dots
    <2>7. (n - k) + 1 = 3
      BY <2>5, <2>6
    <2>8. /\ <<".", x, y>>[1] = base[k]
          /\ <<".", x, y>>[2] = base[k + 1]
          /\ <<".", x, y>>[3] = base[k + 2]
      BY <2>3, <2>5, <2>6, <2>7
    <2> QED BY <2>3, <2>7, <2>8
  <1>4. ASSUME n >= 3, base[n - 2] = ".", base[n - 1] = x, base[n] = y
        PROVE  Ext(base) = <<".", x, y>>
    <2>1. n - 2 \in dots
      BY <1>1, <1>4
    <2>2. ASSUME NEW i \in dots PROVE n - 2 >= i
      <3>1. i \in 1..n /\ base[i] = "."
        BY <1>1
      <3>2. i # n /\ i # n - 1
        BY <3>1, <1>4
      <3> HIDE DEF dots
      <3> QED BY <3>1, <3>2
    <2>3. Max(dots) = n - 2
      BY <2>1, <2>2, <1>2, MaxIs
    <2>4. Ext(base) = SubSeq(base, n - 2, n)
      BY <2>1, <2>3, <1>1 DEF Ext
    <2>5. \A i \in n - 2..n : base[i] \in S
      BY <1>1, <1>4, ElementOfSeq
    <2>6. /\ SubSeq(base, n - 2, n) \in Seq(S)
          /\ Len(SubSeq(base, n - 2, n)) = 3
          /\ \A i \in 1..3 : SubSeq(base, n - 2, n)[i] = base[(n - 2) + i - 1]
      BY <2>5, <1>4, SubSeqProperties
    <2>7. /\ SubSeq(base, n - 2, n)[1] = "."
          /\ SubSeq(base, n - 2, n)[2] = x
          /\ SubSeq(base, n - 2, n)[3] = y
      BY <2>6, <1>4
    <2>8. \A s \in Seq(S) :
            Len(s) = 3 /\ s[1] = "." /\ s[2] = x /\ s[3] = y => s = <<".", x, y>>
      OBVIOUS
    <2>9. SubSeq(base, n - 2, n) = <<".", x, y>>
      BY <2>6, <2>7, <2>8
    <2> QED BY <2>4, <2>9
  <1> QED BY <1>1, <1>3, <1>4

LEMMA StemIs ==
  ASSUME NEW S, NEW base \in Seq(S), NEW x, x # ".", NEW y, y # ".",
         Ext(base) = <<".", x, y>>
  PROVE  /\ Len(base) >= 3 /\ Stem(base) \in Seq(S) /\ Len(Stem(base)) = Len(base) - 3
         /\ \A i \in 1..Len(base) - 3 : Stem(base)[i] = base[i]
  <1>1. Len(base) >= 3 /\ Len(base) \in Nat
    BY FormatExt, LenProperties
  <1>2. Stem(base) = SubSeq(base, 1, Len(base) - 3)
    BY DEF Stem
  <1> QED BY <1>1, <1>2

\* A suffix before the extension and a suffix with the extension are the same.
LEMMA SuffixOfStem ==
  ASSUME NEW S, NEW base \in Seq(S), NEW suffix \in Seq(S),
         NEW x \in S, x # ".", NEW y \in S, y # ".", "." \in S
  PROVE  IsSuffix(suffix \o <<".", x, y>>, base) <=>
           Ext(base) = <<".", x, y>> /\ IsSuffix(suffix, Stem(base))
  <1> DEFINE t == suffix \o <<".", x, y>>
  <1>1. PICK n \in Nat : n = Len(base)
    BY LenProperties
  <1>2. PICK k \in Nat : k = Len(suffix)
    BY LenProperties
  <1>3. <<".", x, y>> \in Seq(S)
    OBVIOUS
  <1>4. /\ t \in Seq(S) /\ Len(t) = k + 3
        /\ \A i \in 1..k : t[i] = suffix[i]
        /\ t[k + 1] = "." /\ t[k + 2] = x /\ t[k + 3] = y
    BY <1>2, <1>3
  <1> HIDE DEF t
  <1>5. IsSuffix(t, base) <=>
          k + 3 <= n /\ \A i \in 1..k + 3 : t[i] = base[(n - (k + 3)) + i]
    <2>1. IsSuffix(t, base) <=>
            /\ Len(t) <= Len(base)
            /\ \A i \in 1..Len(t) : t[i] = base[(Len(base) - Len(t)) + i]
      BY <1>4, SuffixIs, Zenon
    <2>2. Len(t) = k + 3 /\ Len(base) = n
      BY <1>1, <1>4
    <2> QED BY <2>1, <2>2
  <1>6. Ext(base) = <<".", x, y>> <=>
          n >= 3 /\ base[n - 2] = "." /\ base[n - 1] = x /\ base[n] = y
    BY <1>1, FormatExt, ZenonT(60)
  <1>7. ASSUME IsSuffix(t, base)
        PROVE  Ext(base) = <<".", x, y>> /\ IsSuffix(suffix, Stem(base))
    <2>1. k + 3 <= n /\ \A i \in 1..k + 3 : t[i] = base[(n - (k + 3)) + i]
      BY <1>5, <1>7
    <2>2. /\ t[k + 1] = base[(n - (k + 3)) + (k + 1)]
          /\ t[k + 2] = base[(n - (k + 3)) + (k + 2)]
          /\ t[k + 3] = base[(n - (k + 3)) + (k + 3)]
      <3>1. k + 1 \in 1..k + 3 /\ k + 2 \in 1..k + 3 /\ k + 3 \in 1..k + 3
        OBVIOUS
      <3> QED BY <3>1, <2>1, ZenonT(60)
    <2>3. /\ (n - (k + 3)) + (k + 1) = n - 2
          /\ (n - (k + 3)) + (k + 2) = n - 1
          /\ (n - (k + 3)) + (k + 3) = n
      OBVIOUS
    <2>4. Ext(base) = <<".", x, y>>
      BY <1>4, <1>6, <2>1, <2>2, <2>3
    <2>5. /\ Stem(base) \in Seq(S) /\ Len(Stem(base)) = n - 3
          /\ \A i \in 1..n - 3 : Stem(base)[i] = base[i]
      BY <2>4, <1>1, StemIs
    <2>6. ASSUME NEW i \in 1..k
          PROVE  suffix[i] = Stem(base)[((n - 3) - k) + i]
      <3>1. /\ i \in 1..k + 3 /\ ((n - 3) - k) + i \in 1..n - 3
            /\ ((n - 3) - k) + i = (n - (k + 3)) + i
        BY <2>1
      <3> QED BY <3>1, <2>1, <2>5, <1>4
    <2>7. IsSuffix(suffix, Stem(base)) <=>
            /\ Len(suffix) <= Len(Stem(base))
            /\ \A i \in 1..Len(suffix) :
                 suffix[i] = Stem(base)[(Len(Stem(base)) - Len(suffix)) + i]
      BY <2>5, SuffixIs, Zenon
    <2>8. Len(suffix) = k /\ Len(Stem(base)) = n - 3 /\ k <= n - 3
      BY <1>2, <2>1, <2>5
    <2>9. IsSuffix(suffix, Stem(base))
      BY <2>6, <2>7, <2>8
    <2> QED BY <2>4, <2>9
  <1>8. ASSUME Ext(base) = <<".", x, y>>, IsSuffix(suffix, Stem(base))
        PROVE  IsSuffix(t, base)
    <2>1. /\ n >= 3 /\ Stem(base) \in Seq(S) /\ Len(Stem(base)) = n - 3
          /\ \A i \in 1..n - 3 : Stem(base)[i] = base[i]
      BY <1>8, <1>1, StemIs
    <2>2. k <= n - 3 /\ \A i \in 1..k : suffix[i] = Stem(base)[((n - 3) - k) + i]
      BY <1>8, <1>2, <2>1, SuffixIs
    <2>3. ASSUME NEW i \in 1..k + 3 PROVE t[i] = base[(n - (k + 3)) + i]
      <3>1. CASE i \in 1..k
        <4>1. /\ ((n - 3) - k) + i \in 1..n - 3
              /\ ((n - 3) - k) + i = (n - (k + 3)) + i
          BY <2>2, <3>1
        <4> QED BY <3>1, <4>1, <2>1, <2>2, <1>4
      <3>2. CASE i = k + 1
        BY <3>2, <1>4, <1>6, <1>8
      <3>3. CASE i = k + 2
        BY <3>3, <1>4, <1>6, <1>8
      <3>4. CASE i = k + 3
        BY <3>4, <1>4, <1>6, <1>8
      <3> QED BY <3>1, <3>2, <3>3, <3>4
    <2> QED BY <1>5, <2>2, <2>3
  <1> QED BY <1>7, <1>8 DEF t

\* The letters of names and of the extensions.
Letters == Text \cup {".", "j", "n", "y", "l"}

LEMMA DocumentedIs ==
  ASSUME source \in Source, NEW f \in Entry
  PROVE  IsDocumented(f) <=> IsManifest(f) /\ Ext(f.base) \in {JSON, YAML}
  <1>1. f.base \in Seq(Letters) /\ source.suffix \in Seq(Letters)
    <2>1. f.base \in Seq(Text) /\ source.suffix \in Seq(Text)
      BY DEF Entry, Source
    <2>2. Text \subseteq Letters
      BY DEF Letters
    <2> QED BY <2>1, <2>2, SeqMonotonic
  <1>2. {"j", "n", "y", "l", "."} \subseteq Letters
    BY DEF Letters
  <1>3. "j" # "." /\ "n" # "." /\ "y" # "." /\ "l" # "."
    OBVIOUS
  <1>4. IsSuffix(source.suffix \o JSON, f.base) <=>
          Ext(f.base) = JSON /\ IsSuffix(source.suffix, Stem(f.base))
    BY <1>1, <1>2, <1>3, SuffixOfStem DEF JSON
  <1>5. IsSuffix(source.suffix \o YAML, f.base) <=>
          Ext(f.base) = YAML /\ IsSuffix(source.suffix, Stem(f.base))
    BY <1>1, <1>2, <1>3, SuffixOfStem DEF YAML
  <1> QED BY <1>4, <1>5 DEF IsDocumented, IsManifest

\* What can be loaded has the extension of a known format.
LEMMA LoadableFormat ==
  ASSUME source \in Source, NEW f, Loadable(f)
  PROVE  /\ DecoderOf(f) \in 1..Len(source.decoders)
         /\ source.decoders[DecoderOf(f)] \in {"json", "yaml"}
         /\ Ext(f.base) \in {JSON, YAML}
         /\ Decodable(source.decoders[DecoderOf(f)], f.doc.run)
         /\ Decodable(source.decoders[DecoderOf(f)], f.doc.command)
  <1> DEFINE Can(d) == /\ Supports(d, Ext(f.base)) /\ f.valid
                       /\ Decodable(d, f.doc.run) /\ Decodable(d, f.doc.command)
             able == {i \in 1..Len(source.decoders) : Can(source.decoders[i])}
  <1>1. source.decoders \in Seq({"json", "yaml"})
    BY DEF Source
  <1>2. DecoderOf(f) = IF able # {} THEN Min(able) ELSE 0
    BY DEF DecoderOf, SelectInSeq
  <1>3. DecoderOf(f) > 0
    BY DEF Loadable
  <1>4. able # {} /\ DecoderOf(f) = Min(able)
    BY <1>2, <1>3
  <1>5. DecoderOf(f) \in able
    <2>1. Len(source.decoders) \in Nat
      BY <1>1, LenProperties
    <2>2. able \subseteq Nat
      BY <2>1
    <2> HIDE DEF able
    <2> QED BY <1>4, <2>2, MinProperty
  <1>6. DecoderOf(f) \in 1..Len(source.decoders) /\ Can(source.decoders[DecoderOf(f)])
    BY <1>5
  <1> HIDE DEF able
  <1>7. source.decoders[DecoderOf(f)] \in {"json", "yaml"}
    BY <1>1, <1>6, ElementOfSeq
  <1> QED BY <1>6, <1>7 DEF Supports

------------------------------------------------------------------------------
(* The walk *)

\* What Load makes of a file.
Scripted(f) ==
  LET m == Manifest(f) IN
  IF NeedsScript(m)
  THEN [m EXCEPT !.command = <<Path(source.tree[FindExecutable(f.dir, m.name)])>>,
                 !.driver = "shell"]
  ELSE m

Result(f) == [Scripted(f) EXCEPT !.directory = f.dir]

HasScript(f) ==
  NeedsScript(Manifest(f)) => FindExecutable(f.dir, Manifest(f).name) > 0

Loaded(f) == IsManifest(f) /\ Loadable(f) /\ HasScript(f)

\* What has been walked past is loaded if it is documented.
WalkInv ==
  /\ source \in Source
  /\ at \in 1..Len(source.tree) + 1
  /\ outcome \in {"none", "ok", "err"}
  /\ outcome = "ok" => at > Len(source.tree)
  /\ \E S : procs \in Seq(S)
  /\ Len(procs) = Cardinality(Documented)
  /\ \A j \in Documented : Loaded(source.tree[j]) /\ procs[Place(j)] = Result(source.tree[j])

LEMMA DocumentedFinite ==
  ASSUME at \in Nat
  PROVE  /\ IsFiniteSet(Documented) /\ Cardinality(Documented) \in Nat
         /\ at > 0 => Cardinality(Documented) < at
  <1>1. IsFiniteSet(1..(at - 1)) /\ (at > 0 => Cardinality(1..(at - 1)) = at - 1)
    BY FS_Interval
  <1>2. Documented \in SUBSET (1..(at - 1))
    BY DEF Documented
  <1>3. IsFiniteSet(Documented) /\ Cardinality(Documented) <= Cardinality(1..(at - 1))
    BY <1>1, <1>2, FS_Subset
  <1>4. Cardinality(Documented) \in Nat
    BY <1>3, FS_CardinalityType
  <1> QED BY <1>1, <1>3, <1>4

LEMMA PlaceIs ==
  ASSUME at \in Nat, NEW j \in Documented
  PROVE  Place(j) \in 1..Cardinality(Documented)
  <1> DEFINE before == {l \in Documented : l <= j}
  <1>1. j \in 1..(at - 1)
    BY DEF Documented
  <1>2. before \in SUBSET Documented /\ j \in before
    BY <1>1
  <1>3. Place(j) = Cardinality(before)
    BY DEF Place
  <1> HIDE DEF before
  <1>4. IsFiniteSet(before) /\ Cardinality(before) <= Cardinality(Documented)
    BY <1>2, DocumentedFinite, FS_Subset
  <1>5. Cardinality(before) \in Nat /\ Cardinality(before) # 0
    BY <1>2, <1>4, FS_CardinalityType, FS_EmptySet
  <1> QED BY <1>3, <1>4, <1>5, DocumentedFinite

LEMMA SamePlace ==
  ASSUME UNCHANGED source, Documented' = Documented
  PROVE  \A j : Place(j)' = Place(j)
  BY DEF Place

LEMMA SameTree ==
  ASSUME UNCHANGED source, NEW f
  PROVE  Loaded(f)' = Loaded(f) /\ Result(f)' = Result(f) /\ IsDocumented(f)' = IsDocumented(f)
  <1>1. IsManifest(f)' = IsManifest(f) /\ IsDocumented(f)' = IsDocumented(f)
    BY DEF IsManifest, IsDocumented
  <1>2. DecoderOf(f)' = DecoderOf(f)
    BY DEF DecoderOf, SelectInSeq
  <1>3. Loadable(f)' = Loadable(f)
    BY <1>2 DEF Loadable
  <1>4. NameOf(f)' = NameOf(f)
    BY DEF NameOf
  <1>5. Manifest(f)' = Manifest(f)
    BY <1>2, <1>4 DEF Manifest
  <1>6. \A d, s : FindExec(d, s)' = FindExec(d, s)
    BY DEF FindExec, SelectInSeq
  <1>7. \A d, s : FindExecutable(d, s)' = FindExecutable(d, s)
    BY <1>6 DEF FindExecutable, SelectInSeq
  <1>8. HasScript(f)' = HasScript(f)
    BY <1>5, <1>7 DEF HasScript
  <1>9. Scripted(f)' = Scripted(f)
    BY <1>5, <1>7 DEF Scripted
  <1> QED BY <1>1, <1>3, <1>8, <1>9 DEF Loaded, Result

LEMMA CurrentIs ==
  ASSUME WalkInv, Walking
  PROVE  at \in 1..Len(source.tree) /\ at \in Nat /\ Current \in Entry
  <1>1. source.tree \in Seq(Entry)
    BY DEF WalkInv, Source
  <1>2. at \in 1..Len(source.tree)
    BY <1>1 DEF WalkInv, Walking
  <1> QED BY <1>1, <1>2 DEF Current

LEMMA InitWalk == InitLoader => WalkInv
  <1> SUFFICES ASSUME InitLoader PROVE WalkInv
    OBVIOUS
  <1>1. source \in Source /\ at = 1 /\ procs = <<>> /\ outcome = "none"
    BY LoaderAssumption DEF InitLoader
  <1>2. Documented = {}
    BY <1>1 DEF Documented
  <1>3. Cardinality(Documented) = 0
    BY <1>2, FS_EmptySet
  <1>4. Len(source.tree) \in Nat
    BY <1>1, LenProperties DEF Source
  <1>5. procs \in Seq({}) /\ Len(procs) = 0
    BY <1>1
  <1> QED BY <1>1, <1>2, <1>3, <1>4, <1>5 DEF WalkInv

LEMMA SkipWalk ==
  ASSUME WalkInv, Skip
  PROVE  WalkInv'
  <1>1. Walking /\ ~IsManifest(Current) /\ at' = at + 1 /\ UNCHANGED <<source, procs, outcome>>
    BY DEF Skip
  <1>2. at \in 1..Len(source.tree) /\ at \in Nat /\ Current \in Entry
    BY <1>1, CurrentIs
  <1>3. ~IsDocumented(source.tree[at])
    BY <1>1, <1>2, DocumentedIs DEF Current, WalkInv
  <1>4. Documented' = Documented
    <2>1. Documented' = {j \in 1..at : IsDocumented(source.tree[j])}
      <3>1. Documented' = {j \in 1..((at + 1) - 1) : IsDocumented(source.tree[j])}
        BY <1>1, SameTree DEF Documented
      <3> QED BY <3>1, <1>2
    <2> QED BY <2>1, <1>2, <1>3 DEF Documented
  <1>5. \A j : Place(j)' = Place(j)
    BY <1>1, <1>4, SamePlace
  <1>6. \A j \in Documented' :
          /\ Loaded(source.tree[j])'
          /\ procs'[Place(j)'] = Result(source.tree[j])'
    <2> SUFFICES ASSUME NEW j \in Documented
                 PROVE  Loaded(source.tree[j])' /\ procs'[Place(j)'] = Result(source.tree[j])'
      BY <1>4
    <2>1. Loaded(source.tree[j]) /\ procs[Place(j)] = Result(source.tree[j])
      BY DEF WalkInv
    <2> DEFINE f == source.tree[j]
    <2>2. f' = f
      BY <1>1
    <2>3. Loaded(f)' = Loaded(f) /\ Result(f)' = Result(f)
      BY <1>1, SameTree
    <2> QED BY <2>1, <2>2, <2>3, <1>1, <1>5
  <1> QED BY <1>1, <1>2, <1>4, <1>6 DEF WalkInv, Walking

LEMMA FoundWalk ==
  ASSUME WalkInv, Walking, Loaded(Current), Found(Scripted(Current))
  PROVE  WalkInv'
  <1>1. /\ at' = at + 1 /\ UNCHANGED <<source, outcome>>
        /\ procs' = Append(procs, Result(Current))
    BY DEF Found, Result
  <1>2. at \in 1..Len(source.tree) /\ at \in Nat /\ Current \in Entry
    BY CurrentIs
  <1>3. IsDocumented(source.tree[at])
    <2>1. source \in Source /\ IsManifest(Current) /\ Loadable(Current)
      BY DEF WalkInv, Loaded
    <2> QED BY <2>1, <1>2, DocumentedIs, LoadableFormat DEF Current
  <1>4. at \notin Documented /\ Documented \subseteq 1..(at - 1)
    BY <1>2 DEF Documented
  <1>5. Documented' = Documented \cup {at}
    <2>1. Documented' = {j \in 1..((at + 1) - 1) : IsDocumented(source.tree[j])}
      BY <1>1, SameTree DEF Documented
    <2> QED BY <2>1, <1>2, <1>3 DEF Documented
  <1>6. /\ IsFiniteSet(Documented) /\ Cardinality(Documented) \in Nat
        /\ Cardinality(Documented') = Cardinality(Documented) + 1
    <2>1. IsFiniteSet(Documented) /\ Cardinality(Documented) \in Nat
      BY <1>2, DocumentedFinite
    <2>2. Cardinality(Documented \cup {at}) = Cardinality(Documented) + 1
      BY <2>1, <1>4, FS_AddElement
    <2> QED BY <2>1, <2>2, <1>5
  <1>7. \A j \in Documented : Place(j)' = Place(j)
    <2> SUFFICES ASSUME NEW j \in Documented PROVE Place(j)' = Place(j)
      OBVIOUS
    <2>1. {l \in Documented' : l <= j} = {l \in Documented : l <= j}
      BY <1>2, <1>4, <1>5
    <2> QED BY <2>1 DEF Place
  <1>8. PICK c \in Nat : c = at
    BY <1>2
  <1>9. Place(c)' = Cardinality(Documented) + 1
    <2>1. {l \in Documented' : l <= c} = Documented'
      <3>1. \A l \in Documented : l <= c
        <4>1. \A l \in 1..(at - 1) : l <= c
          BY <1>8
        <4> QED BY <4>1, <1>4
      <3>2. \A l \in Documented' : l <= c
        BY <3>1, <1>5, <1>8
      <3> QED BY <3>2
    <2> QED BY <2>1, <1>6 DEF Place
  <1>10. PICK S : procs \in Seq(S) /\ Result(Current) \in S
    <2>1. PICK S : procs \in Seq(S)
      BY DEF WalkInv
    <2>2. procs \in Seq(S \cup {Result(Current)})
      BY <2>1, SeqMonotonic
    <2> QED BY <2>2
  <1>11. /\ procs' \in Seq(S) /\ Len(procs') = Len(procs) + 1
         /\ \A i \in 1..Len(procs) : procs'[i] = procs[i]
         /\ procs'[Len(procs) + 1] = Result(Current)
    BY <1>1, <1>10, AppendProperties
  <1>12. Len(procs) = Cardinality(Documented)
    BY DEF WalkInv
  <1>13. ASSUME NEW j \in Documented
         PROVE  Loaded(source.tree[j])' /\ procs'[Place(j)'] = Result(source.tree[j])'
    <2>1. Loaded(source.tree[j]) /\ procs[Place(j)] = Result(source.tree[j])
      BY DEF WalkInv
    <2>2. Loaded(source.tree[j])' /\ Result(source.tree[j])' = Result(source.tree[j])
      BY <1>1, <2>1, SameTree
    <2>3. Place(j) \in 1..Len(procs)
      BY <1>2, <1>12, PlaceIs
    <2> QED BY <2>1, <2>2, <2>3, <1>7, <1>11
  <1>14. Loaded(source.tree[c])' /\ procs'[Place(c)'] = Result(source.tree[c])'
    <2>1. Current = source.tree[c]
      BY <1>8 DEF Current
    <2>2. Loaded(source.tree[c])' /\ Result(source.tree[c])' = Result(source.tree[c])
      BY <1>1, <2>1, SameTree
    <2> QED BY <2>1, <2>2, <1>9, <1>11, <1>12
  <1>15. \A j \in Documented' :
           Loaded(source.tree[j])' /\ procs'[Place(j)'] = Result(source.tree[j])'
    BY <1>5, <1>8, <1>13, <1>14
  <1>16. source' \in Source /\ at' \in 1..Len(source'.tree) + 1 /\ outcome' = "none"
    BY <1>1, <1>2 DEF WalkInv, Walking
  <1>17. Len(procs') = Cardinality(Documented')
    BY <1>6, <1>11, <1>12
  <1> QED BY <1>11, <1>15, <1>16, <1>17 DEF WalkInv

LEMMA StaysWalk ==
  ASSUME WalkInv, UNCHANGED <<source, at, procs>>,
         outcome' = outcome \/ outcome' = "err" \/ (outcome' = "ok" /\ at > Len(source.tree))
  PROVE  WalkInv'
  <1>1. Documented' = Documented
    BY SameTree DEF Documented
  <1>2. \A j : Place(j)' = Place(j)
    BY <1>1, SamePlace
  <1>3. ASSUME NEW j \in Documented
        PROVE  Loaded(source.tree[j])' /\ procs'[Place(j)'] = Result(source.tree[j])'
    <2>1. Loaded(source.tree[j]) /\ procs[Place(j)] = Result(source.tree[j])
      BY DEF WalkInv
    <2>2. Loaded(source.tree[j])' /\ Result(source.tree[j])' = Result(source.tree[j])
      BY <2>1, SameTree
    <2> QED BY <2>1, <2>2, <1>2
  <1> QED BY <1>1, <1>3 DEF WalkInv

LEMMA NextWalk ==
  ASSUME WalkInv, [Walk]_loader
  PROVE  WalkInv'
  <1>1. CASE Skip
    BY <1>1, SkipWalk
  <1>2. CASE Load
    <2>1. Scripted(Current) = Manifest(Current) /\ Loaded(Current)
      BY <1>2 DEF Load, Scripted, Loaded, HasScript
    <2> QED BY <1>2, <2>1, FoundWalk DEF Load
  <1>3. CASE Discover
    <2>1. Found(Scripted(Current)) /\ Loaded(Current)
      BY <1>3 DEF Discover, Scripted, Loaded, HasScript
    <2> QED BY <1>3, <2>1, FoundWalk DEF Discover
  <1>4. CASE LoadFails
    BY <1>4, StaysWalk DEF LoadFails
  <1>5. CASE Finish
    BY <1>5, StaysWalk DEF Finish
  <1>6. CASE UNCHANGED loader
    BY <1>6, StaysWalk DEF loader
  <1> QED BY <1>1, <1>2, <1>3, <1>4, <1>5, <1>6 DEF Walk

\* What Load makes of a file is a manifest that has been decoded; it differs from
\* what the file says in its command and its driver, if there is a script, and in
\* its directory.
LEMMA ResultIs ==
  ASSUME source \in Source, NEW f \in Entry
  PROVE  /\ IsDecoded(Manifest(f)) /\ NormalForm(Manifest(f))
         /\ Result(f).directory = f.dir /\ Result(f).name = Manifest(f).name
         /\ Result(f).command =
              IF NeedsScript(Manifest(f))
              THEN <<Path(source.tree[FindExecutable(f.dir, Manifest(f).name)])>>
              ELSE Manifest(f).command
  <1> DEFINE m == Manifest(f)
  <1>1. IsDecoded(m) /\ NormalForm(m)
    BY ManifestForm DEF Entry
  <1>2. Result(f) = [Scripted(f) EXCEPT !.directory = f.dir]
    BY DEF Result
  <1>3. Scripted(f) = IF NeedsScript(m)
                      THEN [m EXCEPT
                              !.command = <<Path(source.tree[FindExecutable(f.dir, m.name)])>>,
                              !.driver = "shell"]
                      ELSE m
    BY DEF Scripted
  <1> HIDE DEF m
  <1>4. CASE NeedsScript(m)
    BY <1>1, <1>2, <1>3, <1>4 DEF IsDecoded, m
  <1>5. CASE ~NeedsScript(m)
    BY <1>1, <1>2, <1>3, <1>5 DEF IsDecoded, m
  <1> QED BY <1>1, <1>4, <1>5 DEF m

LEMMA DocumentedEntry ==
  ASSUME WalkInv, NEW j \in Documented
  PROVE  /\ source \in Source /\ source.tree[j] \in Entry /\ Loaded(source.tree[j])
         /\ procs[Place(j)] = Result(source.tree[j])
  <1>1. source.tree \in Seq(Entry) /\ Len(source.tree) \in Nat /\ at \in 1..Len(source.tree) + 1
    BY LenProperties DEF WalkInv, Source
  <1>2. j \in 1..Len(source.tree)
    BY <1>1 DEF Documented
  <1>3. source.tree[j] \in Entry
    BY <1>1, <1>2, ElementOfSeq
  <1> QED BY <1>3 DEF WalkInv

\* Load either fails or returns one manifest for every documented file of the
\* tree, in the order of the walk, whatever the tree and the options (Load).
THEOREM LoadSkipsNothing == LoaderSpec => []NothingSkipped
  <1>1. WalkInv => NothingSkipped
    BY DocumentedEntry, ResultIs DEF WalkInv, NothingSkipped
  <1> QED BY InitWalk, NextWalk, <1>1, PTL DEF LoaderSpec

LEMMA TypeOfLoader == LoaderInv /\ WalkInv => LoaderTypeOK
  <1> SUFFICES ASSUME LoaderInv, WalkInv PROVE LoaderTypeOK
    OBVIOUS
  <1>1. ASSUME NEW i \in DOMAIN procs
        PROVE  procs[i].driver # "" /\ procs[i].mode \notin {"", "default"}
    <2>1. PICK S : procs \in Seq(S) /\ \A m \in S : Kept(m)
      BY DEF LoaderInv
    <2>2. procs[i] \in S
      BY <2>1, LenProperties, ElementOfSeq
    <2> QED BY <2>1, <2>2 DEF Kept
  <1>2. at \in Nat /\ at > 0
    BY DEF LoaderInv
  <1>3. Len(procs) < at
    BY <1>2, DocumentedFinite DEF WalkInv
  <1> QED BY <1>1, <1>3 DEF WalkInv, LoaderTypeOK

\* At every step Load has at most one manifest for each entry it has walked past,
\* and each has a driver and a mode that are not the old spellings (Load,
\* Normalize).
THEOREM LoaderTypeCorrect == LoaderSpec => []LoaderTypeOK
  BY InitKeeps, NextKeeps, InitWalk, NextWalk, TypeOfLoader, PTL DEF LoaderSpec

------------------------------------------------------------------------------
(* The name of a procedure *)

\* Trimming the letters of the extension leaves the stem, unless it ends with one
\* of them.
LEMMA TrimmedIsStem ==
  ASSUME NEW S, NEW base \in Seq(S), NEW x, x # ".", NEW y, y # ".",
         Ext(base) = <<".", x, y>>, Len(base) > 3,
         base[Len(base) - 3] \notin ToSet(Ext(base))
  PROVE  TrimRight(base, Ext(base)) = Stem(base)
  <1> DEFINE other == {i \in 1..Len(base) : base[i] \notin ToSet(Ext(base))}
  <1>1. PICK n \in Nat : n = Len(base)
    BY LenProperties
  <1>2. base[n - 2] = "." /\ base[n - 1] = x /\ base[n] = y
    BY <1>1, FormatExt
  <1>3. {".", x, y} \subseteq ToSet(Ext(base))
    <2>1. <<".", x, y>>[1] = "." /\ <<".", x, y>>[2] = x /\ <<".", x, y>>[3] = y
          /\ DOMAIN <<".", x, y>> = 1..3
      OBVIOUS
    <2> QED BY <2>1 DEF ToSet
  <1>4. n - 3 \in other
    BY <1>1
  <1>5. n \notin other /\ n - 1 \notin other /\ n - 2 \notin other
    BY <1>2, <1>3
  <1>6. other \subseteq 0..n
    BY <1>1
  <1> HIDE DEF other
  <1>7. \A i \in {0} \cup other : n - 3 >= i
    BY <1>1, <1>5, <1>6
  <1>8. Max({0} \cup other) = n - 3
    <2> DEFINE all == {0} \cup other
    <2>1. PICK k \in all : k = n - 3
      BY <1>4
    <2>2. all \subseteq 0..n /\ \A i \in all : k >= i
      BY <1>6, <1>7, <2>1
    <2> HIDE DEF all
    <2>3. Max(all) = k
      BY <2>2, MaxIs
    <2> QED BY <2>1, <2>3 DEF all
  <1>9. TrimRight(base, Ext(base)) = SubSeq(base, 1, n - 3)
    BY <1>8 DEF TrimRight, other
  <1>10. Len(Ext(base)) = 3
    OBVIOUS
  <1> QED BY <1>1, <1>9, <1>10 DEF Stem

\* What is before the suffix and the extension is the name, or the directory is,
\* when nothing is before them.
LEMMA NameOfIs ==
  ASSUME NEW S, NEW f, f.base \in Seq(S), source.suffix \in Seq(S),
         NEW x \in S, x # ".", NEW y \in S, y # ".", "." \in S,
         Ext(f.base) = <<".", x, y>>, IsSuffix(source.suffix, Stem(f.base)),
         source.suffix # <<>>, Last(source.suffix) \notin ToSet(Ext(f.base)),
         NEW before,
         before = SubSeq(f.base, 1, Len(f.base) - Len(source.suffix \o Ext(f.base)))
  PROVE  NameOf(f) = IF before # <<>> THEN before ELSE f.dir
  <1>1. PICK base \in Seq(S) : base = f.base
    OBVIOUS
  <1>2. PICK suffix \in Seq(S) : suffix = source.suffix
    OBVIOUS
  <1>3. PICK n \in Nat : n = Len(base)
    BY LenProperties
  <1>4. PICK k \in Nat \ {0} : k = Len(suffix)
    BY <1>2, EmptySeq
  <1>5. PICK stem \in Seq(S) : stem = Stem(base)
    BY <1>1, StemIs
  <1>6. Len(stem) = n - 3 /\ n >= 3 /\ \A i \in 1..n - 3 : stem[i] = base[i]
    BY <1>1, <1>3, <1>5, StemIs
  <1>7. k <= n - 3 /\ \A i \in 1..k : suffix[i] = stem[((n - 3) - k) + i]
    <2>1. IsSuffix(suffix, stem)
      BY <1>1, <1>2, <1>5
    <2>2. Len(suffix) <= Len(stem)
          /\ \A i \in 1..Len(suffix) : suffix[i] = stem[(Len(stem) - Len(suffix)) + i]
      BY <2>1, SuffixIs
    <2> QED BY <2>2, <1>4, <1>6
  <1>8. base[n - 3] = Last(suffix)
    <2>1. suffix[k] = stem[((n - 3) - k) + k] /\ ((n - 3) - k) + k = n - 3
      BY <1>7
    <2>2. suffix[k] = stem[n - 3] /\ n - 3 \in 1..n - 3
      BY <2>1, <1>7
    <2> QED BY <2>2, <1>4, <1>6 DEF Last
  <1>9. TrimRight(f.base, Ext(f.base)) = stem
    <2>1. Len(base) > 3 /\ Len(base) - 3 = n - 3
      BY <1>3, <1>7
    <2>2. base[Len(base) - 3] \notin ToSet(Ext(base))
      BY <2>1, <1>1, <1>2, <1>8
    <2>3. Ext(base) = <<".", x, y>>
      BY <1>1
    <2> QED BY <2>1, <2>2, <2>3, <1>1, <1>5, TrimmedIsStem
  <1>10. before = SubSeq(base, 1, (n - 3) - k)
    <2>1. Len(source.suffix \o Ext(f.base)) = k + 3
      BY <1>2, <1>4
    <2>2. PICK m \in Nat : m = k + 3
      BY <1>4
    <2>3. Len(source.suffix \o Ext(f.base)) = m /\ Len(f.base) = n
      BY <2>1, <2>2, <1>1, <1>3
    <2>4. n - m = (n - 3) - k
      BY <2>2, <1>3, <1>4
    <2>5. before = SubSeq(base, 1, n - m)
      BY <2>3, <1>1, Zenon
    <2> QED BY <2>4, <2>5
  <1>11. before \in Seq(S) /\ Len(before) = (n - 3) - k
         /\ \A i \in 1..(n - 3) - k : before[i] = base[i]
    <2>1. PICK d \in Nat : d = (n - 3) - k /\ d <= n
      BY <1>7
    <2>2. \A i \in 1..d : base[i] \in S
      BY <2>1, <1>3, ElementOfSeq
    <2>3. /\ SubSeq(base, 1, d) \in Seq(S) /\ Len(SubSeq(base, 1, d)) = d
          /\ \A i \in 1..d : SubSeq(base, 1, d)[i] = base[i]
      BY <2>1, <2>2, SubSeqProperties
    <2> QED BY <2>1, <2>3, <1>10
  <1>12. before # <<>> <=> (n - 3) - k # 0
    BY <1>11, EmptySeq
  <1>13. CASE (n - 3) - k = 0
    <2>1. \A i \in 1..k : suffix[i] = stem[i]
      BY <1>7, <1>13
    <2>2. Len(suffix) = Len(stem)
      BY <1>4, <1>6, <1>13
    <2>3. suffix = stem
      BY <2>1, <2>2, <1>4, SeqEqual
    <2> QED BY <2>3, <1>2, <1>9, <1>12, <1>13 DEF NameOf
  <1>14. CASE (n - 3) - k # 0
    <2>1. stem # suffix
      BY <1>4, <1>6, <1>14
    <2>2. NameOf(f) = TrimSuffix(stem, suffix)
      BY <2>1, <1>2, <1>9 DEF NameOf
    <2>3. NameOf(f) = SubSeq(stem, 1, (n - 3) - k)
      BY <2>2, <1>1, <1>2, <1>4, <1>5, <1>6 DEF TrimSuffix
    <2>4. /\ NameOf(f) \in Seq(S) /\ Len(NameOf(f)) = (n - 3) - k
          /\ \A i \in 1..(n - 3) - k : NameOf(f)[i] = stem[i]
      BY <2>3, <1>6, <1>7
    <2>5. \A i \in 1..(n - 3) - k : NameOf(f)[i] = before[i]
      <3>1. \A i \in 1..(n - 3) - k : i \in 1..n - 3
        BY <1>7
      <3> QED BY <3>1, <2>4, <1>6, <1>11
    <2>6. NameOf(f) = before
      BY <2>4, <2>5, <1>11, SeqEqual
    <2> QED BY <2>6, <1>12, <1>14
  <1> QED BY <1>13, <1>14

LEMMA ManifestName ==
  ASSUME source \in Source, NEW f \in Entry
  PROVE  Manifest(f).name = IF f.doc.name # <<>> THEN f.doc.name ELSE NameOf(f)
  BY DEF Manifest, Decode, Normalize, Entry, Document

LEMMA NamesAreRight == WalkInv => NameRight
  <1> SUFFICES ASSUME WalkInv, NEW j \in Documented,
                      source.suffix # <<>>,
                      Last(source.suffix) \notin ToSet(Ext(source.tree[j].base))
               PROVE  LET f      == source.tree[j]
                          ext    == Ext(f.base)
                          before == SubSeq(f.base, 1, Len(f.base) - Len(source.suffix \o ext))
                      IN  procs[Place(j)].name = IF f.doc.name # <<>> THEN f.doc.name
                                                 ELSE IF before # <<>> THEN before ELSE f.dir
    BY Zenon DEF NameRight
  <1>1. PICK f \in Entry : f = source.tree[j]
    BY DocumentedEntry
  <1>2. source \in Source /\ Loaded(f) /\ procs[Place(j)] = Result(f)
    BY <1>1, DocumentedEntry
  <1>3. procs[Place(j)].name = IF f.doc.name # <<>> THEN f.doc.name ELSE NameOf(f)
    BY <1>2, ResultIs, ManifestName
  <1>4. f.base \in Seq(Letters) /\ source.suffix \in Seq(Letters)
    <2>1. f.base \in Seq(Text) /\ source.suffix \in Seq(Text)
      BY <1>2 DEF Entry, Source
    <2>2. Text \subseteq Letters
      BY DEF Letters
    <2> QED BY <2>1, <2>2, SeqMonotonic
  <1>5. {"j", "n", "y", "l", "."} \subseteq Letters
    BY DEF Letters
  <1>6. PICK x \in Letters, y \in Letters :
          x # "." /\ y # "." /\ Ext(f.base) = <<".", x, y>>
    <2>1. Ext(f.base) \in {JSON, YAML}
      BY <1>2, LoadableFormat DEF Loaded
    <2>2. CASE Ext(f.base) = JSON
      <3>1. "j" # "." /\ "n" # "." /\ "j" \in Letters /\ "n" \in Letters
        BY <1>5
      <3> QED BY <2>2, <3>1 DEF JSON
    <2>3. CASE Ext(f.base) = YAML
      <3>1. "y" # "." /\ "l" # "." /\ "y" \in Letters /\ "l" \in Letters
        BY <1>5
      <3> QED BY <2>3, <3>1 DEF YAML
    <2> QED BY <2>1, <2>2, <2>3
  <1>7. IsSuffix(source.suffix, Stem(f.base))
    BY <1>2 DEF Loaded, IsManifest
  <1> DEFINE before == SubSeq(f.base, 1, Len(f.base) - Len(source.suffix \o Ext(f.base)))
  <1>8. Last(source.suffix) \notin ToSet(Ext(f.base))
    BY <1>1
  <1>9. "." \in Letters
    BY <1>5
  <1>10. NameOf(f) = IF before # <<>> THEN before ELSE f.dir
    BY <1>4, <1>6, <1>7, <1>8, <1>9, NameOfIs
  <1> QED BY <1>1, <1>3, <1>10

\* A procedure is called what its manifest says, or what its file is called before
\* the suffix, or as its directory, for any tree and any suffix that does not end
\* with a letter of the extension (loadManifest).
THEOREM LoadNamesRight == LoaderSpec => []NameRight
  BY InitWalk, NextWalk, NamesAreRight, PTL DEF LoaderSpec

------------------------------------------------------------------------------
(* The script of a procedure *)

\* A pattern without letters that mean something else matches itself alone.
LEMMA PlainMatches ==
  ASSUME NEW S, NEW p \in Seq(S), NEW s \in Seq(S), Plain(p)
  PROVE  Matches(p, s) <=> s = p
  <1>1. \A i \in 1..Len(p) : Denotes(p[i]) = {p[i]}
    BY DEF Plain, Special, Denotes
  <1>2. CASE s = p
    BY <1>1, <1>2 DEF Matches
  <1>3. ASSUME Matches(p, s) PROVE s = p
    <2>1. Len(p) = Len(s) /\ \A i \in 1..Len(p) : s[i] = p[i]
      BY <1>1, <1>3 DEF Matches
    <2> QED BY <2>1, SeqEqual
  <1> QED BY <1>2, <1>3

LEMMA PlainMatchesItself ==
  ASSUME NEW p, Plain(p)
  PROVE  Matches(p, p)
  BY DEF Plain, Special, Denotes, Matches

\* An executable file of a directory, of that name.
IsScript(f, dir, name) ==
  f.kind = "file" /\ f.dir = dir /\ Stem(f.base) = name /\ f.executable

LEMMA FindExecIs ==
  ASSUME source \in Source, NEW dir \in Seq(Text \ {"*"}), Plain(dir), NEW name, Plain(name)
  PROVE  /\ FindExec(dir, name) \in 0..Len(source.tree)
         /\ FindExec(dir, name) > 0 => IsScript(source.tree[FindExec(dir, name)], dir, name)
         /\ FindExec(dir, name) = 0 =>
              \A i \in 1..Len(source.tree) : ~IsScript(source.tree[i], dir, name)
  <1> DEFINE fits == {i \in 1..Len(source.tree) : IsScript(source.tree[i], dir, name)}
  <1>1. PICK n \in Nat : n = Len(source.tree)
    BY LenProperties DEF Source
  <1>2. FindExec(dir, name) = IF fits # {} THEN Min(fits) ELSE 0
    <2>1. \A i \in 1..Len(source.tree) :
            Matches(dir, source.tree[i].dir) <=> source.tree[i].dir = dir
      <3>1. ASSUME NEW i \in 1..Len(source.tree)
            PROVE  source.tree[i].dir \in Seq(Text \ {"*"})
        <4>1. source.tree \in Seq(Entry)
          BY DEF Source
        <4>2. source.tree[i] \in Entry
          BY <4>1
        <4> QED BY <4>2 DEF Entry
      <3> QED BY <3>1, PlainMatches
    <2>2. Matches(name, name)
      BY PlainMatchesItself
    <2>3. fits = {i \in 1..Len(source.tree) :
                    /\ source.tree[i].kind = "file" /\ Matches(dir, source.tree[i].dir)
                    /\ Matches(name, name) /\ Stem(source.tree[i].base) = name
                    /\ source.tree[i].executable}
      BY <2>1, <2>2 DEF IsScript
    <2> HIDE DEF fits
    <2> QED BY <2>3 DEF FindExec, SelectInSeq
  <1>3. CASE fits = {}
    BY <1>1, <1>2, <1>3
  <1>4. CASE fits # {}
    <2>1. fits \subseteq Nat /\ fits \subseteq 1..n
      BY <1>1
    <2>2. FindExec(dir, name) \in fits
      <3> HIDE DEF fits
      <3> QED BY <1>2, <1>4, <2>1, MinProperty
    <2>3. FindExec(dir, name) \in 1..n /\ IsScript(source.tree[FindExec(dir, name)], dir, name)
      BY <1>1, <2>2
    <2> QED BY <1>1, <2>3
  <1> QED BY <1>3, <1>4

LEMMA CandidatesAre ==
  ASSUME NEW name
  PROVE  /\ Len(Candidates(name)) = 4
         /\ Candidates(name)[1] = name /\ Candidates(name)[2] = Scripts[1]
         /\ Candidates(name)[3] = Scripts[2] /\ Candidates(name)[4] = Scripts[3]
  <1> DEFINE S == {name, <<"r">>, <<"e">>, <<"m">>}
  <1>1. <<name>> \in Seq(S) /\ Scripts \in Seq(S)
    BY DEF Scripts
  <1> HIDE DEF S
  <1>2. PICK one \in Seq(S) : one = <<name>>
    BY <1>1
  <1>3. PICK many \in Seq(S) : many = Scripts
    BY <1>1
  <1>4. Len(one) = 1 /\ one[1] = name /\ Len(many) = 3
    BY <1>2, <1>3 DEF Scripts
  <1>5. /\ Len(one \o many) = 4
        /\ \A i \in 1..4 : (one \o many)[i] = IF i <= 1 THEN one[i] ELSE many[i - 1]
    <2>1. /\ Len(one \o many) = Len(one) + Len(many)
          /\ \A i \in 1..Len(one) + Len(many) :
               (one \o many)[i] = IF i <= Len(one) THEN one[i] ELSE many[i - Len(one)]
      BY <1>2, <1>3, ConcatProperties, ZenonT(60)
    <2>2. Len(one) + Len(many) = 4
      BY <1>4
    <2> QED BY <2>1, <2>2, <1>4
  <1>6. /\ (one \o many)[1] = one[1] /\ (one \o many)[2] = many[1]
        /\ (one \o many)[3] = many[2] /\ (one \o many)[4] = many[3]
    BY <1>5
  <1>7. Candidates(name) = one \o many
    BY <1>2, <1>3 DEF Candidates
  <1> QED BY <1>3, <1>4, <1>5, <1>6, <1>7

LEMMA PlainCandidates ==
  ASSUME NEW name, Plain(name), NEW c \in 1..4
  PROVE  Plain(Candidates(name)[c])
  <1>1. Plain(Scripts[1]) /\ Plain(Scripts[2]) /\ Plain(Scripts[3])
    BY DEF Plain, Special, Scripts
  <1>2. c = 1 \/ c = 2 \/ c = 3 \/ c = 4
    OBVIOUS
  <1> QED BY <1>1, <1>2, CandidatesAre

\* The script that is found is one of the first candidate that there is a script of.
LEMMA FindExecutableIs ==
  ASSUME source \in Source, NEW dir \in Seq(Text \ {"*"}), Plain(dir),
         NEW name, Plain(name), FindExecutable(dir, name) > 0
  PROVE  \E c \in 1..4 :
           /\ FindExecutable(dir, name) = FindExec(dir, Candidates(name)[c])
           /\ FindExec(dir, Candidates(name)[c]) > 0
           /\ \A d \in 1..(c - 1) : FindExec(dir, Candidates(name)[d]) = 0
  <1> DEFINE there == {c \in 1..Len(Candidates(name)) : FindExec(dir, Candidates(name)[c]) > 0}
             k == IF there # {} THEN Min(there) ELSE 0
  <1>1. FindExecutable(dir, name) = IF k = 0 THEN 0 ELSE FindExec(dir, Candidates(name)[k])
    BY DEF FindExecutable, SelectInSeq
  <1>2. there = {c \in 1..4 : FindExec(dir, Candidates(name)[c]) > 0}
    BY CandidatesAre
  <1>3. k # 0 /\ FindExecutable(dir, name) = FindExec(dir, Candidates(name)[k])
    <2> HIDE DEF k
    <2> QED BY <1>1
  <1>4. there \subseteq Nat /\ there # {}
    BY <1>2, <1>3
  <1>5. k \in there /\ \A d \in there : k =< d
    <2> HIDE DEF there
    <2> QED BY <1>4, MinProperty
  <1> HIDE DEF k
  <1>6. k \in 1..4 /\ FindExec(dir, Candidates(name)[k]) > 0
    BY <1>2, <1>5
  <1>7. ASSUME NEW d \in 1..(k - 1) PROVE FindExec(dir, Candidates(name)[d]) = 0
    <2>1. d \in 1..4 /\ ~(k =< d)
      BY <1>6
    <2>2. d \notin there
      BY <2>1, <1>5
    <2>3. ~(FindExec(dir, Candidates(name)[d]) > 0)
      BY <2>1, <2>2, <1>2
    <2>4. Plain(Candidates(name)[d])
      BY <2>1, PlainCandidates
    <2>5. FindExec(dir, Candidates(name)[d]) \in Nat
      <3>1. Len(source.tree) \in Nat
        BY LenProperties DEF Source
      <3> QED BY <2>4, <3>1, FindExecIs
    <2> QED BY <2>3, <2>5
  <1> QED BY <1>3, <1>6, <1>7

\* Of all the scripts in the directory the one that is found ranks first.
LEMMA FoundRanksFirst ==
  ASSUME source \in Source, NEW dir \in Seq(Text \ {"*"}), Plain(dir),
         NEW name, Plain(name), FindExecutable(dir, name) > 0
  PROVE  \E f \in {g \in ToSet(source.tree) : g.dir = dir} :
           /\ f = source.tree[FindExecutable(dir, name)]
           /\ Rank(name, f) < 5
           /\ \A g \in {h \in ToSet(source.tree) : h.dir = dir} : Rank(name, f) <= Rank(name, g)
  <1>1. PICK c \in 1..4 :
          /\ FindExecutable(dir, name) = FindExec(dir, Candidates(name)[c])
          /\ FindExec(dir, Candidates(name)[c]) > 0
          /\ \A d \in 1..(c - 1) : FindExec(dir, Candidates(name)[d]) = 0
    BY FindExecutableIs
  <1>2. PICK f : f = source.tree[FindExecutable(dir, name)]
    OBVIOUS
  <1>3. IsScript(f, dir, Candidates(name)[c]) /\ FindExecutable(dir, name) \in 1..Len(source.tree)
    <2>1. Plain(Candidates(name)[c])
      BY PlainCandidates
    <2>2. Len(source.tree) \in Nat
      BY LenProperties DEF Source
    <2> QED BY <1>1, <1>2, <2>1, <2>2, FindExecIs
  <1>4. DOMAIN source.tree = 1..Len(source.tree)
    BY LenProperties DEF Source
  <1>5. f \in {g \in ToSet(source.tree) : g.dir = dir}
    BY <1>2, <1>3, <1>4 DEF ToSet, IsScript
  <1>6. ASSUME NEW g \in {h \in ToSet(source.tree) : h.dir = dir}, NEW d \in 1..(c - 1)
        PROVE  ~IsScript(g, dir, Candidates(name)[d])
    <2>1. PICK i \in 1..Len(source.tree) : g = source.tree[i]
      BY <1>4 DEF ToSet
    <2>2. Plain(Candidates(name)[d])
      <3>1. d \in 1..4
        OBVIOUS
      <3> QED BY <3>1, PlainCandidates
    <2> QED BY <2>1, <2>2, <1>1, FindExecIs
  <1>7. ASSUME NEW g \in {h \in ToSet(source.tree) : h.dir = dir}
        PROVE  Rank(name, g) \in 1..5 /\ c <= Rank(name, g)
    <2>1. CASE ~(g.kind = "file" /\ g.executable)
      BY <2>1 DEF Rank
    <2>2. CASE g.kind = "file" /\ g.executable
      <3>1. \A d \in 1..(c - 1) : Stem(g.base) # Candidates(name)[d]
        BY <2>2, <1>6 DEF IsScript
      <3>2. /\ 1 < c => Stem(g.base) # name
            /\ 2 < c => Stem(g.base) # Scripts[1]
            /\ 3 < c => Stem(g.base) # Scripts[2]
        <4>1. /\ 1 < c => 1 \in 1..(c - 1)
              /\ 2 < c => 2 \in 1..(c - 1)
              /\ 3 < c => 3 \in 1..(c - 1)
          OBVIOUS
        <4> QED BY <4>1, <3>1, CandidatesAre
      <3> QED BY <2>2, <3>2 DEF Rank
    <2> QED BY <2>1, <2>2
  <1>8. Rank(name, f) =< c
    <2>1. f.kind = "file" /\ f.executable /\ Stem(f.base) = Candidates(name)[c]
      BY <1>3 DEF IsScript
    <2>2. CASE c = 1
      BY <2>1, <2>2, CandidatesAre DEF Rank
    <2>3. CASE c = 2
      BY <2>1, <2>3, CandidatesAre DEF Rank
    <2>4. CASE c = 3
      BY <2>1, <2>4, CandidatesAre DEF Rank
    <2>5. CASE c = 4
      BY <2>1, <2>5, CandidatesAre DEF Rank
    <2> QED BY <2>2, <2>3, <2>4, <2>5
  <1>9. Rank(name, f) = c
    BY <1>5, <1>7, <1>8
  <1>10. \A g \in {h \in ToSet(source.tree) : h.dir = dir} : Rank(name, f) <= Rank(name, g)
    BY <1>7, <1>9
  <1> QED BY <1>2, <1>5, <1>9, <1>10

\* What becomes of the fields of a document.
FieldsOf(m, doc, format) ==
  LET run == Parts(format, doc.run) IN
  /\ m.driver = Or(Or(doc.driver, doc.type), "exec")
  /\ m.mode = NormalMode(doc.mode, doc.interface)
  /\ m.command = IF run = <<>> THEN Parts(format, doc.command) ELSE run
  /\ m.scriptMode = (doc.run.form # "list" /\ run # <<>>)
  /\ m.args = doc.args /\ m.docker = doc.docker
  /\ m.params = [i \in 1..Len(doc.params) |-> NormalParam(doc.params[i])]
  /\ m.output = NormalOutput(doc.output)

LEMMA ManifestFields ==
  ASSUME NEW f, f.doc \in Document, NEW format, format = source.decoders[DecoderOf(f)]
  PROVE  FieldsOf(Manifest(f), f.doc, format)
  <1> DEFINE doc   == f.doc
             m     == Decode(format, doc)
             named == IF m.name = <<>> THEN [m EXCEPT !.name = NameOf(f)] ELSE m
  <1>1. PICK run : run = RunSpec(format, doc.run)
    OBVIOUS
  <1>2. PICK command : command = Parts(format, doc.command)
    OBVIOUS
  <1>3. m = [doc EXCEPT !.run = run, !.command = command]
    BY <1>1, <1>2 DEF Decode
  <1>4. doc \in Document
    OBVIOUS
  <1> HIDE DEF m, doc
  <1>5. /\ m = [name |-> doc.name, directory |-> doc.directory, driver |-> doc.driver,
                type |-> doc.type, mode |-> doc.mode, interface |-> doc.interface,
                run |-> run, command |-> command, args |-> doc.args,
                params |-> doc.params, output |-> doc.output, docker |-> doc.docker,
                scriptMode |-> doc.scriptMode]
        /\ doc.scriptMode = FALSE
    BY <1>3, <1>4 DEF Document
  <1>6. PICK name : named = [name |-> name, directory |-> doc.directory, driver |-> doc.driver,
                             type |-> doc.type, mode |-> doc.mode, interface |-> doc.interface,
                             run |-> run, command |-> command, args |-> doc.args,
                             params |-> doc.params, output |-> doc.output,
                             docker |-> doc.docker, scriptMode |-> doc.scriptMode]
    <2>1. CASE m.name = <<>>
      <3>1. named = [m EXCEPT !.name = NameOf(f)]
        BY <2>1
      <3> HIDE DEF named
      <3> QED BY <3>1, <1>5
    <2>2. CASE m.name # <<>>
      <3>1. named = m
        BY <2>2
      <3> HIDE DEF named
      <3> QED BY <3>1, <1>5
    <2> QED BY <2>1, <2>2
  <1>7. Manifest(f) = Normalize(named)
    BY <1>4 DEF Manifest, m, doc
  <1> HIDE DEF named
  <1> DEFINE params == [i \in 1..Len(doc.params) |-> NormalParam(doc.params[i])]
  <1>8. Normalize(named) =
          [named EXCEPT
             !.command    = IF run.parts = <<>> THEN command ELSE run.parts,
             !.scriptMode = IF run.parts = <<>> THEN FALSE ELSE run.isScript,
             !.driver     = Or(Or(doc.driver, doc.type), "exec"),
             !.mode       = NormalMode(doc.mode, doc.interface),
             !.params     = params,
             !.output     = NormalOutput(doc.output)]
    <2>1. /\ named.run = run /\ named.command = command /\ named.driver = doc.driver
          /\ named.type = doc.type /\ named.mode = doc.mode
          /\ named.interface = doc.interface /\ named.params = doc.params
          /\ named.output = doc.output /\ named.scriptMode = FALSE
      BY <1>5, <1>6
    <2> QED BY <2>1 DEF Normalize
  <1> HIDE DEF params
  <1>9. /\ Normalize(named).driver = Or(Or(doc.driver, doc.type), "exec")
        /\ Normalize(named).mode = NormalMode(doc.mode, doc.interface)
        /\ Normalize(named).command = IF run.parts = <<>> THEN command ELSE run.parts
        /\ Normalize(named).scriptMode = IF run.parts = <<>> THEN FALSE ELSE run.isScript
        /\ Normalize(named).args = doc.args /\ Normalize(named).docker = doc.docker
        /\ Normalize(named).params = params
        /\ Normalize(named).output = NormalOutput(doc.output)
    BY <1>6, <1>8, ZenonT(60)
  <1>10. /\ run.parts = Parts(format, doc.run)
         /\ run.isScript = (doc.run.form # "list" /\ run.parts # <<>>)
    BY <1>1 DEF RunSpec
  <1>11. (IF run.parts = <<>> THEN FALSE ELSE run.isScript)
           = (doc.run.form # "list" /\ run.parts # <<>>)
    BY <1>10
  <1> QED BY <1>2, <1>7, <1>9, <1>10, <1>11 DEF params, doc, FieldsOf

\* What a manifest says that it runs, and with which driver, when it is normal.
Given(doc) == IF doc.run.words = <<>> THEN doc.command.words ELSE doc.run.words

LEMMA ManifestCommand ==
  ASSUME source \in Source, NEW f \in Entry,
         f.doc.run.form # "null", f.doc.command.form # "null"
  PROVE  /\ Manifest(f).command = Given(f.doc)
         /\ Manifest(f).driver = Or(f.doc.driver, Or(f.doc.type, "exec"))
  <1>1. PICK format : format = source.decoders[DecoderOf(f)]
    OBVIOUS
  <1>2. Parts(format, f.doc.run) = f.doc.run.words
        /\ Parts(format, f.doc.command) = f.doc.command.words
    BY DEF Parts
  <1>3. f.doc \in Document
    BY DEF Entry
  <1>4. /\ Manifest(f).driver = Or(Or(f.doc.driver, f.doc.type), "exec")
        /\ Manifest(f).command = IF Parts(format, f.doc.run) = <<>>
                                 THEN Parts(format, f.doc.command)
                                 ELSE Parts(format, f.doc.run)
    <2>1. FieldsOf(Manifest(f), f.doc, format)
      BY <1>1, <1>3, ManifestFields
    <2> QED BY <2>1 DEF FieldsOf
  <1> QED BY <1>2, <1>4 DEF Given, Or

LEMMA ScriptsAreRight == WalkInv => DiscoveryRight
  <1> SUFFICES ASSUME WalkInv, NEW j \in Documented,
                      source.tree[j].doc.run.form # "null",
                      source.tree[j].doc.command.form # "null",
                      Plain(procs[Place(j)].directory), Plain(procs[Place(j)].name)
               PROVE  LET m     == procs[Place(j)]
                          doc   == source.tree[j].doc
                          given == IF doc.run.words = <<>> THEN doc.command.words
                                   ELSE doc.run.words
                          here  == {f \in ToSet(source.tree) : f.dir = m.directory}
                      IN
                      IF given \in {<<>>, <<"">>} /\ Or(doc.driver, Or(doc.type, "exec")) = "exec"
                      THEN \E f \in here :
                             /\ m.command = <<Path(f)>>
                             /\ Rank(m.name, f) < 5
                             /\ \A g \in here : Rank(m.name, f) <= Rank(m.name, g)
                      ELSE m.command = given
    BY Zenon DEF DiscoveryRight
  <1>1. PICK f \in Entry : f = source.tree[j]
    BY DocumentedEntry
  <1>2. source \in Source /\ Loaded(f) /\ procs[Place(j)] = Result(f)
    BY <1>1, DocumentedEntry
  <1>3. PICK m : m = Result(f)
    OBVIOUS
  <1>4. /\ m.directory = f.dir /\ m.name = Manifest(f).name
        /\ m.command = IF NeedsScript(Manifest(f))
                       THEN <<Path(source.tree[FindExecutable(f.dir, Manifest(f).name)])>>
                       ELSE Manifest(f).command
    BY <1>2, <1>3, ResultIs
  <1>5. Manifest(f).command = Given(f.doc)
        /\ Manifest(f).driver = Or(f.doc.driver, Or(f.doc.type, "exec"))
    BY <1>1, <1>2, ManifestCommand
  <1>6. NeedsScript(Manifest(f)) <=>
          Given(f.doc) \in {<<>>, <<"">>} /\ Or(f.doc.driver, Or(f.doc.type, "exec")) = "exec"
    BY <1>5 DEF NeedsScript, CommandIsEmpty
  <1>7. CASE NeedsScript(Manifest(f))
    <2>1. FindExecutable(f.dir, m.name) > 0
      BY <1>2, <1>4, <1>7 DEF Loaded, HasScript
    <2>2. PICK s \in {g \in ToSet(source.tree) : g.dir = f.dir} :
            /\ s = source.tree[FindExecutable(f.dir, m.name)]
            /\ Rank(m.name, s) < 5
            /\ \A g \in {h \in ToSet(source.tree) : h.dir = f.dir} :
                 Rank(m.name, s) <= Rank(m.name, g)
      <3>1. Plain(f.dir) /\ Plain(m.name)
        BY <1>2, <1>3, <1>4
      <3>2. f.dir \in Seq(Text \ {"*"})
        BY DEF Entry
      <3> QED BY <1>2, <2>1, <3>1, <3>2, FoundRanksFirst
    <2>3. m.command = <<Path(s)>>
      BY <2>2, <1>4, <1>7
    <2> DEFINE here == {g \in ToSet(source.tree) : g.dir = m.directory}
    <2>4. here = {g \in ToSet(source.tree) : g.dir = f.dir}
      BY <1>4
    <2> HIDE DEF here
    <2>5. \E g \in here : /\ m.command = <<Path(g)>>
                          /\ Rank(m.name, g) < 5
                          /\ \A h \in here : Rank(m.name, g) <= Rank(m.name, h)
      BY <2>2, <2>3, <2>4, Zenon
    <2>6. Given(source.tree[j].doc) \in {<<>>, <<"">>}
          /\ Or(source.tree[j].doc.driver, Or(source.tree[j].doc.type, "exec")) = "exec"
      BY <1>1, <1>6, <1>7
    <2>7. m = procs[Place(j)]
      BY <1>2, <1>3
    <2> QED BY <2>5, <2>6, <2>7, Zenon DEF Given, here
  <1>8. CASE ~NeedsScript(Manifest(f))
    BY <1>8, <1>1, <1>2, <1>3, <1>4, <1>5, <1>6 DEF Given
  <1> QED BY <1>7, <1>8

\* What runs is what the manifest says, or the script that comes first in the
\* documented order, for any tree and any manifest without a null whose directory
\* and name are not read as patterns of something else (findExecutable).
THEOREM LoadDiscoversRight == LoaderSpec => []DiscoveryRight
  BY InitWalk, NextWalk, ScriptsAreRight, PTL DEF LoaderSpec

------------------------------------------------------------------------------
(* Old spellings *)

\* What Exec does is decided by these fields.
LEMMA SamePlan ==
  ASSUME NEW m, NEW o,
         o.driver = m.driver, o.mode = m.mode, o.command = m.command, o.args = m.args,
         o.docker = m.docker, o.scriptMode = m.scriptMode,
         OutputUse(o.output) = OutputUse(m.output), Len(o.params) = Len(m.params),
         \A i \in 1..Len(m.params) : ParamUse(o.params[i]) = ParamUse(m.params[i])
  PROVE  Plan(o) = Plan(m)
  <1>1. Kind(o) = Kind(m) /\ IsStream(o) = IsStream(m)
    BY DEF Kind, IsStream
  <1>2. Words(o) = Words(m)
    BY <1>1 DEF Words
  <1>3. [i \in 1..Len(o.params) |-> ParamUse(o.params[i])]
          = [i \in 1..Len(m.params) |-> ParamUse(m.params[i])]
    OBVIOUS
  <1> QED BY <1>1, <1>2, <1>3 DEF Plan

\* The fields of a document in the old spelling.
OldParam(p, old) ==
  IF "stdin" \in old THEN LegacyParam(p) ELSE p

OldOutput(o, old) ==
  IF "output" \in old /\ o.type = "file" THEN [o EXCEPT !.type = "", !.isTmpFile = TRUE] ELSE o

Moved(doc, old) == "run" \in old /\ IsArgv(doc.run)

LegacyOf(l, doc, old) ==
  /\ l.driver = IF "driver" \in old THEN "" ELSE doc.driver
  /\ l.type = IF "driver" \in old THEN Or(doc.driver, doc.type) ELSE doc.type
  /\ l.mode = IF "mode" \in old THEN "" ELSE doc.mode
  /\ l.interface = IF "mode" \in old
                   THEN Or(IF doc.mode = "call" THEN "default" ELSE doc.mode, doc.interface)
                   ELSE doc.interface
  /\ l.run = IF Moved(doc, old) THEN Absent ELSE doc.run
  /\ l.command = IF Moved(doc, old) THEN doc.run ELSE doc.command
  /\ l.args = doc.args /\ l.docker = doc.docker
  /\ Len(l.params) = Len(doc.params)
  /\ \A i \in 1..Len(doc.params) : l.params[i] = OldParam(doc.params[i], old)
  /\ l.output = OldOutput(doc.output, old)

LEMMA LegacyFields ==
  ASSUME NEW doc \in Document, NEW old
  PROVE  Legacy(doc, old) \in Document /\ LegacyOf(Legacy(doc, old), doc, old)
  <1> DEFINE driver == IF "driver" \in old THEN "" ELSE doc.driver
             type   == IF "driver" \in old THEN Or(doc.driver, doc.type) ELSE doc.type
             mode   == IF "mode" \in old THEN "" ELSE doc.mode
             interface == IF "mode" \in old
                          THEN Or(IF doc.mode = "call" THEN "default" ELSE doc.mode, doc.interface)
                          ELSE doc.interface
             params == IF "stdin" \in old
                       THEN [i \in DOMAIN doc.params |-> LegacyParam(doc.params[i])]
                       ELSE doc.params
             run     == IF Moved(doc, old) THEN Absent ELSE doc.run
             command == IF Moved(doc, old) THEN doc.run ELSE doc.command
             output  == OldOutput(doc.output, old)
  <1>1. /\ doc.driver \in Text /\ doc.type \in Text /\ doc.mode \in Text
        /\ doc.interface \in Text /\ doc.run \in Node /\ doc.command \in Node
        /\ doc.params \in Seq(Param) /\ doc.output \in Output
    BY DEF Document
  <1>2. driver \in Text /\ type \in Text /\ mode \in Text /\ interface \in Text
    BY <1>1, TextAssumption DEF Or
  <1>3. Absent \in Node
    BY EmptySeq DEF Absent, Node
  <1>4. run \in Node /\ command \in Node
    BY <1>1, <1>3
  <1>5. output \in Output
    BY <1>1, TextAssumption DEF OldOutput, Output
  <1>6. params \in Seq(Param) /\ Len(params) = Len(doc.params)
        /\ \A i \in 1..Len(doc.params) : params[i] = OldParam(doc.params[i], old)
    <2>1. Len(doc.params) \in Nat /\ DOMAIN doc.params = 1..Len(doc.params)
      BY <1>1, LenProperties
    <2>2. \A i \in 1..Len(doc.params) : doc.params[i] \in Param
      BY <1>1, ElementOfSeq
    <2>3. CASE "stdin" \in old
      <3>1. params = [i \in 1..Len(doc.params) |-> OldParam(doc.params[i], old)]
        BY <2>1, <2>3 DEF OldParam
      <3> HIDE DEF params
      <3>2. \A i \in 1..Len(doc.params) : OldParam(doc.params[i], old) \in Param
        BY <2>2, <2>3 DEF OldParam, LegacyParam, Param
      <3>3. params \in [1..Len(doc.params) -> Param]
        BY <3>1, <3>2
      <3> QED BY <2>1, <3>1, <3>3, FunctionIsSequence
    <2>4. CASE "stdin" \notin old
      BY <1>1, <2>4 DEF OldParam
    <2> QED BY <2>3, <2>4
  <1>7. Legacy(doc, old) =
          [doc EXCEPT !.driver = driver, !.type = type, !.mode = mode, !.interface = interface,
                      !.params = params, !.output = output, !.run = run, !.command = command]
    <2>1. /\ driver = IF "driver" \in old THEN "" ELSE doc.driver
          /\ type = IF "driver" \in old THEN Or(doc.driver, doc.type) ELSE doc.type
          /\ mode = IF "mode" \in old THEN "" ELSE doc.mode
          /\ interface = IF "mode" \in old
                         THEN Or(IF doc.mode = "call" THEN "default" ELSE doc.mode,
                                 doc.interface)
                         ELSE doc.interface
      OBVIOUS
    <2>2. params = IF "stdin" \in old
                   THEN [i \in DOMAIN doc.params |-> LegacyParam(doc.params[i])]
                   ELSE doc.params
      OBVIOUS
    <2>3. /\ run = IF "run" \in old /\ IsArgv(doc.run) THEN Absent ELSE doc.run
          /\ command = IF "run" \in old /\ IsArgv(doc.run) THEN doc.run ELSE doc.command
          /\ output = IF "output" \in old /\ doc.output.type = "file"
                      THEN [doc.output EXCEPT !.type = "", !.isTmpFile = TRUE]
                      ELSE doc.output
      BY DEF Moved, OldOutput
    <2> HIDE DEF driver, type, mode, interface, params, run, command, output
    <2> QED BY <2>1, <2>2, <2>3, ZenonT(60) DEF Legacy
  <1> HIDE DEF driver, type, mode, interface, params, run, command, output
  <1>8. /\ Legacy(doc, old) \in Document
        /\ Legacy(doc, old).driver = driver /\ Legacy(doc, old).type = type
        /\ Legacy(doc, old).mode = mode /\ Legacy(doc, old).interface = interface
        /\ Legacy(doc, old).run = run /\ Legacy(doc, old).command = command
        /\ Legacy(doc, old).args = doc.args /\ Legacy(doc, old).docker = doc.docker
        /\ Legacy(doc, old).params = params /\ Legacy(doc, old).output = output
    BY <1>2, <1>4, <1>5, <1>6, <1>7, ZenonT(60) DEF Document
  <1> QED BY <1>6, <1>8
          DEF driver, type, mode, interface, run, command, output, LegacyOf

\* A manifest that can be loaded is loaded by the same decoder in the old spelling.
LEMMA SameDecoder ==
  ASSUME source \in Source, NEW f \in Entry, Loadable(f), NEW old, NEW g \in Entry,
         g = [f EXCEPT !.doc = Legacy(f.doc, old)]
  PROVE  DecoderOf(g) = DecoderOf(f)
  <1> DEFINE Can(e, d) == /\ Supports(d, Ext(e.base)) /\ e.valid
                          /\ Decodable(d, e.doc.run) /\ Decodable(d, e.doc.command)
             able(e) == {i \in 1..Len(source.decoders) : Can(e, source.decoders[i])}
  <1>1. DecoderOf(f) = (IF able(f) # {} THEN Min(able(f)) ELSE 0)
        /\ DecoderOf(g) = (IF able(g) # {} THEN Min(able(g)) ELSE 0)
    BY DEF DecoderOf, SelectInSeq
  <1>2. g.base = f.base /\ g.valid = f.valid /\ g.doc = Legacy(f.doc, old)
    BY DEF Entry
  <1>3. f.doc \in Document
    BY DEF Entry
  <1>4. /\ g.doc.run = IF Moved(f.doc, old) THEN Absent ELSE f.doc.run
        /\ g.doc.command = IF Moved(f.doc, old) THEN f.doc.run ELSE f.doc.command
    <2>1. LegacyOf(g.doc, f.doc, old)
      BY <1>2, <1>3, LegacyFields
    <2> QED BY <2>1 DEF LegacyOf
  <1>5. ASSUME NEW d, Can(f, d) PROVE Can(g, d)
    <2>1. Decodable(d, Absent)
      BY DEF Decodable, Absent
    <2>2. Decodable(d, g.doc.run) /\ Decodable(d, g.doc.command)
      BY <1>4, <1>5, <2>1
    <2> QED BY <1>2, <1>5, <2>2
  <1>6. PICK i \in 1..Len(source.decoders) : Can(f, source.decoders[i])
    BY LoadableFormat DEF Loadable, Supports, DecoderOf, SelectInSeq
  <1>7. ASSUME NEW k \in 1..Len(source.decoders), Can(g, source.decoders[k])
        PROVE  Can(f, source.decoders[k])
    <2>1. source.decoders[i] \in {"json", "yaml"} /\ source.decoders[k] \in {"json", "yaml"}
      BY <1>6, ElementOfSeq DEF Source
    <2>2. JSON # YAML
      BY DEF JSON, YAML
    <2>3. source.decoders[i] = source.decoders[k]
      BY <1>2, <1>6, <1>7, <2>1, <2>2 DEF Supports
    <2> QED BY <1>6, <2>3
  <1>8. able(g) = able(f)
    BY <1>5, <1>7
  <1> HIDE DEF able
  <1> QED BY <1>1, <1>8

LEMMA OldDriver ==
  ASSUME NEW driver, NEW type
  PROVE  Or(Or("", Or(driver, type)), "exec") = Or(Or(driver, type), "exec")
  BY DEF Or

LEMMA OldMode ==
  ASSUME NEW mode, NEW interface
  PROVE  NormalMode("", Or(IF mode = "call" THEN "default" ELSE mode, interface))
           = NormalMode(mode, interface)
  BY DEF NormalMode, Or

LEMMA OldParamUse ==
  ASSUME NEW p \in Param, NEW old
  PROVE  ParamUse(NormalParam(OldParam(p, old))) = ParamUse(NormalParam(p))
  <1> DEFINE stdin == p.stdin \/ p.isInput
  <1>1. ASSUME NEW q \in [type : {p.type}, stdin : BOOLEAN, isInput : BOOLEAN,
                          isTmpFile : {p.isTmpFile}],
               (q.stdin \/ q.isInput) = stdin
        PROVE  ParamUse(NormalParam(q)) = [stdin |-> stdin,
                                           path  |-> p.type = "file"
                                                     \/ (p.type = "binary" /\ p.isTmpFile)]
    <2>1. NormalParam(q) = [q EXCEPT !.stdin = stdin]
      BY <1>1, Zenon DEF NormalParam
    <2> HIDE DEF stdin
    <2>2. /\ NormalParam(q).stdin = stdin /\ NormalParam(q).type = p.type
          /\ NormalParam(q).isTmpFile = p.isTmpFile
      BY <2>1
    <2> QED BY <2>2, Zenon DEF ParamUse
  <1>2. p \in [type : {p.type}, stdin : BOOLEAN, isInput : BOOLEAN, isTmpFile : {p.isTmpFile}]
    BY DEF Param
  <1>3. ASSUME NEW b \in BOOLEAN
        PROVE  LET q == [p EXCEPT !.stdin = FALSE, !.isInput = b] IN
               /\ q \in [type : {p.type}, stdin : BOOLEAN, isInput : BOOLEAN,
                         isTmpFile : {p.isTmpFile}]
               /\ q.stdin = FALSE /\ q.isInput = b
    BY <1>2
  <1>4. p.isInput \/ p.stdin \in BOOLEAN
    BY <1>2
  <1>5. /\ LegacyParam(p) \in [type : {p.type}, stdin : BOOLEAN, isInput : BOOLEAN,
                               isTmpFile : {p.isTmpFile}]
        /\ (LegacyParam(p).stdin \/ LegacyParam(p).isInput) = stdin
    <2>1. PICK b \in BOOLEAN : b = (p.isInput \/ p.stdin)
      BY <1>2
    <2>2. LegacyParam(p) = [p EXCEPT !.stdin = FALSE, !.isInput = b]
      BY <2>1, Zenon DEF LegacyParam
    <2>3. LegacyParam(p).stdin = FALSE /\ LegacyParam(p).isInput = b
      BY <2>2, <1>3
    <2> QED BY <1>3, <2>1, <2>2, <2>3
  <1>6. (p.stdin \/ p.isInput) = stdin
    OBVIOUS
  <1> HIDE DEF stdin
  <1> QED BY <1>1, <1>2, <1>5, <1>6 DEF OldParam

LEMMA OldOutputUse ==
  ASSUME NEW o \in Output, NEW old
  PROVE  OutputUse(NormalOutput(OldOutput(o, old))) = OutputUse(NormalOutput(o))
  <1>1. CASE "output" \in old /\ o.type = "file"
    <2>1. OldOutput(o, old) = [name |-> o.name, type |-> "", isTmpFile |-> TRUE]
      BY <1>1 DEF OldOutput, Output
    <2>2. ASSUME NEW q \in Output, q.name = o.name,
                 (IF q.isTmpFile THEN Or(q.type, "file") ELSE q.type) = "file"
          PROVE  OutputUse(NormalOutput(q)) = [type |-> "binary", path |-> Or(o.name, "out")]
      <3>1. NormalOutput(q) = [q EXCEPT !.type = "file", !.name = Or(o.name, "out")]
        BY <2>2, Zenon DEF NormalOutput
      <3>2. NormalOutput(q).type = "file" /\ NormalOutput(q).name = Or(o.name, "out")
        BY <3>1 DEF Output
      <3> QED BY <3>2 DEF OutputUse
    <2>3. /\ OldOutput(o, old) \in Output /\ OldOutput(o, old).name = o.name
          /\ OldOutput(o, old).isTmpFile = TRUE /\ OldOutput(o, old).type = ""
      <3>1. o.name \in Text /\ "" \in Text
        BY TextAssumption DEF Output
      <3>2. [name |-> o.name, type |-> "", isTmpFile |-> TRUE] \in Output
        BY <3>1 DEF Output
      <3>3. OldOutput(o, old) \in Output
        BY <2>1, <3>2
      <3>4. OldOutput(o, old) = [o EXCEPT !.type = "", !.isTmpFile = TRUE]
        BY <1>1, Zenon DEF OldOutput
      <3>5. OldOutput(o, old).name = o.name /\ OldOutput(o, old).type = ""
        BY <3>4 DEF Output
      <3>6. OldOutput(o, old).isTmpFile = TRUE
        BY <3>4 DEF Output
      <3> QED BY <3>3, <3>5, <3>6
    <2>4. OutputUse(NormalOutput(OldOutput(o, old)))
            = [type |-> "binary", path |-> Or(o.name, "out")]
      BY <2>2, <2>3 DEF Or
    <2>5. (IF o.isTmpFile THEN Or(o.type, "file") ELSE o.type) = "file"
      BY <1>1, Literals DEF Or
    <2>6. OutputUse(NormalOutput(o)) = [type |-> "binary", path |-> Or(o.name, "out")]
      BY <2>2, <2>5
    <2> QED BY <2>4, <2>6
  <1>2. CASE ~("output" \in old /\ o.type = "file")
    BY <1>2 DEF OldOutput
  <1> QED BY <1>1, <1>2

LEMMA SameInOldSpelling ==
  ASSUME source \in Source, NEW f \in Entry, Loadable(f), NEW old, NEW g \in Entry,
         g = [f EXCEPT !.doc = Legacy(f.doc, old)]
  PROVE  Plan(Manifest(g)) = Plan(Manifest(f))
  <1>1. PICK format : format = source.decoders[DecoderOf(f)]
    OBVIOUS
  <1>2. format = source.decoders[DecoderOf(g)]
    BY <1>1, SameDecoder
  <1>3. PICK doc \in Document : doc = f.doc
    BY DEF Entry
  <1>4. PICK legacy \in Document : legacy = g.doc
    BY DEF Entry
  <1>5. legacy = Legacy(doc, old)
    BY <1>3, <1>4 DEF Entry
  <1>6. LegacyOf(legacy, doc, old)
    BY <1>5, LegacyFields
  <1> DEFINE m == Manifest(f)
             o == Manifest(g)
             run(d) == Parts(format, d.run)
  <1>7. FieldsOf(m, doc, format)
    BY <1>1, <1>3, ManifestFields
  <1>8. FieldsOf(o, legacy, format)
    BY <1>2, <1>4, ManifestFields
  <1> HIDE DEF m, o
  <1>9. o.driver = m.driver
    <2>1. /\ legacy.driver = IF "driver" \in old THEN "" ELSE doc.driver
          /\ legacy.type = IF "driver" \in old THEN Or(doc.driver, doc.type) ELSE doc.type
      BY <1>6 DEF LegacyOf
    <2>2. CASE "driver" \in old
      <3>1. m.driver = Or(Or(doc.driver, doc.type), "exec")
            /\ o.driver = Or(Or(legacy.driver, legacy.type), "exec")
        BY <1>7, <1>8 DEF FieldsOf
      <3>2. o.driver = Or(Or("", Or(doc.driver, doc.type)), "exec")
        BY <2>1, <2>2, <3>1
      <3> QED BY <3>1, <3>2, OldDriver, Zenon
    <2>3. CASE "driver" \notin old
      BY <2>1, <2>3, <1>7, <1>8 DEF FieldsOf
    <2> QED BY <2>2, <2>3
  <1>10. o.mode = m.mode
    <2>1. /\ legacy.mode = IF "mode" \in old THEN "" ELSE doc.mode
          /\ legacy.interface =
               IF "mode" \in old
               THEN Or(IF doc.mode = "call" THEN "default" ELSE doc.mode, doc.interface)
               ELSE doc.interface
      BY <1>6 DEF LegacyOf
    <2>2. CASE "mode" \in old
      <3>1. m.mode = NormalMode(doc.mode, doc.interface)
            /\ o.mode = NormalMode(legacy.mode, legacy.interface)
        BY <1>7, <1>8 DEF FieldsOf
      <3>2. o.mode = NormalMode("", Or(IF doc.mode = "call" THEN "default" ELSE doc.mode,
                                       doc.interface))
        BY <2>1, <2>2, <3>1
      <3> QED BY <3>1, <3>2, OldMode, Zenon
    <2>3. CASE "mode" \notin old
      BY <2>1, <2>3, <1>7, <1>8 DEF FieldsOf
    <2> QED BY <2>2, <2>3
  <1>11. o.command = m.command /\ o.scriptMode = m.scriptMode
    <2>1. /\ legacy.run = IF Moved(doc, old) THEN Absent ELSE doc.run
          /\ legacy.command = IF Moved(doc, old) THEN doc.run ELSE doc.command
      BY <1>6 DEF LegacyOf
    <2>2. CASE Moved(doc, old)
      <3>1. doc.run.form = "list" /\ doc.run.words # <<>>
        BY <2>2 DEF Moved, IsArgv
      <3>2. run(doc) = doc.run.words /\ run(legacy) = <<>>
            /\ Parts(format, legacy.command) = doc.run.words
        <4>1. legacy.run = Absent /\ legacy.command = doc.run
          BY <2>1, <2>2
        <4> QED BY <4>1, <3>1 DEF Parts, Absent
      <3> QED BY <1>7, <1>8, <3>1, <3>2 DEF FieldsOf
    <2>3. CASE ~Moved(doc, old)
      BY <2>1, <2>3, <1>7, <1>8 DEF FieldsOf
    <2> QED BY <2>2, <2>3
  <1>12. o.args = m.args /\ o.docker = m.docker
    BY <1>6, <1>7, <1>8 DEF LegacyOf, FieldsOf
  <1>13. Len(o.params) = Len(m.params)
         /\ \A i \in 1..Len(m.params) : ParamUse(o.params[i]) = ParamUse(m.params[i])
    <2>1. Len(legacy.params) = Len(doc.params)
          /\ \A i \in 1..Len(doc.params) : legacy.params[i] = OldParam(doc.params[i], old)
      BY <1>6 DEF LegacyOf
    <2>2. doc.params \in Seq(Param)
      BY DEF Document
    <2>3. PICK k \in Nat : k = Len(doc.params)
      BY <2>2, LenProperties
    <2>4. ASSUME NEW i \in 1..k
          PROVE  /\ m.params[i] = NormalParam(doc.params[i])
                 /\ o.params[i] = NormalParam(OldParam(doc.params[i], old))
                 /\ ParamUse(o.params[i]) = ParamUse(m.params[i])
      <3>1. doc.params[i] \in Param
        BY <2>2, <2>3, ElementOfSeq
      <3>2. m.params[i] = NormalParam(doc.params[i])
        BY <1>7, <2>3 DEF FieldsOf
      <3>3. o.params[i] = NormalParam(OldParam(doc.params[i], old))
        BY <1>8, <2>1, <2>3 DEF FieldsOf
      <3> QED BY <3>1, <3>2, <3>3, OldParamUse
    <2>5. Len(m.params) = k /\ Len(o.params) = k
      BY <1>7, <1>8, <2>1, <2>3 DEF FieldsOf
    <2> QED BY <2>4, <2>5
  <1>14. OutputUse(o.output) = OutputUse(m.output)
    <2>1. legacy.output = OldOutput(doc.output, old)
      BY <1>6 DEF LegacyOf
    <2>2. doc.output \in Output
      BY DEF Document
    <2> QED BY <2>1, <2>2, <1>7, <1>8, OldOutputUse DEF FieldsOf
  <1>15. Plan(o) = Plan(m)
    BY <1>9, <1>10, <1>11, <1>12, <1>13, <1>14, SamePlan
  <1> QED BY <1>15 DEF m, o

LEMMA OldSpellings == WalkInv => LegacyAccepted
  <1> SUFFICES ASSUME WalkInv, NEW j \in Documented,
                      NEW old \in SUBSET {"driver", "mode", "stdin", "output", "run"}
               PROVE  LET f == source.tree[j] IN
                      Plan(Manifest([f EXCEPT !.doc = Legacy(f.doc, old)])) = Plan(Manifest(f))
    BY Zenon DEF LegacyAccepted
  <1>1. PICK f \in Entry : f = source.tree[j]
    BY DocumentedEntry
  <1>2. source \in Source /\ Loadable(f)
    BY <1>1, DocumentedEntry DEF Loaded
  <1>3. PICK g : g = [f EXCEPT !.doc = Legacy(f.doc, old)]
    OBVIOUS
  <1>4. g \in Entry
    <2>1. Legacy(f.doc, old) \in Document
      BY LegacyFields DEF Entry
    <2> QED BY <1>3, <2>1 DEF Entry
  <1>5. Plan(Manifest(g)) = Plan(Manifest(f))
    BY <1>2, <1>3, <1>4, SameInOldSpelling
  <1> QED BY <1>1, <1>3, <1>5

\* A loaded manifest means the same however many of its fields are spelt in the
\* old way, whatever it says (Normalize, newDriver, proc.Exec).
THEOREM LoadAcceptsLegacy == LoaderSpec => []LegacyAccepted
  BY InitWalk, NextWalk, OldSpellings, PTL DEF LoaderSpec

==============================================================================
