---------------------------- MODULE FramingProofs ----------------------------
(***************************************************************************)
(* Proofs about Framing, for any number of calls, any sizes of the pipes   *)
(* and of the reader, and any lengths of requests and answers.             *)
(***************************************************************************)
EXTENDS Framing, SequenceTheorems, WellFoundedInduction, TLAPS

PCs    == {"idle", "write", "line", "header", "copy", "failed"}
Active == {"write", "line", "header", "copy"}

------------------------------------------------------------------------------
(* The invariants                                                          *)

\* The answer to the last request, and the byte at which the child gives one.
Answer == Frame(Len(lens), Last(lens))

Asks(byte) == byte.at = (IF child.early THEN 1 ELSE sizes[byte.of])

\* The children whose frames are read whole: their lines fit in the buffer,
\* their binary headers arrive in one piece.
Fits == IF child.format = "line" THEN \A len \in child.lengths : len < Size
                                 ELSE child.headerWhole

\* The ledgers agree, and a dead child neither reads nor writes.
ShapeInv ==
  /\ Len(lens) = Len(sizes) /\ Len(lens) <= MaxCalls
  /\ pc # "idle" => Len(lens) # 0
  /\ \A j \in 1..Len(inpipe) : inpipe[j].of <= Len(lens)
  /\ pc = "line" => child.format = "line"
  /\ pc \in {"header", "copy"} => child.format = "binary"
  /\ pc = "write" => sent < Last(sizes)
  /\ ~alive => child.mayDie /\ todo = <<>> /\ inpipe = <<>>
  /\ got \in Seq(Seq(Nat))
  /\ pc = "idle" => Len(got) = Len(lens)
  /\ pc # "idle" => Len(got) + 1 = Len(lens)

Empty  == buf = <<>> /\ wire = <<>> /\ todo = <<>>
Silent == Empty /\ target = <<>>

\* Exec has consumed p bytes of the answer and buffered those up to b; those up
\* to w are in the pipe and the child has yet to write the rest.
Flow(p, b, w) ==
  /\ p <= b /\ b <= w
  /\ buf  = SubSeq(Answer, p + 1, b)
  /\ wire = SubSeq(Answer, b + 1, w)
  /\ todo = IF alive THEN SubSeq(Answer, w + 1, Len(Answer)) ELSE <<>>
  /\ child.format = "binary" => b \notin 1..3 /\ w \notin 1..3
  /\ IF pc = "copy"
     THEN p >= 4 /\ target = SubSeq(Answer, 5, p) /\ left = Len(Answer) - p
     ELSE p = 0 /\ target = <<>>

\* Nothing but the answer to the last request is under way, from the byte of it
\* that asks for one until Exec has consumed it.
OnlyAnswer ==
  /\ pc = "idle" => Empty
  /\ pc \in Active => \/ Silent /\ pc # "copy"
                      \/ \E p, b, w \in 0..Len(Answer) : Flow(p, b, w)

AskedOnce ==
  pc # "failed" =>
    /\ pc = "write" /\ (sent = 0 \/ ~child.early) =>
         Silent /\ \A j \in 1..Len(inpipe) : ~Asks(inpipe[j])
    /\ \A j \in 1..Len(inpipe) : Asks(inpipe[j]) =>
         /\ inpipe[j].of = Len(lens) /\ Silent /\ pc \in {"write", "line", "header"}
         /\ \A k \in 1..Len(inpipe) : Asks(inpipe[k]) => k = j

\* What has been read is right, but for the last line of a child that died.
GotRight ==
  \A k \in 1..Len(got) :
    /\ IsPrefix(got[k], Payload(k, lens[k]))
    /\ got[k] # Payload(k, lens[k]) => /\ child.format = "line" /\ ~alive /\ k = Len(got)
                                       /\ pc \notin {"line", "header", "copy"}

StreamInv == Fits => OnlyAnswer /\ AskedOnce

FramingInv == ShapeInv /\ StreamInv /\ (Fits => GotRight)

------------------------------------------------------------------------------
(* Parts of sequences                                                      *)

\* The part of s from byte a + 1 to byte b.
LEMMA Slice ==
  ASSUME NEW S, NEW s \in Seq(S), NEW a \in Nat, NEW b \in Nat, a <= b, b <= Len(s)
  PROVE  /\ SubSeq(s, a + 1, b) \in Seq(S)
         /\ Len(SubSeq(s, a + 1, b)) = b - a
         /\ \A k \in 1..(b - a) : SubSeq(s, a + 1, b)[k] = s[a + k]
<1>1. Len(s) \in Nat
  BY LenProperties
<1>2. \A k \in (a + 1)..b : s[k] \in S
  BY <1>1, ElementOfSeq
<1>. QED
  BY <1>2, SubSeqProperties, Z3

LEMMA SliceIs ==
  ASSUME NEW S, NEW s \in Seq(S), NEW a \in Nat, NEW b \in Nat, a <= b, b <= Len(s),
         NEW t \in Seq(S), Len(t) = b - a, \A k \in 1..(b - a) : t[k] = s[a + k]
  PROVE  t = SubSeq(s, a + 1, b)
<1>1. /\ SubSeq(s, a + 1, b) \in Seq(S) /\ Len(SubSeq(s, a + 1, b)) = Len(t)
      /\ \A k \in 1..Len(t) : SubSeq(s, a + 1, b)[k] = t[k]
  BY Slice
<1>. QED
  BY <1>1, SeqEqual

LEMMA SliceEmpty ==
  ASSUME NEW s, NEW a \in Nat
  PROVE  SubSeq(s, a + 1, a) = <<>>
  BY SubSeqEmpty

LEMMA SliceNotEmpty ==
  ASSUME NEW S, NEW s \in Seq(S), NEW a \in Nat, NEW b \in Nat, a <= b, b <= Len(s)
  PROVE  SubSeq(s, a + 1, b) # <<>> <=> a < b
<1>1. SubSeq(s, a + 1, b) \in Seq(S) /\ Len(SubSeq(s, a + 1, b)) = b - a
  BY Slice
<1>2. SubSeq(s, a + 1, b) = <<>> <=> Len(SubSeq(s, a + 1, b)) = 0
  BY <1>1, EmptySeq
<1>. QED
  BY <1>1, <1>2

LEMMA SliceHead ==
  ASSUME NEW S, NEW s \in Seq(S), NEW a \in Nat, NEW b \in Nat, a <= b, b <= Len(s),
         NEW m \in 0..(b - a)
  PROVE  SubSeq(SubSeq(s, a + 1, b), 1, m) = SubSeq(s, a + 1, a + m)
<1>. DEFINE t == SubSeq(s, a + 1, b)
<1>1. t \in Seq(S) /\ Len(t) = b - a /\ \A k \in 1..(b - a) : t[k] = s[a + k]
  BY Slice
<1>2. SubSeq(t, 0 + 1, m) \in Seq(S) /\ Len(SubSeq(t, 0 + 1, m)) = m - 0
      /\ \A k \in 1..(m - 0) : SubSeq(t, 0 + 1, m)[k] = t[0 + k]
  <2>. HIDE DEF t
  <2>. QED
    BY <1>1, Slice
<1>. HIDE DEF t
<1>3. SubSeq(t, 1, m) \in Seq(S) /\ Len(SubSeq(t, 1, m)) = m
      /\ \A k \in 1..m : SubSeq(t, 1, m)[k] = s[a + k]
  BY <1>1, <1>2
<1>4. PICK c \in Nat : c = a + m
  OBVIOUS
<1>5. Len(s) \in Nat
  BY LenProperties
<1>6. a <= c /\ c <= Len(s) /\ c - a = m
  BY <1>4, <1>5
<1>7. SubSeq(t, 1, m) = SubSeq(s, a + 1, c)
  <2>. DEFINE u == SubSeq(t, 1, m)
  <2>1. u \in Seq(S) /\ Len(u) = c - a /\ \A k \in 1..(c - a) : u[k] = s[a + k]
    BY <1>3, <1>6
  <2>. HIDE DEF u
  <2>2. u = SubSeq(s, a + 1, c)
    BY <1>6, <2>1, SliceIs
  <2>. QED
    BY <2>2 DEF u
<1>. QED
  BY <1>4, <1>7 DEF t

LEMMA SliceFirst ==
  ASSUME NEW S, NEW s \in Seq(S), NEW b \in Nat, b <= Len(s), NEW m \in 0..b
  PROVE  SubSeq(SubSeq(s, 1, b), 1, m) = SubSeq(s, 1, m)
<1>1. 0 \in Nat /\ 0 <= b /\ m \in 0..(b - 0) /\ 0 + 1 = 1 /\ 0 + m = m
  OBVIOUS
<1>2. SubSeq(SubSeq(s, 0 + 1, b), 1, m) = SubSeq(s, 0 + 1, 0 + m)
  BY <1>1, SliceHead
<1>. QED
  BY <1>1, <1>2

LEMMA SliceTail ==
  ASSUME NEW S, NEW s \in Seq(S), NEW a \in Nat, NEW b \in Nat, a <= b, b <= Len(s),
         NEW m \in 0..(b - a)
  PROVE  SubSeq(SubSeq(s, a + 1, b), m + 1, Len(SubSeq(s, a + 1, b))) = SubSeq(s, a + m + 1, b)
<1>. DEFINE t == SubSeq(s, a + 1, b)
<1>1. t \in Seq(S) /\ Len(t) = b - a /\ \A k \in 1..(b - a) : t[k] = s[a + k]
  BY Slice
<1>. HIDE DEF t
<1>2. /\ SubSeq(t, m + 1, Len(t)) \in Seq(S)
      /\ Len(SubSeq(t, m + 1, Len(t))) = Len(t) - m
      /\ \A k \in 1..(Len(t) - m) : SubSeq(t, m + 1, Len(t))[k] = t[m + k]
  BY <1>1, Slice
<1>3. PICK c \in Nat : c = a + m
  OBVIOUS
<1>4. c <= b /\ b - c = Len(t) - m
  BY <1>1, <1>3
<1>5. SubSeq(t, m + 1, Len(t)) = SubSeq(s, c + 1, b)
  <2>. DEFINE u == SubSeq(t, m + 1, Len(t))
  <2>1. u \in Seq(S) /\ Len(u) = b - c
    BY <1>2, <1>4
  <2>2. \A k \in 1..(b - c) : u[k] = s[c + k]
    BY <1>1, <1>2, <1>3, <1>4
  <2>. HIDE DEF u
  <2>3. u = SubSeq(s, c + 1, b)
    BY <1>4, <2>1, <2>2, SliceIs
  <2>. QED
    BY <2>3 DEF u
<1>. QED
  BY <1>3, <1>5 DEF t

LEMMA SliceJoin ==
  ASSUME NEW S, NEW s \in Seq(S), NEW a \in Nat, NEW b \in Nat, NEW c \in Nat,
         a <= b, b <= c, c <= Len(s)
  PROVE  SubSeq(s, a + 1, b) \o SubSeq(s, b + 1, c) = SubSeq(s, a + 1, c)
<1>. DEFINE t == SubSeq(s, a + 1, b)
            u == SubSeq(s, b + 1, c)
<1>1. b <= Len(s)
  BY LenProperties
<1>2. t \in Seq(S) /\ Len(t) = b - a /\ \A k \in 1..(b - a) : t[k] = s[a + k]
  BY <1>1, Slice
<1>3. u \in Seq(S) /\ Len(u) = c - b /\ \A k \in 1..(c - b) : u[k] = s[b + k]
  BY Slice
<1>. HIDE DEF t, u
<1>4. /\ t \o u \in Seq(S) /\ Len(t \o u) = Len(t) + Len(u)
      /\ \A k \in 1..(Len(t) + Len(u)) :
           (t \o u)[k] = IF k <= Len(t) THEN t[k] ELSE u[k - Len(t)]
  BY <1>2, <1>3, ConcatProperties
<1>. DEFINE v == t \o u
<1>5. Len(v) = c - a
  BY <1>2, <1>3, <1>4
<1>6. ASSUME NEW k \in 1..(c - a), k <= b - a PROVE v[k] = s[a + k]
  BY <1>2, <1>3, <1>4, <1>6
<1>7. ASSUME NEW k \in 1..(c - a), ~(k <= b - a) PROVE v[k] = s[a + k]
  <2>1. v[k] = u[k - (b - a)]
    BY <1>2, <1>3, <1>4, <1>7
  <2>2. k - (b - a) \in 1..(c - b) /\ b + (k - (b - a)) = a + k
    BY <1>7
  <2>3. \A j \in 1..(c - b) : u[j] = s[b + j]
    BY <1>3
  <2>. QED
    BY <2>1, <2>2, <2>3
<1>8. v \in Seq(S)
  BY <1>4
<1>. HIDE DEF v
<1>9. \A k \in 1..(c - a) : v[k] = s[a + k]
  BY <1>6, <1>7
<1>10. a <= c
  OBVIOUS
<1>11. v = SubSeq(s, a + 1, c)
  BY <1>5, <1>8, <1>9, <1>10, SliceIs
<1>. QED
  BY <1>11 DEF t, u, v

\* The first m of the bytes after b are moved behind those before it.
LEMMA SliceMove ==
  ASSUME NEW S, NEW s \in Seq(S), NEW a \in Nat, NEW b \in Nat, NEW c \in Nat,
         a <= b, b <= c, c <= Len(s), NEW m \in 0..(c - b), NEW d \in Nat, d = b + m
  PROVE  /\ SubSeq(s, a + 1, b) \o SubSeq(SubSeq(s, b + 1, c), 1, m) = SubSeq(s, a + 1, d)
         /\ SubSeq(SubSeq(s, b + 1, c), m + 1, Len(SubSeq(s, b + 1, c))) = SubSeq(s, d + 1, c)
<1>1. Len(s) \in Nat
  BY LenProperties
<1>2. SubSeq(SubSeq(s, b + 1, c), 1, m) = SubSeq(s, b + 1, d)
  BY SliceHead
<1>3. b <= d /\ d <= Len(s)
  BY <1>1
<1>4. SubSeq(s, a + 1, b) \o SubSeq(s, b + 1, d) = SubSeq(s, a + 1, d)
  BY <1>3, SliceJoin
<1>5. SubSeq(SubSeq(s, b + 1, c), m + 1, Len(SubSeq(s, b + 1, c))) = SubSeq(s, d + 1, c)
  BY SliceTail
<1>. QED
  BY <1>2, <1>4, <1>5

LEMMA MinTwo ==
  ASSUME NEW x \in Int, NEW y \in Int
  PROVE  Min({x, y}) = IF x <= y THEN x ELSE y
  BY DEF Min

------------------------------------------------------------------------------
(* Frames                                                                  *)

LEMMA PayloadIs ==
  ASSUME NEW k \in Nat, NEW len \in Nat
  PROVE  /\ Payload(k, len) \in Seq(Nat) /\ Len(Payload(k, len)) = len
         /\ \A j \in 1..len : Payload(k, len)[j] = 100 + k
<1>1. Payload(k, len) \in [1..len -> Nat]
  BY DEF Payload
<1>2. Payload(k, len) \in Seq(Nat)
  BY <1>1, SeqDef
<1>3. DOMAIN Payload(k, len) = 1..len /\ DOMAIN Payload(k, len) = 1..Len(Payload(k, len))
  BY <1>1, <1>2, LenProperties
<1>4. Len(Payload(k, len)) \in Nat
  BY <1>2, LenProperties
<1>5. Len(Payload(k, len)) = len
  BY <1>3, <1>4
<1>. QED
  BY <1>2, <1>5 DEF Payload

\* The 4 bytes of a length give that length.
LEMMA LengthBytes ==
  ASSUME NEW len \in Lengths
  PROVE  /\ LittleEndian(len) \in Seq(Nat) /\ Len(LittleEndian(len)) = 4
         /\ LittleEndian(len)[1] + 256 * LittleEndian(len)[2]
              + 65536 * LittleEndian(len)[3] + 16777216 * LittleEndian(len)[4] = len
<1>1. /\ len \in Nat /\ len % 256 \in Nat /\ (len \div 256) % 256 \in Nat
      /\ (len \div 65536) % 256 \in Nat /\ len \div 16777216 \in Nat
  BY DEF Lengths
<1>2. (len % 256) + 256 * ((len \div 256) % 256) + 65536 * ((len \div 65536) % 256)
        + 16777216 * (len \div 16777216) = len
  BY <1>1
<1>. QED
  BY <1>1, <1>2 DEF LittleEndian

LEMMA BinaryFrame ==
  ASSUME child.format = "binary", NEW k \in Nat, NEW len \in Lengths
  PROVE  /\ Frame(k, len) \in Seq(Nat) /\ Len(Frame(k, len)) = len + 4
         /\ Frame(k, len)[1] + 256 * Frame(k, len)[2] + 65536 * Frame(k, len)[3]
              + 16777216 * Frame(k, len)[4] = len
         /\ SubSeq(Frame(k, len), 5, len + 4) = Payload(k, len)
<1>. DEFINE h == LittleEndian(len)
            d == Payload(k, len)
            f == h \o d
<1>1. len \in Nat
  BY DEF Lengths
<1>2. h \in Seq(Nat) /\ Len(h) = 4
  BY LengthBytes
<1>3. h[1] + 256 * h[2] + 65536 * h[3] + 16777216 * h[4] = len
  BY LengthBytes
<1>4. d \in Seq(Nat) /\ Len(d) = len
  BY <1>1, PayloadIs
<1>5. Frame(k, len) = f
  BY DEF Frame
<1>. HIDE DEF h, d
<1>6. f \in Seq(Nat) /\ Len(f) = len + 4
  <2>1. f \in Seq(Nat) /\ Len(f) = Len(h) + Len(d)
    BY <1>2, <1>4, ConcatProperties
  <2>. QED
    BY <1>1, <1>2, <1>4, <2>1
<1>7. \A j \in 1..(len + 4) : f[j] = IF j <= 4 THEN h[j] ELSE d[j - 4]
  <2>1. \A j \in 1..(Len(h) + Len(d)) : f[j] = IF j <= Len(h) THEN h[j] ELSE d[j - Len(h)]
    BY <1>2, <1>4, ConcatProperties
  <2>. HIDE DEF f
  <2>. QED
    BY <1>1, <1>2, <1>4, <2>1
<1>. HIDE DEF f
<1>8. f[1] = h[1] /\ f[2] = h[2] /\ f[3] = h[3] /\ f[4] = h[4]
  BY <1>1, <1>7
<1>9. PICK c \in Nat : c = len + 4
  BY <1>1
<1>10. 4 <= c /\ c <= Len(f) /\ Len(d) = c - 4
  BY <1>1, <1>4, <1>6, <1>9
<1>11. \A j \in 1..(c - 4) : d[j] = f[4 + j]
  BY <1>1, <1>7, <1>9
<1>12. d = SubSeq(f, 4 + 1, c)
  BY <1>4, <1>6, <1>10, <1>11, SliceIs
<1>13. d = SubSeq(f, 5, len + 4)
  BY <1>9, <1>12
<1>. QED
  BY <1>5, <1>6, <1>8, <1>13, <1>3 DEF d

LEMMA LineFrame ==
  ASSUME child.format = "line", NEW k \in Nat, NEW len \in Lengths
  PROVE  /\ Frame(k, len) \in Seq(Nat) /\ Len(Frame(k, len)) = len + 1
         /\ \A j \in 1..len : Frame(k, len)[j] # NL
         /\ Frame(k, len)[len + 1] = NL
         /\ SubSeq(Frame(k, len), 1, len) = Payload(k, len)
<1>. DEFINE d == Payload(k, len)
<1>1. len \in Nat
  BY DEF Lengths
<1>2. d \in Seq(Nat) /\ Len(d) = len /\ \A j \in 1..len : d[j] = 100 + k
  BY <1>1, PayloadIs
<1>3. <<NL>> \in Seq(Nat) /\ Len(<<NL>>) = 1 /\ <<NL>>[1] = NL
  BY DEF NL
<1>4. Frame(k, len) = d \o <<NL>>
  BY DEF Frame
<1>. HIDE DEF d
<1>5. /\ d \o <<NL>> \in Seq(Nat) /\ Len(d \o <<NL>>) = Len(d) + Len(<<NL>>)
      /\ \A j \in 1..(Len(d) + Len(<<NL>>)) :
           (d \o <<NL>>)[j] = IF j <= Len(d) THEN d[j] ELSE <<NL>>[j - Len(d)]
  BY <1>2, <1>3, ConcatProperties
<1>6. \A j \in 1..len : (d \o <<NL>>)[j] = d[j]
  BY <1>1, <1>2, <1>3, <1>5
<1>7. (d \o <<NL>>)[len + 1] = NL
  BY <1>1, <1>2, <1>3, <1>5
<1>8. d = SubSeq(d \o <<NL>>, 0 + 1, len)
  BY <1>1, <1>2, <1>3, <1>5, <1>6, SliceIs
<1>. QED
  BY <1>1, <1>2, <1>3, <1>4, <1>5, <1>6, <1>7, <1>8 DEF d, NL

------------------------------------------------------------------------------
(* The shape of the state                                                  *)

\* What SubSeq takes out of a sequence, when it stays inside.
LEMMA Part ==
  ASSUME NEW S, NEW s \in Seq(S), NEW m \in Nat \ {0}, NEW k \in Nat, k <= Len(s)
  PROVE  /\ SubSeq(s, m, k) \in Seq(S)
         /\ Len(SubSeq(s, m, k)) = IF m <= k THEN k - m + 1 ELSE 0
<1>1. Len(s) \in Nat
  BY LenProperties
<1>2. \A j \in m..k : s[j] \in S
  BY <1>1, ElementOfSeq
<1>. QED
  BY <1>2, SubSeqProperties, Z3

\* TypeOK, one variable at a time.
LEMMA Types ==
  ASSUME TypeOK
  PROVE  /\ todo \in Seq(Nat) /\ wire \in Seq(Nat) /\ buf \in Seq(Nat) /\ target \in Seq(Nat)
         /\ child \in Child /\ lens \in Seq(child.lengths) /\ sizes \in Seq(child.requests)
         /\ Len(todo) \in Nat /\ Len(wire) \in Nat /\ Len(buf) \in Nat /\ Len(target) \in Nat
         /\ Len(lens) \in Nat /\ Len(sizes) \in Nat /\ Len(inpipe) \in Nat
<1>1. /\ todo \in Seq(Nat) /\ wire \in Seq(Nat) /\ buf \in Seq(Nat) /\ target \in Seq(Nat)
      /\ child \in Child /\ lens \in Seq(child.lengths) /\ sizes \in Seq(child.requests)
      /\ inpipe \in Seq([of : 1..MaxCalls, at : Nat])
  BY FramingAssumption DEF TypeOK
<1>2. Len(todo) \in Nat /\ Len(wire) \in Nat /\ Len(buf) \in Nat /\ Len(target) \in Nat
  BY <1>1, LenProperties
<1>3. Len(lens) \in Nat /\ Len(sizes) \in Nat /\ Len(inpipe) \in Nat
  BY <1>1, LenProperties
<1>. QED
  BY <1>1, <1>2, <1>3

LEMMA Lens ==
  ASSUME TypeOK, NEW k \in 1..Len(lens)
  PROVE  lens[k] \in child.lengths /\ lens[k] \in Lengths
<1>1. lens[k] \in child.lengths
  BY Types, ElementOfSeq
<1>2. child.lengths \subseteq Lengths
  BY Types DEF Child
<1>. QED
  BY <1>1, <1>2

LEMMA FrameType ==
  ASSUME TypeOK, NEW k \in Nat, NEW len \in Lengths
  PROVE  Frame(k, len) \in Seq(Nat) /\ Len(Frame(k, len)) \in Nat
<1>1. child.format \in {"line", "binary"}
  BY Types DEF Child
<1>2. Frame(k, len) \in Seq(Nat)
  BY <1>1, BinaryFrame, LineFrame
<1>. QED
  BY <1>2, LenProperties

LEMMA InitShape == Init => TypeOK /\ ShapeInv
<1>. SUFFICES ASSUME Init PROVE TypeOK /\ ShapeInv
  OBVIOUS
<1>1. child \in Child /\ <<>> \in Seq(child.lengths) /\ <<>> \in Seq(child.requests)
  BY EmptySeq, FramingAssumption DEF Init
<1>2. /\ <<>> \in Seq(Nat) /\ <<>> \in Seq([of : 1..MaxCalls, at : Nat])
      /\ <<>> \in Seq(Seq(Nat)) /\ Len(<<>>) = 0
  BY EmptySeq
<1>3. TypeOK
  BY <1>1, <1>2, FramingAssumption DEF Init, TypeOK
<1>4. ShapeInv
  BY <1>2, FramingAssumption DEF Init, ShapeInv
<1>. QED
  BY <1>3, <1>4

\* A call that begins.
LEMMA RequestType ==
  ASSUME TypeOK, ShapeInv, NEW len \in child.lengths, NEW size \in child.requests,
         Request(len, size)
  PROVE  TypeOK' /\ ShapeInv'
<1>. USE Types
<1>1. /\ lens' \in Seq(child.lengths) /\ Len(lens') = Len(lens) + 1
      /\ sizes' \in Seq(child.requests) /\ Len(sizes') = Len(sizes) + 1
      /\ sizes'[Len(sizes) + 1] = size
  BY AppendProperties DEF Request
<1>2. size \in Nat \ {0}
  BY DEF Child
<1>3. <<>> \in Seq(Nat)
  BY EmptySeq
<1>4. TypeOK'
  BY <1>1, <1>3 DEF Request, TypeOK
<1>5. ShapeInv'
  <2>1. Len(lens') = Len(sizes') /\ Len(lens') <= MaxCalls /\ Len(lens') # 0
    BY <1>1, FramingAssumption DEF Request, ShapeInv
  <2>2. sent' < Last(sizes')
    BY <1>1, <1>2 DEF Request, Last
  <2>3. \A j \in 1..Len(inpipe') : inpipe'[j].of <= Len(lens')
    <3>. SUFFICES ASSUME NEW j \in 1..Len(inpipe) PROVE inpipe[j].of <= Len(lens')
      BY DEF Request
    <3>1. inpipe[j] \in [of : 1..MaxCalls, at : Nat]
      BY ElementOfSeq DEF TypeOK
    <3>2. inpipe[j].of \in Nat /\ inpipe[j].of <= Len(lens)
      BY <3>1 DEF ShapeInv
    <3>. QED
      BY <1>1, <3>2
  <2>4. Len(got') + 1 = Len(lens') /\ got' \in Seq(Seq(Nat)) /\ pc' = "write"
    BY <1>1 DEF Request, ShapeInv
  <2>5. ~alive' => child'.mayDie /\ todo' = <<>> /\ inpipe' = <<>>
    BY DEF Request, ShapeInv
  <2>. QED
    BY <2>1, <2>2, <2>3, <2>4, <2>5 DEF ShapeInv
<1>. QED
  BY <1>4, <1>5

\* A byte that is written.
LEMMA WriteType ==
  ASSUME TypeOK, ShapeInv, Write
  PROVE  TypeOK' /\ ShapeInv'
<1>. USE Types
<1>. DEFINE byte == [of |-> Len(lens), at |-> sent + 1]
<1>1. byte \in [of : 1..MaxCalls, at : Nat]
  BY DEF Write, ShapeInv, TypeOK
<1>2. inpipe \in Seq([of : 1..MaxCalls, at : Nat]) /\ inpipe' = Append(inpipe, byte)
  BY DEF Write, TypeOK
<1>3. byte.of = Len(lens)
  OBVIOUS
<1>. HIDE DEF byte
<1>4. /\ inpipe' \in Seq([of : 1..MaxCalls, at : Nat]) /\ Len(inpipe') = Len(inpipe) + 1
      /\ \A j \in 1..Len(inpipe) : inpipe'[j] = inpipe[j]
      /\ inpipe'[Len(inpipe) + 1] = byte
  BY <1>1, <1>2, AppendProperties
<1>5. /\ pc' = "write" => sent' < Last(sizes)
      /\ pc' = "header" => child.format = "binary"
      /\ pc' = "line" => child.format = "line"
      /\ pc' \in {"write", "header", "line"}
  BY DEF Write, Child
<1>6. TypeOK'
  BY <1>4, <1>5, FramingAssumption DEF Write, TypeOK
<1>7. ASSUME NEW j \in 1..Len(inpipe') PROVE inpipe'[j].of <= Len(lens)
  <2>1. j \in 1..Len(inpipe) \/ j = Len(inpipe) + 1
    BY <1>4
  <2>2. CASE j \in 1..Len(inpipe)
    BY <1>4, <2>2 DEF ShapeInv
  <2>3. CASE j = Len(inpipe) + 1
    BY <1>3, <1>4, <2>3
  <2>. QED
    BY <2>1, <2>2, <2>3
<1>8. ShapeInv'
  BY <1>5, <1>7 DEF Write, ShapeInv
<1>. QED
  BY <1>6, <1>8

\* A byte that the child reads.
LEMMA ChildReadsType ==
  ASSUME TypeOK, ShapeInv, ChildReads
  PROVE  TypeOK' /\ ShapeInv'
<1>. USE Types
<1>. DEFINE byte == Head(inpipe)
            T == [of : 1..MaxCalls, at : Nat]
<1>1. inpipe \in Seq(T) /\ inpipe # <<>>
  BY DEF ChildReads, TypeOK
<1>2. /\ byte \in T /\ byte = inpipe[1] /\ Len(inpipe) >= 1
      /\ inpipe' \in Seq(T) /\ Len(inpipe') = Len(inpipe) - 1
      /\ \A j \in 1..Len(inpipe') : inpipe'[j] = inpipe[j + 1]
  <2>1. inpipe' = Tail(inpipe)
    BY DEF ChildReads
  <2>2. Len(inpipe) >= 1 /\ Head(inpipe) = inpipe[1]
    BY <1>1, EmptySeq
  <2>. HIDE DEF T
  <2>. QED
    BY <1>1, <2>1, <2>2, HeadTailProperties
<1>. HIDE DEF byte
<1>3. byte.of \in 1..Len(lens) /\ byte.of \in Nat
  <2>1. byte.of \in 1..MaxCalls
    BY <1>2
  <2>. QED
    BY <1>2, <2>1 DEF ShapeInv
<1>4. todo' \in Seq(Nat)
  <2>1. lens[byte.of] \in Lengths
    BY <1>3, Lens
  <2>2. Frame(byte.of, lens[byte.of]) \in Seq(Nat)
    BY <1>3, <2>1, FrameType
  <2>3. <<>> \in Seq(Nat)
    BY EmptySeq
  <2>. QED
    BY <2>2, <2>3 DEF ChildReads, byte
<1>5. TypeOK'
  BY <1>2, <1>4, FramingAssumption DEF ChildReads, request, TypeOK
<1>6. ASSUME NEW j \in 1..Len(inpipe') PROVE inpipe'[j].of <= Len(lens)
  <2>1. j + 1 \in 1..Len(inpipe)
    BY <1>2
  <2>. QED
    BY <1>2, <2>1 DEF ShapeInv
<1>7. ShapeInv'
  BY <1>6 DEF ChildReads, request, ShapeInv
<1>. QED
  BY <1>5, <1>7

LEMMA ChildWritesType ==
  ASSUME TypeOK, ShapeInv, NEW m \in 1..Len(todo), ChildWrites(m)
  PROVE  TypeOK' /\ ShapeInv'
<1>. USE Types
<1>1. SubSeq(todo, 1, m) \in Seq(Nat) /\ Len(SubSeq(todo, 1, m)) = m
  BY Part
<1>2. todo' \in Seq(Nat)
  <2>1. m + 1 \in Nat \ {0} /\ todo' = SubSeq(todo, m + 1, Len(todo))
    BY DEF ChildWrites
  <2>. QED
    BY <2>1, Part, SMTT(30)
<1>3. wire' \in Seq(Nat) /\ Len(wire') = Len(wire) + m
  BY <1>1, ConcatProperties DEF ChildWrites
<1>4. TypeOK'
  BY <1>2, <1>3 DEF ChildWrites, request, TypeOK
<1>5. ShapeInv'
  BY DEF ChildWrites, request, ShapeInv
<1>. QED
  BY <1>4, <1>5

\* What the reader takes from the pipe.
LEMMA FillType ==
  ASSUME TypeOK, ShapeInv, Fill
  PROVE  TypeOK' /\ ShapeInv'
<1>. USE Types
<1>. DEFINE m == Min({Len(wire), Size - Len(buf)})
<1>1. m \in 0..Len(wire) /\ m <= Size - Len(buf)
  <2>. DEFINE room == Size - Len(buf)
  <2>1. room \in Nat /\ room \in Int /\ Len(wire) \in Int
    BY FramingAssumption DEF TypeOK
  <2>. HIDE DEF room
  <2>2. Min({Len(wire), room}) = IF Len(wire) <= room THEN Len(wire) ELSE room
    BY <2>1, MinTwo
  <2>3. Min({Len(wire), room}) \in 0..Len(wire) /\ Min({Len(wire), room}) <= room
    BY <2>1, <2>2
  <2>. QED
    BY <2>3 DEF room
<1>2. buf' = buf \o SubSeq(wire, 1, m) /\ wire' = SubSeq(wire, m + 1, Len(wire))
  BY DEF Fill
<1>. HIDE DEF m
<1>3. SubSeq(wire, 1, m) \in Seq(Nat) /\ Len(SubSeq(wire, 1, m)) = m
  BY <1>1, Part
<1>4. buf' \in Seq(Nat) /\ Len(buf') = Len(buf) + m
  BY <1>2, <1>3, ConcatProperties
<1>5. wire' \in Seq(Nat) /\ Len(wire') = Len(wire) - m
  BY <1>1, <1>2, Part, SMTT(30)
<1>6. Len(buf') <= Size /\ Len(wire') <= Capacity
  BY <1>1, <1>4, <1>5, FramingAssumption DEF TypeOK
<1>7. TypeOK'
  BY <1>4, <1>5, <1>6 DEF Fill, request, TypeOK
<1>8. ShapeInv'
  BY DEF Fill, request, ShapeInv
<1>. QED
  BY <1>7, <1>8

\* A call that succeeds.
LEMMA DoneType ==
  ASSUME TypeOK, ShapeInv, NEW o \in Seq(Nat), Done(o), pc \in {"line", "copy"}
  PROVE  /\ pc' = "idle" /\ target' \in Seq(Nat)
         /\ got' \in Seq(Seq(Nat)) /\ Len(got') = Len(lens)
         /\ got' = Append(got, o) /\ Len(got') = Len(got) + 1
         /\ \A k \in 1..Len(got) : got'[k] = got[k]
         /\ got'[Len(got')] = o
<1>1. got \in Seq(Seq(Nat)) /\ Len(got) \in Nat /\ Len(got) + 1 = Len(lens)
  BY LenProperties DEF ShapeInv
<1>. QED
  BY <1>1, AppendProperties DEF Done

\* The first newline is the only position EndOfLine can be.
LEMMA EndOfLineIs ==
  ASSUME TypeOK, NEW e \in 1..Len(buf), buf[e] = NL, \A j \in 1..Len(buf) : buf[j] = NL => j >= e
  PROVE  EndOfLine = e
<1>. DEFINE I == {j \in 1..Len(buf) : buf[j] = NL}
<1>1. e \in I /\ \A j \in I : e <= j
  OBVIOUS
<1>2. I \subseteq Int
  OBVIOUS
<1>3. EndOfLine = Min(I)
  BY <1>1 DEF EndOfLine, SelectInSeq
<1>. HIDE DEF I
<1>4. Min(I) = e
  <2>1. Min(I) \in I /\ \A j \in I : Min(I) <= j
    BY <1>1 DEF Min
  <2>2. Min(I) <= e /\ e <= Min(I) /\ Min(I) \in Int /\ e \in Int
    BY <1>1, <1>2, <2>1
  <2>. QED
    BY <2>2
<1>. QED
  BY <1>3, <1>4

LEMMA Least ==
  ASSUME NEW T, T \subseteq Nat, T # {}
  PROVE  \E x \in T : \A y \in T : x <= y
<1>. DEFINE R == {ss \in Nat \X Nat : ss[1] < ss[2]}
<1>1. IsWellFoundedOn(R, Nat)
  BY NatLessThanWellFounded DEF OpToRel
<1>. HIDE DEF R
<1>2. PICK x \in T : \A y \in T : ~(<<y, x>> \in R)
  BY <1>1, WFMin
<1>3. ASSUME NEW y \in T PROVE x <= y
  <2>1. x \in Nat /\ y \in Nat /\ ~(<<y, x>> \in R)
    BY <1>2
  <2>2. ~(y < x)
    BY <2>1 DEF R
  <2>. QED
    BY <2>1, <2>2
<1>. QED
  BY <1>3

\* A buffer that has a newline has a first one.
LEMMA EndOfLineIn ==
  ASSUME TypeOK, Contains(buf, NL)
  PROVE  EndOfLine \in 1..Len(buf) /\ buf[EndOfLine] = NL
<1>. DEFINE I == {j \in 1..Len(buf) : buf[j] = NL}
<1>1. I # {} /\ I \subseteq Nat
  <2>1. I # {}
    BY DEF Contains
  <2>2. Len(buf) \in Nat
    BY Types
  <2>. QED
    BY <2>1, <2>2
<1>2. PICK e \in I : \A j \in I : e <= j
  BY <1>1, Least
<1>3. EndOfLine = e
  BY <1>2, EndOfLineIs, Types
<1>. QED
  BY <1>2, <1>3

LEMMA ReadLineType ==
  ASSUME TypeOK, ShapeInv, ReadLine
  PROVE  TypeOK' /\ ShapeInv'
<1>. USE Types
<1>1. \E o \in Seq(Nat) : Done(o)
  <2>1. CASE Contains(buf, NL)
    <3>1. EndOfLine - 1 \in Nat /\ EndOfLine - 1 <= Len(buf)
      BY <2>1, EndOfLineIn
    <3>2. SubSeq(buf, 1, EndOfLine - 1) \in Seq(Nat)
      BY <3>1, Part
    <3>. QED
      BY <2>1, <3>2 DEF ReadLine
  <2>2. CASE ~Contains(buf, NL)
    BY <2>2 DEF ReadLine
  <2>. QED
    BY <2>1, <2>2
<1>2. PICK o \in Seq(Nat) : Done(o)
  BY <1>1
<1>3. buf' \in Seq(Nat) /\ Len(buf') <= Size
  <2>1. CASE Contains(buf, NL)
    <3>1. EndOfLine + 1 \in Nat \ {0} /\ EndOfLine <= Len(buf)
      BY <2>1, EndOfLineIn
    <3>2. buf' = SubSeq(buf, EndOfLine + 1, Len(buf))
      BY <2>1 DEF ReadLine
    <3>3. buf' \in Seq(Nat) /\ Len(buf') <= Len(buf)
      BY <3>1, <3>2, Part, SMTT(30)
    <3>. QED
      BY <3>3, LenProperties, FramingAssumption DEF TypeOK
  <2>2. CASE ~Contains(buf, NL)
    <3>1. buf' = <<>>
      BY <2>2 DEF ReadLine
    <3>. QED
      BY <3>1, EmptySeq, FramingAssumption
  <2>. QED
    BY <2>1, <2>2
<1>4. pc = "line"
  BY DEF ReadLine
<1>5. TypeOK'
  BY <1>2, <1>3, <1>4, DoneType DEF ReadLine, request, TypeOK
<1>6. ShapeInv'
  BY <1>2, <1>4, DoneType DEF ReadLine, request, ShapeInv
<1>. QED
  BY <1>5, <1>6

LEMMA SumType ==
  ASSUME NEW a \in Nat, NEW b \in Nat, NEW c \in Nat, NEW d \in Nat
  PROVE  a + 256 * b + 65536 * c + 16777216 * d \in Nat
  OBVIOUS

LEMMA ReadHeaderType ==
  ASSUME TypeOK, ShapeInv, ReadHeader
  PROVE  TypeOK' /\ ShapeInv'
<1>. USE Types
<1>. DEFINE m == Min({4, Len(buf)})
            byte(j) == IF j <= m THEN buf[j] ELSE 0
<1>1. m \in 0..Len(buf)
  <2>1. 4 \in Int /\ Len(buf) \in Int
    OBVIOUS
  <2>2. m = IF 4 <= Len(buf) THEN 4 ELSE Len(buf)
    BY <2>1, MinTwo
  <2>. HIDE DEF m
  <2>. QED
    BY <2>2
<1>2. buf' = SubSeq(buf, m + 1, Len(buf))
  BY DEF ReadHeader
<1>3. left' = byte(1) + 256 * byte(2) + 65536 * byte(3) + 16777216 * byte(4)
  BY DEF ReadHeader
<1>. HIDE DEF m
<1>4. \A j \in 1..4 : byte(j) \in Nat
  BY <1>1, ElementOfSeq
<1>. HIDE DEF byte
<1>5. byte(1) \in Nat /\ byte(2) \in Nat /\ byte(3) \in Nat /\ byte(4) \in Nat
  BY <1>4
<1>6. left' \in Nat
  <2>1. PICK a, b, c, d \in Nat : a = byte(1) /\ b = byte(2) /\ c = byte(3) /\ d = byte(4)
    BY <1>5, SMT
  <2>2. left' = a + 256 * b + 65536 * c + 16777216 * d
    BY <1>3, <2>1, SMT
  <2>. QED
    BY <2>2, SumType
<1>7. buf' \in Seq(Nat) /\ Len(buf') = Len(buf) - m
  BY <1>2, <1>1, Part
<1>8. Len(buf') <= Size
  BY <1>1, <1>7, FramingAssumption DEF TypeOK
<1>9. /\ pc' = "copy" /\ UNCHANGED <<child, inpipe, todo, wire, alive, target, got>>
      /\ UNCHANGED request /\ pc = "header"
  BY DEF ReadHeader
<1>10. UNCHANGED <<lens, sizes, sent>>
  BY <1>9 DEF request
<1>11. TypeOK'
  BY <1>6, <1>7, <1>8, <1>9, <1>10 DEF TypeOK
<1>12. ShapeInv'
  BY <1>9, <1>10 DEF ShapeInv
<1>. QED
  BY <1>11, <1>12

LEMMA CopyType ==
  ASSUME TypeOK, ShapeInv, Copy
  PROVE  TypeOK' /\ ShapeInv'
<1>. USE Types
<1>. DEFINE m == Min({left, Len(buf)})
<1>1. m \in 0..Len(buf) /\ m <= left
  <2>1. left \in Nat /\ left \in Int /\ Len(buf) \in Int
    BY DEF TypeOK
  <2>2. m = IF left <= Len(buf) THEN left ELSE Len(buf)
    BY <2>1, MinTwo
  <2>. HIDE DEF m
  <2>. QED
    BY <2>1, <2>2
<1>2. /\ target' = target \o SubSeq(buf, 1, m)
      /\ buf' = SubSeq(buf, m + 1, Len(buf)) /\ left' = left - m
  BY DEF Copy
<1>. HIDE DEF m
<1>3. SubSeq(buf, 1, m) \in Seq(Nat)
  BY <1>1, Part
<1>4. target' \in Seq(Nat)
  BY <1>2, <1>3, ConcatProperties
<1>5. buf' \in Seq(Nat) /\ Len(buf') = Len(buf) - m
  BY <1>1, <1>2, Part, SMTT(30)
<1>6. left' \in Nat /\ Len(buf') <= Size
  BY <1>1, <1>2, <1>5, FramingAssumption DEF TypeOK
<1>7. TypeOK'
  BY <1>4, <1>5, <1>6 DEF Copy, request, TypeOK
<1>8. ShapeInv'
  BY DEF Copy, request, ShapeInv
<1>. QED
  BY <1>7, <1>8

LEMMA StepShape == TypeOK /\ ShapeInv /\ [Next]_vars => TypeOK' /\ ShapeInv'
<1>. SUFFICES ASSUME TypeOK, ShapeInv, [Next]_vars PROVE TypeOK' /\ ShapeInv'
  OBVIOUS
<1>1. CASE \E len \in child.lengths, size \in child.requests : Request(len, size)
  BY <1>1, RequestType
<1>2. CASE ChildReads
  BY <1>2, ChildReadsType
<1>3. CASE \E m \in 1..Len(todo) : ChildWrites(m)
  BY <1>3, ChildWritesType
<1>4. CASE ChildDies
  <2>1. <<>> \in Seq(Nat) /\ <<>> \in Seq([of : 1..MaxCalls, at : Nat]) /\ Len(<<>>) = 0
    BY EmptySeq
  <2>2. Len(inpipe') <= Capacity /\ inpipe' \in Seq([of : 1..MaxCalls, at : Nat])
    BY <1>4, <2>1, FramingAssumption DEF ChildDies
  <2>3. todo' \in Seq(Nat) /\ alive' \in BOOLEAN
    BY <1>4, <2>1 DEF ChildDies
  <2>4. TypeOK'
    BY <1>4, <2>2, <2>3 DEF ChildDies, request, TypeOK
  <2>5. ShapeInv'
    BY <1>4, <2>1 DEF ChildDies, request, ShapeInv
  <2>. QED
    BY <2>4, <2>5
<1>5. CASE Write
  BY <1>5, WriteType
<1>6. CASE WriteFails
  BY <1>6 DEF WriteFails, request, TypeOK, ShapeInv
<1>7. CASE Fill
  BY <1>7, FillType
<1>8. CASE ReadFails
  BY <1>8 DEF ReadFails, Failed, Filling, request, TypeOK, ShapeInv
<1>9. CASE ReadLine
  BY <1>9, ReadLineType
<1>10. CASE ReadHeader
  BY <1>10, ReadHeaderType
<1>11. CASE Copy
  BY <1>11, CopyType
<1>12. CASE Copied
  <2>1. Done(target) /\ target \in Seq(Nat) /\ pc = "copy"
    BY <1>12, Types DEF Copied
  <2>2. TypeOK'
    BY <1>12, <2>1, DoneType, Types DEF Copied, request, TypeOK
  <2>3. ShapeInv'
    BY <1>12, <2>1, DoneType DEF Copied, request, ShapeInv
  <2>. QED
    BY <2>2, <2>3
<1>13. CASE UNCHANGED vars
  BY <1>13 DEF vars, TypeOK, ShapeInv
<1>. QED
  BY <1>1, <1>2, <1>3, <1>4, <1>5, <1>6, <1>7, <1>8, <1>9, <1>10, <1>11, <1>12, <1>13
  DEF Next, Exec

\* The variables keep their types, for any kind of child, and neither the buffer
\* nor a pipe holds more than it has room for.
THEOREM TypeCorrect == Spec => []TypeOK
<1>1. Init => TypeOK /\ ShapeInv
  BY InitShape
<1>2. TypeOK /\ ShapeInv /\ [Next]_vars => TypeOK' /\ ShapeInv'
  BY StepShape
<1>. QED
  BY <1>1, <1>2, PTL DEF Spec

------------------------------------------------------------------------------
(* What is under way                                                       *)

LEMMA AnswerIs ==
  ASSUME TypeOK, Len(lens) # 0
  PROVE  /\ Len(lens) \in Nat /\ Last(lens) \in Lengths /\ Last(lens) \in Nat
         /\ Last(lens) = lens[Len(lens)] /\ Last(lens) \in child.lengths
         /\ Answer \in Seq(Nat) /\ Len(Answer) \in Nat
         /\ child.format = "binary" =>
              /\ Len(Answer) = Last(lens) + 4
              /\ Answer[1] + 256 * Answer[2] + 65536 * Answer[3] + 16777216 * Answer[4]
                   = Last(lens)
              /\ SubSeq(Answer, 5, Len(Answer)) = Payload(Len(lens), Last(lens))
         /\ child.format = "line" =>
              /\ Len(Answer) = Last(lens) + 1
              /\ \A j \in 1..Last(lens) : Answer[j] # NL
              /\ Answer[Len(Answer)] = NL
              /\ SubSeq(Answer, 1, Last(lens)) = Payload(Len(lens), Last(lens))
<1>1. Len(lens) \in Nat /\ Len(lens) \in 1..Len(lens) /\ Last(lens) = lens[Len(lens)]
  BY Types DEF Last
<1>2. Last(lens) \in Lengths /\ Last(lens) \in child.lengths
  BY <1>1, Lens
<1>3. Last(lens) \in Nat
  BY <1>2 DEF Lengths
<1>4. Answer \in Seq(Nat) /\ Len(Answer) \in Nat
  BY <1>1, <1>2, FrameType DEF Answer
<1>5. child.format = "binary" =>
              /\ Len(Answer) = Last(lens) + 4
              /\ Answer[1] + 256 * Answer[2] + 65536 * Answer[3] + 16777216 * Answer[4]
                   = Last(lens)
              /\ SubSeq(Answer, 5, Len(Answer)) = Payload(Len(lens), Last(lens))
  BY <1>1, <1>2, BinaryFrame, SMT DEF Answer
<1>6. child.format = "line" =>
              /\ Len(Answer) = Last(lens) + 1
              /\ \A j \in 1..Last(lens) : Answer[j] # NL
              /\ Answer[Len(Answer)] = NL
              /\ SubSeq(Answer, 1, Last(lens)) = Payload(Len(lens), Last(lens))
  BY <1>1, <1>2, LineFrame, SMT DEF Answer
<1>. QED
  BY <1>1, <1>2, <1>3, <1>4, <1>5, <1>6, SMT

LEMMA SameAnswer ==
  ASSUME UNCHANGED <<child, lens>>
  PROVE  Answer' = Answer /\ Fits' = Fits
  BY DEF Answer, Frame, Fits

\* While something is under way the child has not to be asked any more.
LEMMA NotAsked ==
  ASSUME AskedOnce, pc # "failed", ~Silent \/ pc = "copy"
  PROVE  /\ ~(pc = "write" /\ (sent = 0 \/ ~child.early))
         /\ \A j \in 1..Len(inpipe) : ~Asks(inpipe[j])
  BY DEF AskedOnce

\* Steps that leave the stdin pipe alone, with something under way.
LEMMA StaysAsked ==
  ASSUME AskedOnce, pc # "failed", ~Silent \/ pc = "copy", UNCHANGED <<child, request, inpipe>>,
         pc' = "write" => pc = "write"
  PROVE  AskedOnce'
<1>1. \A j \in 1..Len(inpipe') : ~Asks(inpipe[j])'
  BY NotAsked DEF request, Asks
<1>2. ~(pc' = "write" /\ (sent' = 0 \/ ~child'.early))
  BY NotAsked DEF request
<1>. QED
  BY <1>1, <1>2 DEF AskedOnce

LEMMA RequestStream ==
  ASSUME TypeOK, ShapeInv, OnlyAnswer, AskedOnce,
         NEW len \in child.lengths, NEW size \in child.requests, Request(len, size)
  PROVE  OnlyAnswer' /\ AskedOnce'
<1>1. Silent' /\ pc' = "write" /\ pc = "idle" /\ child' = child /\ inpipe' = inpipe
  BY DEF Request, OnlyAnswer, Silent, Empty
<1>2. ASSUME NEW j \in 1..Len(inpipe) PROVE ~Asks(inpipe[j])'
  <2>1. ~Asks(inpipe[j])
    BY <1>1 DEF AskedOnce
  <2>2. inpipe[j] \in [of : 1..MaxCalls, at : Nat]
    BY ElementOfSeq DEF TypeOK
  <2>3. inpipe[j].of \in 1..Len(sizes)
    BY <2>2, Types DEF ShapeInv
  <2>4. sizes' = Append(sizes, size)
    BY DEF Request
  <2>5. sizes'[inpipe[j].of] = sizes[inpipe[j].of]
    BY <2>3, <2>4, Types, AppendProperties
  <2>. QED
    BY <1>1, <2>1, <2>5 DEF Asks
<1>. QED
  BY <1>1, <1>2 DEF OnlyAnswer, AskedOnce

LEMMA WriteStream ==
  ASSUME TypeOK, ShapeInv, OnlyAnswer, AskedOnce, Write
  PROVE  OnlyAnswer' /\ AskedOnce'
<1>. USE Types
<1>. DEFINE byte == [of |-> Len(lens), at |-> sent + 1]
<1>1. /\ pc = "write" /\ pc' \in {"write", "line", "header"}
      /\ UNCHANGED <<child, lens, sizes, todo, wire, buf, alive, target>>
      /\ sent' = sent + 1
      /\ pc' = "write" => sent + 1 < Last(sizes)
  BY DEF Write
<1>2. Silent' = Silent /\ Answer' = Answer
  BY <1>1, SameAnswer DEF Silent, Empty
<1>3. OnlyAnswer'
  BY <1>1, <1>2, ZenonT(60) DEF OnlyAnswer, Active, Flow
<1>4. /\ byte.of = Len(lens) /\ byte.at = sent + 1 /\ sent \in Nat
      /\ Last(sizes) = sizes[Len(lens)] /\ byte \in [of : 1..MaxCalls, at : Nat]
  BY DEF Write, TypeOK, ShapeInv, Last
<1>5. inpipe \in Seq([of : 1..MaxCalls, at : Nat]) /\ inpipe' = Append(inpipe, byte)
  BY DEF Write, TypeOK
<1>. HIDE DEF byte
<1>6. PICK last \in Nat : last = Len(inpipe) + 1
  OBVIOUS
<1>7. /\ Len(inpipe') = last /\ inpipe'[last] = byte
      /\ \A j \in 1..Len(inpipe) : inpipe'[j] = inpipe[j]
  BY <1>6, <1>4, <1>5, AppendProperties
<1>8. \A j \in 1..last : j = last \/ j \in 1..Len(inpipe)
  BY <1>6
<1>9. ASSUME Asks(byte)
      PROVE  Silent /\ \A j \in 1..Len(inpipe) : ~Asks(inpipe[j])
  <2>1. sent = 0 \/ ~child.early
    BY <1>4, <1>9 DEF Asks
  <2>. QED
    BY <1>1, <2>1 DEF AskedOnce
<1>10. \A j \in 1..Len(inpipe) : Asks(inpipe[j])' <=> Asks(inpipe[j])
  BY <1>1, <1>7 DEF Asks
<1>11. Asks(inpipe[last])' <=> Asks(byte)
  BY <1>1, <1>7 DEF Asks
<1>12. ASSUME pc' = "write", sent' = 0 \/ ~child'.early
       PROVE  Silent' /\ \A j \in 1..Len(inpipe') : ~Asks(inpipe[j])'
  <2>1. Silent /\ \A j \in 1..Len(inpipe) : ~Asks(inpipe[j])
    BY <1>1, <1>4, <1>12 DEF AskedOnce
  <2>2. ~Asks(byte)
    BY <1>1, <1>4, <1>12 DEF Asks
  <2>. QED
    BY <1>2, <1>7, <1>10, <1>11, <1>8, <2>1, <2>2
<1>13. ASSUME NEW j \in 1..Len(inpipe'), Asks(inpipe[j])'
       PROVE  /\ inpipe'[j].of = Len(lens') /\ Silent'
              /\ \A k \in 1..Len(inpipe') : Asks(inpipe[k])' => k = j
  <2>1. CASE j = last
    BY <1>1, <1>2, <1>4, <1>7, <1>9, <1>10, <1>11, <1>13, <1>8, <2>1
  <2>2. CASE j \in 1..Len(inpipe)
    <3>1. Asks(inpipe[j]) /\ ~Asks(byte)
      BY <1>9, <1>10, <1>13, <2>2
    <3>2. /\ inpipe[j].of = Len(lens) /\ Silent
          /\ \A k \in 1..Len(inpipe) : Asks(inpipe[k]) => k = j
      BY <1>1, <2>2, <3>1 DEF AskedOnce
    <3>. QED
      BY <1>1, <1>2, <1>7, <1>10, <1>11, <1>8, <2>2, <3>1, <3>2
  <2>. QED
    BY <1>7, <1>8, <2>1, <2>2
<1>14. AskedOnce'
  BY <1>1, <1>12, <1>13 DEF AskedOnce
<1>. QED
  BY <1>3, <1>14

LEMMA ChildReadsStream ==
  ASSUME TypeOK, ShapeInv, OnlyAnswer, AskedOnce, ChildReads
  PROVE  OnlyAnswer' /\ AskedOnce'
<1>. USE Types
<1>. DEFINE byte == Head(inpipe)
            T == [of : 1..MaxCalls, at : Nat]
<1>1. /\ alive /\ todo = <<>> /\ inpipe # <<>> /\ inpipe' = Tail(inpipe)
      /\ todo' = IF Asks(byte) THEN Frame(byte.of, lens[byte.of]) ELSE <<>>
      /\ UNCHANGED <<child, lens, sizes, sent, wire, buf, alive, pc, target, left>>
  BY DEF ChildReads, Asks, request
<1>2. inpipe \in Seq(T)
  BY DEF TypeOK
<1>3. /\ byte = inpipe[1] /\ 1 \in 1..Len(inpipe) /\ Len(inpipe') = Len(inpipe) - 1
      /\ \A j \in 1..Len(inpipe') : inpipe'[j] = inpipe[j + 1] /\ j + 1 \in 1..Len(inpipe)
  <2>. HIDE DEF T
  <2>1. Len(inpipe) >= 1 /\ byte = inpipe[1]
    BY <1>1, <1>2, EmptySeq
  <2>2. Len(inpipe') = Len(inpipe) - 1 /\ \A j \in 1..Len(inpipe') : inpipe'[j] = inpipe[j + 1]
    BY <1>1, <1>2, HeadTailProperties
  <2>. QED
    BY <2>1, <2>2
<1>. HIDE DEF byte
<1>4. Answer' = Answer
  BY <1>1, SameAnswer
<1>5. \A j \in 1..Len(inpipe') : Asks(inpipe[j])' <=> Asks(inpipe[j + 1])
  BY <1>1, <1>3 DEF Asks
<1>6. CASE Asks(byte) /\ pc # "failed"
  <2>1. /\ byte.of = Len(lens) /\ Silent /\ pc \in {"write", "line", "header"}
        /\ \A k \in 1..Len(inpipe) : Asks(inpipe[k]) => k = 1
    BY <1>3, <1>6 DEF AskedOnce
  <2>2. todo' = Answer
    BY <1>1, <1>6, <2>1 DEF Answer, Last
  <2>3. Len(lens) # 0
    BY <2>1 DEF ShapeInv
  <2>4. Flow(0, 0, 0)'
    <3>1. SubSeq(Answer, 0 + 1, 0) = <<>> /\ SubSeq(Answer, 0 + 1, Len(Answer)) = Answer
      BY <2>3, AnswerIs, SliceEmpty, SubSeqFull
    <3>. QED
      BY <1>1, <1>4, <2>1, <2>2, <3>1 DEF Flow, Silent, Empty
  <2>5. 0 \in 0..Len(Answer)
    BY <2>3, AnswerIs
  <2>6. OnlyAnswer'
    BY <1>1, <1>4, <2>1, <2>4, <2>5 DEF OnlyAnswer
  <2>7. ~(pc = "write" /\ (sent = 0 \/ ~child.early))
    BY <1>3, <1>6 DEF AskedOnce
  <2>8. ASSUME NEW j \in 1..Len(inpipe') PROVE ~Asks(inpipe[j])'
    <3>1. j + 1 \in 1..Len(inpipe) /\ j + 1 # 1
      BY <1>3
    <3>. QED
      BY <1>5, <2>1, <3>1
  <2>. QED
    BY <1>1, <2>6, <2>7, <2>8 DEF AskedOnce
<1>7. CASE ~Asks(byte) /\ pc # "failed"
  <2>1. todo' = todo
    BY <1>1, <1>7
  <2>2. Silent' = Silent /\ Empty' = Empty
    BY <1>1, <2>1 DEF Silent, Empty
  <2>3. OnlyAnswer'
    BY <1>1, <1>4, <2>1, <2>2, ZenonT(60) DEF OnlyAnswer, Flow
  <2>4. pc = "write" /\ (sent = 0 \/ ~child.early)
          => Silent' /\ \A j \in 1..Len(inpipe') : ~Asks(inpipe[j])'
    BY <1>3, <1>5, <1>7, <2>2 DEF AskedOnce
  <2>5. ASSUME NEW j \in 1..Len(inpipe'), Asks(inpipe[j])'
        PROVE  /\ inpipe'[j].of = Len(lens) /\ Silent' /\ pc \in {"write", "line", "header"}
               /\ \A k \in 1..Len(inpipe') : Asks(inpipe[k])' => k = j
    <3>1. /\ inpipe[j + 1].of = Len(lens) /\ Silent /\ pc \in {"write", "line", "header"}
          /\ \A k \in 1..Len(inpipe) : Asks(inpipe[k]) => k = j + 1
      BY <1>3, <1>5, <1>7, <2>5 DEF AskedOnce
    <3>2. \A k \in 1..Len(inpipe') : Asks(inpipe[k])' => k + 1 = j + 1
      BY <1>3, <1>5, <3>1
    <3>3. \A k \in 1..Len(inpipe') : Asks(inpipe[k])' => k = j
      BY <2>2, <3>2
    <3>. QED
      BY <1>3, <2>2, <3>1, <3>3
  <2>. QED
    BY <1>1, <2>3, <2>4, <2>5 DEF AskedOnce
<1>8. CASE pc = "failed"
  BY <1>1, <1>8 DEF OnlyAnswer, Active, AskedOnce
<1>. QED
  BY <1>6, <1>7, <1>8

\* What is in the buffer, in the pipe and still to be written.
LEMMA FlowIs ==
  ASSUME TypeOK, ShapeInv, pc # "idle",
         NEW p \in 0..Len(Answer), NEW b \in 0..Len(Answer), NEW w \in 0..Len(Answer),
         Flow(p, b, w)
  PROVE  /\ p \in Nat /\ b \in Nat /\ w \in Nat /\ p <= b /\ b <= w /\ w <= Len(Answer)
         /\ Answer \in Seq(Nat) /\ Len(Answer) \in Nat
         /\ Len(buf) = b - p /\ Len(wire) = w - b
         /\ buf # <<>> <=> p < b
         /\ wire # <<>> <=> b < w
         /\ todo # <<>> => alive /\ w < Len(Answer)
         /\ alive => Len(todo) = Len(Answer) - w
<1>1. /\ p \in Nat /\ b \in Nat /\ w \in Nat /\ p <= b /\ b <= w /\ w <= Len(Answer)
      /\ Answer \in Seq(Nat) /\ Len(Answer) \in Nat
  BY AnswerIs DEF ShapeInv, Flow
<1>2. /\ buf = SubSeq(Answer, p + 1, b) /\ wire = SubSeq(Answer, b + 1, w)
      /\ todo = IF alive THEN SubSeq(Answer, w + 1, Len(Answer)) ELSE <<>>
  BY DEF Flow
<1>3. b <= Len(Answer) /\ Len(Answer) <= Len(Answer)
  BY <1>1
<1>4. Len(buf) = b - p /\ (buf # <<>> <=> p < b)
  BY <1>1, <1>2, <1>3, Slice, SliceNotEmpty, ZenonT(60)
<1>5. Len(wire) = w - b /\ (wire # <<>> <=> b < w)
  BY <1>1, <1>2, Slice, SliceNotEmpty, ZenonT(60)
<1>6. alive => Len(todo) = Len(Answer) - w /\ (todo # <<>> <=> w < Len(Answer))
  <2>1. PICK all \in Nat : all = Len(Answer)
    BY <1>1
  <2>2. w <= all /\ all <= Len(Answer)
    BY <1>1, <2>1
  <2>3. Answer \in Seq(Nat) /\ w \in Nat
    BY <1>1
  <2>4. Len(SubSeq(Answer, w + 1, all)) = all - w
    BY <2>2, <2>3, Slice
  <2>5. SubSeq(Answer, w + 1, all) # <<>> <=> w < all
    BY <2>2, <2>3, SliceNotEmpty
  <2>. QED
    BY <1>2, <2>1, <2>4, <2>5
<1>. QED
  BY <1>1, <1>2, <1>4, <1>5, <1>6

LEMMA ChildWritesStream ==
  ASSUME TypeOK, ShapeInv, Fits, OnlyAnswer, AskedOnce,
         NEW m \in 1..Len(todo), ChildWrites(m)
  PROVE  OnlyAnswer' /\ AskedOnce'
<1>1. /\ wire' = wire \o SubSeq(todo, 1, m) /\ todo' = SubSeq(todo, m + 1, Len(todo))
      /\ alive /\ (child.headerWhole /\ Len(todo) > Last(lens) => m >= 4)
      /\ UNCHANGED <<child, request, lens, inpipe, buf, alive, pc, left, target>>
  BY DEF ChildWrites, request
<1>2. CASE pc = "failed"
  BY <1>1, <1>2 DEF OnlyAnswer, Active, AskedOnce
<1>3. CASE pc # "failed"
  <2>1. todo # <<>>
    BY Types, EmptySeq
  <2>2. pc \in Active
    BY <1>3, <2>1 DEF OnlyAnswer, Empty, Active, TypeOK
  <2>3. PICK p, b, w \in 0..Len(Answer) : Flow(p, b, w)
    BY <2>1, <2>2 DEF OnlyAnswer, Silent, Empty
  <2>4. /\ p \in Nat /\ b \in Nat /\ w \in Nat /\ p <= b /\ b <= w /\ w <= Len(Answer)
        /\ Answer \in Seq(Nat) /\ Len(Answer) \in Nat /\ Len(todo) = Len(Answer) - w
    BY <1>1, <2>2, <2>3, FlowIs DEF Active
  <2>5. PICK v \in Nat : v = w + m
    BY <2>4
  <2>6. m \in 0..(Len(Answer) - w) /\ v <= Len(Answer) /\ w <= v /\ v \in 0..Len(Answer)
    BY <2>4, <2>5
  <2>7. /\ wire = SubSeq(Answer, b + 1, w) /\ buf = SubSeq(Answer, p + 1, b)
        /\ todo = SubSeq(Answer, w + 1, Len(Answer))
    BY <1>1, <2>3 DEF Flow
  <2>8. wire' = SubSeq(Answer, b + 1, v) /\ todo' = SubSeq(Answer, v + 1, Len(Answer))
    <3>1. PICK all \in Nat : all = Len(Answer)
      BY <2>4
    <3>2. Answer \in Seq(Nat) /\ b \in Nat /\ w \in Nat
      BY <2>4
    <3>3. b <= w /\ w <= all /\ all <= Len(Answer) /\ m \in 0..(all - w)
      BY <2>4, <2>6, <3>1
    <3>4. /\ SubSeq(Answer, b + 1, w) \o SubSeq(SubSeq(Answer, w + 1, all), 1, m)
               = SubSeq(Answer, b + 1, v)
          /\ SubSeq(SubSeq(Answer, w + 1, all), m + 1, Len(SubSeq(Answer, w + 1, all)))
               = SubSeq(Answer, v + 1, all)
      BY <2>5, <3>2, <3>3, SliceMove, SMTT(30)
    <3>. QED
      BY <1>1, <2>7, <3>1, <3>4
  <2>9. child.format = "binary" => b \notin 1..3 /\ v \notin 1..3
    <3>. SUFFICES ASSUME child.format = "binary" PROVE b \notin 1..3 /\ v \notin 1..3
      OBVIOUS
    <3>1. b \notin 1..3 /\ w \notin 1..3 /\ child.headerWhole
      BY <2>3 DEF Flow, Fits
    <3>2. Len(Answer) = Last(lens) + 4 /\ Last(lens) \in Nat
      BY <2>2, AnswerIs DEF ShapeInv, Active
    <3>3. w = 0 => m >= 4
      BY <1>1, <2>4, <3>1, <3>2
    <3>4. w \in Nat /\ w <= v /\ v \in Nat /\ v >= m
      BY <2>4, <2>5, <2>6
    <3>5. CASE w = 0
      BY <3>1, <3>3, <3>4, <3>5
    <3>6. CASE w # 0
      BY <3>1, <3>4, <3>6
    <3>. QED
      BY <3>5, <3>6
  <2>10. Answer' = Answer
    BY <1>1, SameAnswer
  <2>11. Flow(p, b, v)'
    <3>1. b <= v
      BY <2>4, <2>6
    <3>2. /\ p <= b
          /\ IF pc = "copy"
             THEN p >= 4 /\ target = SubSeq(Answer, 5, p) /\ left = Len(Answer) - p
             ELSE p = 0 /\ target = <<>>
      BY <2>3 DEF Flow
    <3>. QED
      BY <1>1, <2>7, <2>8, <2>9, <2>10, <3>1, <3>2 DEF Flow
  <2>12. OnlyAnswer'
    BY <1>1, <2>2, <2>6, <2>10, <2>11 DEF OnlyAnswer, Active
  <2>13. AskedOnce'
    BY <1>1, <1>3, <2>1, StaysAsked DEF Silent, Empty
  <2>. QED
    BY <2>12, <2>13
<1>. QED
  BY <1>2, <1>3

LEMMA ChildDiesStream ==
  ASSUME OnlyAnswer, AskedOnce, ChildDies
  PROVE  OnlyAnswer' /\ AskedOnce'
<1>1. /\ todo' = <<>> /\ inpipe' = <<>> /\ ~alive' /\ Len(<<>>) = 0
      /\ UNCHANGED <<child, lens, sent, wire, buf, pc, left, target>>
  BY EmptySeq DEF ChildDies, request
<1>2. Answer' = Answer
  BY <1>1, SameAnswer
<1>3. (Empty => Empty') /\ (Silent => Silent')
  BY <1>1 DEF Silent, Empty
<1>4. \A p, b, w \in 0..Len(Answer) : Flow(p, b, w) => Flow(p, b, w)'
  BY <1>1, <1>2 DEF Flow
<1>5. OnlyAnswer'
  BY <1>1, <1>2, <1>3, <1>4 DEF OnlyAnswer
<1>6. AskedOnce'
  BY <1>1, <1>3 DEF AskedOnce
<1>. QED
  BY <1>5, <1>6

\* One Read of the pipe.  The buffer holds a whole header, so that one that was
\* written in one piece arrives in one piece.
LEMMA FillStream ==
  ASSUME TypeOK, ShapeInv, OnlyAnswer, AskedOnce, Fill
  PROVE  OnlyAnswer' /\ AskedOnce'
<1>. DEFINE m == Min({Len(wire), Size - Len(buf)})
<1>1. /\ Filling /\ wire # <<>>
      /\ buf' = buf \o SubSeq(wire, 1, m) /\ wire' = SubSeq(wire, m + 1, Len(wire))
      /\ UNCHANGED <<child, request, lens, inpipe, todo, alive, pc, left, target>>
  BY DEF Fill, request
<1>2. Len(wire) \in Nat /\ Len(buf) \in Nat /\ Size \in Nat /\ Size >= 4 /\ Len(buf) <= Size
  BY Types, FramingAssumption DEF TypeOK
<1>3. m = IF Len(wire) <= Size - Len(buf) THEN Len(wire) ELSE Size - Len(buf)
  <2>. DEFINE room == Size - Len(buf)
  <2>1. room \in Int /\ Len(wire) \in Int
    BY <1>2
  <2>. HIDE DEF room
  <2>2. Min({Len(wire), room}) = IF Len(wire) <= room THEN Len(wire) ELSE room
    BY <2>1, MinTwo
  <2>. QED
    BY <2>2 DEF room
<1>. HIDE DEF m
<1>4. m \in 0..Len(wire) /\ (buf = <<>> /\ Len(wire) >= 4 => m >= 4)
  <2>1. buf = <<>> => Len(buf) = 0
    BY EmptySeq
  <2>. QED
    BY <1>2, <1>3, <2>1
<1>5. pc \in Active
  BY <1>1 DEF Filling, Active
<1>6. PICK p, b, w \in 0..Len(Answer) : Flow(p, b, w)
  BY <1>1, <1>5 DEF OnlyAnswer, Silent, Empty
<1>7. /\ p \in Nat /\ b \in Nat /\ w \in Nat /\ p <= b /\ b <= w /\ w <= Len(Answer)
      /\ Answer \in Seq(Nat) /\ Len(Answer) \in Nat /\ Len(wire) = w - b
      /\ b < w /\ (buf # <<>> <=> p < b)
  BY <1>1, <1>5, <1>6, FlowIs DEF Active
<1>8. PICK d \in Nat : d = b + m
  BY <1>4, <1>7
<1>9. d <= w /\ b <= d /\ d \in 0..Len(Answer) /\ m \in 0..(w - b)
  BY <1>4, <1>7, <1>8
<1>10. wire = SubSeq(Answer, b + 1, w) /\ buf = SubSeq(Answer, p + 1, b)
  BY <1>6 DEF Flow
<1>11. buf' = SubSeq(Answer, p + 1, d) /\ wire' = SubSeq(Answer, d + 1, w)
  <2>1. /\ p \in Nat /\ b \in Nat /\ w \in Nat /\ Answer \in Seq(Nat)
        /\ p <= b /\ b <= w /\ w <= Len(Answer) /\ m \in 0..(w - b)
    BY <1>7, <1>9
  <2>2. /\ SubSeq(Answer, p + 1, b) \o SubSeq(SubSeq(Answer, b + 1, w), 1, m)
             = SubSeq(Answer, p + 1, d)
        /\ SubSeq(SubSeq(Answer, b + 1, w), m + 1, Len(SubSeq(Answer, b + 1, w)))
             = SubSeq(Answer, d + 1, w)
    BY <1>8, <2>1, SliceMove
  <2>. QED
    BY <1>1, <1>10, <2>2
<1>12. child.format = "binary" => d \notin 1..3
  <2>. SUFFICES ASSUME child.format = "binary" PROVE d \notin 1..3
    OBVIOUS
  <2>1. w \notin 1..3 /\ pc \in {"header", "copy"} /\ buf = <<>>
        /\ IF pc = "copy" THEN p >= 4 ELSE p = 0
    BY <1>1, <1>6 DEF Flow, Filling, ShapeInv
  <2>2. p = b
    BY <1>7, <2>1
  <2>3. CASE pc = "copy"
    BY <1>7, <1>9, <2>1, <2>2, <2>3
  <2>4. CASE pc = "header"
    <3>1. b = 0 /\ Len(wire) >= 4
      BY <1>7, <2>1, <2>2, <2>4
    <3>. QED
      BY <1>4, <1>8, <2>1, <3>1
  <2>. QED
    BY <2>1, <2>3, <2>4
<1>13. Answer' = Answer
  BY <1>1, SameAnswer
<1>14. Flow(p, d, w)'
  <2>1. p <= d
    BY <1>7, <1>9
  <2>. QED
    BY <1>1, <1>6, <1>9, <1>11, <1>12, <1>13, <2>1 DEF Flow
<1>15. OnlyAnswer'
  BY <1>1, <1>5, <1>9, <1>13, <1>14 DEF OnlyAnswer, Active
<1>16. AskedOnce'
  BY <1>1, <1>5, StaysAsked DEF Silent, Empty, Active
<1>. QED
  BY <1>15, <1>16

\* A line is returned when the whole answer is in the buffer, or its beginning
\* when the child died.
LEMMA LineRead ==
  ASSUME TypeOK, ShapeInv, Fits, OnlyAnswer, ReadLine
  PROVE  /\ Empty' /\ ~Silent
         /\ \E o \in Seq(Nat) :
              /\ Done(o) /\ IsPrefix(o, Payload(Len(lens), Last(lens)))
              /\ o # Payload(Len(lens), Last(lens)) => ~alive
<1>1. /\ pc = "line" /\ child.format = "line" /\ Len(lens) # 0 /\ pc \in Active
      /\ UNCHANGED <<wire, todo, alive>>
  BY DEF ReadLine, ShapeInv, Active
<1>2. buf # <<>>
  <2>1. buf = <<>> => ~Contains(buf, NL)
    BY EmptySeq DEF Contains
  <2>. QED
    BY <2>1 DEF ReadLine
<1>3. PICK p, b, w \in 0..Len(Answer) : Flow(p, b, w)
  BY <1>1, <1>2 DEF OnlyAnswer, Silent, Empty
<1>4. /\ p = 0 /\ b \in Nat /\ w \in Nat /\ b <= w /\ w <= Len(Answer)
      /\ Answer \in Seq(Nat) /\ Len(Answer) \in Nat /\ Len(buf) = b /\ Len(wire) = w - b
      /\ b > 0 /\ (wire = <<>> <=> b = w) /\ (w = Len(Answer) => todo = <<>>)
  <2>1. p = 0
    BY <1>1, <1>3 DEF Flow
  <2>. QED
    BY <1>1, <1>2, <1>3, <2>1, FlowIs
<1>. DEFINE len  == Last(lens)
            line == Payload(Len(lens), len)
<1>5. /\ len \in Nat /\ len < Size /\ Len(Answer) = len + 1
      /\ \A j \in 1..len : Answer[j] # NL
      /\ Answer[len + 1] = NL /\ SubSeq(Answer, 1, len) = line
      /\ line \in Seq(Nat) /\ Len(line) = len
  <2>1. Len(lens) \in Nat /\ len \in Nat /\ len \in child.lengths
    BY <1>1, AnswerIs
  <2>2. line \in Seq(Nat) /\ Len(line) = len
    BY <2>1, PayloadIs
  <2>3. len < Size
    BY <1>1, <2>1 DEF Fits
  <2>4. Len(Answer) = len + 1 /\ Answer[Len(Answer)] = NL
    BY <1>1, AnswerIs
  <2>5. (\A j \in 1..len : Answer[j] # NL) /\ SubSeq(Answer, 1, len) = line
    BY <1>1, AnswerIs
  <2>. QED
    BY <2>1, <2>2, <2>3, <2>4, <2>5
<1>. HIDE DEF len, line
<1>6. buf = SubSeq(Answer, 1, b) /\ buf \in Seq(Nat)
  BY <1>3, <1>4, Types DEF Flow
<1>7. \A j \in 1..b : buf[j] = Answer[j]
  <2>1. /\ b <= Len(Answer) /\ 0 <= b /\ Answer \in Seq(Nat) /\ b \in Nat
    BY <1>4
  <2>2. \A j \in 1..(b - 0) : SubSeq(Answer, 0 + 1, b)[j] = Answer[0 + j]
    BY <2>1, Slice
  <2>. QED
    BY <1>4, <1>6, <2>2
<1>8. CASE Contains(buf, NL)
  <2>1. EndOfLine \in 1..b /\ buf[EndOfLine] = NL
    BY <1>4, <1>8, EndOfLineIn
  <2>2. PICK e \in 1..b : e = EndOfLine
    BY <2>1
  <2>3. e = len + 1
    BY <1>4, <1>5, <1>7, <2>1, <2>2, SMTT(30)
  <2>4. b = len + 1 /\ w = b /\ w = Len(Answer)
    BY <1>4, <1>5, <2>2, <2>3
  <2>5. buf' = SubSeq(buf, b + 1, b) /\ Done(SubSeq(buf, 1, len))
    BY <1>4, <1>5, <1>8, <2>2, <2>3, <2>4 DEF ReadLine
  <2>6. Empty'
    BY <1>1, <1>4, <2>4, <2>5, SliceEmpty DEF Empty
  <2>7. SubSeq(buf, 1, len) = line
    <3>1. b <= Len(Answer) /\ len \in 0..b /\ Answer \in Seq(Nat) /\ b \in Nat
      BY <1>4, <1>5, <2>4
    <3>2. SubSeq(SubSeq(Answer, 1, b), 1, len) = SubSeq(Answer, 1, len)
      BY <3>1, SliceFirst
    <3>. QED
      BY <1>5, <1>6, <3>2
  <2>8. IsPrefix(line, line)
    BY <1>5 DEF IsPrefix
  <2>. QED
    BY <1>2, <1>5, <2>5, <2>6, <2>7, <2>8 DEF line, len, Silent, Empty
<1>9. CASE ~Contains(buf, NL)
  <2>1. Done(buf) /\ buf' = <<>> /\ (Len(buf) = Size \/ AtEOF)
    BY <1>1, <1>9 DEF ReadLine
  <2>2. b <= len
    <3>1. \A j \in 1..b : buf[j] # NL
      BY <1>4, <1>9 DEF Contains
    <3>2. b # len + 1
      BY <1>4, <1>5, <1>7, <3>1
    <3>. QED
      BY <1>4, <1>5, <3>2
  <2>3. ~alive /\ wire = <<>>
    BY <1>4, <1>5, <2>1, <2>2, FramingAssumption DEF AtEOF
  <2>4. Empty'
    BY <1>1, <2>1, <2>3 DEF Empty, ShapeInv
  <2>5. SubSeq(line, 1, b) = buf
    <3>1. len <= Len(Answer) /\ b \in 0..len /\ Answer \in Seq(Nat) /\ len \in Nat
      BY <1>4, <1>5, <2>2
    <3>2. SubSeq(SubSeq(Answer, 1, len), 1, b) = SubSeq(Answer, 1, b)
      BY <3>1, SliceFirst
    <3>. QED
      BY <1>4, <1>5, <1>6, <3>2
  <2>6. IsPrefix(buf, line)
    <3>1. SubSeq(buf, 1, Len(buf)) = buf
      BY <1>6, SubSeqFull
    <3>. QED
      BY <1>4, <1>5, <2>2, <2>5, <3>1 DEF IsPrefix
  <2>. QED
    BY <1>2, <1>6, <2>1, <2>3, <2>4, <2>6 DEF line, len, Silent, Empty
<1>. QED
  BY <1>8, <1>9

LEMMA ReadLineStream ==
  ASSUME TypeOK, ShapeInv, Fits, OnlyAnswer, AskedOnce, ReadLine
  PROVE  OnlyAnswer' /\ AskedOnce'
<1>1. Empty' /\ ~Silent /\ pc' = "idle"
  BY LineRead DEF Done
<1>2. pc = "line" /\ UNCHANGED <<child, request, inpipe>>
  BY DEF ReadLine
<1>3. OnlyAnswer'
  BY <1>1 DEF OnlyAnswer, Active
<1>4. AskedOnce'
  BY <1>1, <1>2, StaysAsked
<1>. QED
  BY <1>3, <1>4

\* The header is read whole, and says how much there is to copy.
LEMMA ReadHeaderStream ==
  ASSUME TypeOK, ShapeInv, OnlyAnswer, AskedOnce, ReadHeader
  PROVE  OnlyAnswer' /\ AskedOnce'
<1>. DEFINE m == Min({4, Len(buf)})
            byte(j) == IF j <= m THEN buf[j] ELSE 0
<1>1. /\ pc = "header" /\ child.format = "binary" /\ Len(lens) # 0 /\ pc \in Active
      /\ buf # <<>> /\ pc' = "copy" /\ buf' = SubSeq(buf, m + 1, Len(buf))
      /\ UNCHANGED <<child, request, lens, inpipe, wire, todo, alive, target>>
  BY DEF ReadHeader, ShapeInv, Active, request
<1>2. left' = byte(1) + 256 * byte(2) + 65536 * byte(3) + 16777216 * byte(4)
  BY DEF ReadHeader
<1>3. PICK p, b, w \in 0..Len(Answer) : Flow(p, b, w)
  BY <1>1 DEF OnlyAnswer, Silent, Empty
<1>4. p = 0 /\ b \notin 1..3 /\ w \notin 1..3 /\ target = <<>>
  BY <1>1, <1>3 DEF Flow
<1>5. /\ b \in Nat /\ w \in Nat /\ b <= w /\ w <= Len(Answer) /\ b <= Len(Answer)
      /\ Answer \in Seq(Nat) /\ Len(Answer) \in Nat /\ Len(buf) = b /\ b >= 4
  <2>1. /\ b \in Nat /\ w \in Nat /\ b <= w /\ w <= Len(Answer)
        /\ Answer \in Seq(Nat) /\ Len(Answer) \in Nat /\ Len(buf) = b - p /\ p < b
    BY <1>1, <1>3, FlowIs
  <2>. QED
    BY <1>4, <2>1
<1>6. buf = SubSeq(Answer, 0 + 1, b) /\ buf = SubSeq(Answer, 1, b)
  BY <1>3, <1>4 DEF Flow
<1>7. m = 4
  BY <1>5, MinTwo
<1>. HIDE DEF m
<1>8. byte(1) = Answer[1] /\ byte(2) = Answer[2] /\ byte(3) = Answer[3] /\ byte(4) = Answer[4]
  <2>1. b <= Len(Answer) /\ 0 <= b /\ Answer \in Seq(Nat) /\ b \in Nat
    BY <1>5
  <2>2. \A j \in 1..(b - 0) : SubSeq(Answer, 0 + 1, b)[j] = Answer[0 + j]
    BY <2>1, Slice
  <2>3. ASSUME NEW j \in 1..4 PROVE byte(j) = Answer[j]
    <3>1. j \in 1..(b - 0) /\ 0 + j = j /\ j <= 4
      BY <1>5
    <3>2. SubSeq(Answer, 0 + 1, b)[j] = Answer[j]
      BY <2>2, <3>1
    <3>. QED
      BY <1>6, <1>7, <3>1, <3>2
  <2>. HIDE DEF byte
  <2>. QED
    BY <2>3
<1>. HIDE DEF byte
<1>9. left' = Last(lens) /\ Len(Answer) = Last(lens) + 4 /\ Last(lens) \in Nat
  <2>1. Answer[1] + 256 * Answer[2] + 65536 * Answer[3] + 16777216 * Answer[4] = Last(lens)
    BY <1>1, AnswerIs, SMT
  <2>2. Len(Answer) = Last(lens) + 4 /\ Last(lens) \in Nat
    BY <1>1, AnswerIs
  <2>. QED
    BY <1>2, <1>8, <2>1, <2>2, SMT
<1>10. buf' = SubSeq(Answer, 4 + 1, b)
  <2>1. 4 \in Nat /\ 4 \in 0..(b - 0) /\ b <= Len(Answer) /\ 0 <= b /\ 0 \in Nat
        /\ Answer \in Seq(Nat) /\ b \in Nat
    BY <1>5
  <2>2. SubSeq(SubSeq(Answer, 0 + 1, b), 4 + 1, Len(SubSeq(Answer, 0 + 1, b)))
          = SubSeq(Answer, 0 + 4 + 1, b)
    BY <2>1, SliceTail
  <2>3. buf' = SubSeq(buf, 4 + 1, Len(buf))
    BY <1>1, <1>7
  <2>. QED
    BY <1>6, <2>2, <2>3
<1>11. Answer' = Answer
  BY <1>1, SameAnswer
<1>12. Flow(4, b, w)'
  <2>1. target' = SubSeq(Answer, 5, 4)
    <3>1. SubSeq(Answer, 4 + 1, 4) = <<>> /\ 4 + 1 = 5
      BY SliceEmpty
    <3>. QED
      BY <1>1, <1>4, <3>1
  <2>2. left' = Len(Answer) - 4
    BY <1>9
  <2>3. /\ wire = SubSeq(Answer, b + 1, w)
        /\ todo = IF alive THEN SubSeq(Answer, w + 1, Len(Answer)) ELSE <<>>
    BY <1>3 DEF Flow
  <2>4. 4 <= b /\ b <= w /\ 4 >= 4
    BY <1>5
  <2>. QED
    BY <1>1, <1>4, <1>10, <1>11, <2>1, <2>2, <2>3, <2>4 DEF Flow
<1>13. OnlyAnswer'
  <2>1. 4 \in 0..Len(Answer)
    BY <1>5
  <2>. QED
    BY <1>1, <1>11, <1>12, <2>1 DEF OnlyAnswer, Active
<1>14. AskedOnce'
  BY <1>1, StaysAsked DEF Silent, Empty
<1>. QED
  BY <1>13, <1>14

\* The payload is copied as it comes.
LEMMA CopyStream ==
  ASSUME TypeOK, ShapeInv, OnlyAnswer, AskedOnce, Copy
  PROVE  OnlyAnswer' /\ AskedOnce'
<1>. DEFINE m == Min({left, Len(buf)})
<1>1. /\ pc = "copy" /\ pc' = "copy" /\ buf # <<>> /\ pc \in Active
      /\ target' = target \o SubSeq(buf, 1, m) /\ buf' = SubSeq(buf, m + 1, Len(buf))
      /\ left' = left - m
      /\ UNCHANGED <<child, request, lens, inpipe, wire, todo, alive>>
  BY DEF Copy, request, Active
<1>2. m \in 0..Len(buf) /\ m <= left
  <2>1. left \in Nat /\ left \in Int /\ Len(buf) \in Int /\ Len(buf) \in Nat
    BY Types DEF TypeOK
  <2>2. m = IF left <= Len(buf) THEN left ELSE Len(buf)
    BY <2>1, MinTwo
  <2>. HIDE DEF m
  <2>. QED
    BY <2>1, <2>2
<1>. HIDE DEF m
<1>3. PICK p, b, w \in 0..Len(Answer) : Flow(p, b, w)
  BY <1>1 DEF OnlyAnswer
<1>4. /\ p \in Nat /\ b \in Nat /\ w \in Nat /\ p <= b /\ b <= w /\ w <= Len(Answer)
      /\ Answer \in Seq(Nat) /\ Len(Answer) \in Nat /\ Len(buf) = b - p
  BY <1>1, <1>3, FlowIs
<1>5. /\ p >= 4 /\ target = SubSeq(Answer, 5, p) /\ left = Len(Answer) - p
      /\ buf = SubSeq(Answer, p + 1, b)
  BY <1>1, <1>3 DEF Flow
<1>6. PICK q \in Nat : q = p + m
  BY <1>2, <1>4
<1>7. /\ q <= b /\ p <= q /\ q >= 4 /\ q \in 0..Len(Answer) /\ m \in 0..(b - p)
      /\ left' = Len(Answer) - q
  BY <1>1, <1>2, <1>4, <1>5, <1>6
<1>8. target' = SubSeq(Answer, 5, q) /\ buf' = SubSeq(Answer, q + 1, b)
  <2>1. /\ 4 \in Nat /\ p \in Nat /\ b \in Nat /\ Answer \in Seq(Nat) /\ 4 + 1 = 5
        /\ 4 <= p /\ p <= b /\ b <= Len(Answer) /\ m \in 0..(b - p)
    BY <1>4, <1>5, <1>7
  <2>2. /\ SubSeq(Answer, 4 + 1, p) \o SubSeq(SubSeq(Answer, p + 1, b), 1, m)
             = SubSeq(Answer, 4 + 1, q)
        /\ SubSeq(SubSeq(Answer, p + 1, b), m + 1, Len(SubSeq(Answer, p + 1, b)))
             = SubSeq(Answer, q + 1, b)
    BY <1>6, <2>1, SliceMove
  <2>. QED
    BY <1>1, <1>5, <2>1, <2>2
<1>9. Answer' = Answer
  BY <1>1, SameAnswer
<1>10. Flow(q, b, w)'
  BY <1>1, <1>3, <1>7, <1>8, <1>9 DEF Flow
<1>11. OnlyAnswer'
  BY <1>1, <1>7, <1>9, <1>10 DEF OnlyAnswer, Active
<1>12. AskedOnce'
  BY <1>1, StaysAsked DEF Silent, Empty
<1>. QED
  BY <1>11, <1>12

\* When all that the header announced is copied, that was the whole answer.
LEMMA PayloadRead ==
  ASSUME TypeOK, ShapeInv, OnlyAnswer, pc = "copy", left = 0
  PROVE  Empty /\ target = Payload(Len(lens), Last(lens))
<1>1. child.format = "binary" /\ Len(lens) # 0 /\ pc \in Active
  BY DEF ShapeInv, Active
<1>2. PICK p, b, w \in 0..Len(Answer) : Flow(p, b, w)
  BY <1>1 DEF OnlyAnswer
<1>3. target = SubSeq(Answer, 5, p) /\ left = Len(Answer) - p
  BY <1>2 DEF Flow
<1>4. /\ p \in Nat /\ b \in Nat /\ w \in Nat /\ p <= b /\ b <= w /\ w <= Len(Answer)
      /\ Len(Answer) \in Nat
      /\ (buf # <<>> <=> p < b) /\ (wire # <<>> <=> b < w) /\ (todo # <<>> => w < Len(Answer))
  BY <1>1, <1>2, FlowIs
<1>5. p = Len(Answer) /\ b = p /\ w = p
  BY <1>3, <1>4
<1>6. Empty
  BY <1>4, <1>5 DEF Empty
<1>7. target = Payload(Len(lens), Last(lens))
  BY <1>1, <1>3, <1>5, AnswerIs
<1>. QED
  BY <1>6, <1>7

LEMMA CopiedStream ==
  ASSUME TypeOK, ShapeInv, OnlyAnswer, AskedOnce, Copied
  PROVE  OnlyAnswer' /\ AskedOnce'
<1>1. /\ pc = "copy" /\ left = 0 /\ pc' = "idle"
      /\ UNCHANGED <<child, request, inpipe, buf, wire, todo>>
  BY DEF Copied, Done
<1>2. Empty'
  BY <1>1, PayloadRead DEF Empty
<1>3. OnlyAnswer'
  BY <1>1, <1>2 DEF OnlyAnswer, Active
<1>4. AskedOnce'
  BY <1>1, StaysAsked
<1>. QED
  BY <1>3, <1>4

LEMMA StepStream ==
  ASSUME TypeOK, ShapeInv, Fits, OnlyAnswer, AskedOnce, [Next]_vars
  PROVE  OnlyAnswer' /\ AskedOnce'
<1>1. CASE \E len \in child.lengths, size \in child.requests : Request(len, size)
  BY <1>1, RequestStream
<1>2. CASE ChildReads
  BY <1>2, ChildReadsStream
<1>3. CASE \E m \in 1..Len(todo) : ChildWrites(m)
  BY <1>3, ChildWritesStream
<1>4. CASE ChildDies
  BY <1>4, ChildDiesStream
<1>5. CASE Write
  BY <1>5, WriteStream
<1>6. CASE WriteFails \/ ReadFails
  <2>1. pc' = "failed"
    BY <1>6 DEF WriteFails, ReadFails
  <2>. QED
    BY <2>1 DEF OnlyAnswer, AskedOnce, Active
<1>7. CASE Fill
  BY <1>7, FillStream
<1>8. CASE ReadLine
  BY <1>8, ReadLineStream
<1>9. CASE ReadHeader
  BY <1>9, ReadHeaderStream
<1>10. CASE Copy
  BY <1>10, CopyStream
<1>11. CASE Copied
  BY <1>11, CopiedStream
<1>12. CASE UNCHANGED vars
  <2>1. Answer' = Answer
    BY <1>12, SameAnswer DEF vars
  <2>2. OnlyAnswer'
    BY <1>12, <2>1, ZenonT(60) DEF vars, OnlyAnswer, Silent, Empty, Flow
  <2>3. AskedOnce'
    BY <1>12 DEF vars, AskedOnce, Silent, Empty, Asks
  <2>. QED
    BY <2>2, <2>3
<1>. QED
  BY <1>1, <1>2, <1>3, <1>4, <1>5, <1>6, <1>7, <1>8, <1>9, <1>10, <1>11, <1>12 DEF Next, Exec

------------------------------------------------------------------------------
(* What has been read                                                      *)

LEMMA InitGot == Init => OnlyAnswer /\ AskedOnce /\ GotRight
<1>. SUFFICES ASSUME Init PROVE OnlyAnswer /\ AskedOnce /\ GotRight
  OBVIOUS
<1>1. Len(<<>>) = 0
  BY EmptySeq
<1>2. OnlyAnswer
  BY DEF Init, OnlyAnswer, Empty, Active
<1>3. AskedOnce
  BY <1>1 DEF Init, AskedOnce
<1>4. GotRight
  BY <1>1 DEF Init, GotRight
<1>. QED
  BY <1>2, <1>3, <1>4

\* Steps that neither begin nor end a call.
LEMMA GotKept ==
  ASSUME GotRight, UNCHANGED <<child, lens, got>>, ~alive => ~alive',
         alive \/ pc' \notin {"line", "header", "copy"} \/ pc \in {"line", "header", "copy"}
  PROVE  GotRight'
  BY DEF GotRight, Payload

LEMMA RequestGot ==
  ASSUME TypeOK, ShapeInv, GotRight,
         NEW len \in child.lengths, NEW size \in child.requests, Request(len, size)
  PROVE  GotRight'
<1>1. /\ pc = "idle" /\ pc' = "write" /\ lens' = Append(lens, len)
      /\ UNCHANGED <<child, alive, got>>
  BY DEF Request
<1>2. Len(got) = Len(lens)
  BY <1>1 DEF ShapeInv
<1>3. \A k \in 1..Len(got) : lens'[k] = lens[k]
  BY <1>1, <1>2, Types, AppendProperties
<1>. QED
  BY <1>1, <1>3 DEF GotRight

LEMMA DoneRight ==
  ASSUME TypeOK, ShapeInv, GotRight, pc \in {"line", "copy"}, UNCHANGED <<child, lens, alive>>,
         NEW o \in Seq(Nat), Done(o), IsPrefix(o, Payload(Len(lens), Last(lens))),
         o # Payload(Len(lens), Last(lens)) => child.format = "line" /\ ~alive
  PROVE  GotRight'
<1>1. /\ pc' = "idle" /\ Len(got') = Len(lens) /\ Len(got') = Len(got) + 1
      /\ \A k \in 1..Len(got) : got'[k] = got[k]
      /\ got'[Len(got')] = o /\ Len(got) \in Nat
  BY DoneType, LenProperties DEF ShapeInv
<1>2. Last(lens) = lens[Len(lens)]
  BY DEF Last
<1>3. \A k \in 1..Len(got) :
        IsPrefix(got[k], Payload(k, lens[k])) /\ got[k] = Payload(k, lens[k])
  BY DEF GotRight
<1>4. ASSUME NEW k \in 1..Len(got')
      PROVE  /\ IsPrefix(got'[k], Payload(k, lens[k]))
             /\ got'[k] # Payload(k, lens[k]) =>
                  child.format = "line" /\ ~alive /\ k = Len(got')
  <2>1. CASE k \in 1..Len(got)
    BY <1>1, <1>3, <2>1
  <2>2. CASE k = Len(got')
    BY <1>1, <1>2, <2>2
  <2>. QED
    BY <1>1, <2>1, <2>2
<1>. QED
  BY <1>1, <1>4 DEF GotRight, Payload

LEMMA StepGot ==
  ASSUME TypeOK, ShapeInv, Fits, OnlyAnswer, AskedOnce, GotRight, [Next]_vars
  PROVE  GotRight'
<1>1. CASE \E len \in child.lengths, size \in child.requests : Request(len, size)
  BY <1>1, RequestGot
<1>2. CASE ChildReads
  BY <1>2, GotKept DEF ChildReads, request
<1>3. CASE \E m \in 1..Len(todo) : ChildWrites(m)
  BY <1>3, GotKept DEF ChildWrites, request
<1>4. CASE ChildDies
  BY <1>4, GotKept DEF ChildDies, request
<1>5. CASE Write
  BY <1>5, GotKept DEF Write
<1>6. CASE WriteFails \/ ReadFails
  BY <1>6, GotKept DEF WriteFails, ReadFails, request
<1>7. CASE Fill
  BY <1>7, GotKept DEF Fill, request
<1>8. CASE ReadLine
  <2>1. /\ pc = "line" /\ child.format = "line" /\ UNCHANGED <<child, lens, alive>>
    BY <1>8 DEF ReadLine, request, ShapeInv
  <2>2. PICK o \in Seq(Nat) :
          /\ Done(o) /\ IsPrefix(o, Payload(Len(lens), Last(lens)))
          /\ o # Payload(Len(lens), Last(lens)) => ~alive
    BY <1>8, LineRead
  <2>. QED
    BY <2>1, <2>2, DoneRight
<1>9. CASE ReadHeader
  BY <1>9, GotKept DEF ReadHeader, request
<1>10. CASE Copy
  BY <1>10, GotKept DEF Copy, request
<1>11. CASE Copied
  <2>1. /\ pc = "copy" /\ left = 0 /\ Done(target) /\ UNCHANGED <<child, lens, alive>>
    BY <1>11 DEF Copied, request
  <2>2. target = Payload(Len(lens), Last(lens)) /\ target \in Seq(Nat)
    BY <2>1, PayloadRead, Types
  <2>3. IsPrefix(target, target)
    <3>1. SubSeq(target, 1, Len(target)) = target /\ Len(target) \in Nat
      BY <2>2, SubSeqFull, LenProperties
    <3>. QED
      BY <3>1 DEF IsPrefix
  <2>. QED
    BY <2>1, <2>2, <2>3, DoneRight
<1>12. CASE UNCHANGED vars
  BY <1>12, GotKept DEF vars
<1>. QED
  BY <1>1, <1>2, <1>3, <1>4, <1>5, <1>6, <1>7, <1>8, <1>9, <1>10, <1>11, <1>12 DEF Next, Exec

LEMMA ChildFixed ==
  ASSUME [Next]_vars
  PROVE  child' = child
  BY DEF Next, Exec, vars, request, Request, Write, WriteFails, ChildReads, ChildWrites,
         ChildDies, Fill, ReadFails, ReadLine, ReadHeader, Copy, Copied

LEMMA InitFraming == Init => TypeOK /\ FramingInv
  BY InitShape, InitGot DEF FramingInv, StreamInv

LEMMA StepFraming == TypeOK /\ FramingInv /\ [Next]_vars => TypeOK' /\ FramingInv'
<1>. SUFFICES ASSUME TypeOK, FramingInv, [Next]_vars PROVE TypeOK' /\ FramingInv'
  OBVIOUS
<1>1. TypeOK' /\ ShapeInv'
  BY StepShape DEF FramingInv
<1>2. Fits' = Fits
  BY ChildFixed DEF Fits
<1>3. Fits => OnlyAnswer' /\ AskedOnce' /\ GotRight'
  BY StepStream, StepGot DEF FramingInv, StreamInv
<1>. QED
  BY <1>1, <1>2, <1>3 DEF FramingInv, StreamInv

LEMMA Framed == Spec => [](TypeOK /\ FramingInv)
<1>1. Init => TypeOK /\ FramingInv
  BY InitFraming
<1>2. TypeOK /\ FramingInv /\ [Next]_vars => (TypeOK /\ FramingInv)'
  BY StepFraming
<1>. QED
  BY <1>1, <1>2, PTL DEF Spec

\* Lines that fit in the buffer are read whole and without their newline, in
\* whatever pieces they arrive, from a child that lives.
THEOREM WholeLines == Spec => []LineExact
<1>1. TypeOK /\ FramingInv => LineExact
  <2>. SUFFICES ASSUME TypeOK, FramingInv, child.format = "line", ~child.mayDie,
                       \A len \in child.lengths : len < Size
                PROVE  FrameExact
    BY DEF LineExact
  <2>1. alive /\ GotRight
    BY DEF FramingInv, ShapeInv, Fits
  <2>. QED
    BY <2>1 DEF GotRight, FrameExact
<1>. QED
  BY <1>1, Framed, PTL

\* A binary payload is read whole and without its header, whatever its length,
\* when the header arrives in one piece.  The child may die at any moment.
THEOREM WholeBinaries == Spec => []BinaryExact
<1>1. TypeOK /\ FramingInv => BinaryExact
  <2>. SUFFICES ASSUME TypeOK, FramingInv, child.format = "binary", child.headerWhole
                PROVE  FrameExact
    BY DEF BinaryExact
  <2>1. child.format # "line"
    OBVIOUS
  <2>2. GotRight
    BY <2>1 DEF FramingInv, Fits
  <2>. QED
    BY <2>1, <2>2 DEF GotRight, FrameExact
<1>. QED
  BY <1>1, Framed, PTL

\* Only the last line of a child that died can be cut.
THEOREM CutsOnlyByDeath == Spec => []CutOnlyByDeath
<1>1. TypeOK /\ FramingInv => CutOnlyByDeath
  <2>. SUFFICES ASSUME TypeOK, FramingInv, child.format = "line",
                       \A len \in child.lengths : len < Size, NEW k \in 1..Len(got)
                PROVE  /\ IsPrefix(got[k], Payload(k, lens[k]))
                       /\ got[k] # Payload(k, lens[k]) =>
                            child.mayDie /\ ~alive /\ k = Len(got)
    BY DEF CutOnlyByDeath
  <2>1. GotRight /\ (~alive => child.mayDie)
    BY DEF FramingInv, ShapeInv, Fits
  <2>. QED
    BY <2>1 DEF GotRight
<1>. QED
  BY <1>1, Framed, PTL

\* The hypothesis on the children: their lines fit, their headers are whole.
AllFit == \A k \in Children : IF k.format = "line" THEN \A len \in k.lengths : len < Size
                                                   ELSE k.headerWhole

\* With such children, a call that succeeds leaves nothing in either pipe, nor in
\* the reader the next call shares with it.
THEOREM LeavesNothingBehind ==
  ASSUME AllFit
  PROVE  Spec => []NothingBehind
<1>1. TypeOK /\ FramingInv => NothingBehind
  <2>. SUFFICES ASSUME TypeOK, FramingInv, pc = "idle" PROVE todo \o wire \o buf = <<>>
    BY DEF NothingBehind
  <2>1. Fits
    BY DEF AllFit, Fits, TypeOK
  <2>2. todo = <<>> /\ wire = <<>> /\ buf = <<>>
    BY <2>1 DEF FramingInv, StreamInv, OnlyAnswer, Empty
  <2>3. <<>> \o <<>> = <<>>
    BY ConcatEmptySeq, EmptySeq
  <2>. QED
    BY <2>2, <2>3
<1>. QED
  BY <1>1, Framed, PTL

==============================================================================
