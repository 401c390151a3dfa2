------------------------------- MODULE Framing -------------------------------
(***************************************************************************)
(* One exchange of stream mode after another, byte by byte over bounded    *)
(* pipes.  Exec writes the whole request and only then reads the answer    *)
(* (driver/shell/stream.go), with ProcessStreamResponse (driver/output.go) *)
(* and the bufio.Reader both stream drivers keep between calls.  A child   *)
(* answers each request with one frame, which it begins when it has read   *)
(* the request, or earlier, and writes it in pieces of any size.           *)
(***************************************************************************)
EXTENDS Naturals, Sequences, SequencesExt, FiniteSetsExt

CONSTANTS
  MaxCalls,    \* bound: requests sent
  Capacity,    \* of each of the two pipes, in bytes: 65536 on Linux
  Size,        \* the size of the bufio.Reader: 4096 in the program
  Children     \* the kinds of child to check: records of the type below

\* What the 4 bytes of a binary length can say, and those bytes.
Lengths == {len \in Nat : len \div 16777216 < 256}

LittleEndian(len) ==
  <<len % 256, (len \div 256) % 256, (len \div 65536) % 256, len \div 16777216>>

\* format: of the procedure's output; "line" stands for every type but binary.
\* lengths: of the payloads the child answers with.
\* requests: the lengths of what it is sent, with the newline at the end.
\* early: does it answer a request when it has read the first byte of it, as a
\* filter may, and not the last?
\* headerWhole: does it write a binary header in one piece?  mayDie: may it die?
Child == [format : {"line", "binary"}, lengths : SUBSET Lengths,
          requests : SUBSET (Nat \ {0}), early : BOOLEAN, headerWhole : BOOLEAN, mayDie : BOOLEAN]

ASSUME FramingAssumption ==
  /\ MaxCalls \in Nat /\ Size \in Nat /\ Size >= 4
  /\ Capacity \in Nat /\ Capacity >= 4
  /\ Children \subseteq Child

VARIABLES
  child,  \* the kind of child in this behavior
  lens,   \* the payload lengths of the requests so far
  sizes,  \* the lengths of the requests so far
  sent,   \* how much of the last request has been written
  inpipe, \* the bytes in the stdin pipe: which byte of which request
  todo,   \* what the child has still to write of its answer
  wire,   \* bytes in the stdout pipe
  buf,    \* bytes in the bufio.Reader
  alive,  \* is the child alive?
  pc,     \* where the call is: "idle", "write", "line", "header", "copy", "failed"
  left,   \* bytes CopyN has still to copy
  target, \* what has been written to the Output
  got     \* the Outputs of the calls that succeeded

vars == <<child, lens, sizes, sent, inpipe, todo, wire, buf, alive, pc, left, target, got>>
request == <<lens, sizes, sent>>

NL == 10

\* The payload of answer k: its bytes tell the answers apart.
Payload(k, len) == [i \in 1..len |-> 100 + k]

\* A frame, as the README defines it: a 4-byte little-endian length before a
\* binary payload, a newline after any other.
Frame(k, len) ==
  IF child.format = "binary" THEN LittleEndian(len) \o Payload(k, len)
                             ELSE Payload(k, len) \o <<NL>>

Init ==
  /\ child \in Children
  /\ lens = <<>> /\ sizes = <<>> /\ sent = 0 /\ inpipe = <<>>
  /\ todo = <<>> /\ wire = <<>> /\ buf = <<>>
  /\ alive = TRUE /\ pc = "idle" /\ left = 0 /\ target = <<>> /\ got = <<>>

------------------------------------------------------------------------------
(* Exec writes the request *)

\* A call.  How long its request and the answer are is chosen here.
Request(len, size) ==
  /\ pc = "idle" /\ Len(lens) < MaxCalls
  /\ lens'   = Append(lens, len)
  /\ sizes'  = Append(sizes, size)
  /\ sent'   = 0
  /\ pc'     = "write"
  /\ target' = <<>>
  /\ UNCHANGED <<child, inpipe, todo, wire, buf, alive, left, got>>

\* io.Copy waits for room in the pipe.  After the last byte Exec reads.
Write ==
  /\ pc = "write" /\ alive /\ Len(inpipe) < Capacity
  /\ sent'   = sent + 1
  /\ inpipe' = Append(inpipe, [of |-> Len(lens), at |-> sent'])
  /\ pc'     = IF sent' < Last(sizes) THEN "write"
               ELSE IF child.format = "binary" THEN "header" ELSE "line"
  /\ UNCHANGED <<child, lens, sizes, todo, wire, buf, alive, left, target, got>>

\* Nobody reads the pipe any more.
WriteFails ==
  /\ pc = "write" /\ ~alive
  /\ pc' = "failed"
  /\ UNCHANGED <<child, request, inpipe, todo, wire, buf, alive, left, target, got>>

------------------------------------------------------------------------------
(* The child *)

\* It reads on when it has written its answer.
ChildReads ==
  LET byte == Head(inpipe) IN
  /\ alive /\ todo = <<>> /\ inpipe # <<>>
  /\ inpipe' = Tail(inpipe)
  /\ todo'   = IF byte.at = (IF child.early THEN 1 ELSE sizes[byte.of])
               THEN Frame(byte.of, lens[byte.of]) ELSE <<>>
  /\ UNCHANGED <<child, request, wire, buf, alive, pc, left, target, got>>

ChildWrites(m) ==
  /\ alive /\ m <= Len(todo) /\ Len(wire) + m <= Capacity
  /\ child.headerWhole /\ Len(todo) > Last(lens) => m >= 4
  /\ wire' = wire \o SubSeq(todo, 1, m)
  /\ todo' = SubSeq(todo, m + 1, Len(todo))
  /\ UNCHANGED <<child, request, inpipe, buf, alive, pc, left, target, got>>

ChildDies ==
  /\ child.mayDie /\ alive
  /\ alive'  = FALSE
  /\ todo'   = <<>>
  /\ inpipe' = <<>>
  /\ UNCHANGED <<child, request, wire, buf, pc, left, target, got>>

------------------------------------------------------------------------------
(* The reader *)
AtEOF == ~alive /\ wire = <<>>

\* Mutant of Filling: a line is only looked for in what one Read brought.
FillingOnce == pc \in {"line", "header", "copy"} /\ buf = <<>>

\* bufio fills its buffer with one Read of the pipe: what is there and fits.
Filling ==
  \/ pc = "line" /\ ~Contains(buf, NL) /\ Len(buf) < Size
  \/ pc \in {"header", "copy"} /\ buf = <<>>

\* Mutant of Fill: the buffer has no limit.
FillAll ==
  /\ Filling /\ wire # <<>>
  /\ buf' = buf \o wire /\ wire' = <<>>
  /\ UNCHANGED <<child, request, inpipe, todo, alive, pc, left, target, got>>

Fill ==
  LET m == Min({Len(wire), Size - Len(buf)}) IN
  /\ Filling /\ wire # <<>>
  /\ buf'  = buf \o SubSeq(wire, 1, m)
  /\ wire' = SubSeq(wire, m + 1, Len(wire))
  /\ UNCHANGED <<child, request, inpipe, todo, alive, pc, left, target, got>>

Done(output) ==
  /\ pc'     = "idle"
  /\ target' = output
  /\ got'    = Append(got, output)

\* The driver closes itself: this reader is not used again.
Failed == Filling /\ AtEOF /\ (pc = "line" => buf = <<>>)

ReadFails ==
  /\ Failed
  /\ pc' = "failed"
  /\ UNCHANGED <<child, request, inpipe, todo, wire, buf, alive, left, target, got>>

\* Mutants of EndOfLine: one byte too far, one too short.
PastEndOfLine   == SelectInSeq(buf, LAMBDA b : b = NL) + 1
BeforeEndOfLine == SelectInSeq(buf, LAMBDA b : b = NL) - 1

\* Where the first newline is.
EndOfLine == SelectInSeq(buf, LAMBDA b : b = NL)

\* Mutant of ReadLine: what one Read brought is taken for the line.
ReadLineOnce ==
  /\ pc = "line" /\ buf # <<>>
  /\ IF Contains(buf, NL)
     THEN Done(SubSeq(buf, 1, EndOfLine - 1)) /\ buf' = SubSeq(buf, EndOfLine + 1, Len(buf))
     ELSE Done(buf) /\ buf' = <<>>
  /\ UNCHANGED <<child, request, inpipe, todo, wire, alive, left>>

\* ReadLine returns the line without its newline.  A full buffer is returned
\* as a prefix, and at EOF what there is: isPrefix is ignored, err is nil.
ReadLine ==
  /\ pc = "line"
  /\ \/ /\ Contains(buf, NL)
        /\ Done(SubSeq(buf, 1, EndOfLine - 1))
        /\ buf' = SubSeq(buf, EndOfLine + 1, Len(buf))
     \/ /\ ~Contains(buf, NL)
        /\ buf # <<>>
        /\ Len(buf) = Size \/ AtEOF
        /\ Done(buf)
        /\ buf' = <<>>
  /\ UNCHANGED <<child, request, inpipe, todo, wire, alive, left>>

\* stream.Read(bsize): what the buffer has, up to 4 bytes; the rest of bsize
\* stays zero.
ReadHeader ==
  LET m == Min({4, Len(buf)})
      byte(j) == IF j <= m THEN buf[j] ELSE 0
  IN
  /\ pc = "header" /\ buf # <<>>
  /\ left' = byte(1) + 256 * byte(2) + 65536 * byte(3) + 16777216 * byte(4)
  /\ buf'  = SubSeq(buf, m + 1, Len(buf))
  /\ pc'   = "copy"
  /\ UNCHANGED <<child, request, inpipe, todo, wire, alive, target, got>>

\* io.CopyN copies from the buffer until nothing is left to copy.
Copy ==
  LET m == Min({left, Len(buf)}) IN
  /\ pc = "copy" /\ left > 0 /\ buf # <<>>
  /\ target' = target \o SubSeq(buf, 1, m)
  /\ buf'    = SubSeq(buf, m + 1, Len(buf))
  /\ left'   = left - m
  /\ UNCHANGED <<child, request, inpipe, todo, wire, alive, pc, got>>

\* Mutant of Copied: io.Copy for io.CopyN, to which an early end is no error.
CopiedToEOF ==
  /\ pc = "copy" /\ (left = 0 \/ (AtEOF /\ buf = <<>>))
  /\ Done(target)
  /\ UNCHANGED <<child, request, inpipe, todo, wire, buf, alive, left>>

Copied ==
  /\ pc = "copy" /\ left = 0
  /\ Done(target)
  /\ UNCHANGED <<child, request, inpipe, todo, wire, buf, alive, left>>

Exec == Write \/ WriteFails \/ Fill \/ ReadFails \/ ReadLine \/ ReadHeader \/ Copy \/ Copied

Next ==
  \/ \E len \in child.lengths, size \in child.requests : Request(len, size)
  \/ ChildReads
  \/ \E m \in 1..Len(todo) : ChildWrites(m)
  \/ ChildDies
  \/ Exec

Spec == Init /\ [][Next]_vars

FairSpec ==
  /\ Spec
  /\ WF_vars(\E m \in 1..Len(todo) : ChildWrites(m))
  /\ WF_vars(Exec)
  /\ WF_vars(ChildReads)

------------------------------------------------------------------------------
(* Properties *)

\* The shape of the state.
TypeOK ==
  /\ child \in Children /\ lens \in Seq(child.lengths) /\ sizes \in Seq(child.requests)
  /\ alive \in BOOLEAN /\ left \in Nat
  /\ pc \in {"idle", "write", "line", "header", "copy", "failed"}
  /\ {todo, wire, buf, target} \subseteq Seq(Nat)
  /\ inpipe \in Seq([of : 1..MaxCalls, at : Nat]) /\ sent \in Nat
  /\ Len(buf) <= Size /\ Len(wire) <= Capacity /\ Len(inpipe) <= Capacity

\* Every call that succeeds has the payload of its own answer, whole and with
\* nothing of the frame around it.  (Not so of a header that arrives in pieces,
\* nor of a line that does not fit in the buffer.)
FrameExact == \A k \in 1..Len(got) : got[k] = Payload(k, lens[k])

\* That holds of lines that fit in the buffer, in whatever pieces they arrive,
\* from a child that lives.
LineExact ==
  child.format = "line" /\ ~child.mayDie /\ (\A len \in child.lengths : len < Size)
    => FrameExact

\* It holds of binary frames of any length whose header arrives in one piece,
\* though the child may die before the payload is complete.
BinaryExact == child.format = "binary" /\ child.headerWhole => FrameExact

\* When the child dies in the middle of an answer, the part it wrote may be
\* taken for the answer, but nothing is taken for an answer after that.
CutOnlyByDeath ==
  child.format = "line" /\ (\A len \in child.lengths : len < Size) =>
  \A k \in 1..Len(got) :
    /\ IsPrefix(got[k], Payload(k, lens[k]))
    /\ got[k] # Payload(k, lens[k]) => child.mayDie /\ ~alive /\ k = Len(got)

\* A call that succeeds leaves nothing of its frame for the next call to read.
NothingBehind == alive /\ pc = "idle" => todo \o wire \o buf = <<>>

\* Exec cannot wait for a child that waits for Exec: the child reads all of the
\* request before it answers, or one of the pipes takes all that is written.
Flows ==
  \/ ~child.early
  \/ \A size \in child.requests : size <= Capacity
  \/ \A len \in child.lengths : Len(Frame(1, len)) <= Capacity

\* A call gets its answer, or an error if the child died, though Exec writes
\* everything before it reads anything.
Answered ==
  Flows => (pc \in {"write", "line", "header", "copy"} ~> pc \in {"idle", "failed"})

==============================================================================
