# A TLA+ model of plugeproc

plugeproc runs external programs and Docker containers as procedures: a manifest
says what to run, `Store.Exec` runs it. These modules model the program from the
directory with the manifests to the answer of a call: the loader, the store, the
four drivers, the framing of stream mode, and the life of the temp files and values
of a call. Paths below are those of the repository; `PROJECT.json` maps every
definition to the lines it models.

## The system

| Component | State | Operations | Module |
| --- | --- | --- | --- |
| Shell stream driver (`driver/shell/stream.go`) | `cmd`, `stdin`, `stdout`, `closer`, `mx`; one bash process with its pipes, a Wait goroutine and a context watcher | `Exec`, `establish`, `Close` | `ShellStream` |
| Docker stream driver (`driver/docker/stream.go`) | `containerID`, `conn`, `stdout`, `pullImage`; one container, one attach connection, a pump goroutine | `Exec`, `establish`, `Close`, `removeContainer` | `DockerStream` |
| Docker call driver (`driver/docker/call.go`, `container.go`, `utils.go`) | `containerID`, `conn` (with its own `containerID` and `generalExec`), `pullImage` | `Exec`, `establish`, `exec`, `Release`, `Close` | `DockerCall` |
| Stream framing (`driver/output.go`) | the `bufio.Reader` kept between calls, the Output of the call | `ProcessStreamResponse` | `Framing` |
| Procedure (`proc.go`), with shell call driver (`driver/shell/call.go`), parameters (`driver/param.go`, `params.go`), output and temp files (`output.go`, `tmpfile.go`) | per call: temp files, readers, output value | `Exec`, `PrepareMacros`, `InputStream`, `Target`, `MappingResult`, the two `Release`s | `ProcExec` |
| Manifest (`manifest/manifest.go`), `newDriver` (`proc.go`) | none | decoding of `run` and `command`, `Normalize`, choice of the driver and of the words it runs | `Manifest` |
| Loader (`loader/fs`), decoders (`decode`) | the walk: the entry it has come to, the manifests so far | `Load`, `loadManifest`, `findExecutable`, `MultiDecoder.Decode` | `Loader` |
| Store (`store.go`) | list of procedures | `NewStoreFromLoader`, `Register`, `Get`, `Exec`, `Release` | `Store` |
| Options, helpers (`options.go`, `driver/params`) | none | constructors | they are the CONSTANTS of the modules |

A loader finds and normalizes the manifests, a store builds a procedure of each and
finds one by its name. The procedure builds its parameters and its output
and calls the driver; in stream mode the driver copies `InputStream(true)` to its
worker and gives its reader to `Output.ProcessStreamResponse`; at the end the
procedure maps the output to the caller's target and releases the parameters.
The shared state is inside the drivers: a driver belongs to a procedure, and
nothing prevents two goroutines from calling the procedure at once, or the owner
from calling `Release`, which is `Close` of the driver, during a call.

What is hard here, and where: the mutex of the shell stream driver guards
`establish` and `Close` but not `Exec`; its process lives under the context of
one call; an exchange that was not completed is met by the next one; the docker
drivers have no lock, and each of their requests to the daemon may fail halfway
through a sequence; frames arrive in pieces, are longer than the buffer, or are
cut by a death; a request is written whole before any of the answer is read; values
that can be read once are read up to three times; old and new fields of a manifest
override each other; one bad manifest among good ones; a store that is released
while it is used. The list, with the lines where each bites, is `hazards` in `PROJECT.json`.

## The modules

**`StreamSession`** is what a driver in stream mode promises: a session is
opened when a call finds none, a call returns once with the answer to its own
request or with an error, and a session that failed a call is over. It has no
processes, pipes or containers.

**`ShellStream`** has one action per step of `Exec`, `establish` and `Close`
that others can see in between, and names a process by the call that started it
(so the context of the process is the context of that call). Holding `mx` across
steps is modelled only in `establish`, between `d.cmd = cmd` (`Spawn`) and the
assignments of the pipes (`Publish`), because `Exec` reads these fields without
the mutex; `Close` is one step under the mutex. Each Write of `io.Copy` is a
step, because two callers can interleave there. The environment is the context
(`Cancel`, `ContextKill`), `Crash`, the Wait goroutine (`Reap`, which closes our
ends of the pipes) and a child like `tests/stream/stream.sh`, which answers each
line that is not empty with a line. Fields read twice by the code (`d.stdin`, then
`d.stdout`) are read twice by the model; a nil one panics. A reader that two
callers use at once may lose or repeat a line (`RacingFor`).

**`DockerStream`** does the same for the container. The two halves of `Close`,
the connection and the removal, are steps of their own, as there is no lock.
The daemon may refuse any request. What differs between the circumstances
(`config`: does the owner close in the middle of an Exec, is a name configured,
is the image pulled, may a removal be refused) is chosen in the initial state
from the constant `Configs` and never changes, so that one run covers them all.

**`DockerCall`** models the three ways to run a command: in a container made for
the call, in a sidecar made for the call, and in a retained sidecar. `conn` is
`d.conn`, shared by all callers; `mine` is what `establish` returned to one.
`config` holds the options of the driver and the circumstances, as above. `Release` has
the two steps of the code: an error of the first, the closing of the connection,
returns before the second, the removal (`Remove`). What is written to a command
has a fate (`Fate`): a container without an open stdin loses it, and one that has ended
may have taken it too late.

**`Framing`** is one exchange after another, byte by byte: `Exec` writes the request
(`Write`) and then reads the answer (`ProcessStreamResponse`), over two pipes of
`Capacity` bytes and a reader of `Size` bytes; the child reads the request and
writes its frame in pieces; a binary frame begins with the four bytes of its
length, the lowest first. `child` says what kind of child it is: one that is
`early` answers before it has read all of the request, as `tr` or `sed` may.

**`ProcExec`** models one `Exec` of a procedure with a driver of either mode,
every early return in it, and the deferred release. Its initial states are all
lists of at most `MaxParams` parameters of every kind.

**`Manifest`** has no variables: `Decode` says what JSON and YAML make of `run` and
`command`, `Normalize` what becomes of old field names, `Kind`, `Words` and `Plan`
what `New` and an Exec make of the result. A field is a member of `Text`.

**`Loader`** walks a tree (`source`), an entry of it per step: `Skip`, `Load`,
`Discover` (a script was found), `LoadFails`, which ends the walk, and `Finish`.
Base names are sequences of letters, as the code trims letters of them. The search for
a script reads the directory and the name as patterns, as `filepath.Glob` does
(`Denotes`, `Matches`): three letters of the model are the special ones, a wildcard, a
class of one letter and a bracket that spoils the pattern. No directory of a tree has
a `*` in its name.

**`Store`** composes them: `LoadStep` is a step of `Loader`, `Build` makes a procedure
of every manifest or `BuildFails`, because there is no driver for one or no client for
the docker daemon, and then the owner registers and releases while
callers execute. `Release` closes one procedure per step, so that calls come in
between. Of a driver there is only what Release is about, whether it has a session open: a
call in stream mode finds or opens one (`Attach`), a failure of the driver ends it
(`Fail`), and after an answer, or an error of `proc.Exec` itself (the count of the
parameters, the mapping of the output), it stays open (`Reply`); a procedure in call
mode has none. What the drivers promise beyond that is the subject of their modules.

Operators named after a definition and marked "Mutant of" are broken forms of it:
with the one replaced by the other, the property that `mutants` in `PROJECT.json`
names is violated. They are used nowhere else.

Each `MC` module is the one TLC is run on: `MCShellStream` adds the symmetry of
the callers (used for safety only), `MCFraming`, `MCDockerStream` and
`MCDockerCall` the kinds of children and the configurations, `MCLoader` and `MCStore`
the trees and manifests.

## What the runs check

Runs that pass:

| Run | Shows |
| --- | --- |
| `shell_serial` | 3 calls in turn, 2 Closes at any moment, child crashes and contexts end at any moment: `OwnResponse`, `NoLeftover`, `NoOrphan`, `CloseTerminates`; every Exec returns (`CallReturns`); `ShellStream` implements `StreamSession` (`KeepsPromise`) |
| `shell_concurrent` | 2 callers at once: `FieldsAgree` holds although callers panic, race and lose processes |
| `docker_stream` | 3 calls, 2 Closes, any request refused. `NothingLost`: no container is forgotten, also with refused removals when there is a name, because the daemon then refuses the second container and the id of the first is kept. `CallReturns` while the owner closes between Execs; `KeepsPromise` (it implements `StreamSession`) also while he closes in the middle of one |
| `framing` | Lines that fit in the buffer and binary frames whose header arrives whole are read right whatever the pieces (`LineExact`, `BinaryExact`), a death cuts one line at most (`CutOnlyByDeath`), nothing is left for the next call (`NothingBehind`), and every call ends (`Answered`) unless the child answers early and neither the request nor the answer fits in its pipe |
| `proc_exec` | every list of 0 to 2 parameters, both modes, every failure: `ParamsReleased`, `FilesWhole`, `StdinWhole`; `OutputKeptAndReleased`, also when the output cannot be mapped, but not when the process has failed |
| `docker_call` | `OwnAnswer`, while leftovers of refused removals and of connections that cannot be closed pile up, and in sidecars also of calls that overlap; `NothingLeft`: with removeAfterDone no container outlives its call; `NoConnectionLeft`: nor does an attached connection, though removals fail; `OneRetained`, `CleanedByClose` for a retained sidecar that may exit |
| `loader` | every spelling of a manifest in either format, every set of scripts, good and bad names, formats, files and decoders: `Load` returns an error or all manifests in order (`NothingSkipped`), with the right name (`NameRight`) and script (`DiscoveryRight`, with directories and names that are patterns among the trees, of which it speaks only as long as they mean themselves); old spellings mean what the new ones do (`LegacyAccepted`); a second `Normalize` changes nothing (`NormalizedOnce`) |
| `store` | from the loader to the second Release, with equal names, missing drivers, bad manifests and Registers: `AllServed`, `FirstWins`, `ReleaseClosesAll` (what is open afterwards was opened behind its back) |

Runs that find a violation, each a disagreement between the code and what the
repository says of it, quoted under `findings`; each has the smallest bounds that
show it, and the passing run beside it shows what holds without its cause:

| Run | Violates | Because |
| --- | --- | --- |
| `shell_kept_alive` | `KeptAlive` | the process is made with the context of the first call, and dies with it |
| `shell_orphan` | `CloseTerminates` | two first calls start two processes, `d.cmd` keeps one |
| `loader_argv` | `ArgvRuns` | in stream mode only the first word of `run` is the script |
| `call_no_stdin` | `InputDelivered` | the container of a global command has no open stdin |

### Known deviations

The properties of the passing runs are stated of the circumstances in which they
hold, and the circumstances they leave out are these. They were met while
modelling; no run is kept for them.

- `driver/docker/stream.go:78`, `call.go:74`: `pullImage` is cleared before the
  pull, so a pull that failed is not tried again. The models have the step.
- `driver/output.go:80`: `isPrefix` of `ReadLine` is ignored. A line as long as
  the buffer or longer is returned in parts, as the answers of several calls
  (`LineExact` speaks of lengths below `Size`); a JSON answer with a newline in
  it is cut there; the unfinished line of a child that dies is an answer
  (`CutOnlyByDeath` says that it is the last one).
- `driver/params.go:54`: `Release` stops at its first error. When the process has
  removed one of its input files, those after it stay (`ParamsReleased` says so).
- `driver/param.go:95`: a reader given for a parameter that is both a file and
  stdin is used up by the file (the second case of `StdinWhole`).
- `driver/params.go:70`: two stdin parameters are two lines of the request, a child
  answers both and one answer is read; the other is the answer of the next call
  (`OwnResponse` is checked with one).
- `driver/shell/stream.go:69`: the request is written before anything is read. A
  child that answers early and is given a request and an answer that both exceed
  the pipes waits for Exec, which waits for it (`Flows` in `Answered`).
- `driver/output.go:69`: the count that `stream.Read(bsize)` returns is ignored, and a
  binary header that comes in pieces is read as another length (`headerWhole`).
- `driver/docker/stream.go:93`: without a name, a removal that failed keeps the id
  and the next establish overwrites it: that container stays (`NothingLost`).
- `driver/shell/stream.go:64`: in stream mode no parameter of type file is
  written to a file (`FilesWhole` speaks of call mode).
- `driver/docker/call.go:130`: Execs that overlap share `d.conn`, and one of a global
  command may return the output of the other's container (`OwnAnswer` is checked of
  overlapping calls in sidecars).
- `driver/docker/container.go:134`: when the attached connection reports an error as it
  is closed, `Release` returns before the removal and the container stays
  (`~config.closeFails` in `NothingLeft` and `NoConnectionLeft`).
- `driver/docker/container.go:32`: what is written to a container that has already ended
  can be accepted and lost (the fate "late"); no property forbids it.
- `driver/docker/utils.go:92`: the daemon gives names with a slash, and a name
  configured without one, as the documentation writes it (`README.md:100`,
  `driver/docker/options.go:23`), is never found: the second sidecar of that name is
  refused (`Find` and `FindNone`; the run has a configuration of each spelling).
- `driver/docker/utils.go:48`: the cleanup after a start that failed because its
  context ended uses the same context (`~config.cancels` in `NothingLeft`).
- `driver/shell/call.go:63`: the words of a shell procedure, the path of a
  discovered script among them, are joined by blanks and split again by bash.
- `proc.go:116`: the docker drivers ignore `args`; `proc.go:89`: `New` does not
  normalize, so a manifest in the old spelling works from a file and not by hand.
- `manifest/manifest.go:86`: `run: ""` (or `run: null` in JSON) overrides `command`
  with the empty word, and a second `Normalize` would drop the script that Load found;
  `command: null` in JSON is the empty word too, and not the absence of a command
  (the exceptions in `DiscoveryRight` and `NormalizedOnce`).
- `manifest/manifest.go:115`: `is_tmp_file` of an output whose type is json, or of a
  parameter that is not binary, has no effect (`Legacy` does not use it there).
- `manifest/manifest.go:42`: `version` and `env` are decoded and used nowhere.
- `loader/fs/loader.go:47`: what cannot be visited, the directory itself included, is
  skipped without an error, so a store of a missing directory is empty.
- `loader/fs/loader.go:55`: one file such as `foo.eproc.bak` ends the load of all
  others, as no decoder takes it (`LoadFails`).
- `loader/fs/loader.go:85`: `TrimRight` takes a set of letters. With a suffix that ends
  in a letter of the extension, names lose more than that (`NameRight`).
- `loader/fs/loader.go:121`: the directory and the name are given to `filepath.Glob` as a
  pattern and not quoted. With `[`, `*`, `?` or a backslash in them the script of a
  procedure may not be found, or one of a sibling directory is taken: a directory
  `a[1]` matches `a1` and not itself (`Plain` in `DiscoveryRight`).
- `store.go:46`: of two procedures of one name, the later cannot be reached, and no
  error says so (`AllServed` says that the first is found).
- `store.go:65`: an Exec during or after Release starts a process that only another
  Release ends (`reopened` in `ReleaseClosesAll`).
- `proc.go:105`: the docker client made for a procedure is never closed, and when that of
  one cannot be made the store fails with all others (`BuildFails`).

### Bounds

`MaxCalls` and `MaxCloses` bound `Begin` and `Close`. Three calls of a driver
let one fail, the next repair what it left and the third see the repair; the
docker call driver has two callers with two calls each, so that a leftover, a failure
and a reuse can follow each other, and two calls overlap where the configuration says so.
Callers that take turns keep nothing between their calls
(`fd` and `sent` are cleared by `Return`), so several of them do nothing that
one with as many calls does not; in `shell_concurrent`, which is about overlap,
there are two. One call each is enough there: the races are between first
calls, and both reach every line of `Exec`. `Inputs` is 1 because
with two stdin parameters `OwnResponse` is false (known deviations). `Size = 4`
in `Framing` stands for 4096; payloads reach from empty to longer than the
buffer, and 4 is the least size that holds a header. `Capacity = 5` stands for 65536:
it divides the requests, of 1, 2, 5 and 8 bytes, and the frames, of 1 to 10, into
those that fit and those that do not; one more frame is of 264 bytes, so that a
length needs its second byte. Two parameters are enough
for the order of their releases to matter.

The trees of `MCLoader` hold one manifest of every kind with a script, one nameless
manifest with every subset of seven scripts, or two manifests of which one is named,
spelt or damaged in every way; nothing in the loader relates more than two files but
the search for scripts. Two directories suffice for patterns: one that is a pattern, and
one that it matches or not. In `Store` three procedures are two that are loaded and one
registered, `MaxProcs` being what bounds the registered ones; `MaxReleases = 2` lets a
Release follow calls that came behind the back of the one before, and two callers
are in two procedures at once. The names, drivers and modes of the trees make
procedures equal in name or not, in one mode or two.

The runs check deadlock nowhere: callers stop after their bounded number of calls,
a load ends, and a driver with nobody to call it is at rest.

### Fairness

`FairSpec` of the drivers: a goroutine that can run does (weak fairness of `Exec`
of each caller and of its `Close`), the child or container reads what it is sent,
the daemon answers, and for a shell process the context watcher and Wait, which
are goroutines of `os/exec`, run. Nothing obliges anyone to call, to cancel, to
close or to die. `Framing` needs the child to go on reading what it was sent and
writing what it began, and the call to go on. A child that never answers makes Exec
wait for ever, which the code does not prevent: there is no timeout in stream mode.

## What is proved

Every safety property of the passing runs is a theorem, for every value of the
constants that satisfies the assumption of the module, and the refinements of
`StreamSession` are proved step by step. Each proof has an inductive invariant, a
lemma per action that says that the action preserves it, and a theorem that puts
them together. Properties that hold under circumstances only have these as
hypotheses of the theorem, and the instances that TLC checks satisfy them; the
runs that find a violation, or the known deviations, show what happens otherwise.

| Module | Theorems | Hypotheses beside the assumption of the module |
| --- | --- | --- |
| `ShellStreamProofs` | `TypeOK`, `FieldsAgree`; `NoOrphan`, `CloseTerminates` | the last two: Execs do not overlap |
| `ShellStreamRefines` | `OwnResponse`, `NoLeftover`, `KeepsPromise` | Execs do not overlap, at most one stdin parameter |
| `DockerStreamProofs` | `TypeOK`, `KeepsPromise`, `NothingLost` | none |
| `DockerCallProofs` | `TypeOK`, `NothingLeft`, `NoConnectionLeft`; `OwnAnswer`, `OneRetained`, `CleanedByClose` | the last three: of `Configs`, see below |
| `FramingProofs` | `TypeOK`, `LineExact`, `BinaryExact`, `CutOnlyByDeath`; `NothingBehind` | the last: lines fit in the buffer, headers arrive whole |
| `ProcExecProofs` | `TypeOK`, `ParamsReleased`, `OutputKeptAndReleased`, `FilesWhole`, `StdinWhole` | none |
| `LoaderProofs` | `LoaderTypeOK`, `NothingSkipped`, `NameRight`, `DiscoveryRight`, `LegacyAccepted`, `NormalizedOnce` | none |
| `StoreProofs` | `AllServed`, `FirstWins`, `ReleaseClosesAll` | none |

### The shell stream driver

`StreamAssumption`: the bounds are natural numbers, `Nil` is not a caller or a call.

- `TypeCorrect`: `TypeOK` is inductive because it says that a caller that is not
  idle has begun a call.
- `FieldsStayTogether`, with overlapping calls. `FieldsAgree` says nothing while the
  mutex is held, so `FieldsInv` adds that it is held by `c` exactly while `c` is
  between `Spawn` and `Publish`, and that `d.cmd` is then the process of `c`.
- `NoProcessForgotten`, `CloseLeavesNothingRunning`: `NoOrphan` alone is not inductive,
  as `Spawn` overwrites `d.cmd`; `SerialInv` adds that at most one caller is not idle,
  that `d.cmd` is nil between `PreClose` and `Spawn`, and that a call that has not
  spawned has no process. `shell_orphan` shows that the hypothesis is needed.
- `EachItsOwn`, `DrainedBetweenCalls`, `Implements` (`ShellStreamRefines`): the request of
  the current call is at one place at a time. `OneRequest` says where: of its two chunks
  those that were written are in the pipe to the child, or read by it, or have become
  the answer in the pipe back, unless the process has ended; and when no call talks to
  the process in `d.cmd` there is nothing in any of them. `OnlyCmd` and `TalksToPipes` say
  that no other process matters. `LedgerInv` relates this to the results, and each
  action is then a step of `StreamSession`, whose session is `d.cmd # nil`, or a stutter.

### The docker stream driver

`DockerAssumption`: the bounds are natural numbers, the owner is not a caller. `Configs`
is any set of circumstances.

- `Implements`: the session is the connection. The steps of an Exec and those of the
  owner's Close are separate, so `ConnInv` says which connection the caller in Exec
  holds when `d.conn` is not that one any more, `FreshInv` that a container that has been
  created and not attached has been sent nothing, `StoppedInv` that one that has
  stopped has nothing to say; with them `OneRequest` holds as it does above.
- `NoContainerLost`: `ContainerInv` says at each step of Exec and Close which container
  there can be: the one of `d.containerID`, and none when one is about to be created.

### The docker call driver

`CallAssumption`: the bounds are natural numbers, a global command has no retained
sidecar. The invariant has a part for each question, so that each theorem has
the hypotheses it needs, stated of `Configs`:

- `TypeCorrect` from `ShapeInv`: a caller past its check has a connect.
- `AnswersItsOwn` from `SidecarInv`, `TurnInv` and `AnswerInv`: the command that a
  call reads from is its own. Calls that overlap must use sidecars, because `d.conn` is
  overwritten while it is used.
- `ClosesConnections` from `ConnectedInv`: in calls in turn a connection that is open
  belongs to the call in progress, which is past its attach and has not released it
  (`Holds`). That a removal may fail does not matter, as it comes after the closing.
- `LeavesNothing` from `OwnedInv`: every container there is belongs to a call in progress
  that knows its id. Its circumstances, connections that can be closed and a daemon that
  removes what it is asked to, are in the property itself.
- `RetainsOne`, `CloseCleans` from `RetainedInv`: a retained container is the one of
  `d.containerID`, and that is empty while one is being made. The hypothesis is what
  the property is about: calls in turn, and a daemon that does what it is asked.

### The framing

`FramingAssumption`: the buffer and the pipes hold at least a header, which the 4096
and 65536 bytes of the program do. The lengths of requests, answers and pieces are any.

- `StreamInv` is about one answer as a sequence of bytes. `Flow(p, b, w)` says that Exec has
  consumed `p` bytes of it, that the reader holds those up to `b` and the pipe those up
  to `w`, and that the child has yet to write the rest; every step moves one of the
  three. It needs a child whose frames are read whole, which is what `LineExact`
  and `BinaryExact` are about; of the other children only the ledgers are kept.
- That the four bytes of the header give the length back is proved for every
  length they can hold (the lemmas about `LittleEndian`), and so is that a line
  ends at its own newline, wherever the pieces are cut.

### A procedure

`ProcAssumption`: there is a bound on the number of parameters. `ReleaseInv` says that
`Release` has dealt with the parameters before the one it has come to, `OutputInv` who holds
the output file in every phase of `Exec` and when the process can have made it, `FilesInv` which readers have been read and that a
file that has a path is whole until the process has run. `StdinWhole` rests on the
last: only what is also a file has been read before the standard input is put together.

### Manifests and the loader

`TextAssumption`: the words of the code are text; `LoaderAssumption`: what is loaded are
trees of entries, of any number, with names of any length.

- `NormalizeIdempotent`: what `Normalize` returns is in a normal form (`NormalForm`, one
  conjunct per field), and of that it changes nothing. `LoadedStayNormal`: filling in the
  directory and the discovered command and driver keeps the normal form (`LoaderInv`).
- `WalkInv` is what all others rest on: what has been walked past is loaded if it is
  documented, at its place, as `Result` says. That the loader's own test (`IsManifest` with
  a decoder) picks the documented files needs lemmas about suffixes and extensions
  (`IsSuffix` of a concatenation, `Ext` from its last dot), which cannot be had by
  induction and are proved position by position.
- `LoadNamesRight`: `TrimRight` removes a set of letters. It stops at the end of the suffix
  because this does not end with a letter of the extension, the exception of `NameRight`.
- `LoadDiscoversRight`: the least candidate that names an executable exists because the
  natural numbers are well-founded, and it has the least `Rank`. That a plain directory and
a plain name match themselves and nothing else is `PlainMatches`.
- `LoadAcceptsLegacy`: field by field, the old and the new spelling have one normal form,
  up to what `Plan` does not look at.

### The store

`StoreAssumption`: the bounds are natural numbers.

- `NameKeepsProcedure`: `ListInv` says that the loaded and the built procedures are
  sequences; a step leaves the store alone, fills an empty one or appends, and
  appending does not change the least place of a name.
- `ReleaseLeavesNothing`: `StoreInv` is `ListInv`, the shape of the sessions (`Shape`), that
  sessions and calls belong to procedures of the store (`Used`), and that a session that is
  open behind the place Release has come to is one that was reopened (`Closed`).
- `StoreServesAll` composes: `ServeInv` is `WalkInv` of the loader, whose steps are steps
  of the store, and says that a store that serves begins with all that was loaded.

### Only model-checked

- The liveness (`CallReturns` of the two stream drivers, `Answered`), which is out of the
  reach of the prover. It is checked with the bounds above.
- The violations, which are counterexamples, and that each mutant of the code breaks
  its property.

## What is not modelled

- Two Execs at once on the docker stream driver, which has no lock at all.
- The text of macros and its quoting, logging, stderr of a stream child, the
  fields of the docker configuration other than those a property is about.
- The decoding of the other fields of a manifest, which the libraries do; the options
  of the loader and of the drivers are constants of the models.
- `Register` racing with `Get`: the owner's Register is one step.
- `tempFilepath` racing with another process for a random name.

## Plan

1. Done: `ShellStream` with `StreamSession`, `DockerStream`, `Framing` with bounded
   pipes, `ProcExec`, `DockerCall`, `Manifest`, `Loader`, `Store` on top of them, and the
   theorems above, which state every safety property of the passing runs.
2. Next, proofs: what a driver promises when Execs overlap beyond `FieldsAgree` (which
   process an answer can come from), and that the reader of `Framing`, in which an exchange
   is one after another, gives a call what the stream drivers call an answer.
3. Then two Execs at once in `DockerStream`, where nothing is promised yet.
