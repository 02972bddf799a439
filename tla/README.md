# A TLA+ model of jsonRTL

jsonRTL compiles circuit documents (JSON) to Verilog-2001, imports projects of
two logic simulators, runs external HDL tools, and serves its compiler over
HTTP. This directory holds TLA+ modules of the parts of it that are hard to
test, the TLC runs that check them, and TLAPS proofs of the main results. All
paths below are relative to the repository's `src/` tree here, that is
`crates/...` and `docs/...`.

## 1. Inventory

### The parts and how they meet

```
 caller ── CLI (jsonrtl-cli) ──┬── profiles (DLS, Logisim) ──┐
                               │                             ▼ CircuitDocument
 client ── HTTP (jsonrtl-api) ─┴──── kernel (jsonrtl): parse ─ validate ─ normalize ─ emit
                               │
                               ├── files: write_atomic, publish
                               └── external tools: Job::run (Yosys, Icarus, vvp)
```

| Component | Code | State it keeps | Operations |
|---|---|---|---|
| JSON parser and limits | `jsonrtl/src/parser.rs`, `limits.rs` | none | size, JSON, schema, decoding, limits |
| Semantic validator | `jsonrtl/src/validation.rs`, `catalog.rs` | index of ids; endpoint lists; report | preflight, identity, names, widths, references, connectivity, cycles |
| Connectivity check | `validate_electrical_roles` and its helpers | sorted endpoints of one net, the furthest driver, marks, merged ranges, cursor | sweep, merge, gap search |
| Cycle check | `validate_cycles`, `has_bit_cycle`, `strongly_connected_components` | component graph, visit stacks, lane colours | two graph passes, per-lane search |
| Identifiers | `identifier.rs`, allocator in `ir.rs` | set of given identifiers | sanitize, allocate |
| Normalization, emission | `ir.rs`, `compiler.rs` | identifier maps, output lines, source map | normalize, declare, assign, map |
| HTTP API | `jsonrtl-api/src/lib.rs` | semaphore, request ids | read body, wait for a slot, run the job, answer |
| CLI output | `jsonrtl-cli/src/main.rs` | files and temporary files | look, create, write, sync, rename or link, clean up |
| Directory publication | `jsonrtl-cli/src/toolchain.rs` | scratch directory, destination | look, fill, claim, rename, undo |
| Tool runner | `jsonrtl-cli/src/toolchain.rs` | child, its process group (Unix), reader threads, shared counter, clock, workspace | spawn, poll, check, stop, collect |
| `hdl` commands, `export` | `hdl.rs`, `export.rs` | the tools of one command, what they made | look, prepare, run, read, compare, publish |
| `import` command, registry | `main.rs`, `jsonrtl-profiles/src/lib.rs` | units converted, skipped, written | select a profile, convert, compile, check names and files, write |
| DLS profile, import | `jsonrtl-profiles/src/dls` | chip cache, union-find over bits, NAND list | load, elaborate, lower |
| DLS profile, export | `jsonrtl-profiles/src/dls/export.rs` | book of chips, driver maps | check source, check netlist, build chips |
| Logisim profile | `jsonrtl-profiles/src/logisim` | wire geometry, nets | read, elaborate, lower |

The kernel is pure and sequential: one document in, one report or one text
out. Everything concurrent surrounds it: many HTTP requests share one limit of
kernel jobs; a CLI process shares the file system with other processes; a tool
run shares pipes, a byte counter and a workspace with processes it does not
control. The DLS profile is sequential too, but a batch of units shares one
loader, which keeps what it has read, what failed and how deep each chip nests.
The components interact by calls (API and CLI into the kernel, the
profiles into the document model), by shared state (semaphore, counter, file
names), and by processes and pipes.

### What is hard

* *Concurrency*: cancelled requests whose job runs on; reader threads that
  count while the loop decides; processes that race for one path.
* *Failure*: a panic in a job; a call that fails between creating and
  publishing a file; a kill or a power loss at any point.
* *Ordering and time*: the exit of a tool, the end of its output, the deadline
  and the limits are seen in any order.
* *Algorithms whose result is easy to state and hard to get right*: the driver
  sweep that compares each driver with one other only; the lane-wise cycle
  search; names that must stay apart over four kinds of items; a parser, a
  validator and a normalizer that read one document by separate rules; a
  hierarchy of chips that is flattened bit by bit.
* *Drawings and gates*: whether two wires meet, which pin a wide gate has where,
  and whether a register built of NAND gates works when its gates are visited in
  an order nobody chose.
* *State that outlives a call*: heights, failures and the byte budget that one
  DLS unit leaves behind decide whether the next one loads.

The properties that make each component correct are those of section 4; the
hazards they answer, with their lines, are listed in `PROJECT.json`.

## 2. Modules

Each module names the code it models; `PROJECT.json` maps every definition to
its lines.

### `NetDrive` — the connectivity check of one net

Variables are the local variables of `validate_electrical_roles`: the endpoint
lists, the position of the sweep, `furthest`, the marks, the overlap, the merged
ranges, and what is reported. `BuildRoles` makes the sorted, deduplicated
lists from a set of attachments; `SkipEmptyDriver`, `FirstDriver` and
`NextDriver` are the three ways through the driver loop; `MergeDriver` is one
step of `merge_ranges`; `CheckConsumer` one consumer with its `first_gap`;
`FinishNet` the diagnostics. Nets do not interact in this code, so one net
is the general case.

### `CycleSearch` — the combinational cycle check

`drivers_by_net`, the component graph, both passes of the component search with
their explicit stacks, and the search of each candidate group lane by lane. A
lane is a pair of a component and a bit; `Producers` is the offset arithmetic of
`has_bit_cycle`. Components are given by pins (net and first bit).

### `Identifiers`, `Validation`, `Parser`, `CompileVerilog`, `Answers` — the compiler

`Identifiers` has the name rules: how a name is cleaned, when `_id` is added,
and what the allocator gives when a text is taken. A text is a sequence of
characters, because the rules are about characters; the alphabet is a constant.
`Validation` has one operator for each check of `Kernel::validate`; a report is
the set of its codes. Its connectivity and cycle checks are written bit by bit,
which is what `NetDrive` and `CycleSearch` show the interval code to
compute. `Parser` is `from_json_with_limits`: version, schema, typed model and
limits, each with the constraints it puts on a document; how a number is written
is part of its input, because schema and typed model disagree about `1.0`.
`CompileVerilog` is the state machine of a compilation: reading a JSON text (or
starting from a typed model, as a library caller does), validation, the naming of the module, ports, nets and components by id, normalization with
its failures, and emission line by line with the source map. A line is a record
of what it says. `Answers` puts the callers around it: the handlers `validate` and
`compile_verilog` of the HTTP API, the commands of the same names, and programs that use
the library. It has what each looks at before the document (media type, length of the body,
an existing output file), the text that is no document, and the failing write; `Status` and
`ExitCode` are what the caller is told, and `Blamed` what that means.

### `Profiles`, `DlsProject`, `DlsLoader`, `DlsElaborate`, `DlsLower`, `DlsImport`, `DlsSignals` — the DLS profile

`Profiles` has what the profiles share: safe unit names and the checks that stop
at the first failure. `DlsProject` has the shape of a project and the built-in
chips. `DlsLoader` is `ProjectLoader`: the calls of the recursive
`load_dependencies` are the frames of a stack, and a call, a return and a descent
are steps; chips, failures, heights and bytes stay from one unit to the next.
`DlsElaborate` is `elab_chip` in the same way, one sub-chip or one wire a step,
with the union-find as the variable `parent`. `DlsLower` has the operators on a
flattened chip: `Find` with its path halving, `Joined`, the driver check, the
assignment of nets and the document that `lower` writes. The bits of the pins and the ends of
the gates are pairs of numbers, ordered as the code goes through them (`InOrder`,
`FirstWith`); `Home` is the net and bit that stand for a root. Ids of nets and components
are numbers, which come in the order of the strings as long as these end in one digit; that
they are different does not depend on it. `DlsImport` composes
them into `convert`, `convert_unit` and `convert_units`, and gives the document to
`Validation`'s `Report`. `DlsHierarchy` says what a hierarchy means without
flattening it; properties use it, of imported chips and of exported ones. Those of imported
chips are in `DlsSignals`, apart from the module that `ImportCommand` extends and is
proved about.

### `LogisimSheet`, `LogisimLower`, `LogisimImport`, `LogisimDrawing` — the Logisim profile

`LogisimSheet` has the checks of a sheet and where each component has its ports
(`PortPoints`, from `geometry.rs`). `LogisimImport` is the reader and
`elaborate`: `root` is the union-find over points, each wire one step
(`JoinWire`). `LogisimLower` numbers the nets, folds the gates of three and more
inputs, gives output pins their buffers, and writes the document. `LogisimDrawing` has what
a drawing means without union-find, and the properties that compare the document with it.

### `ImportCommand` — the `import` command

Composes both profiles with the command: selection of the profile, conversion in
the modes of `--chip`, `--skip-unsupported` and neither, compilation (by
`Validation`'s report), the check of names and destinations, the writes one by
one, each of which may fail, and the exit code. A caller of the profile crate is
a command that ends with the conversion.

### `YosysNetlist`, `DlsExport`, `NetlistExport`, `ExportedDesign` — the DLS exporter

`YosysNetlist` reads a text of Yosys with all checks of `parse_design`,
`validate_module` and `validate_source_states`. `DlsExport` builds the chips: the
helper chips of registers, latches and constants, the pins with their pieces, the top
chip, the wrapper with a clock, and the limits. `NetlistExport` has a design and the project
made of it as its state; `CheckSource` and `Export` take the two checks in the order of the
command. `ExportedDesign` adds the gates of that project: `Open` finds them in the chips, `Drive` changes
inputs, and `Simulate` is a step of Digital-Logic-Sim, in which it visits every gate once, in an order that follows the wires where it can and is
arbitrary in a loop. The simulator is not in the repository; that part comes from
`scripts/dls-verification/README.md` and what `export.rs` assumes of it. `Settled`
is the meaning of the netlist, cell by cell, with an unknown level.

### `WorkSlots`, `BoundedWork` — kernel work behind the HTTP API

`WorkSlots` has one asynchronous task per request (reading, waiting for a
permit, granted, joining), one blocking job per request, the semaphore with its
queue, and the pool's backlog. A client may go at any await (`Cancel...`); a job
may panic. `BoundedWork` is what the builder's documentation promises: at most
`Slots` jobs exist, each request starts at most one, and each ends. `WorkSlots`
implements it with `active` as the jobs that exist and `finished` as those that
returned or panicked.

### `ToolJob`, `ToolRun` — running external tools

The poll loop of `Job::run` step by step: clock, counter, workspace, `try_wait`,
reader flags, the second look after the loop, and the drop of the child. The two
reader threads are processes of their own; the counter is shared over the tools
of one command. The tool and a helper that it forks are the environment: they
write, fork, exit with or without success, close pipes, leave the group (on Unix), or
hang. `ToolRun` is what a command sees of it: a run starts, and when it returns, whatever
the tool does, what `RunningChild::stop` reaches is gone. `ToolJob` implements it with `run`
read off the program counter and `left` off the processes.

How far `stop` reaches depends on the platform (`toolchain.rs:369-373`,
`docs/cli.md:335-336`), and both modules have both forms. On Unix it kills the process
group, and only what has left the group lives on. Elsewhere (`"windows"`) it kills the
direct child, and any helper that is alive then lives on, though it never left anything. A
process that lives on is a `"stray"`; it may change files at any later time.

### `OutputFiles`, `PublishDirectory` — what is written

`OutputFiles` has CLI processes that check their destinations and then write
their files one by one with `write_atomic`. Names and files are separate, so a
hard link and its temporary name share contents. Calls fail, processes die, and
the power may fail, which loses what was not synced. `PublishDirectory` has
processes that fill a scratch directory and move it to one destination with the
Linux, other-Unix and Windows forms of `rename_new`.

### `HdlCommand` — check, synth, simulate, tools, export

One process runs such a command from its first look at the destination to its end. The
module extends `PublishDirectory`, whose steps the process takes to publish and all others
take at any time, and instantiates `ToolRun` for its tools: what runs is `ToolRun`, not
`ToolJob`, which stands behind it by refinement. Of the files in the workspace it follows
the one that the command checks, the netlist or the simulation program: tools and what
is left of them may change it at any time (`ChangeFile`), the command reads it
(`ReadResult`), `simulate` compares it after the test bench has run (`Compare`) and looks
for files with the names of its logs (`CheckReserved`), and `copy_artifacts` reads it once
more (`Copied`), except that an export writes what it has in memory.

## 3. Runs

| Run | Instance | What it asks |
|---|---|---|
| `net_drive` | widths 0, 1 and 3, up to four attachments, every slice | which bits are contested or starved is reported exactly |
| `cycle_search` | three components of one or two lanes; own nets and shared nets | a cycle is reported exactly when lanes form one; the search ends |
| `compile_verilog` | about ten thousand documents in six families, from JSON or typed, for three kinds of callers | every caller is told the truth; parser and validator agree; accepted documents give a consistent Verilog text and source map |
| `scalar_select` | the same | *violated*: a slice of a one-bit net |
| `import` | about two thousand DLS projects and two thousand Logisim files, and both through the command in each mode | batches, signals, drawings, exit code and skip report |
| `dangling_wire` | the same | *violated*: an end of a wire that lands nowhere |
| `dls_export` | about 4,250 designs, driven by every sequence of input changes | an exported design is a whole project that settles to what its netlist says |
| `work_slots` | four requests, two slots, one thread | slots, service, refinement of `BoundedWork` |
| `tool_job` | Unix and not, two tools, log limit one unit, two units written, deadline one tick | completeness of output, limits, refinement of `ToolRun` (clean-up and return) |
| `output_files` | two imports and a compile, three settings of `--force` and process ids | no torn, lost, overwritten or forgotten files |
| `partial_import` | the same, no faults | *violated*: a failed import leaves a file |
| `hdl_command` | each command and another publication, two files each, three platforms, faults and kills | only whole directories of what was checked appear; nothing of others is lost; a command ends |

### Why these bounds are enough

* `net_drive`: the sweep relates the present driver to one earlier one, so three
  drivers show every relation of present, furthest and hidden driver; a fourth
  attachment gives a consumer beside them. Width three has nested, touching,
  overlapping and disjoint ranges, width one has the whole net only, and width
  zero the empty ranges. The proofs hold for any number.
* `cycle_search`: three components give self loops, two-cycles, a cycle through
  a third, and a third that hangs off a cycle; two lanes are enough for lanes
  that cross, shift, or stay apart.
* `compile_verilog`: names collide in all ways with two items per kind:
  the same text, one that equals the other's suffixed form, one that equals a
  replaced keyword. Structures go from no component to two, each connection
  whole, sliced, out of range, inverted, missing or unknown, on nets of one and
  two bits, over both schema versions and each limit exceeded by one. What can be
  amiss beside the document, and HTTP, are tried with the documents without components
  (`Tried`), among which are good ones, bad ones, and ones that do not parse: the handlers do
  not look into a document, and the kernel is the same for all.
* `import`, DLS: four chips give a chain, a diamond, a chip that is shared by two
  units of a batch, a cycle with and without a way in, and, with `MaxDepth` 3, a
  chain that is one too long, reached directly or through a remembered height.
  Files of one to three units of size against `MaxFileBytes` 2 and
  `MaxProjectBytes` 6 give each limit met and passed, by one unit or by what the
  units before have read. In one chip, every choice of up to five from eight wires
  on a gate, on a split and merged bus of two and of four bits, and between two
  instances of a chip that may join its own pins; up to three gates
  (`MaxInstances`), sixteen nodes (`MaxNodes`).
* `import`, Logisim: every gate of each facing and two sizes with one to four inputs,
  and pins at all its ports; one gate with up to five of ten wires that end, touch, cross
  and dangle; pins on each other's nets, with labels that collide; each reason for a
  refusal alone and before each other, which fixes the order of the checks; each limit
  met and passed by one.
* `import`, the command: three units, of which any may fail at loading, at converting or
  at compiling, or have a name that is no file name; every mode, profile, kind
  of path, `--emit-canonical`, `--force` and two kinds of files already there; any write may fail.
* `dls_export`: every kind of register alone, inverting itself, in a shift register and
  clocked by another one on equal and on opposite edges, with an enable, and a latch whose
  data depends on its enable. Two stages are where a race loses a value. Ports of
  1, 4, 5, 8 and 9 bits need each combination of the pieces 8, 4 and 1 once or twice.
  All netlists of two cells over three wires and a constant have every short cycle,
  double driver and missing driver; forty faults, each in netlist, source and in another
  module of the source.
* `work_slots`: four requests over two slots leave two waiting, so that order
  between waiters, cancellation of the first of two and a hand-over are possible;
  one thread makes a queued job and a running one different.
* `tool_job`: two tools show what is shared between tools. One unit of log limit
  with two units written gives both sides of the limit and both readers crossing
  it; one tick gives a deadline that passes at every point.
* `output_files`: three processes over two paths give races on the first file,
  on the second, and on one shared file; a reused process id needs a process
  that died, and two imports suffice.
* `hdl_command`: the command, another publication and programs that take the name without
  any rule give a winner, a loser, and one that comes between the loser's failure and its
  clean-up; for more processes there are the proofs. Two files show a directory that is
  half full. The file that is checked is useless or one of two that are good,
  so that one good file can take the place of another.

Bounds of the models: `MaxAttachments` (NetDrive), `MaxWrites` (ToolJob),
`MaxSuffix` (Identifiers, one digit) and `Tried` (Answers). No
cfg restricts states in another way. Deadlock is checked except in `work_slots`,
`tool_job`, `hdl_command`, `cycle_search`, `import`, `dangling_wire` and `dls_export`, where
everything may have been answered, run, published, searched, converted or come to rest.

### Fairness

* `WorkSlots`: weak fairness of a granted task resuming, a task joining its
  ended job, the pool starting a job when a thread is free, and a running job
  ending. These are tokio's scheduler and its pool; jobs end because the kernel
  is a terminating function. No fairness is given to clients.
* `ToolJob`: the polling loop, the clock and the reader threads, that is the
  program's own threads and time. The tool has none: it may hang.
* `HdlCommand`: the steps of the command, the return of a run among them, which is what
  `ToolJob` is shown to give. Nothing else has to happen; other processes may stop.
* `CycleSearch`: the code is one thread, so its next step.
* `ExportedDesign`: the simulator goes on stepping while a step changes something. The
  order of its visits is free in every step, so `ChangesSettle` holds for all of them.

The other modules state no fairness and no liveness.

## 4. What is shown

* **Connectivity** (`ConflictListExact`, `NoDriverExact`, `ReportedRangesSound`). The
  list of drivers in conflict names exactly those that share a bit with another one, a missing driver is reported exactly when a consumed bit has none,
  and the reported ranges cover all such bits and start and end at one.
* **Cycles** (`ReportIsSound`, `ReportIsComplete`, `SearchEnds`). A cycle is
  reported exactly when a lane feeds itself.
* **Compilation** (`AnswersAreTrue`, `NamesSafeAndDistinct`,
  `OutputIsWellFormed`, `ReadBitsDrivenOnce`, `SourceMapExact`,
  `ReaderAndValidatorAgree`). What the validator accepts, the parser reads; what
  the parser reads, the validator does not refuse for a limit, the version or a
  type; what the parser refuses for a limit, the validator refuses for one.
  Validation is strong enough for all that follows: normalization does not fail, every name is
  legal and declared once, operands lie in range and agree in width, each bit
  that is read is assigned exactly once, and the source map covers every line
  once and points at its item. Whoever asks, and for whatever, is told yes exactly for a
  document that the kernel accepts, when nothing else is amiss, and nobody is blamed for
  what another did, with one exception, the `1.0` below.
* **DLS import** (`LoadsAsIfAlone`, `DocumentKeepsSignals`, `DriverCheckIsExact`,
  `KernelFindsOnlyUserErrors`). A unit of a batch loads exactly if it would alone,
  as long as the bytes last; every bit that is read has in the document the
  driver that it has in the unfolded hierarchy, which the properties describe
  without nodes or union-find; the driver check fires exactly on a signal
  with two drivers; and the kernel finds in a document only what the user drew.
* **Logisim import** (`KernelSeesTheDrawing`, `DocumentComputesDrawing`). The kernel
  reports a missing or second driver of a document exactly where the drawing has one,
  drawn points being connected by lines and not by a union-find; and a document
  without errors gives each output pin the value of the gates as drawn, for every value of
  the inputs.
* **The import command** (`ZeroMeansEverything`, `EveryUnitIsAccountedFor`). Exit code zero
  means that all units asked for are written, and a unit that is skipped is reported.
* **DLS export** (`SettledAsTheNetlist`, `ProjectIsWhole`, `SoundIsExported`,
  `ChangesSettle`). What is at rest shows what the netlist says after any sequence of
  edges, enables and resets, whatever the order of visits, and every change comes to rest;
  the project is one that opens; and a netlist of plain cells is exported exactly if its
  bits are defined and have one driver each and no combinational cells wait for one another,
  after a source in which nothing was undefined.
* **Kernel jobs** (`PermitsConserved`, `WaitingIsServed`, `ImplementsPromise`).
* **Tools** (`OkOutputIsComplete`, `LogLimitIsShared`, `ImplementsToolRun`). Output returned
  as success is all that was written, one limit holds for the log of a command, and a run
  returns whatever the tool does, with its child gone, and on Unix its process group.
* **Commands** (`PublishedAsChecked`, `CommandReturns`). What a command publishes is what it
  has checked, unless a process of a tool was out of reach when its run returned: on Unix
  one that left the group, elsewhere any helper that outlived the child. Every command ends.
* **Files** (`TargetsAreWhole`, `SuccessMeansWritten`, `NoLitter`, `ExistingIsKept`;
  `PublishedIsWhole`, `SuccessMeansPublished`, `FailureLeavesNothing`, `ContentIsKept`).

### Where code and documentation disagree

1. `scalar_select`: a connection `{net, msb: 0, lsb: 0}` to a net of width one
   is accepted and written `n[0]`, while `n` is declared without a range.
   Verilog-2001 has no bit-select of a scalar.
2. `partial_import`: `docs/profiles.md` says a failed import never leaves a
   partial set of files. It does when the second file cannot be published.
3. `dangling_wire`: `logisim/geometry.rs` says that elaboration treats the end of a
   wire that lands on no port as an error, and counts on that for finding a wrong
   geometry. `elaborate` drops such an end, and the circuit converts.

Observations that no run states:

* A document with `"width": 1.0` meets the canonical schema, fails to decode, and ends
  with exit code 4, which `docs/cli.md` keeps for defects of the kernel
  (`parser.rs:108`, `main.rs:733`); over HTTP it is answered with status 500.
* A failure of normalization would end the command line with exit code 4, while the API
  would answer 422, as for an error in the document (`lib.rs:688-695`); `AnswersAreTrue`
  shows that there is none.
* On Windows the clean-up after a failed rename may remove an empty directory that another
  program made while the placeholder was away (`toolchain.rs:777-780`); `docs/cli.md` says
  existing destinations are kept. `ContentIsKept` has this exception.
* With `--skip-unsupported` one unit with a name that is no file name refuses the whole
  import, although `docs/cli.md` says that every unit that compiles is emitted.
* The node cap of the DLS profile also counts bits of buses and converters, which
  cost no component, so a chain of 1,960 `BUS-1024` is refused although the document
  would have 1,024 buffers (`docs/profiles.md` says no compilable circuit is
  affected); the nodes of a NAND are made without the check against that cap
  (`BuiltinRefused` in `DlsElaborate` keeps this); and a chip with neither pins nor
  gates is counted by neither cap however often it is expanded.
* After a normal end the group of a tool is signalled when its number may belong to others
  (`toolchain.rs:371`).

## 5. Proofs

All proofs hold for every value of the constants that meets the named
assumption of its module.

**`NetDriveProofs`** (assumption `NetDriveAssumption`: widths and connections
are of their types). `TypeCorrect` proves the type invariant. The exactness
of the report needs a stronger invariant, because the code never compares a
driver with all earlier ones: `SweepInv` says that the furthest driver reaches at
least as far as every earlier non-empty one, that the list is sorted, that a
driver is marked exactly if it overlaps some other driver before the position
of the sweep, and that the overlap is present exactly if one is marked. The
step of `NextDriver` uses sortedness: a driver that overlaps any earlier one
overlaps the furthest. At the end of the sweep this gives `ConflictList` and
`MultipleDrivers`. The ranges that are reported have an invariant of their own,
`RangesInv` (`RangesInvariant`): the overlap reaches from the lowest to the highest of
the bits that two walked drivers share, although only neighbours of the furthest are
compared; the merged list holds exactly the bits of the merged drivers, in ascending ranges
with a gap between any two; and the undriven range reaches from the lowest missing bit of
the readers so far to a missing bit. `FirstGapExact` is the walk of `find_uncovered_range`:
the cursor stands at the first bit that no range before it covers. From these follow
`NoDriver` and `ReportedRanges`, which are about bits of the document and not about lists.

**`CycleSearchProofs`** (assumption `CycleSearchAssumption`: finitely many components,
circuits of the right types). No path is ever counted: a component reaches another when
every set that holds the first and is closed under the edges holds the second, so that to
show that something is not reached it is enough to show a closed set. `SearchInv`
(`SearchInvariant`) has a part for each pass.
* First pass (`FinishInv`). `LateInGroup`: whatever leads to the component at a place of the
  order has a member of its own group that is not before that place. It is not
  inductive by itself, because visits overlap: a visit may end before one that it
  leads to, and `OpenInGroup` says that some open visit is then in its group.
* Second pass (`AssignInv`). What is settled is closed under the components that feed it. By
  `LateInGroup` a feeder that is not settled belongs to the group that is being
  collected (`FeederBelongs`), so this group is all of those that reach its first member and are
  reached by it, and the groups at the end are `Groups`.
* Third pass (`RefineInv`). The stack is a chain of lanes, each entered from the one below
  (`Chained`); inputs below the counter lead to lanes that are done or to the next on the
  stack (`Followed`); lanes that are done lead to such lanes only (`BlackClosed`) and no
  cycle lies among them (`BlackAcyclic`). So a lane that meets the stack closes a cycle, and
  a group left without one has none. The code follows one driver of each input, and this is
  enough because bits with two drivers are left out (`FedOnce`).

Two shortcuts of the code are proved as well: a component alone that does not
feed itself has no cycle (`TrivialIsNone`), and a group with components of one bit only always
has one (`NarrowIsCyclic`), for which the code does no search. `SoundReport` and
`CompleteReport` follow.

**`WorkSlotsProofs`** (assumption `WorkSlotsAssumption`: finitely many requests,
at least one slot and thread). `SlotInvariant` combines the type
invariant with the ledger (free permits, grants and live jobs add up to the
slots), no free permit while somebody waits, and the agreement of the two
queues with the states of tasks and jobs; the queues hold nobody twice. The last is
needed because a permit is handed to the head of the queue, which must be a
waiting task. `PermitConservation` and `BoundedJobs` follow. `KeepsPromise` shows
that the router satisfies the safety part of `BoundedWork`: by the ledger, a
free or granted permit means that fewer than `Slots` jobs exist when one begins,
and by the agreement of tasks and jobs the request had none before.

**`OutputFilesProofs`** (assumption of `OutputFiles`). The argument is about names: live
processes have different ids, so one live process only writes, links and removes a
temporary name (`OutputInvariant`); what it publishes is the file it has stored, because
its place in the sequence of calls fixes what its temporary name holds. `WholeTargets`,
`Written`, `Litter` and the action property `NothingReplaced` follow, for any number of
processes, plans and faults.

**`ToolJobProofs`** (assumption `ToolJobAssumption`: at least one tool, a positive deadline).
`JobInv` is an account of units: what was written is counted or still in a pipe; what was
counted below the limit is kept or about to be stored; and a reader that is through has met
the end of its pipe, an error or the limit. None of the properties is inductive without it,
because the loop looks at counter, flags and status at different moments: after the loop the
readers are gone, so what is looked at there does not change any more.
`OkOutputIsWhole`, `LogLimitHoldsForCommand` and `NothingIsLeftRunning` follow, and
`JobKeepsPromise`: every step is one of `ToolRun` or invisible to the command.

**`HdlCommandProofs`** (assumptions of `PublishDirectory`, `HdlCommand` and, for the last part,
`YosysNetlist` and `NetlistExport`) has three parts. That of the publication is about `PublishDirectory` alone. `PublishInvariant`
says who owns what: the platform fixes which calls are made (`PathOfPlatform`); off
Windows a process that is about to rename, or to undo its claim, finds its own empty
directory at the destination; a scratch directory exists exactly while its process needs
it; a project at the destination is that of a process that is done. The properties alone
are not inductive: that a whole directory is moved there follows from the number of files
at the rename, and that a failure leaves nothing from the claim being undone by its
owner only. `Published`, `Success`, `Failure` and the action property
`Kept` follow.

The second part is about the command around it.
`CommandsPublish` shows that every behaviour of `HdlCommand` is one of `PublishDirectory`, so
that what is proved there holds of it. `CheckedIsPublished` needs an invariant over
phases: after the last tool only strays live, on Unix what left the group and elsewhere what
outlived the child, so without strays the file is the one that was read until it is copied, and what stands in the directory from its first file on is the file.

The third part is about what the command `export` makes of a design (`ExportSpec`; the texts are
such as the parser returns: lists, unsigned wire numbers, and no name twice).
`SoundNetlistsAreExported`: a netlist that is judged by its structure is exported if and only if
it is `Sound`, which says by places, and by sets of cells, what the code checks with maps that grow
and with a queue. The invariant (`ExportInv`) is small; the work is in the operators.
* Each check is shown to return what its definition means, with the error of the first failure
  (`FirstFailureIs`, `FirstErrorIs`): `BitsAreDefined`, `PortIsChecked`, `NetIsChecked`,
  `CellIsChecked`. A cell has the pins of its kind and no others because their number is right
  and all are there (`AllAreNamed`, `PinsCount`).
* A check that fails for the structure shows a defect of the netlist (`PortIsUnsound`,
  `NetIsUnsound`, `CellIsUnsound`, `GraphIsUnsound`): a bit that is already driven when a port or
  a cell comes to drive it has two places that drive it (`InputIsUnsound`, `OutputIsUnsound`). The other
  way round, two places that drive a bit would have been met one after the other (`OnePlaceDrives`).
* Of the queue of cells that are ready: as many rounds as there are cells leave a set of which each waits for another
  (`LeftIsStuck`, each round that is not the last takes a cell), and such a set is
  never taken apart (`DeadlockedStay`). So the queue runs empty exactly if no cells are `Deadlocked`.
* `CheckedIsSound` and `ModuleIsChecked` put this together, `SourceIsChecked` is about the source, and
  `ExportedIs` about what is then returned.

The functions that the netlist is checked with are recursive (`CellsUpTo`, `LeftAfter`); `Recursion` shows that they exist.

**`AnswersProofs`** (assumptions `IdentifiersAssumption`, `ParserAssumption`,
`ValidationAssumption` and `DocumentsAssumption`: the alphabet holds the characters that the policy itself writes, no
keyword ends in `_id`, limits are numbers, a deployment's are not above the schema's, and the fields of
the documents have their types: sequences, unsigned numbers, a port is an input or an
output). `SafeAndDistinct` rests on facts about words: a cleaned stem
starts with a starter and holds plain characters only, a suffix keeps that, and what gets one is
no keyword; distinctness is the allocator's, that takes the first candidate nobody has.
`TrueAnswers` needs an invariant over the stages (`AnswersInvariant`): nothing goes beyond
validation that was not read and accepted, normalization meets every name when it looks it up, and
each result belongs to a report and to a caller. Its core is `AcceptedNormalizes`: each of
the reasons for which normalization could refuse a port or a component is, code by code, a
reason for which validation reports an error. So no document makes the kernel report a
defect of its own. `ReaderAgrees` compares the bounds of parser, schema and validator field
by field.

The text itself has the invariant `WriterInv` (`WriterInvariant`): `Transcript` says that
each item that a section has taken has exactly one line, that every line that declares or
assigns and every entry of the source map but the header's is that of such an item; and
from the header on all ports and nets have their identifiers. No property of the text is
inductive without it: that two entries never point at one line needs that no entry
points behind the last, and that an entry tells its item needs the ids of an accepted
document to be unique. `SourceMap` follows at once. `WellFormedOutput` and `DrivenOnce` are
about the text as Verilog reads it, where a name means what is declared under it. By
`SafeAndDistinct` and `Transcript` a name has one declaration, that of its port or net
(`OneDeclaration`), so that the bits an operand selects are those of the connection in
the document (`OperandBits`). Then each report that validation does not make excludes one
defect of the text: two lines that assign a bit would be two drivers that share it
(`AssigningIsDriving`, `NET_MULTIPLE_DRIVERS`), a bit that is read and not assigned a
consumer without driver (`ReadingIsConsuming`, `DrivingIsAssigning`, `NET_NO_DRIVER`), and
sides of different widths a mismatch (`PortFits`, `ConnectionFits`, `LiteralFits`).

**`ImportCommandProofs`** has three parts. The first is about the loader alone (assumption
`DlsLoaderAssumption`; the specification `LoaderSpec`
begins with a listing that `load_metadata` accepts and asks for any listed units in any order,
which is all that the steps of `DlsImport` do with the loader). `UnitsLoadAsIfAlone`: what
earlier units left in the loader lets no unit through and refuses none that a new loader would
not. The property says what loadable means by chains of references from the unit, the
loader goes by heights, so the invariant (`LoaderInv`) joins the two: heights are exact ranks,
strictly above those of all dependencies; each frame has passed only dependencies that are
ranked below its height, or that it waits for; and the frames are a chain of references. From a
rank, no chain is longer; a depth that is refused, or a cycle, extends to a chain of
`MaxDepth` references. `BytesAreCountedOnce`: `source_bytes` is the size of the files that
were read whole, each once, and stays within the limit. Both speak of recursive functions
(`ChainEnds`, `BytesUpTo`), which the module shows to exist (`Recursion`); inductions over
their arguments go by a smallest counterexample (`Least`, `Induction`).

The second part is about the command with both profiles in it (`ImportSpec`; assumption
`ImportCommandAssumption`: the arguments are such as the command line accepts, a readable
project has a listing and a file for each chip named in it, and a run of `--skip-unsupported`
asks for units that are different, which the listing it has just read guarantees). No
property holds by itself from step to step, because units and results are matched by their
place. `ImportInv` (`ImportInvariant`) has
* the course of each profile (`DlsCourse`, `SheetCourse`): one result for each unit so far,
  and in the end one for each unit, unless the whole project was asked for and the last
  result is a failure (`DlsStep` and `SheetStep` go through every action of the profiles);
* `KeptExactly`: the circuits kept are those of the units whose result is "converted", under
  their own names, and as many as there are such results;
* `StageInv` and `Told`: the command compiles only after a conversion that was
  allowed to go on, and from then on outputs and skipped units together are the units
  asked for (`NothingIsLost`, and `Parted` for those that the kernel refuses);
* `WrittenExactly`: which files may and must be there at each stage.

`ZeroIsEverything` and `EveryUnitAccounted` follow. What a conversion makes of a unit, and what the
kernel reports about it, are arbitrary in this argument. `ImportLoadsAsIfAlone` shows
that each step of the command is at most one of `LoaderSpec`, so that what is proved of the
loader holds for the units the command really asks for. `SiftedIs` and `Halves` are the facts about
filtered sequences; the library of the prover has none about `SelectSeq`, so the modules
pick the elements at a set of places.

The third part is about the document that a unit of the DLS profile becomes
(`KernelFindsUserErrors`): among the errors that the kernel reports about it are only those that its user
can make: a name that is empty or cannot be written, a limit that is exceeded, a bit that nothing
drives and a combinational cycle. No defect of the profile itself, such as an id twice, a net driven twice or sides of
different widths, is ever reported. What `Find` returns and what `parent`
holds are arbitrary here, so the argument does not depend on the union-find being right, only
on check and assignment asking it the same questions.
* A root has one home, and from a home one can tell the root (`HomeIs`, `HomesDiffer`): it
  is the first bit of a pin with that root, or a net of one bit that only this root has.
* What the driver check lets through has gate outputs of different roots, and of other roots
  than the bits of the inputs (`GatesApart`, `OffInputs`). A buffer drives a bit of an output that
  is no home. So no two drivers share a bit (`OutputsApart`, `Uncontested`), and with connections of the
  width of their port the nets are as the validator wants them (`WidthsFit`, `ReferencesAre`).
* Port names differ whatever the pins are called (`TextsDiffer`): one of the
  `Cardinality(used) + 1` suffixes that `UniqueName` may try is free, since different numbers
  have different digits (`Cancelled`, `SuffixesDiffer`).
* `LowerIs` puts this together into the shape of a document (`IsLowered`), and `ReportIs` goes through the
  validator's checks on that shape.

The property is not inductive, because a document is made of what the elaboration has gathered
over many steps. `ElaborateInv` adds that: gates are a sequence, and the chip of every frame
is one of the project and has no pin of width zero, which `elab_chip` checks before it
allocates. Each step of the elaboration is gone through (`StartKept` to
`LeaveChipKept`), and `FinishKept` is the step that writes the document.

Only TLC checks liveness (`WaitingIsServed`, `CommandReturns`,
`SearchEnds`, `ChangesSettle`, and the fairness of `ImplementsPromise` and
`ImplementsToolRun`): the prover has no
ENABLED or fairness reasoning. RECURSIVE operators are out of its reach as well, so the
modules that are proved about use recursive functions only. The signals of a hierarchy
(`DlsHierarchy`, and with it `DlsSignals`), the wires that join in a drawing (`LogisimDrawing`)
and the simulator of `ExportedDesign` are RECURSIVE, and the properties about them stay with
TLC: `DocumentKeepsSignals`, `DriverCheckIsExact`, `KernelSeesTheDrawing`,
`DocumentComputesDrawing` and `SettledAsTheNetlist`. So does `ProjectIsWhole`, because a chip is
the result of nested folds over ports, pieces, cells and targets, and the library has no facts about folds
that the provers can use; a proof has to begin by writing those folds as recursive functions.

## 6. Not modelled, and the plan

Not modelled: the grammar of JSON and XML, the counting of bytes (that a text is too long
is a fact about it), missing or surplus fields, order and wording of diagnostics, the
routes, headers and wire format of the API,
command-line parsing, the operators in the emitted expressions, positions and colours of
exported chips, and the static site, schemas and packaging. Lengths of ids and keys are not
modelled; lengths of names are. Of the `hdl` commands the arguments and scripts of the tools,
their reports, and the copies of the sources are left out; that a file is of use (regular,
JSON with the selected top, text) is one fact about it. Whether the number of a
finished process group is in use again is up to the operating system.

What is left to prove are properties of the profiles: that the documents of `DlsImport`
and `LogisimImport` keep the signals of the drawing, and that `ExportedDesign` settles as the netlist does. `DlsSignals`, `LogisimDrawing` and
`ExportedDesign` reach RECURSIVE operators (trees of chips, wires that join, a simulator), which
would have to become recursive functions first; `ImportCommandProofs` shows how the proofs can
then begin.
