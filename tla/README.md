# A TLA+ model of the RK3588 NPU driver

The repository is a user-space driver for the NPU of the RK3588 and what was written to find out how that NPU works.
`include/rknnops.h` talks to the kernel driver by ioctls and writes the register commands; `ops_reg/main.c` prepares
operands, calls it and compares every result with the CPU. Beside these stand programs on the vendor's closed runtime
(`ops_rknn`), tools that dump and patch the buffers of another process (`dump.py`, `patch_task_buffer.py`, `hello.c`),
and older experiments (`include/old`).

Each program is one process with one thread. What runs beside the driver is hardware: the CPU's data cache, which the
NPU does not snoop, and the NPU itself; and `dump.py`, which opens the driver's buffers while it works. What makes the
code hard is not threads but order: an op is twenty calls that may each fail, its buffers are visible to two parties,
its geometry comes from globals that other code set, and one large product becomes a nest of loops over flat arrays.

## 1. Inventory

| Part | Code | State | Correct when |
|---|---|---|---|
| Operation lifecycle | `rknnops.h` 586-754, 4300-4992; three more op functions in `main.c` | descriptor, `struct MemHandles`, kernel objects, mappings, cache lines, the job | nothing leaks whatever fails, the NPU never works on released memory, the answer is NULL or what the NPU computed from this op's operands |
| Matmul splitting | `main.c` 5100-5530 | loop indices and offsets, three arrays, `matmul_params` | each term of each element is there once, every job fits |
| Element-wise ops and cases | `main.c` 409-4920, 6790-6841; tables and cube sizes in `regcmd_helper` | four shape globals, the statics of `cmpeq`, the tables of the look-up ops | every op covers its elements in the shape of its case; stages and host steps add up to the operation; a right result is accepted |
| Recorder and task chain | `rknnops.h` 222-230, 340-384, 485-525, 4391-4470 | the `regs` array, task offsets and lengths, indices to patch | task table and chain registers describe the commands, which stay in front of the weights |
| Register values | `regcmd_helper`, 1069-4298 | none | they describe what was packed |
| conv1d, conv2d | `rknnops.h` 834-1067, 4508-4732, `main.c` 5551-6271 | `conv1d_params`, `conv2d_params`, the tile of a wide case | packing, registers and unpacking agree for the whole, a tile and every image of a batch |
| Layouts | `rknnops.h` 1503-1650, `main.c` 107-186, 4920-5100 | none | pack, registers and unpack mean the same places, inside the buffers |
| Handle map and dump log | `rknnops.h` 240-335, `dump.py` | 64 pairs, flink names, `/tmp/rknpu_info` | a handle finds its latest address; the address shown is that of the buffer shown |
| Destroy stress program | `ops_reg/alloc_weight_loop.c` | one descriptor, the map | the same, over 500 buffers |
| Vendor-runtime programs | `ops_rknn/*.cpp` | a context, its outputs and memories, the verdict | the runtime's order of calls is kept, all is given back, verdicts mean what they say |
| Capture and dump tools | `ops_*/dump.py`, `patch_task_buffer.py`, `old/hello.c` | the buffers shown, `_TASK_REGCMDS`, `dump/` | what is printed, labelled and saved is what the buffer holds |
| Superseded experiments | `include/old` | - | (the sample `hello2.c` is modelled, the rest is not) |
| Standalone examples, vendor headers, register tables | `examples`, `*.h` | none | - |

The parts meet as follows. A case of `main.c` sets a shape global and calls an op function. That calls `createRegCmd`,
which allocates, runs `regcmd_helper` (reading the shape globals) through the recorder, and fills the task table. The op
function packs, syncs, submits, syncs back, copies and releases; the case unpacks, by `matmul_params` or `conv2d_params`,
and compares. Each allocation enters its handle and address into the map and its name into the log, which `dump.py`
reads to open the buffer under its flink name and to label the register commands in it. There are no callbacks; what is
shared is a global, a buffer, a file or a name.

The hazards are listed in `PROJECT.json` at their lines. Most belong to five families: a call that fails in the middle
of an op; a line of a cacheable buffer written back, or fetched, at the wrong moment; a global or a name left over from
an earlier op; two pieces of code that must agree on a layout (packer and registers, table and decoder, chain and task
table); and boundaries (13-bit fields, pages, short tails, banks, 64 entries, 16 tasks).

## 2. Modules and the code they stand for

| Module | Stands for | Checked in |
|---|---|---|
| `NpuDevice` | environment: kernel objects, one cache line per buffer, the NPU. External, from how `rknnops.h` uses it | `op_*` |
| `OpLifecycle` | one op from open to close, again and again | `op_*` |
| `OpContract` | abstract specification: what an op promises its caller | `op_contract` |
| `MatmulSplit` | `run_matmul_case` and the three split functions | `matmul` |
| `MatmulLayout` | packing, register strides and unpacking of each job of a product | `matmul` |
| `AluGeometry` | the shape globals and the cube of each op, case after case | `elementwise` |
| `AluCase` | operands, stages, host steps and verdict of the arithmetic, comparison, rounding and pooling cases | `elementwise` |
| `LutCase` | the tables the look-up ops send and what their cases read from them | `elementwise` |
| `MinmaxBin` | `test_minmax_bin` before a device that is right, deaf or failing | `elementwise` |
| `Halves` | the powers of two by which halves are spaced, for the two before | `elementwise` |
| `Conv2dShapes`, `Conv2dCase` | the shape rules and layouts; batches, tiles and `conv2d_params` | `convolution` |
| `Conv1dCase` | `run_conv1d_case` and its images | `convolution` |
| `RegBlocks`, `RegCmd` | what each algorithm emits; the recorder, the chain, the task table | `convolution` |
| `RuntimeSession` | abstract specification: what the runtime allows in which order | `vendor_runtime` |
| `RuntimePrograms`, `RuntimeProgram` | the programs as data; one of them making its calls | `vendor_runtime` |
| `NativeLayout`, `PoolWindows` | the walk of `conv1d_simple.cpp` over a native output; the windows of `pool.cpp` | `vendor_runtime` |
| `HandleDmaMap` | `store_handle_dma` and `find_dma_for_handle`, operators | `tools` |
| `DmaLog` | the map, the names and the log, with `dump.py` beside the driver | `tools` |
| `AllocLoop` | `alloc_weight_loop.c` | `tools` |
| `GemDump` | raw dump, task decoding, labels, files and patches of three dump programs | `tools` |
| `FlinkSample` | `hello2.c` | `tools` |
| `MC*` | composites and instances for TLC | |
| `*_proofs` | theorems, checked by TLAPS | |

**Composites.** `MCMatmul`, `MCElementwise`, `MCConvolution`, `MCVendorRuntime` and `MCTools` put programs of one family
side by side. `process` says which one was started, as one would from a shell; it never changes, the others keep an
initial or an idle value, and the states of the composite are the sum of theirs. (They really share nothing but files:
each is a process that runs alone.) Several properties of one component are then one property of the composite, a
conjunction of the named parts that stand in the component's module.

**OpLifecycle.** `pc` is where the program is inside an op; `handles` is `struct MemHandles` with one object per buffer.
The op functions differ in four ways, and an op is the record of them: which buffers are synced before the
submit, whether the output is cleared, whether anything is submitted, whether the output is copied. `Alloc`,
`AllocRetry`, `AllocFails` are `mem_allocate` within `createRegCmd` (success, first failure for the output, other failures);
`MemAllocateFails` covers the creation that fails and the map that fails after it, with a destroy that may fail too.
`MemSync` is the set of results a `mem_sync` can have, both attempts considered. `Release` stands for
`release_memhandles` and its three copies. The faults that may occur are the constant `Faults`. A buffer has one cache
line, as all lines of a buffer are treated alike; what it holds is abstracted to what the answer depends on (`Content`).
`Evict` and `Prefetch` may happen at any time to any allocated buffer.

**MatmulSplit, MatmulLayout.** `Job` is one call of `float16_matmul` on one tile, with the gathering before and the
accumulation and copying after it. Arrays are the flat arrays of the code; a float is the sequence of the terms added up
in it, so a term added twice, missing or misplaced shows. `MatmulLayout` takes the same cases at their real sizes and
compares index functions: where a packer puts an element, where the registers say it is, where unpacking looks. What the
register strides mean to the NPU is inferred from the sizes the code documents as working.

**AluGeometry, AluCase, LutCase, MinmaxBin.** `Stages` lists for every case of `kTests` the ops it runs, which global it
sets before each and which global the op reads; globals are never reset. `AluCase` has the values: what each stage
computes (external, from the code's own CPU references and the names of the algorithms), what the host does between
stages, the comparison at the end, and the statics through which `cmpneq` takes over the answer of `cmpeq`. Numbers are
fixed point, so that the tolerances of the code can be told apart. `LutCase` builds the two tables of a look-up op, lets
the NPU interpolate (external) and decodes. `libm` is a constant table, at the steps the cases use. `MinmaxBin` has the
six cases and the ten readings of the output of which a case takes the best.

**Conv2dShapes, Conv2dCase, Conv1dCase.** `Params` is `set_conv2d_params`; the packers and the unpacking are index
functions; `RegistersAgree` compares what `regcmd_helper` programs of the input (pixels or planes, their lanes and strides) with
what was packed; a job whose registers do not describe what was packed returns `None`. The layouts of the NPU are external,
taken from the packers of the shapes documented as working.

**RegBlocks, RegCmd.** A register command is the name of what it programs when something depends on it, else `Other`, and
`Block` is the sequence an algorithm emits. `RegCmd` has one action for each step of `createRegCmd`, including the patch
loop that writes the chain registers and the loop that fills the task table. Programs of one task per op are what the
code makes; the chain of several tasks is modelled as the loops have it.

**RuntimeSession, RuntimeProgram.** `RuntimePrograms` has one record for each of the programs: which calls it makes, what
each early return gives back, how it compares. `RuntimeProgram` runs it; every call may fail. `KeepsSession` is the
refinement `Session!SessionSpec`.

**DmaLog, GemDump, FlinkSample.** `DmaLog` interleaves the driver's allocations and destroys with the two look-ups of
`dump.py` (names and `GEM_OPEN` are the kernel's, external). The third party is the logs (dmesg, `run_output.txt` and the like)
from which `dump.py` labels a buffer when `/tmp/rknpu_info` has no line for its name. No program here empties them. `captured` is the newest
line of the driver there for each name: each line it prints gets there or does not, by choice, as its output may go elsewhere or
still be in a buffer. `told` remembers for which names that line is of the present buffer, and `foreign` is what other programs left,
any member of the constant `Foreign`. A foreign line counts before the driver's, as one with the time stamp of the vendor's
runtime, or in a file read later, does. A name without any line is labelled with the offset of the mapping (`None`).
`GemDump` takes the buffers of two ops and lets one of three programs show, decode, label and save them in any order, or patch the
task table in between. `FlinkSample` is `hello2.c` with every call free to fail.

## 3. Runs

| Run | Question | Instance | Distinct states |
|---|---|---|---|
| `op_resources` | does any failure leak, lose a mapping, release memory under the NPU, or hang? | every op, every fault, 4 objects, fairness | 118 055 |
| `op_contract` | is the answer NULL or the result, and does the op implement `OpContract`? | ops that keep their output clean, 6 faults, 4 objects | 16 328 |
| `matmul` | is the product right under every nesting of splits and every failure; do packer, registers and unpacking agree? | split: 4 for 8192, 2 for 544, 2 for 32, 144 shapes; layout: 67 products at real size | 1 962 |
| `elementwise` | does every op cover its elements, every case compute and accept its operation, a useless device fail? | `./main all` and single cases at the real register sizes; all cases on two or three values and up to nine elements; 5 kinds of device | 297 267 |
| `convolution` | do packing, registers, tiles and answers agree; are commands, chain and table consistent? | tiles of 16 elements, 217 shapes; the configurations of `test_conv1d` and more; every algorithm with a block of its own | 16 794 |
| `vendor_runtime` | do the programs keep the runtime's order and give all back by every return; are verdicts true; are walks whole? | all but five programs, 2 cases, 2 elements; 75 native shapes; all windows on up to 7 elements | 42 253 |
| `tools` | does `dump.py` show what it says it shows, while the driver goes on? | 4 handles, 4 addresses, a map of 2, 3 names, a line of another program for one name or none; 6 loop iterations; the buffers of two ops; one run of `hello2.c` | 4 778 616 |
| `op_dirty_output` | violation: a cleared output that is not synced | the three ops that do so, no fault | - |
| `alu_fixed_cube` | violation: pools and table ops with other shapes than 16 elements | 9 calls | - |
| `conv2d_channels` | violation: 17 to 24 input channels | real sizes | - |
| `runtime_nan` | violation: a NaN passes for a match | `add.cpp`, one case | - |
| `gem_dump_rknn` | violation: `ops_rknn/dump.py` labels commands with a task's address | the buffers of two ops | - |

*Bounds.* An op needs four objects; that a fifth makes no difference to safety is proved (section 4). In `matmul` all four
relations of a size to the tile occur (below, equal, a tail that borrows, a tail that need not), the lending tile is the
first in one shape and the second in another, M is below, at and above the rows that fit, and one tile has the shape
that comes out in planes. `elementwise` uses the real field (8192), page (256 elements of 16 bytes) and limits; a case's
values are a negative one, zero and a positive one, on shapes of up to nine elements, which is more than any stage looks
at beside the element itself; the pools see a single peak at each of the 16 places. At most one op of a look-up run
fails. Halves have 3 bits instead of 11 in `MinmaxBin`, so that eleven elements are more than they can tell apart, as
2048 are for the real ones. In `convolution` a tile of 16 elements makes no tile, full ones, a short last one and one row a
tile; channels are below, at and above the lanes of a plane; groups and depth-wise kernels occur. `vendor_runtime` has two
elements and two cases: verdicts are conjunctions over both. In `tools` the map of two entries fills up, handles and names
are given out again, ops empty the file between the two steps of `dump.py`, captured lines are fresh, stale or missing, and the
task table has tasks, rubbish and a half word beside an amount.

*Fairness.* `FairSpec` asks for weak fairness of the program's step inside an op (a thread that can run is run; every
call returns) and of the NPU's step (a job ends; the kernel ends one that hangs after the 10 seconds `submitTask` asks
for). Nothing is assumed of the cache, and no op need ever be started. No other module needs fairness: their programs are
loops over finite lists, and their properties are about what they return.

*Deadlock* is checked wherever the end of a program stutters; `vendor_runtime` and its violation say
`CHECK_DEADLOCK FALSE`, as their programs simply stop.

`op_contract` leaves two faults out on purpose: a `mem_sync` that fails in both attempts is only printed and breaks
`AnswerIsResult`, as the code admits by going on; and a destroy that fails, after which `ReleasedBeforeClose` says nothing.
`op_resources` has both. `elementwise` leaves out the calls of the observations below; `vendor_runtime` leaves out five
programs, for the reasons of the observations.

### The violations

* `op_dirty_output`: `float16_matmul`, `float16_matmul_prepacked` and `float16_conv` clear the output through the cache and
  submit without syncing it. The trace: the clear leaves the line dirty, the NPU writes the result, the cache evicts the
  line, the copy reads zeroes. `float16_alu_op` and `float16_conv2d` sync their output and pass.
* `alu_fixed_cube`: pools and table ops always program 16 elements; their cases accept any shape.
* `conv2d_channels`: with 17 to 24 input channels the registers speak of 32 lanes, the packing of 24.
* `runtime_nan`: `add.cpp`, and others with its comparison, print YES of an output of NaNs.
* `gem_dump_rknn`: every label is off by the distance of a task's commands from the start of the buffer.

### Further observations

The same modules show more disagreements when a run is given other constants or one more property. They are not kept as
runs. Each line says what to instantiate.

* `AluGeometry`, `Cli <- WideAdd`, `EveryElementComputed`: `add` and `relu` never set `minus_params` and lay 10 000 elements in a
  row, of which a 13-bit field keeps 1808 (`rknnops.h:3378`).
* `RegCmd`, `Algorithms = {56, 57}`, `RegcheckPasses`: the flag `run_minmax_bin_regcheck` looks for is never emitted (`rknnops.h:1138`).
* `RegCmd`, `Algorithms = {56}`, `OperandsBesideCommands`: the `default` block reads its second operand at the front of the
  weights buffer (`rknnops.h:4264`), where the commands are; `float16_alu_op` packs it behind `REGCMD_RESERVED`
  (`rknnops.h:1557`: "actual weights start after REGCMD_RESERVED").
* `Conv2dCase`, `Shapes` with 1 or 2 channels that are not depthwise (other than 1x5x7 to 6), or depthwise ones with 3 or 4 (other
  than 3x11x28), `RegistersMatchPacking`: the registers ask for pixels where planes were packed, or the reverse (`rknnops.h:1194`).
* `DmaLog`, `base \in {None, decoded}` after every look: without a line in the file, a buffer whose own line was not captured, or
  before which a line of another program counts, is labelled with the address of an older buffer (`dump.py:435`), and a name without
  any line with the offset of the mapping (`dump.py:695`).
* `Conv2dCase`, `Shapes <- Planes`, `AnswerIsConvolution`: for kernels above 1x1 and several planes, registers and unpacking
  differ in the distance of planes (`main.c:6215`).
* `Conv2dCase`, `Shapes <- Grouped`, `EveryWeightOnce`: the grouped 2x3 kernel is packed with its first row twice, its reference uses
  both (`rknnops.h:1045`).
* `Conv2dCase`, `Shapes` with three channels to six, a 3x3 kernel and an output wider than 32, `BuffersHold`: the output stride of these
  kernels is 16 (24 for 3x1) whatever the width, and the rows no longer fit what was allocated (`main.c:5971`).
* `MatmulLayout`, the product of 896 by 256 by 256, `OneLayout`: a last tile of 256 cubed is packed as a tile and read as the
  singled-out case (`main.c:5441`).
* `LutCase`, `Tests <- 40..55`, `RightIsAccepted`: the tolerance is finer than a step of the table (`main.c:3664`); and
  `FactorsAreReciprocals`: 0.2628 is not 1 / asinh(32) (`rknnops.h:2275`).
* `RuntimeProgram`, `Programs = {"ops_float16"}`, `ReadsInside`: the whole case is read from the output of a model of one element
  (`ops_float16.cpp:158`); `Programs = {"conv2d_simple"}`, `NothingKept`: one return forgets the outputs (`conv2d_simple.cpp:295`).
* `NativeLayout`, the shape of the README, `OffsetNamesElement`: the offset printed for the worst element is that of another
  layout (`conv1d_simple.cpp:777`).
* `GemDump`, `Tool = "hello"`, `DumpIsBuffer`: the file keeps the end of a larger buffer (`hello.c:116`).
* `FlinkSample`, `ZeroMeansRan` and `DestroyedInCleanup`: a name that cannot be made ends in exit status 0 (`hello2.c:169`), and the
  second handle of the output is never closed (`hello2.c:293`).

## 4. Theorems

All theorems hold for every value of the constants that satisfies the ASSUMEs of the modules.

* **OpLifecycle_proofs.** `TypeCorrect`; then `NoLeak`, `MappingsAlwaysRecorded` and `NpuMemorySafe`, from the
  inductive invariant `TypeOK /\ OpKnown /\ Ownership`. None of the three is inductive: that nothing is held when idle needs
  the handles to be exactly the mapped objects at every step, that a handle's object is also named until the release, that
  buffers are filled in `AllocOrder`, and that a job runs only while the program waits with all four buffers.
  `ReleaseComplete` adds that, if no destroy fails, no object is named that the handles do not hold.
  Of the answers, `AnswersAreResults`: if every op that submits syncs the weights, the input, and the output if it
  clears it (`CleanDevice`), and no sync fails in both attempts, an op returns NULL or the NPU's result, whatever the
  cache evicts and fetches. The invariant `CacheInv` says what the argument hides: only the task table is uncached; a line
  is not dirty once its sync is over, so that memory holds the operands when the job reads them and no eviction overwrites
  the result after it; and a line fetched between the invalidation and the copy holds the result.
  Of the refinement, `DriverKeepsContract`: under the same conditions every step of `OpLifecycle` is a step of `OpContract`
  or leaves its state alone; the two invariants above are what its steps need.
* **IndexArithmetic.** Quotients and remainders, the order of an array laid out row by row, and rounding, for natural numbers;
  induction over a set of numbers (`CountingUp`), sequences laid end to end (`Flattened`, what `FlattenSeq` unfolds to), and loops
  written as recursive functions: that there is a value after each round (`LoopHasValues`), and what each round keeps (`LoopKeeps`).
  The provers know linear arithmetic only, so that every product of two variables below rests on one of these lemmas.
* **MCMatmul_proofs.** On the loops over the tiles: `LoopsTyped`, `EveryJobFits`, `TilesCover`, from `LoopInv`: every offset is the sum
  of the tiles before it (a multiple of the tile size, up to the tile that lends), every index is below its count. The
  lemmas above it are the arithmetic: `AlignUp` returns the least multiple, `MaxRows` fits the banks, `TileSize` sums up.
  The proofs use that 2 * 544 <= 8192 and that a row of 8192 halves fits ten banks. `LayoutOfWhole`: after a success
  `matmul_params` is the layout of the whole product, since the job that gives the status is the last of all three loops.
  `ProductIsRight`: then each element of the result is the sum of its K terms, each once and in order. `ProductInv` adds to
  `LoopInv` that elements of earlier tiles are complete, and that those of the current tile hold the terms of the
  inner tiles before it; the loops of the state machine do the induction that a formula on the sum would need. It uses
  that 32, the step of K, is a multiple of the four columns of an output plane (`PlaneAssumption`).
  On the layouts, by `LayoutInv`, that the packed buffers hold what the packer has written so far.
  `PackersInside`, for every set of shapes and every buffer size: no index leaves its buffer, and each weight
  lies where `weight_fp16` puts it, alone. `LayoutsAgree`: registers, packers and unpacking describe the same arrays,
  for products of one row (M = 1), for K and N of at most 416 with K neither 64 nor 256, and for the cubes of 64 and 256.
  The hypothesis is what the code needs: the register strides stop at 13 tiles of 32, and 64 and 256 are singled out in the
  packers whatever the other two dimensions are, as one of the further observations above shows. The bound on the buffer,
  two cubes of 256, is below the code's.
* **MCElementwise_proofs.** Of the cubes (`AluGeometry`): `TypeCorrect`; `SmallShapesComputed`: if no dimension, size or padded
  size exceeds a register field and
  no shape of a fixed-cube case exceeds 16 elements, every op covers its elements, whatever ran or failed before it;
  `OwnShape`: if rows and columns fit the field, an op whose case set its global has its shape. The invariant is
  that the global of the current case holds its shape from the op that set it on, and that all globals fit the field.
  The assumptions are what `alu_fixed_cube` and the first observation show to be needed. `SmallShapesInside`: if no shape
  exceeds half a page, no op leaves the pages of its buffers. Its invariant is that the globals hold nothing larger; half a
  page, because a leftover number of columns rounds the input up by almost as many elements again.
  Of the values (`AluCase`), for any integer values, shapes and images of four by four (`CaseAssumption`): `CasesAreSound`. That a
  case accepts what a right NPU makes of its operands is a statement about the end of a chain of ops, of which each reads what
  earlier ones and the host left. `CaseInv` keeps, while a case is at stage k: the operands are those of the case (`Filled`);
  the arrays are those its first k - 1 stages name (`Chained`: no array is written twice, none is read before); each of these
  stages, if none failed, left what its op computes (`Computed`); and `cmpeq_last`, which `cmpneq` reads at its second stage, is
  the answer of the `cmpeq` it ran itself and of its own shape. That last part survives the return of `cmpeq` only because `cmpeq`
  compares with tolerance 0: with a verdict of 0 its answer is the CPU's element by element, on any device. What
  remains at the last stage is arithmetic: that the ops of a case, one after the other, make its reference, up to its tolerance. (The
  NPU is exact here but for the quotients and products it truncates; what real halves round away is not modelled.)
  Of `MinmaxBin`, for every number of elements of its assumption and any word a device may write: `MinmaxTestIsSound`, that a right
  device is accepted, that one deaf to its operands fails some case, and that a later case never hides a failed one. The
  hard part is the first: the CPU's answer is of the operands before they are rounded to halves, the device's of what they became.
  Below element 2^Precision + 3 rounding keeps two operands half a unit apart in order (`HalvesCompareAlike`). This needs Precision >= 2 (`MinmaxAssumption`): with a
  single bit they may round alike.
  Of the look-ups (`LutCase`), for any tests, inputs in the ranges of the loaders, sizes of a case, and any C library that has values
  on both sides of zero, odd functions zero there, and no negative powers (`LutAssumption`): `TablesAreRight`. All 30 algorithms
  fill entries the NPU can hold, with both sides meeting at zero, and no operand carries an input past an end
  (`LoadedIsInside`: 64 * 163 = 10432 of 16384 where a step is 32 / 5216, 30 * 512 = 15360 where it is 32 / 16384). `LutInv`
  is about the statics: a table is empty or `Filled`, whichever test came first and whether an op failed before or after filling; `tan` and
  `tanh` share one, which holds because they fill it alike (`OwnersTable`); so what is compared is what the right table holds
  (`LookedUp`). From it `LookupsAreSound` has `LookupsSound`, under the one hypothesis that is about the numbers of the library and
  not about a run: `EachLookUpIsRight`, that a single look-up in a right table is near enough to its function. The run `elementwise`
  checks that hypothesis where it checks `LookupsSound`, for every test of `kTests` and every input of its instance.
* **MCTools_proofs.** Its lemmas about the handle map: a store keeps the table a table with one slot for each handle, what was
  stored is found, other handles find what they found before, and a full table only refuses new ones. From these, for any number of iterations and any capacity, `LoopTyped`, `NewestAddressFound`
  and `OneSlotPerHandle` of `AllocLoop`, and `LogTyped`, `LabelIsOwn`, `TwoLooksOneBuffer` and `AllNamedLogged` of `DmaLog`.
  The file is what makes the latter hard: its lines outlive the names in them. `FileInv` says that a line of the current op
  is true, and that a line of an earlier op, whose name may be gone, is of nobody else until the file is emptied, which is
  before the next name is given out; `DumpInv` carries that over from the first look of `dump.py` to its second. `LabelIsOwn` is
  about the third look, for the label, which the driver may meet at any point of an op: `LogsInv` says that a name in `told` has the
  address of its present buffer in `captured`, and `LookupInFile` that what is looked up in the file is a line with the name. With neither a line in the file nor an own captured one that comes first, the label may be wrong, as the observation says.
  Of the four programs together: `ToolsKeepTypes`. Of `hello2.c`, whichever calls fail and whenever the cache writes back:
  `SampleIsSound`, from `SampleInv`, which ties each handle to the point the program has reached, so that the cleanup meets
  exactly what is open wherever it is entered. Of the `dump.py` of `ops_reg` (`Tool = "ops_reg"`; the other two are the observation
  `DumpIsBuffer` and the violation `gem_dump_rknn`): `DumpsAreSound`, for any buffers, names, reports and limits: each block of the raw
  dump is shown once and only zeros are folded, a place of the task list has one entry,
  the file is the buffer, every label is the command's own address, and a patched table has one task. The names come in the order
  `sorted(os.listdir("dump"))` gives them, by their text: the constant `Listing` is any sequence of all of them.
* **RuntimePrograms_proofs.** `ProgramsFit`, of the scripts of 32 programs. A script is a sequence of calls with their clean-ups, put
  together from pieces with `\o` and `FlattenSeq`. `Leads(m, A, script, B)` says: begun in a state of A, the script makes only calls
  the runtime and the program's buffers allow; the clean-up of each call that may fail consists of calls that give back,
  is allowed where it starts, and leaves nothing held; and the script ends in B. `LeadsJoin` and `LeadsLoop` put pieces
  together, so that each piece (opening, inference, checks, closing) is proved once, between sets of states such as `Ran` or
  `Visible`. The loop over n elements is an induction, of the set of numbers it holds for (`CountingUp`).
* **MCVendorRuntime_proofs.** `WalkIsSound`, for every native and logical shape: `conv1d_simple.cpp` writes no element of the
  result twice and none outside, and slice after slice. `NativeInv` says that each element read so far is kept at the place
  of its slice and nothing else is anywhere; that places differ follows as the lanes of a native layout divide its slices
  the way quotient and remainder do. `PoolingIsSound`, for every case of `pool.cpp`: `valid` counts what a window
  reads, no window is padding alone, and those of an adaptive pool or a gapless `ceil_mode` take in the whole image. `PoolInv` is
  that closed windows are whole and the current one is as far as its loop.
  The programs, for any number of cases and of elements: `BuffersAreRespected`, `VerdictsAreTrue`, and, of the refinement of
  `RuntimeSession`, `SessionIsKept`. What these say of a state is not inductive, since nothing in it tells how a script goes on.
  `RuntimeInv` adds that (`OnCourse`): the calls still to make lead from what is held now to the end of the case, or, once one
  failed, are a clean-up that gives everything back; `Matches` ties the states of `ProgramsFit` to the variables, with a
  bound on the elements read and whether a NaN may be among them. Between two cases nothing is held, and a case that did not
  match has set the status. The hypothesis `Programs \subseteq Tidy` leaves out the five programs of the observations, of which
  the theorems would be false; `vendor_runtime` runs all of `Tidy`.
* **MCConvolution_proofs.** conv2d, for every set of shapes and every tile size, from `CaseInv` (where the loops are, and
  that tile and parameters are those of the case) and `AnswerInv` (what was written so far is the convolution, nothing else is
  written): `CaseTyped`; `BuffersAreHeld`, that no index a packer, the registers or the unpacking make leaves the buffers,
  which `createRegCmd` allocated by other formulas; `TilesMakeTheAnswer`, that tiles and batches put together are the
  convolution of the whole case; `PackingIsRight`, that every job's packer and registers describe the same arrays.
  conv1d, from `Conv1dInv`: `Conv1dIsSound`.
  What they assume of the shapes is what the code needs: `RoomForRows` excludes three channels to six with a 3x3 kernel and
  an output wider than 32 (with a 3x1 kernel of one group, wider than 48), see the observation above; `Described` and the
  hypotheses of `PackingIsRight` exclude the shapes of `conv2d_channels`, `Planes` and `Grouped`; `PixelChannels` further excludes
  1 or 2 channels that are not depthwise and depthwise ones of 3 or 4, for which register and packer disagree on pixels unless the
  packer singles the shape out; `ArgbChannels` asks for 1, 3
  or 4 channels wherever conv1d's registers ask for pixels, since other counts are packed in planes. All of the 214
  shapes of the run that the code accepts satisfy `RoomForRows` and `Described`, and all but four the hypotheses of
  `PackingIsRight`: `is_11555_35333_g5`, `depthwise_32x32_1x1`, and the two shapes singled out to make pixels agree (1x5x7 to 6 and
  depthwise 3x11x28), which are checked by the run alone.
  The recorder, for every set of algorithms, every size of the tables and of the task table, and any order of ops:
  `TasksAreSound`, and, where the tables fit the reserve in front of the weights, `CommandsLieApart`. A block is a sequence put
  together with `\o`; `BlockFits` shows of each, piece by piece (`PiecesJoin`), that it starts its units once, addresses no
  unit it does not start, and emits each chain register once, in at most `MostCommands` commands. `RecordedFits` carries
  that from the items of a block to the commands they become, by induction over the items emitted (`RecordedWell`). `RegInv`
  then says where `createRegCmd` is: k items are in `regs` and the rest in `todo`; an index noted for a chain register is 0 or
  the place of that register in this op's commands, never in an earlier op's; after the patch the commands are the
  recorded ones but for the values of the two chain registers, and what follows is padding. `CommandsLieApart` asks for algorithms
  that have a block, which is all of them but `max_bin` and `min_bin`: the common one of the others (`default`) reads
  its second operand from the front of the weights buffer, where the commands are.

What runs check and no theorem states:

* `EveryOpReturns`: liveness, out of the prover's reach.
* `EachLookUpIsRight`, the hypothesis of `LookupsAreSound`: whether a single look-up agrees with its function depends on the
  accuracy of the C library at the steps of the table, which is a finite constant here. It is what an error of a factor, a scale or
  an operand in a table or in its test would break.

## 5. What is not modelled

The map covers about 30% of the implementation's lines. Of the rest, more than half is `include/old/build.c` (19 027 lines
of a decompiled vendor library, built by nothing) and the two generated register tables (9 712 lines); further the vendor's
headers, and the register constants that come from captures and of which the hardware is the only reference. Of the
repository's own logic these parts are left out, each for its reason:

* Printing, logging and the layout of messages; of the logs `dump.py` reads whenever `/tmp/rknpu_info` has no line for a name, all
  but which line for the name comes first; a `/tmp/rknpu_info` that cannot be opened.
* The arithmetic of the NPU, the C library's functions (a constant), and the layouts the hardware wants: external, as far as
  the code's packers, references and documented sizes tell.
* Dead code: `is_small`, the branch `total_tasks == 0`, the counter `tracked_pc`.
* In the element-wise cases: the leaks of a case's arrays on early returns; a `cmpeq` of one element, which writes a second one
  (`main.c:1718`); the register the biased look-up ops do not program (`rknnops.h:438`); that `minus` computes
  B - A and its case accepts either.
* In matmul: the overflow of `(size_t)(M * K)` before it is widened (`main.c:5336`).
* `test_matmul` by itself: `main` without arguments runs it and returns 0 whatever it returned (`main.c:6838`).
* conv1d with an ARGB input occurs for 1, 3 and 4 channels only, as in the code; other channel counts take the common path.
* Of `ops_rknn`: `alloc_weight_loop_rknn.c`, `minimal_add.c`, `npu_add_test.py`, random numbers, the subnormal branch of
  `conv2d_simple.cpp`'s conversion, the infinite elements the matmul programs skip. `PoolWindows` is one dimension of two equal ones and assumes that the kernel fits and the
  padding is at most half of it (`pool.cpp:235` would divide a negative number otherwise).
* Of the tools: `--vmem`, the names and fields of registers, `write_reg_value`, the generator of debugger scripts. The buffers lie
  still while `GemDump` shows them; `DmaLog` has the interleaving with the driver.
* Of `hello2.c`: its mappings, and the failure of `MEM_MAP`, which exits like that of a creation; only the commands and the task
  are written.
* The standalone examples (one fixed add each) and the other files of `include/old`.

## 6. Plan

Done, in this order: the lifecycle and its contract, matmul splitting, the cubes of the element-wise ops; then the
recorder, the convolutions, the layouts, the handle map and log, the cases by value, the runtime programs and the tools;
then the refinement proof, the map and the log; then the product of matmul, its layouts, and the walks over native outputs
and pooling windows; then the convolutions, the runtime programs and the recorder; then proofs of the element-wise cases by
value, `test_minmax_bin`, the tools and the look-up tables. What a continuation would take up: `InsidePages` for shapes above half
a page; `EachLookUpIsRight` from stated accuracies of the C library; chains of several tasks per op, when the code makes
them; and the buffers of an op seen by `GemDump` while `OpLifecycle` runs.
