# A verification model of datafusion-c

datafusion-c binds the Rust query engine DataFusion to C. It has two layers:

* `src/capi.rs`: `df_*()` functions with the C ABI. They move ownership with
  `Box`, take Arrow data over the Arrow C data interface, run every future to
  its end on the caller's thread (`block_on()`) and report through a `DFError`
  out parameter.
* `datafusion-glib/*.c`: GObject classes `GDF*` on top. They mirror some of the
  Rust state, hold references to Arrow GLib objects and turn a `DFError` into
  a `GError`.

What can go wrong is not the query engine, which is not in this repository,
but what lies between three memory managers: reference counts (GObject),
release callbacks (the C data interface) and ownership (Rust). The models
follow who holds what, on every path a call can take.

## Inventory

| component | state | operations | with whom it interacts | what is hard |
|---|---|---|---|---|
| session context (`session-context.c`, `capi.rs` 549-679, 839-858, 964-985) | `registered_record_batches`, a hash table from name to a list of record batches; DataFusion's catalog | new, dispose, finalize, sql, deregister, register_record_batch, register_table, register_csv, register_parquet | gives arrays to Rust, keeps their record batches, makes data frames | a registration fails at any of a dozen places, with some arrays moved into Rust and some not; two names of one table; replacing a table that data frames read |
| CSV and Parquet read options (`csv-read-options.c`, `parquet-read-options.c`, `capi.rs` 284-328, 681-960) | the schema, partition columns and extension, in C and again in Rust; scalar properties in Rust only | setters, getters, properties, dispose, finalize | given to register_csv and register_parquet | the two sides must agree; pointer equality as "unchanged"; a borrowed string; an argument only the options hold; a signed character, a 64-bit number and a boolean of C kept in narrower types |
| data frame (`data-frame.c` 102-291, `capi.rs` 422-547) | the plan | show, write_parquet, to_table, finalize | made by sql; shares the providers of the catalog | out parameters, half an export when an error comes, a result without rows |
| error reporting (`capi.rs` 58-282, `error.[ch]`) | the `DFError` of a call | df_error_new, get, free; `into_df_error()` | used by every call | a message with a NUL; which of result and error the caller looks at; two enumerations declared apart with an int between them |
| Parquet writer properties (`data-frame.c` 23-100, `capi.rs` 373-416) | the row group limit | set, build | given to write_parquet | a limit of zero |
| version macros (`version.h.in`) | none | `GDF_VERSION_CHECK` and the availability macros | | versions are compared as triples in one place and as one number in another |
| build (`meson.build`, `build.py`, `cbindgen.toml`), release scripts (`dev/release`), packages | | | | |

What makes each one correct:

* session context: no array is released twice or never; a reference count is
  the number of owners; a registered table's record batches stay referenced;
  a call does all or nothing and says which; a data frame is a snapshot.
* read options: the getters tell what reading a file will use, and a scalar is
  what the caller set; reference counts balance; no setter frees its own argument.
* data frame: a table that is returned is the whole result, a failure is
  returned as one, with an error, and errors and the exported block are freed.
* error reporting: a failure keeps its kind from Rust to the `GError`.
* version macros: the two ways to compare versions agree.

There are no threads: nothing in `datafusion-glib` takes a lock (the hash table
is not synchronised), so a context is used by one thread at a time and calls
do not overlap. What interleaves is the *sequence* of calls on several objects
and the failures inside a call.

## Modules

| module | what it is | composes |
|---|---|---|
| `TableRegistry` | abstract specification: what a session context promises of its tables, one step per call | |
| `SessionContext` | the session context, registrations step by step | `TableRegistry`, by refinement |
| `FileOptions` | abstract specification: what read options promise of the tables registered with them | |
| `ReadOptions` | CSV read options, both sides of the C interface, with reference counts | `FileOptions`, by refinement |
| `ParquetReadOptions` | Parquet read options, and the tables registered from them | `FileOptions`, by refinement |
| `WriterProperties` | Parquet writer properties, and the files written with them | |
| `ErrorReporting` | kinds of failure, `DFErrorCode`, `GDFError`, `df_error_set()` | |
| `DataFrame` | a data frame, `to_table()` step by step, and what callers make of an error | `ErrorReporting`, by extension |
| `Version` | the macros of `version.h.in` as operators | |
| `MC*` | instances for TLC | |
| `*_proofs` | theorems for every value of the constants | |

In every module a definition that is named `Mutant...` is a defect the code
could have. No specification uses one. Each shows that a property can fail.

### SessionContext

State. `ctx` is the GObject. `catalog` maps a table to the provider registered
as it, an `Arc` in DataFusion; `frames` maps a data frame to the provider its
plan keeps. A DataFusion data frame also has the state of its context, whose catalog it
shares: while the context is there that is `catalog`, and `shared` is what such a data
frame has of it once the context is finalized. A provider is alive as long as one of them
has it (`Live`), and the arrays of a dead one are released (`Collected`). `madeFrom` is
the name the `MemTable` of a table was registered with. `retained` is `registered_record_batches`.
`refs` are the reference counts of the record batches and `held` those the caller
owns. `holders[s]` is who owns the contents of an exported `ArrowArray`: the C
`caller`, the Rust closure (`callee`) or a provider, and `source[s]` is the record batch it
was made from. `schemaHolder` is the same for the one `ArrowSchema` of a call.
The rest is the running call.

Addresses are pools: a freed record batch, array or provider may come back.
`Resolve` maps a name to the table DataFusion takes it for, since `data`
and `datafusion.public.data` are the same one, while the hash table is keyed by
the name as written. `Utf8Names` are the names `CStr::to_str()` takes.

Actions. `RegisterTable` starts `gdf_session_context_register_table()`;
`ReadBatch`, `ReadError` and `ReadEnd` are its loop, `ExportSchema` the step
after it. `RegisterRecordBatch` is the other entry, and both go on with
`RsName` (is the name UTF-8), `RsSchema` (`ptr::replace` of the schema, then
its import), `RsTakeBatch` (one array, moved and then imported), `RsBatchesDone`,
and `RsRegister` or `RsRefuse`. `RsFail` is what a `?` does: it drops what the
closure owns. A table without chunks makes C pass the NULL `pdata` of an empty `GPtrArray`
as a Rust reference, and `from_raw_parts()` a slice of it, which is undefined: the model goes on as the
release build of the library does, or ends the process as a build that checks does
(`RsEmptySlice`, after which only `Aborted` is left). `Insert` and `Fail` are the two ways back in C. `Dispose`,
`Finalize`, `Sql`, `FreeDataFrame`, `Deregister`, `RegisterFile` and `SqlDropTable` have no
intermediate state of their own. `SqlDropTable` is a DROP TABLE in the text given to
`sql()`: the catalog's entry goes and that of `registered_record_batches` stays.
`RegisterFile` is `register_csv()`, `register_parquet()`, or a CREATE EXTERNAL TABLE given to `sql()`. A call that fails before it changed anything changes
nothing here either and has no action.

Properties. `OneHolder` (never two owners of one array), `NothingLeftOver`
(between calls none is left without an owner that will release it),
`RefsBalanced`, `KeptAlive` (the batches of a registered table are retained
under its name), `ResultIsTruthful` (TRUE: registered and retained; FALSE:
nothing changed in any step), `FramesAreSnapshots`, `AllIsFreed` (once context, data
frames and the caller's batches are given up, in any order, no batch is referenced and
every array was released), `EveryCallReturns` (but for a table without chunks, which may
end the process), `CallsAdvance` (each step of a
registration lowers `StepsLeft`, so that a call over k chunks takes at most 7 + 2k), and
`ImplementsRegistry`: seen through `open`, `tables` and `kept`, a registration
is one step of `TableRegistry`. It takes place when DataFusion accepts the
table, and `kept` already shows the list that `Insert` is about to put into the
hash table, because nothing can happen in between.

### ReadOptions

State. `schema`, `columns` and `file_extension` are the fields of the C object,
`rs_schema`, `rs_columns` and `rs_extension` those of the Rust options;
`rs_extension` is a *buffer* of the caller, because Rust keeps a `&str` into it.
`refs`, `held` and `fields` are the `GArrowSchema` objects; a freed address may
be used again with other fields. `NameAndType` is what partition columns keep
of a field: name and type and not whether it is nullable. `scalars` are the three
properties in the Rust struct, which have no mirror, and `asked` (history) what the caller
last set them to.

Actions. `SetSchema` and `SetColumns` give the argument to Rust and unref the
old schema, and `Keep` takes the new reference, in this order, as in the code.
`Passable` lets the caller pass what a getter returned. `ReuseBuffer` is the
caller freeing or overwriting a string. A setter that fails changes nothing.
`SetProperty` is `g_object_set()`: `InRange` is what the `GParamSpec` of the property
takes (anything else is warned of and not set), `Converted` the change of type.

Properties. `SchemasAgree`, `RefsBalanced`, `ArgumentSurvives`, `ScalarsAgree` (the
range of `delimiter` is what makes the way from `gint8` to `u8` safe; only a `usize`
that is too narrow changes a number), and
`ExtensionsAgree`, which holds only for a caller that keeps its strings
(`KeepsBuffers`). `ImplementsFileOptions`: `ReadWith`, what a file would be read with, is one
record of settings, which only the setter of a setting changes, and nothing the caller
does to its schemas and strings. There are no tables in this instance of `FileOptions`.

### ParquetReadOptions

State. The two mirrors in C (`file_extension`, `table_partition_columns`) and the
three settings of the Rust options, of which `rs_pruning` has three values
(`Option<bool>`) and no mirror. `tables` are the settings DataFusion keeps for a
table, `session` is the session's own pruning value. `asked` and `told` are
history: what the caller last asked for, and what it asked and each getter told
when a table was registered. `GetPruning` is the getter of the property, which says FALSE for
options without a value, and `IsSetPruning` the function that tells the two apart.

Actions. One for each setter; `RegisterParquet` clones the options into a
table. `ReuseBuffer` is the caller who frees or overwrites a string. Nothing in the code asks it to
wait until the options are gone, so that this is a constant, `KeepsBuffers`, as in `ReadOptions`: a
caller for whom it is TRUE waits, whatever tables the options made.

Properties. `TablesReadAsTold`, for a caller that keeps its strings: from C, Rust
and the clone into each later reading. Without `KeepsBuffers` it fails as `ExtensionsAgree` does
in `read_options_borrow`, since the Rust side is the same code. `TablesPruneAsAsked` goes from what the caller
asked to each later reading, `TablesPruneAsTold` from what the two pruning getters said, both
for any caller. `ImplementsFileOptions`, for a caller that keeps its strings: `Chosen` joins what the getters
tell with the pruning that was asked for, and a table takes all of it at once.

### WriterProperties

State. `max_row_group_size` is the `Option<usize>` in Rust, `asked` (history) the
`guint64` the caller passed. Of a written file the model has the number of its rows, its
largest row group and what was asked. `UsizeValues` is the number of values of a `usize`.

Actions. `SetMaxRowGroupSize` converts, `WriteParquet` builds the parquet crate's
properties and writes, and `BuildPanics` is the assertion of that crate.

Properties. `RowGroupsAreBounded`, `RowGroupsAreFull`, `OnlyZeroPanics`, and
`WriteParquetReturns`, which quotes a document and does not hold.

### ErrorReporting and Version

No state of their own. `ErrorReporting` has the two enumerations as sequences, because
C passes the number of a `DFErrorCode` to `g_set_error()` and its reader takes it
for a `GDFError`: `GErrorCode` looks up the place of the one in the other. `into_df_error`
maps kinds of failure to codes. `Documented` is what the comment in `error.h` says.

`Version` is `GDF_VERSION_CHECK` on records of three numbers, the encoding of
two of them in one number, and which functions a program is warned of. There is nothing
to run. Its theorems hold for all versions whose minor number fits the byte it has.

### DataFrame

State. The running call, the out parameters `schema_out` and `batches_out` that
C never initialised (`Garbage`), whether the `malloc()`ed `block` of arrays is allocated, and the sequences a result passes
through: `collected`, `rs_record_batches`, `slots`, `record_batches`. `frame` is
"hollow" when the GObject wraps NULL.

Actions. `ToTable`, `Collect`, `Convert`, `Converted`, `ImportSchema`, `Import` and
`NewTable` are the way of a result, `CollectFails`, `ConvertFails` and `Failed` of
an error. A failure is a kind and a message, and `df_error_set()` sets nothing for a
message with a NUL. `pc =
"undefined"` is where the run of the program has no meaning any more.

Properties. `TableIsWhole`, `FailuresAreExplained`, `ErrorsAreFreed`,
`NoFailureIsHidden` (which calls see a failure), `CrashesAreKnown` (the only ways to reach
"undefined": a hollow frame, an error that could not be kept, garbage in a local when
the query fails, a result without rows, a refusal of garrow), `ErrorsAreNamed` (the code of the `GError` is the one documented for the
kind of failure), `BlockIsFreed` (by C, on every way but the one where the first schema
cannot be exported), and three that quote a document and do not hold.

## Runs

| run | instance | what it shows |
|---|---|---|
| `registry` | 3 names of 2 tables, 3 batches | `TablesAreKept` of the abstract specification |
| `context` | 4 names (an alias, one not UTF-8), 2 tables, 3 batches and arrays, 2 providers, 1 data frame, tables of up to 2 chunks | all safety properties, `AllIsFreed` and the refinement, with a failure at every step |
| `context_live` | 2 names, 1 table, 2 batches, no data frame | every call returns, but for a table without chunks in a build that checks, and takes no more steps than `CallsAdvance` allows |
| `read_options` | 2 schemas, 2 kinds of field, 2 strings, 3 contents (one not UTF-8), values in and out of range of each scalar property, a `usize` of 1024 values, a caller that keeps its strings | all properties, the refinement of `FileOptions` too |
| `read_options_borrow` | the same, the caller does not keep them | `ExtensionsAgree` fails |
| `parquet_options` | 2 tables, 2 columns, 2 strings, 3 contents (one not UTF-8), a caller that keeps its strings | all properties, the refinement of `FileOptions` too |
| `writer_properties` | 2 objects, 2 paths, a `usize` of 4 values, sizes 0 to 5 | both bounds of a row group, and what makes a write panic |
| `writer_properties_zero` | the same | `WriteParquetReturns` fails |
| `data_frame` | results of up to 3 batches of 2 contents, any garbage, failures of every kind with any message | what holds of every call that comes back |
| `data_frame_error`, `data_frame_no_rows`, `data_frame_sql` | | three documented promises fail |

The bounds. `MaxChunks = 2` is the least number of batches for which one is
moved and one is not when an import fails, and two are listed when an export
fails. Three batches let a replacing registration of two overlap with one
that the caller holds. Two providers let a data frame read the old table
while the catalog has the new one. Two schemas are the old and the new one of a
setter. `MaxBatches = 3` tells `remove(0)` from `swap_remove(0)`; with two the
orders are the same. Two tables let one keep what it was registered with while
another is registered from the changed options. `UsizeValues = 4` with sizes 4 and 5
has a size that becomes zero and one that becomes another size; `UsizeValues = 1024` for the
read options holds their default of 1000 and not the 1024 the caller may set. In `context`
the two names of one table are symmetric, and so are objects of each pool. The proofs need none of these bounds.

Deadlock is checked where a system never stops (`context`, `read_options`,
`registry`, `parquet_options`) and not in `DataFrame` and `WriterProperties`, where a
run may end in "undefined" or "panic".

Fairness. Only `context_live` uses it: weak fairness of the steps of a running
call. A call runs on its caller's thread; `block_on()` drives the future there,
and no step waits for another actor. No fairness is assumed of the caller.

## Where the code disagrees with its documents

1. `read_options_borrow`: the Rust options borrow the extension string
   (`capi.rs:801`, and 894 for Parquet). Once the caller frees it, files are
   filtered by whatever is in that memory, while the getter still returns the
   copy.
2. `data_frame_error`: when a query fails, `df_data_frame_export()` frees
   `*c_abi_record_batches_out` unless it is NULL, and
   `gdf_data_frame_to_table()` never initialised it.
3. `data_frame_no_rows`: a result without record batches exports no schema, and
   `gdf_data_frame_to_table()` imports the uninitialised local.
4. `data_frame_sql`: an error whose message has a NUL is not set;
   `gdf_session_context_sql()` looks at the error only and returns a data frame
   around NULL. For the same reason `gdf_data_frame_show()` returns TRUE for a
   failure, and `write_parquet` and `to_table` read the message of a NULL error.
5. `writer_properties_zero`: a row group limit of zero is taken by the setter and
   panics under `write_parquet()`. The parquet crate's assertion
   (`WriterPropertiesBuilder::set_max_row_group_size()`) is not in this repository.

Seen while modelling, and without a run of their own:

* `garrow_table_get_schema()` returns a new reference that
  `gdf_session_context_register_table()` never drops (`session-context.c:334`).
* the setters of the read options import a schema and never call its `release`
  (`capi.rs` 291-305, 746-752); the `ArrowArray` structs themselves are not freed.
* `error.h:53` says its codes correspond to those of `DFErrorCode`; it has none for
  `Context` and `Substrait`, whose numbers (14 and 15) have no name in C. `ErrorsAreNamed` says
  `unknown` for these two. What a `Context` error wraps is not looked at.
* `version.h.in:126` says that functions *defined* after `GDF_VERSION_MIN_REQUIRED` are warned
  of; the macros warn of functions *deprecated* in or before it. Nothing is deprecated yet.
* after a deregistration through an alias, a DROP TABLE, or a CSV file registered over a table in
  memory, the old entry of `registered_record_batches` stays until its own name
  is used again or the context goes. `KeptAlive` is the direction that matters.
* a `GArrowTable` without chunks is passed to Rust as a NULL `&mut` and a slice at NULL
  (`session-context.c:345`, `capi.rs` 631 and 647), which is undefined. The library that a release
  build makes takes it for an empty slice; with checks it ends the process, where
  `session-context.c` promises TRUE or FALSE. The model has both (`RsEmptySlice`).
* the property `pruning` of Parquet options without a value reads FALSE
  (`capi.rs:959`), while their reader does what the session says, which prunes by
  default. A client that copies properties from object to object turns pruning off.
* data frames outlive the record batches their context retained. The arrays
  own the buffers, so this matters only to buffers that wrap foreign memory.

## Proofs

`*_proofs` are checked by TLAPS for every value of the constants, from
the assumptions the modules state: `NamesAssumption` and `PoolsAssumption`
(finitely many names and addresses of arrays, `None` is none of the objects), `RegistryAssumption`,
`OptionsAssumption`, `ParquetAssumption`, `NoTableAssumption`, `WriterAssumption`,
`NoFileAssumption`, `DataFrameAssumption`.

* `SessionContext_proofs`. No property is inductive alone: that `refs` stays a
  natural number needs the balance; the balance needs what a running call
  owns; that needs the step it is at. `IInv` joins `TypeOK`, `CallShape`
  (what each step says of the arguments), `OneHolder`, `ArrayShape` (who may hold
  an array at which step), `ListExported` (each listed batch has its array),
  `ContextShape`, `RefsBalanced` and `TablesMatch` (a table reads exactly the
  batches kept under its name, where a call between `RsRegister` and `Insert`
  counts as inserted). TLC was run on `IInv` before it was proved. The lemma
  `Invariance` has one step per action. All safety properties, the two action
  properties and `RefinesRegistry` follow from it.
  `DROP TABLE` keeps `TablesMatch`, since it only takes a table away.
  `EverythingIsFreed` puts the balance, the shape of the context and the shape of the
  arrays together: who would still own a batch or an array has been given up.
  `KeptThroughRegistry` takes `TablesAreKept` of the abstract module over to the
  context, by `RefinesRegistry` and an instance of `TableRegistry_proofs`.
* The end of a call. `CallsAreBounded` proves that `StepsLeft` goes down in every step of a call.
  It counts the steps ahead in the code, two for each chunk to read and
  one for each array to hand over, which is a cardinality: the lemmas `HandedGrows` and
  `HandedShrinks` say how reading and handing over change it, and need that arrays are
  finitely many. That a step is possible until the call is over (ENABLED)
  and is taken (fairness) is what is left to TLC in `EveryCallReturns`.
* `TableRegistry_proofs`: `TablesAreKept`, with the type invariant.
* `ReadOptions_proofs`. That a schema the options keep is not freed and made
  anew needs the counts; the counts need who else holds the argument of a
  running setter (`SetterShape`). `ExtensionsAreKept` assumes `KeepsBuffers`, and so does
  `RefinesFileOptions`: without it `ReuseBuffer` changes a setting that nobody chose. `ScalarsArrive` needs that the
  values of a property fit its new type once they are in its range, for any `usize` of
  more than 1000 values.
* `ParquetReadOptions_proofs`. What a table has follows from what the two sides of the options
  had when it was registered (`Mirrored`), and `TablesPruneAsAsked` from the
  stronger fact that a table has the very setting that was asked for (`AsAsked`), and so does
  `GettersTellPruning`. `TablesKeepTheirOptions` and `RefinesFileOptions` assume
  `KeepsBuffers`, as `RefinesFileOptions` of `ReadOptions_proofs` does; the part of `Mirrored` about the extension
  holds for no other caller. `RefinesFileOptions`
  rests on both: a clone of the Rust half is the whole of what was chosen.
* `WriterProperties_proofs`. `LimitsHold` needs no assumption on the width of `usize`:
  `UsizeBound` shows that the conversion never makes a size larger.
  `WritesReturn` assumes sizes that fit and are not zero.
* `DataFrame_proofs`. `TableIsWhole` needs at each step which part of the result is
  in which sequence (`Cut`, `Starts`), for results of any length. `ErrorsKeepTheirKind` rests on
  `CodesAreDocumented` of `ErrorReporting_proofs`, by cases over the kinds, and on the code
  a `DFError` carries through the export. `BlocksAreFreed` needs that no block is there before
  `Collect`, and what a failed export left (`ExportShape`). `FailureShape`
  follows a failure through the export. `CrashesAreExplained` gets from it that the four
  causes in `CrashesAreKnown` are all there are.
* `Version_proofs`. `EncodingOrders`: one number of two parts compares as the parts do. From it
  follow `AvailabilityIsVersionCheck` and `DeprecatedIsAvailable`; `VersionsAreOrdered` needs only
  the three parts.

Only model-checked: `EveryCallReturns`, which needs fairness and ENABLED, and the properties that
fail. `FileOptions` has no theorem of its own: its promise is the refinements'.

## Not modelled

* the `GArrowTableBatchReader` of `register_table()` itself, one reference made and dropped on
  every path (`session-context.c` 298-332, 368-370), and the `DFError` of `sql()`, `show()`,
  `write_parquet()` and the registrations, freed next to where it is read: `ErrorsAreFreed` is
  about `to_table()`, whose error outlives a step.
* CREATE TABLE AS and CREATE VIEW inside `sql()`. They put a table into the catalog whose
  provider shares what other tables read, as a data frame does: what a data frame's
  provider keeps alive is in `SessionContext`, what a view's does is the same. SET is in
  `ParquetReadOptions` (`SetSession`), as far as it changes how a table is read. What else a
  statement does is DataFusion's.
* threads: see above.
* what is printed or written: `show` and `write_parquet` succeed or fail; of a written
  file `WriterProperties` has the size of its row groups.
* the layout of `ArrowArray` and `ArrowSchema` (`capi.rs` 330-371): data. Who holds their contents is modelled.
* failures of allocation: GLib and Rust abort.
* generated declarations (`*.h` apart from the enumeration in `error.h`): they are the functions again.
* `build.py`, Meson files, release scripts, packages, workflows, tests, examples and
  documentation: they run before or beside the program and keep no state of it.

## Plan

All components with logic of their own are modelled, checked and proved about. What a
later version of the code would call for first:

1. when an `avro` or `jit` feature is turned on: their arms in `into_df_error`.
2. when `to_table()` initialises its locals: `Garbage = {"NULL"}` in the runs
   `data_frame_error` and `data_frame_no_rows`, and a theorem that a failed query returns NULL.
3. when the hash table is keyed by what a name resolves to, or SQL may
   change the catalog through a new function: `SqlDropTable` and `Deregister` together.
