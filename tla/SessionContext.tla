--------------------------- MODULE SessionContext ---------------------------
(***************************************************************************)
(* GDFSessionContext (datafusion-glib/session-context.c) together with the *)
(* df_session_context_*() functions under it (src/capi.rs).                *)
(*                                                                         *)
(* A call to gdf_session_context_register_record_batch() or _table() is    *)
(* followed step by step, because each step may fail and leaves another    *)
(* set of things to give back: record batches the reader returned,         *)
(* ArrowArrays and the ArrowSchema exported over the C data interface, and *)
(* what ptr::replace() has already moved into Rust.  The other calls have  *)
(* no intermediate state of their own and are one action each.  A context  *)
(* is used by one thread at a time, so no call starts inside another.      *)
(* A call that returns an error before it changed anything is a stutter    *)
(* and has no action.  The errors of this path carry messages built from   *)
(* C strings, so df_error_set() never meets an embedded NUL here, and      *)
(* df_error is set exactly when the Rust function returns false.           *)
(* A GArrowTable without chunks is passed as a NULL array of arrays, which *)
(* Rust has no meaning for: such a call goes on or ends the process.       *)
(***************************************************************************)
EXTENDS Naturals, FiniteSets

CONSTANTS
    Names,         \* the table names a caller may pass
    Utf8Names,     \* those that CStr::to_str() accepts
    Tables,        \* the tables DataFusion resolves the names to
    Resolve,       \* "data" and "datafusion.public.data" are the same table
    Batches,       \* addresses of GArrowRecordBatch objects
    Structs,       \* ArrowArray contents exported over the C data interface
    Providers,     \* MemTables and file tables, each behind an Arc
    Frames,        \* data frames that may exist at once
    MaxChunks,     \* bound: record batches a GArrowTable is read as
    None

Owners == {"caller", "callee"}

ASSUME NamesAssumption ==
    /\ IsFiniteSet(Names)
    /\ Utf8Names \subseteq Names
    /\ Resolve \in [Names -> Tables]
ASSUME PoolsAssumption ==
    /\ Owners \cap Providers = {}
    /\ None \notin Names
    /\ None \notin Batches
    /\ None \notin Providers
    /\ IsFiniteSet(Structs)
    /\ MaxChunks \in Nat

VARIABLES
    ctx,           \* the GObject: "none", "alive", or "disposed" and not yet finalized
    catalog,       \* priv->context: the provider registered as each table
    madeFrom,      \* the name its MemTable was registered with, None for a file table
    retained,      \* priv->registered_record_batches; no entry is the empty list
    frames,        \* the provider each data frame reads
    shared,        \* the tables of its finalized context that a data frame still
                   \* shares; None: no data frame, or its context is there
    held,          \* record batches the caller holds a reference to
    refs,          \* reference count of each GArrowRecordBatch
    source,        \* the record batch an exported ArrowArray was made from
    holders,       \* who holds the contents of an exported ArrowArray
    schemaHolder,  \* who holds the contents of the exported ArrowSchema
    pc, fn, name,  \* the running call: its step, which function, its name argument
    list,          \* the record batches it registers
    chunks,        \* record batches its reader has yet to return
    success

object == <<ctx, frames, shared, held>>
registry == <<catalog, madeFrom, retained>>
memory == <<refs, source, holders>>
call == <<pc, fn, name, list, chunks, schemaHolder, success>>
vars == <<object, registry, memory, call>>

Steps == {"idle", "read", "export_schema", "rs_name", "rs_schema", "rs_batches",
          "rs_register", "insert", "fail", "aborted"}

TypeOK ==
    /\ ctx \in {"none", "alive", "disposed"}
    /\ catalog \in [Tables -> Providers \cup {None}]
    /\ madeFrom \in [Tables -> Names \cup {None}]
    /\ retained \in [Names -> SUBSET Batches]
    /\ frames \in [Frames -> Providers \cup {None}]
    /\ shared \in [Frames -> (SUBSET Providers) \cup {None}]
    /\ held \subseteq Batches
    /\ refs \in [Batches -> Nat]
    /\ source \in [Structs -> Batches \cup {None}]
    /\ holders \in [Structs -> SUBSET (Owners \cup Providers)]
    /\ schemaHolder \in SUBSET Owners
    /\ pc \in Steps
    /\ fn \in {"none", "record_batch", "table"}
    /\ name \in Names \cup {None}
    /\ list \subseteq Batches
    /\ chunks \in 0 .. MaxChunks
    /\ success \in BOOLEAN
-----------------------------------------------------------------------------
(* Definitions named Mutant... are defects this code could have; no          *)
(* specification uses them, and each breaks a property stated below.       *)

(* An Arc keeps a provider alive while the catalog, the plan of a data     *)
(* frame or the catalog a data frame shares has it.                        *)
Live(cat, frs, shr) ==
    {p \in Providers : \/ \E t \in Tables : cat[t] = p
                       \/ \E f \in Frames : frs[f] = p \/ (shr[f] # None /\ p \in shr[f])}

(* A dropped provider drops its arrays, and arrow-rs releases them.        *)
Collected(h, live) == [s \in Structs |-> h[s] \cap (Owners \cup live)]

(* A struct nobody holds any more has been released: its release callback  *)
(* is NULL and its address may be used again.                              *)
Hold(h) ==
    /\ holders' = h
    /\ source' = [s \in Structs |-> IF h[s] = {} THEN None ELSE source[s]]

(* The catalog and the frames change to cat, frs and shr, arrays to h.     *)
Catalogue(cat, frs, shr, h) ==
    /\ catalog' = cat
    /\ frames' = frs
    /\ shared' = shr
    /\ Hold(Collected(h, Live(cat, frs, shr)))

(* A missing release: no free func on the array of arrays.                 *)
MutantDropped(h, o) == h

Dropped(h, o) == [s \in Structs |-> h[s] \ {o}]

(* ptr::read() where ptr::replace() is needed.                             *)
MutantMoved(h, s) == [h EXCEPT ![s] = @ \cup {"callee"}]

(* ptr::replace(array, FFI_ArrowArray::empty()): the contents move.        *)
Moved(h, s) == [h EXCEPT ![s] = (@ \ {"caller"}) \cup {"callee"}]

Given(h, p) ==
    [s \in Structs |-> IF "callee" \in h[s] THEN (h[s] \ {"callee"}) \cup {p} ELSE h[s]]

BatchesOf(p) == {source[s] : s \in {x \in Structs : p \in holders[x]}}

(* The entries of registered_record_batches that list a batch.             *)
Entries(b) == {n \in Names : b \in retained[n]}

(* registered_record_batches without a value destroy function.             *)
MutantRereferencedLeak(old, new) ==
    [b \in Batches |-> refs[b] + (IF b \in new THEN 1 ELSE 0)]

(* The batch inserted without g_object_ref().                              *)
MutantRereferencedBorrow(old, new) ==
    [b \in Batches |-> refs[b] - (IF b \in old THEN 1 ELSE 0)]

(* g_list_free_full(old, g_object_unref) and the references of new.        *)
Rereferenced(old, new) ==
    [b \in Batches |->
        (refs[b] + (IF b \in new THEN 1 ELSE 0)) - (IF b \in old THEN 1 ELSE 0)]

Unused(b) == refs[b] = 0 /\ \A s \in Structs : source[s] # b
Free(s) == holders[s] = {}

Init ==
    /\ ctx = "none"
    /\ catalog = [t \in Tables |-> None]
    /\ madeFrom = [t \in Tables |-> None]
    /\ retained = [n \in Names |-> {}]
    /\ frames = [f \in Frames |-> None]
    /\ shared = [f \in Frames |-> None]
    /\ held = {}
    /\ refs = [b \in Batches |-> 0]
    /\ source = [s \in Structs |-> None]
    /\ holders = [s \in Structs |-> {}]
    /\ schemaHolder = {}
    /\ pc = "idle"
    /\ fn = "none"
    /\ name = None
    /\ list = {}
    /\ chunks = 0
    /\ success = FALSE
-----------------------------------------------------------------------------
Idle == pc = "idle"
Ready == Idle /\ ctx = "alive"

New ==
    /\ Idle
    /\ ctx = "none"
    /\ ctx' = "alive"
    /\ UNCHANGED <<frames, shared, held, registry, memory, call>>

(* The hash table is forgotten, not destroyed.                             *)
MutantDispose ==
    /\ Ready
    /\ ctx' = "disposed"
    /\ retained' = [n \in Names |-> {}]
    /\ UNCHANGED <<frames, shared, held, catalog, madeFrom, memory, call>>

(* gdf_session_context_dispose(): the hash table goes, with every list in  *)
(* it; the tables stay until finalize.                                     *)
Dispose ==
    /\ Ready
    /\ ctx' = "disposed"
    /\ retained' = [n \in Names |-> {}]
    /\ refs' = [b \in Batches |-> refs[b] - Cardinality(Entries(b))]
    /\ UNCHANGED <<frames, shared, held, catalog, madeFrom, source, holders, call>>

(* The context drops its catalog.  A data frame was made with the state of *)
(* its context, whose catalog it shares: it keeps all the tables.          *)
Finalize ==
    /\ Idle
    /\ ctx = "disposed"
    /\ ctx' = "none"
    /\ Catalogue([t \in Tables |-> None], frames,
                 [f \in Frames |-> IF frames[f] # None /\ shared[f] = None
                                   THEN {p \in Providers : \E t \in Tables : catalog[t] = p}
                                   ELSE shared[f]],
                 holders)
    /\ madeFrom' = [t \in Tables |-> None]
    /\ UNCHANGED <<held, retained, refs, call>>

NewRecordBatch(b) ==
    /\ Idle
    /\ Unused(b)
    /\ held' = held \cup {b}
    /\ refs' = [refs EXCEPT ![b] = 1]
    /\ UNCHANGED <<ctx, frames, shared, registry, source, holders, call>>

UnrefRecordBatch(b) ==
    /\ Idle
    /\ b \in held
    /\ held' = held \ {b}
    /\ refs' = [refs EXCEPT ![b] = @ - 1]
    /\ UNCHANGED <<ctx, frames, shared, registry, source, holders, call>>

(* A SELECT over one table: the plan keeps the table's provider.           *)
Sql(f, n) ==
    /\ Ready
    /\ frames[f] = None
    /\ n \in Utf8Names
    /\ catalog[Resolve[n]] # None
    /\ frames' = [frames EXCEPT ![f] = catalog[Resolve[n]]]
    /\ UNCHANGED <<ctx, shared, held, registry, memory, call>>

FreeDataFrame(f) ==
    /\ Idle
    /\ frames[f] # None
    /\ Catalogue(catalog, [frames EXCEPT ![f] = None], [shared EXCEPT ![f] = None], holders)
    /\ UNCHANGED <<ctx, held, madeFrom, retained, refs, call>>

(* DROP TABLE, which DataFusion carries out inside sql(): nobody tells     *)
(* registered_record_batches.                                              *)
SqlDropTable(n) ==
    /\ Ready
    /\ n \in Utf8Names
    /\ catalog[Resolve[n]] # None
    /\ Catalogue([catalog EXCEPT ![Resolve[n]] = None], frames, shared, holders)
    /\ madeFrom' = [madeFrom EXCEPT ![Resolve[n]] = None]
    /\ UNCHANGED <<ctx, held, retained, refs, call>>

(* The entry goes and the table stays.                                     *)
MutantDeregister(n) ==
    /\ Ready
    /\ n \in Utf8Names
    /\ retained' = [retained EXCEPT ![n] = {}]
    /\ refs' = Rereferenced(retained[n], {})
    /\ UNCHANGED <<ctx, frames, shared, held, catalog, madeFrom, source, holders, call>>

(* Deregistering a name without a table succeeds too; only a name that is  *)
(* not UTF-8 fails, before anything changed.                               *)
Deregister(n) ==
    /\ Ready
    /\ n \in Utf8Names
    /\ Catalogue([catalog EXCEPT ![Resolve[n]] = None], frames, shared, holders)
    /\ madeFrom' = [madeFrom EXCEPT ![Resolve[n]] = None]
    /\ retained' = [retained EXCEPT ![n] = {}]
    /\ refs' = Rereferenced(retained[n], {})
    /\ UNCHANGED <<ctx, held, call>>

(* register_csv() and register_parquet() that succeed, and CREATE EXTERNAL *)
(* TABLE: they do not touch registered_record_batches.  Whether DataFusion *)
(* refuses or replaces a table that exists is its choice, as in RsRegister.*)
RegisterFile(n, p) ==
    /\ Ready
    /\ n \in Utf8Names
    /\ p \notin Live(catalog, frames, shared)
    /\ Catalogue([catalog EXCEPT ![Resolve[n]] = p], frames, shared, holders)
    /\ madeFrom' = [madeFrom EXCEPT ![Resolve[n]] = None]
    /\ UNCHANGED <<ctx, held, retained, refs, call>>
-----------------------------------------------------------------------------
(* gdf_session_context_register_record_batch(), to its call into Rust.     *)
RegisterRecordBatch(n, b, s) ==
    /\ Ready
    /\ b \in held
    /\ Free(s)
    /\ holders' = [holders EXCEPT ![s] = {"caller"}]
    /\ source' = [source EXCEPT ![s] = b]
    /\ schemaHolder' = {"caller"}
    /\ pc' = "rs_name"
    /\ fn' = "record_batch"
    /\ name' = n
    /\ list' = {b}
    /\ success' = FALSE
    /\ UNCHANGED <<object, registry, refs, chunks>>

(* gdf_session_context_register_table() of a table of k chunks.  The       *)
(* address pools must have room for them (a bound of the model).           *)
RegisterTable(n, k) ==
    /\ Ready
    /\ k <= Cardinality({b \in Batches : Unused(b)})
    /\ k <= Cardinality({s \in Structs : Free(s)})
    /\ pc' = "read"
    /\ fn' = "table"
    /\ name' = n
    /\ chunks' = k
    /\ success' = FALSE
    /\ UNCHANGED <<object, registry, memory, list, schemaHolder>>

(* g_list_prepend(NULL, record_batch).                                     *)
MutantPrepended(b) == {b}

(* record_batches = g_list_prepend(record_batches, record_batch).          *)
Prepended(b) == list \cup {b}

(* The reader made anew in every turn: it never reaches its end.           *)
MutantReadBatch(b, s) ==
    /\ pc = "read"
    /\ chunks > 0
    /\ Unused(b)
    /\ Free(s)
    /\ list' = Prepended(b)
    /\ refs' = [refs EXCEPT ![b] = 1]
    /\ holders' = [holders EXCEPT ![s] = {"caller"}]
    /\ source' = [source EXCEPT ![s] = b]
    /\ UNCHANGED <<object, registry, pc, fn, name, chunks, schemaHolder, success>>

(* One turn of the loop: the batch is listed first, then exported.  When   *)
(* the export fails the batch is in the list and has no array.             *)
ReadBatch(b, s) ==
    /\ pc = "read"
    /\ chunks > 0
    /\ Unused(b)
    /\ Free(s)
    /\ list' = Prepended(b)
    /\ refs' = [refs EXCEPT ![b] = 1]
    /\ \/ /\ holders' = [holders EXCEPT ![s] = {"caller"}]
          /\ source' = [source EXCEPT ![s] = b]
          /\ chunks' = chunks - 1
          /\ UNCHANGED pc
       \/ /\ pc' = "fail"
          /\ UNCHANGED <<source, holders, chunks>>
    /\ UNCHANGED <<object, registry, fn, name, schemaHolder, success>>

ReadError ==
    /\ pc = "read"
    /\ chunks > 0
    /\ pc' = "fail"
    /\ UNCHANGED <<object, registry, memory, fn, name, list, chunks, schemaHolder, success>>

(* The loop without its break.                                             *)
MutantReadEnd ==
    /\ pc = "read"
    /\ chunks = 0
    /\ UNCHANGED vars

ReadEnd ==
    /\ pc = "read"
    /\ chunks = 0
    /\ pc' = "export_schema"
    /\ UNCHANGED <<object, registry, memory, fn, name, list, chunks, schemaHolder, success>>

ExportSchema ==
    /\ pc = "export_schema"
    /\ \/ schemaHolder' = {"caller"} /\ pc' = "rs_name"
       \/ pc' = "fail" /\ UNCHANGED schemaHolder
    /\ UNCHANGED <<object, registry, memory, fn, name, list, chunks, success>>
-----------------------------------------------------------------------------
(* An error that does not reach df_error: C takes the call for successful. *)
MutantRsFail(h) ==
    /\ pc' = "insert"
    /\ Hold(Dropped(h, "callee"))
    /\ UNCHANGED <<object, registry, refs, fn, name, list, chunks, success>>

(* df_session_context_register_record_batches().  Every `?` drops what the *)
(* closure owns and returns false with df_error set.                       *)
RsFail(h) ==
    /\ pc' = "fail"
    /\ Hold(Dropped(h, "callee"))
    /\ UNCHANGED <<object, registry, refs, fn, name, list, chunks, success>>

RsName ==
    /\ pc = "rs_name"
    /\ \/ /\ name \in Utf8Names
          /\ pc' = "rs_schema"
          /\ UNCHANGED <<object, registry, memory, fn, name, list, chunks, schemaHolder, success>>
       \/ /\ name \notin Utf8Names
          /\ RsFail(holders)
          /\ UNCHANGED schemaHolder

(* ptr::replace() takes the schema before Schema::try_from() may refuse it.*)
RsSchema ==
    /\ pc = "rs_schema"
    /\ \/ /\ schemaHolder' = (schemaHolder \ {"caller"}) \cup {"callee"}
          /\ pc' = "rs_batches"
          /\ UNCHANGED <<object, registry, memory, fn, name, list, chunks, success>>
       \/ /\ RsFail(holders)
          /\ schemaHolder' = schemaHolder \ {"caller"}

(* An array is taken, then imported; when the import fails the arrays not  *)
(* yet reached are still the caller's.                                     *)
RsTakeBatch(s) ==
    /\ pc = "rs_batches"
    /\ "caller" \in holders[s]
    /\ \/ /\ Hold(Moved(holders, s))
          /\ UNCHANGED <<object, registry, refs, call>>
       \/ /\ RsFail(Moved(holders, s))
          /\ schemaHolder' = schemaHolder \ {"callee"}

(* No batch: C has passed the NULL pdata of an empty GPtrArray, which is   *)
(* undefined as a `&mut` and in from_raw_parts().  A build that checks     *)
(* ends the process here; any other finds the empty slice (RsBatchesDone). *)
RsEmptySlice ==
    /\ pc = "rs_batches"
    /\ list = {}
    /\ pc' = "aborted"
    /\ UNCHANGED <<object, registry, memory, fn, name, list, chunks, schemaHolder, success>>

(* The process has ended.                                                  *)
Aborted ==
    /\ pc = "aborted"
    /\ UNCHANGED vars

RsBatchesDone ==
    /\ pc = "rs_batches"
    /\ \A s \in Structs : "caller" \notin holders[s]
    /\ pc' = "rs_register"
    /\ UNCHANGED <<object, registry, memory, fn, name, list, chunks, schemaHolder, success>>

(* The arrays given to the MemTable that is registered, if there is one.   *)
MutantRsRegister(p) ==
    /\ pc = "rs_register"
    /\ \/ p = catalog[Resolve[name]]
       \/ catalog[Resolve[name]] = None /\ p \notin Live(catalog, frames, shared)
    /\ Catalogue([catalog EXCEPT ![Resolve[name]] = p], frames, shared, Given(holders, p))
    /\ madeFrom' = [madeFrom EXCEPT ![Resolve[name]] = name]
    /\ schemaHolder' = schemaHolder \ {"callee"}
    /\ pc' = "insert"
    /\ success' = TRUE
    /\ UNCHANGED <<ctx, held, retained, refs, fn, name, list, chunks>>

(* MemTable::try_new() and register_table(), which refuses a table that    *)
(* exists or replaces it.                                                  *)
RsRegister(p) ==
    /\ pc = "rs_register"
    /\ p \notin Live(catalog, frames, shared)
    /\ Catalogue([catalog EXCEPT ![Resolve[name]] = p], frames, shared, Given(holders, p))
    /\ madeFrom' = [madeFrom EXCEPT ![Resolve[name]] = name]
    /\ schemaHolder' = schemaHolder \ {"callee"}
    /\ pc' = "insert"
    /\ success' = TRUE
    /\ UNCHANGED <<ctx, held, retained, refs, fn, name, list, chunks>>

RsRefuse ==
    /\ pc = "rs_register"
    /\ RsFail(holders)
    /\ schemaHolder' = schemaHolder \ {"callee"}
-----------------------------------------------------------------------------
(* Back in C.                                                              *)
Return ==
    /\ pc' = "idle"
    /\ fn' = "none"
    /\ name' = None
    /\ list' = {}
    /\ chunks' = 0

(* g_hash_table_insert() unrefs the batches of the entry it replaces; the  *)
(* batch of register_record_batch() is the caller's and gets a reference,  *)
(* those of register_table() are handed over.                              *)
Insert ==
    /\ pc = "insert"
    /\ retained' = [retained EXCEPT ![name] = list]
    /\ refs' = Rereferenced(retained[name], IF fn = "record_batch" THEN list ELSE {})
    /\ Return
    /\ UNCHANGED <<object, catalog, madeFrom, source, holders, schemaHolder, success>>

(* df_error, and goto exit: what the caller still holds is released, then  *)
(* register_table() unrefs the batches it read.                            *)
Fail ==
    /\ pc = "fail"
    /\ Hold(Dropped(holders, "caller"))
    /\ schemaHolder' = schemaHolder \ {"caller"}
    /\ refs' = Rereferenced(IF fn = "table" THEN list ELSE {}, {})
    /\ Return
    /\ UNCHANGED <<object, registry, success>>

CallStep ==
    \/ \E b \in Batches, s \in Structs : ReadBatch(b, s)
    \/ ReadError
    \/ ReadEnd
    \/ ExportSchema
    \/ RsName
    \/ RsSchema
    \/ \E s \in Structs : RsTakeBatch(s)
    \/ RsEmptySlice
    \/ RsBatchesDone
    \/ \E p \in Providers : RsRegister(p)
    \/ RsRefuse
    \/ Insert
    \/ Fail

Next ==
    \/ New
    \/ Dispose
    \/ Finalize
    \/ \E b \in Batches : NewRecordBatch(b) \/ UnrefRecordBatch(b)
    \/ \E f \in Frames, n \in Names : Sql(f, n)
    \/ \E f \in Frames : FreeDataFrame(f)
    \/ \E n \in Names : Deregister(n) \/ SqlDropTable(n)
    \/ \E n \in Names, p \in Providers : RegisterFile(n, p)
    \/ \E n \in Names, b \in Batches, s \in Structs : RegisterRecordBatch(n, b, s)
    \/ \E n \in Names, k \in 0 .. MaxChunks : RegisterTable(n, k)
    \/ CallStep
    \/ Aborted

Spec == Init /\ [][Next]_vars

(* A call runs on the caller's thread and nothing in it waits for another  *)
(* actor: block_on() drives its future to the end on that thread.          *)
FairSpec == Spec /\ WF_vars(CallStep)
-----------------------------------------------------------------------------
(* What a registered table reads is owned by nobody twice: the contents of *)
(* every exported array have one holder from export to release, across the *)
(* move of ptr::replace() and every early return, so that they are never   *)
(* released twice and never after a free.                                  *)
OneHolder ==
    \A s \in Structs : \A o1, o2 \in holders[s] : o1 = o2

(* Between calls nothing of a finished call is left: no array or schema    *)
(* still belongs to the C caller or to the Rust closure, and an array that *)
(* was not released belongs to a provider a table or a data frame uses.    *)
NothingLeftOver ==
    Idle => /\ schemaHolder = {}
            /\ \A s \in Structs : holders[s] \subseteq Live(catalog, frames, shared)

(* The reference count of a record batch is the number of its owners: the  *)
(* caller, the list of a running register_table(), and the entries of      *)
(* registered_record_batches.  One unref too few is a leak, one too many a *)
(* use after free.                                                         *)
RefsBalanced ==
    \A b \in Batches :
        refs[b] = (IF b \in held THEN 1 ELSE 0)
                    + (IF fn = "table" /\ b \in list THEN 1 ELSE 0)
                    + Cardinality(Entries(b))

(* A table that was registered from record batches never outlives them:    *)
(* whatever is registered, replaced and deregistered under this and other  *)
(* names of the table, every batch its arrays were exported from is in the *)
(* context's entry for the name, hence referenced.                         *)
KeptAlive ==
    Ready => \A t \in Tables, n \in Names :
                catalog[t] # None /\ madeFrom[t] = n =>
                    \A b \in BatchesOf(catalog[t]) : b \in retained[n] /\ refs[b] > 0

(* When the context, every data frame and every record batch of the caller *)
(* have been given up, in whatever order, nothing is left of all the       *)
(* registrations: no batch is referenced and every array was released.     *)
AllIsFreed ==
    ctx = "none" /\ held = {} /\ (\A f \in Frames : frames[f] = None) =>
        /\ \A b \in Batches : refs[b] = 0
        /\ \A s \in Structs : holders[s] = {}

(* A call that returns TRUE has registered exactly the batches it retains; *)
(* a call that returns FALSE changed neither the catalog nor what is       *)
(* retained, in any of its steps.                                          *)
ResultIsTruthful ==
    [][ /\ pc # "idle" /\ pc' = "idle" /\ success' =>
            /\ catalog[Resolve[name]] # None
            /\ retained'[name] = BatchesOf(catalog[Resolve[name]])
        /\ pc # "idle" /\ ~success' => UNCHANGED <<catalog, retained>> ]_vars

(* A data frame reads the table as it was when sql() returned: replacing,  *)
(* deregistering or finalizing under it changes nothing it reads.          *)
FramesAreSnapshots ==
    [][\A f \in Frames :
        frames[f] # None /\ frames'[f] = frames[f] =>
            BatchesOf(frames[f])' = BatchesOf(frames[f])]_vars

(* The arrays the C caller still has to hand over or to release.           *)
Handed == {s \in Structs : "caller" \in holders[s]}

(* The most steps a call can still take: those ahead of it in the code     *)
(* and, before the arrays have been taken over, two for each chunk to read *)
(* and one for each array to hand over.                                    *)
StepsAhead ==
    CASE pc \in {"idle", "aborted"} -> 0
      [] pc \in {"insert", "fail"} -> 1
      [] pc = "rs_register" -> 2
      [] pc = "rs_batches" -> 3
      [] pc = "rs_schema" -> 4
      [] pc = "rs_name" -> 5
      [] pc = "export_schema" -> 6
      [] pc = "read" -> 7

StepsLeft ==
    IF StepsAhead < 3 THEN StepsAhead ELSE StepsAhead + 2 * chunks + Cardinality(Handed)

(* No call goes round for ever: each step of it lowers the number of steps *)
(* it can still take, whether it succeeds or fails, so that a registration *)
(* of k record batches is over after at most 7 + 2 * k steps.              *)
CallsAdvance ==
    [][ /\ pc = "idle" => StepsLeft' <= 7 + 2 * chunks'
        /\ pc # "idle" => StepsLeft' < StepsLeft ]_vars

(* Every registration returns, whichever of its steps fails; only that of  *)
(* a table without chunks may end the process instead.                     *)
EveryCallReturns == (pc # "idle") ~> (pc = "idle" \/ (pc = "aborted" /\ list = {}))
-----------------------------------------------------------------------------
(* The context implements TableRegistry: seen from outside, a registration *)
(* takes place when DataFusion accepts the table, as a whole or not at all.*)
Registered(t) ==
    [kind |-> IF catalog[t] = None THEN "absent" ELSE IF madeFrom[t] = None THEN "file" ELSE "memory",
     name |-> IF catalog[t] = None THEN None ELSE madeFrom[t],
     batches |-> IF catalog[t] = None \/ madeFrom[t] = None THEN {} ELSE BatchesOf(catalog[t])]

Registry == INSTANCE TableRegistry WITH
    open <- ctx = "alive",
    tables <- [t \in Tables |-> Registered(t)],
    kept <- IF pc = "insert" THEN [retained EXCEPT ![name] = list] ELSE retained

ImplementsRegistry == Registry!Spec
=============================================================================
