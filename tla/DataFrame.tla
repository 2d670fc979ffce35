------------------------------ MODULE DataFrame ------------------------------
(***************************************************************************)
(* GDFDataFrame (datafusion-glib/data-frame.c) and df_data_frame_*() under *)
(* it (src/capi.rs), which report as ErrorReporting says.                  *)
(*                                                                         *)
(* gdf_data_frame_to_table() is followed step by step: Rust runs the plan, *)
(* exports the record batches one by one into a malloc()ed block and the   *)
(* schema with the first of them, fills two out parameters, and C imports  *)
(* what it got.  The two locals C passes as out parameters are not         *)
(* initialised, so that they start with any value of Garbage.  "undefined" *)
(* is the end of a run: a pointer that is wild, or NULL where the callee   *)
(* does not expect it, was dereferenced or freed.                          *)
(***************************************************************************)
EXTENDS ErrorReporting, SequencesExt

CONSTANTS
    Batches,           \* contents of a record batch
    MaxBatches,        \* bound: record batches of a result
    Messages,          \* what an error says: "plain", or with an embedded "NUL"
    Garbage            \* values of an uninitialised pointer: "NULL" and "wild"

ASSUME DataFrameAssumption ==
    /\ MaxBatches \in Nat
    /\ Messages \subseteq {"plain", "NUL"}
    /\ Garbage \subseteq {"NULL", "wild"}

VARIABLES
    frame,             \* "none", a GDFDataFrame ("frame"), or one around NULL ("hollow")
    pc, fn,            \* the running call, or the last one
    ran,               \* the query of that call: "not yet", "ok", or how it failed
    collected,         \* the record batches it yielded
    rs_record_batches, \* those not exported yet
    slots,             \* c_abi_record_batches[0 .. i - 1]
    block,             \* c_abi_record_batches itself is allocated
    schema_out,        \* what C's local c_abi_schema holds
    batches_out,       \* and its local c_abi_record_batches
    record_batches,    \* those C imported
    df_error,          \* the code of a DFError that nobody freed yet
    result, error      \* what the call returned, and the code of the GError it set

export == <<collected, rs_record_batches, slots, block, schema_out, batches_out>>
answer == <<df_error, result, error>>
vars == <<frame, pc, fn, ran, export, record_batches, answer>>

Results == SeqOf(Batches, MaxBatches)
CodesOfErrors == {DFErrorCode[i] : i \in DOMAIN DFErrorCode}
CodesOfGErrors == {GDFError[i] : i \in DOMAIN GDFError} \cup {"unknown", "garrow"}

TypeOK ==
    /\ frame \in {"none", "frame", "hollow"}
    /\ pc \in {"idle", "collect", "convert", "failed", "import_schema", "import", "undefined"}
    /\ fn \in {"none", "sql", "show", "write_parquet", "to_table"}
    /\ ran \in Kinds \cup {"not yet", "ok"}
    /\ collected \in Results
    /\ rs_record_batches \in Results
    /\ slots \in Results
    /\ record_batches \in Results
    /\ block \in BOOLEAN
    /\ schema_out \in Garbage \cup {"NULL", "schema"}
    /\ batches_out \in Garbage \cup {"NULL", "block"}
    /\ df_error \in CodesOfErrors \cup {"NULL"}
    /\ result \in {"none", "success", "failure"}
    /\ error \in CodesOfGErrors \cup {"NULL"}

Init ==
    /\ frame = "none"
    /\ pc = "idle"
    /\ fn = "none"
    /\ ran = "not yet"
    /\ collected = <<>>
    /\ rs_record_batches = <<>>
    /\ slots = <<>>
    /\ block = FALSE
    /\ schema_out = "NULL"
    /\ batches_out = "NULL"
    /\ record_batches = <<>>
    /\ df_error = "NULL"
    /\ result = "none"
    /\ error = "NULL"
-----------------------------------------------------------------------------
Idle == pc = "idle"

(* Definitions named Mutant... are defects this code could have; no        *)
(* specification uses them, and each breaks a property stated below.       *)

QueryFailed == ran \in Kinds

(* What the query of a call may fail with; a text that is not UTF-8 fails  *)
(* before, and says so plainly.                                            *)
Failures == [kind : DataFusionErrors, message : Messages]
NotUtf8 == [kind |-> "Utf8Error", message |-> "plain"]

(* What the call finds in df_error, and the GError it makes of it.         *)
Reported(failure) == df_error_set(failure.kind, failure.message)
GErrorOf(failure) == GErrorCode(Reported(failure))

(* A call without intermediate state returns r, with the GError set or not.*)
Returns(f, outcome, r, e) ==
    /\ fn' = f
    /\ ran' = outcome
    /\ result' = r
    /\ error' = e
    /\ UNCHANGED <<pc, export, record_batches, df_error>>

(* df_error_get_code() and df_error_get_message() of a NULL df_error, and  *)
(* df_data_frame_*() of a NULL data frame.                                 *)
Undefined(f, outcome) ==
    /\ pc' = "undefined"
    /\ fn' = f
    /\ ran' = outcome
    /\ result' = "none"
    /\ UNCHANGED <<frame, export, record_batches, df_error, error>>

SqlSucceeds ==
    /\ Idle
    /\ frame = "none"
    /\ frame' = "frame"
    /\ Returns("sql", "ok", "success", "NULL")

(* gdf_session_context_sql() looks at df_error and not at the data frame.  *)
SqlFails(failure) ==
    /\ Idle
    /\ frame = "none"
    /\ IF Reported(failure) # "NULL"
          THEN Returns("sql", failure.kind, "failure", GErrorOf(failure)) /\ UNCHANGED frame
          ELSE Returns("sql", failure.kind, "success", "NULL") /\ frame' = "hollow"

(* df_data_frame_free(Option<Box<DFDataFrame>>) takes NULL too.            *)
Finalize ==
    /\ Idle
    /\ frame # "none"
    /\ frame' = "none"
    /\ UNCHANGED <<pc, fn, ran, export, record_batches, answer>>

(* Any call on a frame around NULL.                                        *)
UseHollow(f) ==
    /\ Idle
    /\ frame = "hollow"
    /\ Undefined(f, "not yet")
-----------------------------------------------------------------------------
Succeeds(f) ==
    /\ Idle
    /\ frame = "frame"
    /\ Returns(f, "ok", "success", "NULL")
    /\ UNCHANGED frame

(* FALSE without an error.                                                 *)
MutantShowFails(failure) ==
    /\ Idle
    /\ frame = "frame"
    /\ Returns("show", failure.kind, "failure",
               IF Reported(failure) = "NULL" THEN "NULL" ELSE GErrorOf(failure))
    /\ UNCHANGED frame

(* df_data_frame_show() returns nothing: df_error alone tells.             *)
ShowFails(failure) ==
    /\ Idle
    /\ frame = "frame"
    /\ IF Reported(failure) # "NULL"
          THEN Returns("show", failure.kind, "failure", GErrorOf(failure))
          ELSE Returns("show", failure.kind, "success", "NULL")
    /\ UNCHANGED frame

(* The path is UTF-8 or an error, like any failure of the writer.          *)
WriteParquetFails(failure) ==
    /\ Idle
    /\ frame = "frame"
    /\ IF Reported(failure) # "NULL"
          THEN /\ Returns("write_parquet", failure.kind, "failure", GErrorOf(failure))
               /\ UNCHANGED frame
          ELSE Undefined("write_parquet", failure.kind)
-----------------------------------------------------------------------------
(* gdf_data_frame_to_table(), to its call into Rust.                       *)
ToTable ==
    /\ Idle
    /\ frame = "frame"
    /\ pc' = "collect"
    /\ fn' = "to_table"
    /\ ran' = "not yet"
    /\ collected' = <<>>
    /\ slots' = <<>>
    /\ block' = FALSE
    /\ record_batches' = <<>>
    /\ schema_out' \in Garbage
    /\ batches_out' \in Garbage
    /\ result' = "none"
    /\ error' = "NULL"
    /\ UNCHANGED <<frame, rs_record_batches, df_error>>

(* The error path of df_data_frame_export() frees *c_abi_record_batches_out*)
(* unless it is NULL; nothing was written to it yet.                       *)
ExportFails(failure) ==
    /\ ran' = failure.kind
    /\ df_error' = Reported(failure)
    /\ pc' = IF batches_out = "NULL" THEN "failed" ELSE "undefined"
    /\ UNCHANGED <<frame, fn, block, schema_out, batches_out, record_batches, result, error>>

(* The vector of an export that failed half way is used again.             *)
MutantCollect(batches) ==
    /\ pc = "collect"
    /\ pc' = "convert"
    /\ ran' = "ok"
    /\ collected' = batches
    /\ rs_record_batches' = rs_record_batches \o batches
    /\ block' = TRUE
    /\ UNCHANGED <<frame, fn, slots, schema_out, batches_out, record_batches, answer>>

Collect(batches) ==
    /\ pc = "collect"
    /\ pc' = "convert"
    /\ ran' = "ok"
    /\ collected' = batches
    /\ rs_record_batches' = batches
    /\ block' = TRUE
    /\ UNCHANGED <<frame, fn, slots, schema_out, batches_out, record_batches, answer>>

CollectFails(failure) ==
    /\ pc = "collect"
    /\ ExportFails(failure)
    /\ UNCHANGED <<collected, rs_record_batches, slots>>

(* swap_remove(0): the last takes the place of the first.                  *)
MutantRemaining(batches) ==
    IF Len(batches) = 1 THEN <<>> ELSE <<Last(batches)>> \o Front(Tail(batches))

(* rs_record_batches.remove(0).                                            *)
Remaining(batches) == Tail(batches)

(* The schema exported in the second turn.                                 *)
MutantConvert ==
    /\ pc = "convert"
    /\ Len(slots) < Len(collected)
    /\ rs_record_batches' = Remaining(rs_record_batches)
    /\ slots' = Append(slots, Head(rs_record_batches))
    /\ schema_out' = IF slots = <<>> THEN schema_out ELSE "schema"
    /\ UNCHANGED <<frame, pc, fn, ran, collected, block, batches_out, record_batches, answer>>

(* One turn of `for i in 0..n`, where i is Len(slots) and n the number of  *)
(* batches collected; the schema is exported in the first.                 *)
Convert ==
    /\ pc = "convert"
    /\ Len(slots) < Len(collected)
    /\ rs_record_batches' = Remaining(rs_record_batches)
    /\ slots' = Append(slots, Head(rs_record_batches))
    /\ schema_out' = "schema"
    /\ UNCHANGED <<frame, pc, fn, ran, collected, block, batches_out, record_batches, answer>>

(* The schema's error reported and the loop continued.                     *)
MutantConvertFails ==
    /\ pc = "convert"
    /\ Len(slots) < Len(collected)
    /\ slots = <<>>
    /\ ran' = "ArrowError"
    /\ schema_out' = "schema"
    /\ rs_record_batches' = Remaining(rs_record_batches)
    /\ slots' = Append(slots, Head(rs_record_batches))
    /\ UNCHANGED <<frame, pc, fn, collected, block, batches_out, record_batches, answer>>

(* A column type that FFI_ArrowSchema does not support; the message shows  *)
(* it in escaped form.  The block and its first array are left behind.     *)
ConvertFails ==
    /\ pc = "convert"
    /\ Len(slots) < Len(collected)
    /\ slots = <<>>
    /\ rs_record_batches' = Remaining(rs_record_batches)
    /\ slots' = Append(slots, Head(rs_record_batches))
    /\ ExportFails([kind |-> "ArrowError", message |-> "plain"])
    /\ UNCHANGED collected

Converted ==
    /\ pc = "convert"
    /\ Len(slots) = Len(collected)
    /\ pc' = "import_schema"
    /\ batches_out' = "block"
    /\ UNCHANGED <<frame, fn, ran, collected, rs_record_batches, slots, block, schema_out,
                   record_batches, answer>>
-----------------------------------------------------------------------------
(* n < 0, back in C, without df_error_free().                              *)
MutantFailed ==
    /\ pc = "failed"
    /\ IF df_error # "NULL"
          THEN /\ pc' = "idle"
               /\ result' = "failure"
               /\ error' = GErrorCode(df_error)
          ELSE pc' = "undefined" /\ UNCHANGED <<result, error>>
    /\ UNCHANGED <<frame, fn, ran, export, record_batches, df_error>>

(* n < 0, back in C.                                                       *)
Failed ==
    /\ pc = "failed"
    /\ IF df_error # "NULL"
          THEN /\ pc' = "idle"
               /\ df_error' = "NULL"
               /\ result' = "failure"
               /\ error' = GErrorCode(df_error)
          ELSE pc' = "undefined" /\ UNCHANGED answer
    /\ UNCHANGED <<frame, fn, ran, export, record_batches>>

(* garrow_schema_import(): what it does not like, or never was exported,   *)
(* leaves no schema to import the record batches with.                     *)
ImportSchema ==
    /\ pc = "import_schema"
    /\ \/ schema_out = "schema" /\ pc' = "import" /\ UNCHANGED error
       \/ schema_out = "schema" /\ pc' = "undefined" /\ error' = "garrow"
       \/ schema_out # "schema" /\ pc' = "undefined" /\ UNCHANGED error
    /\ UNCHANGED <<frame, fn, ran, export, record_batches, df_error, result>>

(* A record batch that is not imported is a NULL in the table's input.     *)
Import ==
    /\ pc = "import"
    /\ Len(record_batches) < Len(slots)
    /\ \/ /\ record_batches' = Append(record_batches, slots[Len(record_batches) + 1])
          /\ UNCHANGED <<pc, error>>
       \/ /\ pc' = "undefined"
          /\ error' = "garrow"
          /\ UNCHANGED record_batches
    /\ UNCHANGED <<frame, fn, ran, export, df_error, result>>

(* The table's error returned before the block is freed.                   *)
MutantNewTable ==
    /\ pc = "import"
    /\ Len(record_batches) = Len(slots)
    /\ pc' = "idle"
    /\ \/ result' = "success" /\ block' = FALSE /\ UNCHANGED error
       \/ result' = "failure" /\ error' = "garrow" /\ UNCHANGED block
    /\ UNCHANGED <<frame, fn, ran, collected, rs_record_batches, slots, schema_out, batches_out,
                   record_batches, df_error>>

(* free(), garrow_table_new_record_batches() and the return.               *)
NewTable ==
    /\ pc = "import"
    /\ Len(record_batches) = Len(slots)
    /\ pc' = "idle"
    /\ block' = FALSE
    /\ \/ result' = "success" /\ UNCHANGED error
       \/ result' = "failure" /\ error' = "garrow"
    /\ UNCHANGED <<frame, fn, ran, collected, rs_record_batches, slots, schema_out, batches_out,
                   record_batches, df_error>>

Next ==
    \/ SqlSucceeds
    \/ \E e \in Failures \cup {NotUtf8} : SqlFails(e) \/ WriteParquetFails(e)
    \/ Finalize
    \/ \E f \in {"show", "write_parquet", "to_table"} : UseHollow(f)
    \/ \E f \in {"show", "write_parquet"} : Succeeds(f)
    \/ \E e \in Failures : ShowFails(e) \/ CollectFails(e)
    \/ ToTable
    \/ \E batches \in Results : Collect(batches)
    \/ Convert
    \/ ConvertFails
    \/ Converted
    \/ Failed
    \/ ImportSchema
    \/ Import
    \/ NewTable

Spec == Init /\ [][Next]_vars
-----------------------------------------------------------------------------
(* A table that to_table() returns is the whole result of the query: every *)
(* record batch, once, in its order, through export, the out parameters    *)
(* and import.                                                             *)
TableIsWhole ==
    Idle /\ fn = "to_table" /\ result = "success" =>
        ran = "ok" /\ record_batches = collected

(* A caller that gets NULL or FALSE also gets a GError, one that gets a    *)
(* result gets none.                                                       *)
FailuresAreExplained ==
    Idle => (error # "NULL" <=> result = "failure")

(* A failure of the query keeps its kind through two enumerations declared *)
(* apart and the int between them: the GError has the code that error.h    *)
(* documents for it, and no other kind's where it documents none.          *)
ErrorsAreNamed ==
    Idle /\ QueryFailed /\ result = "failure" => error = Documented[ran]

(* The malloc()ed block of record batches is freed by C, or an export that *)
(* could not convert the schema of its first batch left it behind: no      *)
(* other way through the two functions that share it loses it.             *)
BlockIsFreed ==
    Idle /\ fn = "to_table" /\ block => ran = "ArrowError" /\ slots # <<>>

(* The DFError of to_table() is freed before the call returns, also when   *)
(* the failure came half way through the export.                           *)
ErrorsAreFreed ==
    Idle => df_error = "NULL"

(* A call that looks at what Rust returned, and not at df_error alone as   *)
(* sql() and show() do, never takes a failure for a result, at whatever    *)
(* step of the export it came and whatever its message.                    *)
NoFailureIsHidden ==
    Idle /\ QueryFailed /\ fn \in {"write_parquet", "to_table"} => result = "failure"

(* A run that ends in undefined behaviour got there in one of these ways:  *)
(* the frame was made from a failed sql(); a failure could not be kept in  *)
(* df_error; to_table() met a failure while its local held garbage; or the *)
(* query was fine and had no rows, or garrow refused to import it.  No     *)
(* other order of the two functions' steps dereferences a pointer that     *)
(* nobody set.                                                             *)
CrashesAreKnown ==
    pc = "undefined" =>
        \/ frame = "hollow"
        \/ QueryFailed /\ df_error = "NULL"
        \/ fn = "to_table" /\ QueryFailed /\ batches_out # "NULL"
        \/ fn = "to_table" /\ ran = "ok" /\ (collected = <<>> \/ error = "garrow")

(* to_table() is "A #GArrowTable of this data frame, %NULL on error"       *)
(* (data-frame.c:196): a query that fails makes it return.                 *)
ToTableReturnsOnError ==
    fn = "to_table" /\ QueryFailed => pc # "undefined"

(* The same line, for a query without rows: a result of no record batches  *)
(* has a table too.                                                        *)
NoRowsMakeATable ==
    fn = "to_table" /\ ran = "ok" /\ collected = <<>> => pc # "undefined"

(* sql() is "The executed result as #GDFDataFrame, %NULL on error"         *)
(* (session-context.c:139).                                                *)
SqlReturnsNullOnError ==
    fn = "sql" /\ QueryFailed => frame = "none"
=============================================================================
