-------------------------- MODULE ParquetReadOptions --------------------------
(***************************************************************************)
(* GDFParquetReadOptions (datafusion-glib/parquet-read-options.c), the     *)
(* DFParquetReadOptions under it, and the tables that                      *)
(* df_session_context_register_parquet() makes from a clone of it          *)
(* (src/capi.rs).                                                          *)
(*                                                                         *)
(* What matters here is how a setting travels: from the caller to Rust,    *)
(* with a mirror in C or without, from there into a table, and from the    *)
(* table into each reading of it.  The reference counts of the schema that *)
(* says the partition columns are in ReadOptions, whose code is the same.  *)
(* A setter or a registration that fails changes nothing here and has no   *)
(* action.                                                                 *)
(***************************************************************************)
CONSTANTS
    Tables,
    Columns,           \* what a schema of partition columns may say
    NameAndType,       \* the part of it that Rust keeps
    Buffers,           \* strings of the caller
    Extensions,        \* contents of such a string
    Utf8Extensions,
    Default,           \* ".parquet", a string in static memory
    KeepsBuffers,      \* the caller never changes or frees a string these options borrow
    None

ASSUME ParquetAssumption ==
    /\ NameAndType \in [Columns -> Columns]
    /\ Utf8Extensions \subseteq Extensions
    /\ Default \in Utf8Extensions
    /\ KeepsBuffers \in BOOLEAN
    /\ None \notin Columns
    /\ None \notin Buffers
    /\ None \notin BOOLEAN

Pruning == BOOLEAN \cup {None}          \* Option<bool>
Settings == [pruning : Pruning, extension : Extensions, columns : Columns \cup {None}]
Answers == [asked : Pruning, pruning : BOOLEAN, is_set : BOOLEAN, extension : Extensions,
            columns : Columns \cup {None}]

ASSUME NoTableAssumption == None \notin Settings \cup Answers

VARIABLES
    object,            \* the GObject: "none", "alive", or "disposed" and not yet finalized
    file_extension,    \* priv->file_extension, a copy
    table_partition_columns, \* what the schema in priv says
    rs_pruning,        \* options.options.parquet_pruning
    rs_extension,      \* options.options.file_extension: a &str into this buffer, None: static
    rs_columns,        \* options.options.table_partition_cols
    tables,            \* what a table reads its files with; None: no such table
    session,           \* datafusion.execution.parquet.pruning of the session
    buffer,            \* what each string of the caller holds
    asked,             \* history: the pruning the caller last asked these options for
    told               \* history: what was asked and what each getter told, when t was registered

mirror == <<file_extension, table_partition_columns>>
options == <<rs_pruning, rs_extension, rs_columns>>
registered == <<tables, told>>
vars == <<object, mirror, options, registered, session, buffer, asked>>

TypeOK ==
    /\ object \in {"none", "alive", "disposed"}
    /\ file_extension \in Extensions
    /\ table_partition_columns \in Columns \cup {None}
    /\ rs_pruning \in Pruning
    /\ rs_extension \in Buffers \cup {None}
    /\ rs_columns \in Columns \cup {None}
    /\ tables \in [Tables -> Settings \cup {None}]
    /\ told \in [Tables -> Answers \cup {None}]
    /\ session \in BOOLEAN
    /\ buffer \in [Buffers -> Extensions]
    /\ asked \in Pruning
-----------------------------------------------------------------------------
(* The strings the Rust options may point to.                              *)
ExtensionOf(e) == IF e = None THEN Default ELSE buffer[e]

(* DFParquetReadOptions::new(): everything DataFusion's default.           *)
NewOptions ==
    /\ rs_pruning' = None
    /\ rs_extension' = None
    /\ rs_columns' = None

Init ==
    /\ object = "none"
    /\ file_extension = Default
    /\ table_partition_columns = None
    /\ rs_pruning = None
    /\ rs_extension = None
    /\ rs_columns = None
    /\ tables = [t \in Tables |-> None]
    /\ told = [t \in Tables |-> None]
    /\ session \in BOOLEAN
    /\ buffer \in [Buffers -> Extensions]
    /\ asked = None

(* The extension the new options start with is copied.                     *)
New ==
    /\ object = "none"
    /\ object' = "alive"
    /\ NewOptions
    /\ file_extension' = Default
    /\ table_partition_columns' = None
    /\ asked' = None
    /\ UNCHANGED <<registered, session, buffer>>

Dispose ==
    /\ object = "alive"
    /\ object' = "disposed"
    /\ table_partition_columns' = None
    /\ UNCHANGED <<file_extension, options, registered, session, buffer, asked>>

Finalize ==
    /\ object = "disposed"
    /\ object' = "none"
    /\ UNCHANGED <<mirror, options, registered, session, buffer, asked>>
-----------------------------------------------------------------------------
(* The property "pruning" of the GObject.                                  *)
SetPruning(p) ==
    /\ object = "alive"
    /\ rs_pruning' = p
    /\ asked' = p
    /\ UNCHANGED <<object, mirror, rs_extension, rs_columns, registered, session, buffer>>

(* Unset taken for the default of the property.                            *)
MutantUnsetPruning ==
    /\ object = "alive"
    /\ rs_pruning' = FALSE
    /\ asked' = None
    /\ UNCHANGED <<object, mirror, rs_extension, rs_columns, registered, session, buffer>>

UnsetPruning ==
    /\ object = "alive"
    /\ rs_pruning' = None
    /\ asked' = None
    /\ UNCHANGED <<object, mirror, rs_extension, rs_columns, registered, session, buffer>>

(* Rust borrows the string, C copies it; an equal string is not passed on. *)
SetExtension(b) ==
    /\ object = "alive"
    /\ buffer[b] \in Utf8Extensions
    /\ file_extension # buffer[b]
    /\ rs_extension' = b
    /\ file_extension' = buffer[b]
    /\ UNCHANGED <<object, table_partition_columns, rs_pruning, rs_columns, registered,
                   session, buffer, asked>>

(* set_table_partition_columns(NULL) that leaves Rust with the old ones.   *)
MutantGivenColumns(c) == IF c = None THEN rs_columns ELSE NameAndType[c]
GivenColumns(c) == IF c = None THEN None ELSE NameAndType[c]

SetColumns(c) ==
    /\ object = "alive"
    /\ rs_columns' = GivenColumns(c)
    /\ table_partition_columns' = c
    /\ UNCHANGED <<object, file_extension, rs_pruning, rs_extension, registered, session,
                   buffer, asked>>
-----------------------------------------------------------------------------
(* The getter of the property: options without a value say FALSE.          *)
GetPruning == rs_pruning = TRUE

(* unwrap_or(false) here too: a value of FALSE is taken for none.          *)
MutantIsSetPruning == rs_pruning = TRUE

IsSetPruning == rs_pruning # None

(* What the getters answer, and the pruning that was asked for.            *)
Told ==
    [asked |-> asked, pruning |-> GetPruning, is_set |-> IsSetPruning,
     extension |-> file_extension, columns |-> table_partition_columns]

Untold ==
    [asked |-> None, pruning |-> FALSE, is_set |-> FALSE, extension |-> Default, columns |-> None]

Defaults == [pruning |-> None, extension |-> Default, columns |-> None]

(* The table with the pointer of the options instead of its own string.    *)
MutantCloned == [pruning |-> rs_pruning, extension |-> rs_extension, columns |-> rs_columns]

(* options.clone(), of which DataFusion makes its own listing options.     *)
Cloned == [pruning |-> rs_pruning, extension |-> ExtensionOf(rs_extension), columns |-> rs_columns]

RegisterParquet(t) ==
    /\ object = "alive"
    /\ tables' = [tables EXCEPT ![t] = Cloned]
    /\ told' = [told EXCEPT ![t] = Told]
    /\ UNCHANGED <<object, mirror, options, session, buffer, asked>>

(* gdf_session_context_register_parquet() with options = NULL.             *)
RegisterWithoutOptions(t) ==
    /\ tables' = [tables EXCEPT ![t] = Defaults]
    /\ told' = [told EXCEPT ![t] = Untold]
    /\ UNCHANGED <<object, mirror, options, session, buffer, asked>>

Deregister(t) ==
    /\ tables[t] # None
    /\ tables' = [tables EXCEPT ![t] = None]
    /\ told' = [told EXCEPT ![t] = None]
    /\ UNCHANGED <<object, mirror, options, session, buffer, asked>>

(* SET datafusion.execution.parquet.pruning through sql().                 *)
SetSession(p) ==
    /\ session' = p
    /\ UNCHANGED <<object, mirror, options, registered, buffer, asked>>

(* The caller frees or overwrites a string; a freed string holds whatever  *)
(* is allocated there next.  Nothing in the code asks it to wait until the *)
(* options are gone: KeepsBuffers is a caller that does.                   *)
ReuseBuffer(b, e) ==
    /\ KeepsBuffers /\ object # "none" => rs_extension # b
    /\ buffer' = [buffer EXCEPT ![b] = e]
    /\ UNCHANGED <<object, mirror, options, registered, session, asked>>

Next ==
    \/ New
    \/ Dispose
    \/ Finalize
    \/ \E p \in BOOLEAN : SetPruning(p) \/ SetSession(p)
    \/ UnsetPruning
    \/ \E b \in Buffers : SetExtension(b)
    \/ \E c \in Columns \cup {None} : SetColumns(c)
    \/ \E t \in Tables : RegisterParquet(t) \/ RegisterWithoutOptions(t) \/ Deregister(t)
    \/ \E b \in Buffers, e \in Extensions : ReuseBuffer(b, e)

Spec == Init /\ [][Next]_vars
-----------------------------------------------------------------------------
(* Whether a reader with setting p prunes: a value of its own "overrides a *)
(* configuration on #DFSessionContext" (parquet-read-options.c:137), which *)
(* is looked up when the table is read.                                    *)
Prunes(p) == IF p = None THEN session ELSE p

(* For a caller that keeps its strings as long as the options borrow them, *)
(* a table reads its files with the extension and the partition columns    *)
(* the getters told when it was registered, whatever became since of the   *)
(* options and of the strings and schemas they were set from.  A caller    *)
(* that does not registers tables with another extension than it was told. *)
TablesReadAsTold ==
    \A t \in Tables : tables[t] # None =>
        /\ tables[t].extension = told[t].extension
        /\ tables[t].columns = IF told[t].columns = None THEN None ELSE NameAndType[told[t].columns]

(* A table prunes as its options were last asked to before it was          *)
(* registered, and one whose options have no value, or had theirs unset,   *)
(* follows the session, also where that changes later.                     *)
TablesPruneAsAsked ==
    \A t \in Tables : tables[t] # None => Prunes(tables[t].pruning) = Prunes(told[t].asked)

(* The getter of the property answers FALSE for options without a value,   *)
(* which may prune: only with gdf_parquet_read_options_is_set_pruning() it *)
(* tells what a table registered then does.                                *)
TablesPruneAsTold ==
    \A t \in Tables : tables[t] # None =>
        Prunes(tables[t].pruning) = IF told[t].is_set THEN told[t].pruning ELSE session
-----------------------------------------------------------------------------
(* The options implement FileOptions for a caller that keeps its strings:  *)
(* the extension and the name and type of the partition columns that the   *)
(* getters tell, and the pruning that was asked for, are the settings a    *)
(* caller chose; they go into a table together, and no step of the options,*)
(* the session or, later, the strings changes them there.                  *)
Chosen ==
    [pruning |-> asked, extension |-> file_extension,
     columns |-> IF table_partition_columns = None THEN None
                 ELSE NameAndType[table_partition_columns]]

Promise == INSTANCE FileOptions WITH
    Choices <- [pruning |-> Pruning, extension |-> Utf8Extensions, columns |-> Columns \cup {None}],
    open <- object = "alive",
    chosen <- IF object = "alive" THEN Chosen ELSE Defaults

ImplementsFileOptions == Promise!Spec
=============================================================================
