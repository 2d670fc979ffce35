----------------------------- MODULE ReadOptions -----------------------------
(***************************************************************************)
(* GDFCSVReadOptions (datafusion-glib/csv-read-options.c) and the          *)
(* DFCSVReadOptions under it (src/capi.rs).  The C object mirrors what it  *)
(* gave to Rust, its getters answer from the mirror, and registering a     *)
(* file uses the Rust side.  GDFParquetReadOptions has the same code for   *)
(* the extension and the partition columns.  The scalar properties have no *)
(* mirror: g_object_set() checks their range, and they are kept in the     *)
(* Rust struct only, in types of its own.                                  *)
(*                                                                         *)
(* A setter that takes a schema first gives it to Rust and unrefs the old  *)
(* one, then takes its reference on the new one, and these are two steps:  *)
(* the argument may be the value of a (transfer none) getter that nobody   *)
(* else holds.  A setter that fails changes nothing, and has no action.    *)
(***************************************************************************)
EXTENDS Integers

CONSTANTS
    Schemas,           \* addresses of GArrowSchema objects
    Fields,            \* what a schema may say
    NameAndType,       \* the part of it that partition columns keep
    Buffers,           \* strings of the caller
    Extensions,        \* contents of such a string
    Utf8Extensions,
    Default,           \* ".csv", a string in static memory
    Values,            \* of each scalar property, those a caller passes
    UsizeValues,       \* the number of values of a usize
    KeepsBuffers,      \* the caller never changes or frees a string it passed
    None

Properties == {"has-header", "delimiter", "schema-infer-max-n-records"}

(* CsvReadOptions::default(); a comma is 44.                               *)
DefaultScalars ==
    [p \in Properties |-> IF p = "has-header" THEN 1 ELSE IF p = "delimiter" THEN 44 ELSE 1000]

ASSUME OptionsAssumption ==
    /\ NameAndType \in [Fields -> Fields]
    /\ Utf8Extensions \subseteq Extensions
    /\ Default \in Utf8Extensions
    /\ KeepsBuffers \in BOOLEAN
    /\ None \notin Schemas
    /\ None \notin Fields
    /\ None \notin Buffers
    /\ Values \in [Properties -> SUBSET Int]
    /\ \A n \in Values["schema-infer-max-n-records"] : n >= 0
    /\ UsizeValues \in Nat /\ UsizeValues > 1000

VARIABLES
    object,            \* the GObject: "none", "alive", or "disposed" and not yet finalized
    schema,            \* priv->schema
    columns,           \* priv->table_partition_columns
    file_extension,    \* priv->file_extension, a copy
    rs_schema,         \* options.schema, to which options.options.schema points
    rs_columns,        \* options.options.table_partition_cols
    rs_extension,      \* options.options.file_extension: a &str into this buffer, None: static
    scalars,           \* has_header, delimiter and schema_infer_max_records in options.options
    asked,             \* what the caller last set each of them to (history)
    setting, argument, \* the running setter and its schema
    held,              \* schemas the caller holds a reference to
    refs,              \* reference count of each GArrowSchema
    fields,            \* what each schema says
    buffer             \* what each string of the caller holds

mirror == <<schema, columns, file_extension>>
options == <<rs_schema, rs_columns, rs_extension>>
values == <<scalars, asked>>
setter == <<setting, argument>>
objects == <<held, refs, fields>>
vars == <<object, mirror, options, values, setter, objects, buffer>>

TypeOK ==
    /\ object \in {"none", "alive", "disposed"}
    /\ schema \in Schemas \cup {None}
    /\ columns \in Schemas \cup {None}
    /\ file_extension \in Extensions
    /\ rs_schema \in Fields \cup {None}
    /\ rs_columns \in Fields \cup {None}
    /\ rs_extension \in Buffers \cup {None}
    /\ scalars \in [Properties -> Nat]
    /\ asked \in [Properties -> Nat]
    /\ setting \in {"nothing", "schema", "columns"}
    /\ argument \in Schemas \cup {None}
    /\ held \subseteq Schemas
    /\ refs \in [Schemas -> Nat]
    /\ fields \in [Schemas -> Fields]
    /\ buffer \in [Buffers -> Extensions]

Init ==
    /\ object = "none"
    /\ schema = None
    /\ columns = None
    /\ file_extension = Default
    /\ rs_schema = None
    /\ rs_columns = None
    /\ rs_extension = None
    /\ scalars = DefaultScalars
    /\ asked = DefaultScalars
    /\ setting = "nothing"
    /\ argument = None
    /\ held = {}
    /\ refs = [s \in Schemas |-> 0]
    /\ fields \in [Schemas -> Fields]
    /\ buffer \in [Buffers -> Extensions]
-----------------------------------------------------------------------------
Idle == setting = "nothing"
Ready == Idle /\ object = "alive"

(* g_object_unref(): at zero the object is gone and its address free.      *)
Unreferenced(s) ==
    IF s = None THEN refs ELSE [refs EXCEPT ![s] = @ - 1]
(* The reference of the setter forgotten.                                  *)
MutantReferenced(s) == refs
Referenced(s) ==
    IF s = None THEN refs ELSE [refs EXCEPT ![s] = @ + 1]

(* The Rust options are made and the extension they start with is copied.  *)
New ==
    /\ Idle
    /\ object = "none"
    /\ object' = "alive"
    /\ file_extension' = Default
    /\ rs_schema' = None
    /\ rs_columns' = None
    /\ rs_extension' = None
    /\ scalars' = DefaultScalars
    /\ asked' = DefaultScalars
    /\ UNCHANGED <<schema, columns, setter, objects, buffer>>

(* One of the two references, then the other, as in dispose().             *)
Dispose ==
    /\ Ready
    /\ object' = "disposed"
    /\ schema' = None
    /\ columns' = None
    /\ refs' = [s \in Schemas |->
                    (refs[s] - (IF s = schema THEN 1 ELSE 0)) - (IF s = columns THEN 1 ELSE 0)]
    /\ UNCHANGED <<file_extension, options, values, setter, held, fields, buffer>>

Finalize ==
    /\ Idle
    /\ object = "disposed"
    /\ object' = "none"
    /\ UNCHANGED <<mirror, options, values, setter, objects, buffer>>

(* A schema may take the address of one that was freed.                    *)
NewSchema(s, f) ==
    /\ Idle
    /\ refs[s] = 0
    /\ refs' = [refs EXCEPT ![s] = 1]
    /\ held' = held \cup {s}
    /\ fields' = [fields EXCEPT ![s] = f]
    /\ UNCHANGED <<object, mirror, options, values, setter, buffer>>

UnrefSchema(s) ==
    /\ Idle
    /\ s \in held
    /\ held' = held \ {s}
    /\ refs' = Unreferenced(s)
    /\ UNCHANGED <<object, mirror, options, values, setter, fields, buffer>>
-----------------------------------------------------------------------------
(* What a caller may pass: NULL, a schema it holds, or the result of one   *)
(* of the getters, which transfer no reference.                            *)
Passable(s) == s = None \/ s \in held \/ s = schema \/ s = columns

(* set_schema(NULL) that leaves Rust with the old schema.                  *)
MutantGivenSchema(s) == IF s = None THEN rs_schema ELSE fields[s]
GivenSchema(s) == IF s = None THEN None ELSE fields[s]
GivenColumns(s) == IF s = None THEN None ELSE NameAndType[fields[s]]

(* No early return for the schema that is set already.                     *)
MutantSetSchema(s) ==
    /\ Ready
    /\ Passable(s)
    /\ rs_schema' = GivenSchema(s)
    /\ refs' = Unreferenced(schema)
    /\ setting' = "schema"
    /\ argument' = s
    /\ UNCHANGED <<object, mirror, rs_columns, rs_extension, values, held, fields, buffer>>

SetSchema(s) ==
    /\ Ready
    /\ Passable(s)
    /\ s # schema
    /\ rs_schema' = GivenSchema(s)
    /\ refs' = Unreferenced(schema)
    /\ setting' = "schema"
    /\ argument' = s
    /\ UNCHANGED <<object, mirror, rs_columns, rs_extension, values, held, fields, buffer>>

SetColumns(s) ==
    /\ Ready
    /\ Passable(s)
    /\ s # columns
    /\ rs_columns' = GivenColumns(s)
    /\ refs' = Unreferenced(columns)
    /\ setting' = "columns"
    /\ argument' = s
    /\ UNCHANGED <<object, mirror, rs_schema, rs_extension, values, held, fields, buffer>>

(* g_object_ref(schema), or NULL.                                          *)
Keep ==
    /\ ~Idle
    /\ refs' = Referenced(argument)
    /\ IF setting = "schema"
          THEN schema' = argument /\ UNCHANGED columns
          ELSE columns' = argument /\ UNCHANGED schema
    /\ setting' = "nothing"
    /\ argument' = None
    /\ UNCHANGED <<object, file_extension, options, values, held, fields, buffer>>

(* The extension set in Rust and not in the copy.                          *)
MutantSetExtension(b) ==
    /\ Ready
    /\ buffer[b] \in Utf8Extensions
    /\ file_extension # buffer[b]
    /\ rs_extension' = b
    /\ UNCHANGED <<object, mirror, rs_schema, rs_columns, values, setter, objects, buffer>>

(* Rust borrows the string, C copies it; an equal string is not passed on. *)
SetExtension(b) ==
    /\ Ready
    /\ buffer[b] \in Utf8Extensions
    /\ file_extension # buffer[b]
    /\ rs_extension' = b
    /\ file_extension' = buffer[b]
    /\ UNCHANGED <<object, schema, columns, rs_schema, rs_columns, values, setter, objects, buffer>>

(* The caller frees or overwrites a string; a freed string holds whatever  *)
(* is allocated there next.                                                *)
ReuseBuffer(b, e) ==
    /\ Idle
    /\ KeepsBuffers /\ object # "none" => rs_extension # b
    /\ buffer' = [buffer EXCEPT ![b] = e]
    /\ UNCHANGED <<object, mirror, options, values, setter, objects>>

-----------------------------------------------------------------------------
(* What g_object_set() takes for the property's GParamSpec; it warns of    *)
(* anything else and sets nothing.  A guint64 has no smaller values.       *)
InRange(p, v) ==
    /\ p = "has-header" => v \in {0, 1}
    /\ p = "delimiter" => v \in 0 .. 127

(* gboolean to bool, gint8 to u8 and guint64 to usize.                     *)
Converted(p, v) ==
    v % (IF p = "has-header" THEN 2 ELSE IF p = "delimiter" THEN 256 ELSE UsizeValues)

(* A switch without the first break.                                       *)
MutantSetProperty(p, v) ==
    /\ Ready
    /\ InRange(p, v)
    /\ scalars' = [q \in Properties |->
                      IF q = p THEN Converted(p, v)
                      ELSE IF p = "has-header" /\ q = "delimiter" THEN 0 ELSE scalars[q]]
    /\ asked' = [asked EXCEPT ![p] = v]
    /\ UNCHANGED <<object, mirror, options, setter, objects, buffer>>

SetProperty(p, v) ==
    /\ Ready
    /\ InRange(p, v)
    /\ scalars' = [scalars EXCEPT ![p] = Converted(p, v)]
    /\ asked' = [asked EXCEPT ![p] = v]
    /\ UNCHANGED <<object, mirror, options, setter, objects, buffer>>

Next ==
    \/ New
    \/ Dispose
    \/ Finalize
    \/ \E s \in Schemas, f \in Fields : NewSchema(s, f)
    \/ \E s \in Schemas : UnrefSchema(s)
    \/ \E s \in Schemas \cup {None} : SetSchema(s) \/ SetColumns(s)
    \/ Keep
    \/ \E p \in Properties : \E v \in Values[p] : SetProperty(p, v)
    \/ \E b \in Buffers : SetExtension(b)
    \/ \E b \in Buffers, e \in Extensions : ReuseBuffer(b, e)

Spec == Init /\ [][Next]_vars
-----------------------------------------------------------------------------
(* A schema has one reference for the caller and one for each place of the *)
(* options that keeps it, so that dispose() and the setters never free a   *)
(* schema that is in use nor leave one behind.                             *)
RefsBalanced ==
    \A s \in Schemas :
        refs[s] = (IF s \in held THEN 1 ELSE 0)
                    + (IF s = schema /\ setting # "schema" THEN 1 ELSE 0)
                    + (IF s = columns /\ setting # "columns" THEN 1 ELSE 0)

(* A setter never unrefs the schema it was called with to its death, even  *)
(* when that schema came from a getter and only the options hold it.       *)
ArgumentSurvives ==
    argument # None => refs[argument] > 0

(* The getters tell what reading a file will use: the schema the C object  *)
(* keeps says what the Rust options were given, and so do the partition    *)
(* columns, also when a freed schema's address is used again.              *)
SchemasAgree ==
    Ready => /\ rs_schema = IF schema = None THEN None ELSE fields[schema]
             /\ rs_columns = IF columns = None THEN None ELSE NameAndType[fields[columns]]

(* A file is read with the header, the delimiter and the number of records *)
(* last asked for, or the defaults of a new object: no range check, change *)
(* of type or other setter turns one into another value, except that a     *)
(* usize may be too narrow for the number of records.                      *)
ScalarsAgree ==
    Ready => \A p \in Properties :
                 \/ scalars[p] = asked[p]
                 \/ p = "schema-infer-max-n-records" /\ asked[p] >= UsizeValues

(* The extension files are filtered by is the one                          *)
(* gdf_csv_read_options_get_file_extension() returns: "An extension for    *)
(* CSV to be read" (csv-read-options.c:329).                               *)
ExtensionsAgree ==
    Ready => file_extension = IF rs_extension = None THEN Default ELSE buffer[rs_extension]
-----------------------------------------------------------------------------
(* The options implement FileOptions for a caller that keeps its strings:  *)
(* a file is read with the settings chosen one by one, and no setter       *)
(* changes another setting, nor does a schema or a string that is given up *)
(* or whose address is used again.                                         *)
Settings == Properties \cup {"schema", "columns", "extension"}

ReadWith ==
    [p \in Settings |->
        IF p = "schema" THEN rs_schema
        ELSE IF p = "columns" THEN rs_columns
        ELSE IF p = "extension" THEN (IF rs_extension = None THEN Default ELSE buffer[rs_extension])
        ELSE scalars[p]]

NewReadWith ==
    [p \in Settings |->
        IF p \in {"schema", "columns"} THEN None
        ELSE IF p = "extension" THEN Default
        ELSE DefaultScalars[p]]

ReadChoices ==
    [p \in Settings |->
        IF p \in {"schema", "columns"} THEN Fields \cup {None}
        ELSE IF p = "extension" THEN Utf8Extensions
        ELSE {Converted(p, v) : v \in {w \in Values[p] : InRange(p, w)}}]

Promise == INSTANCE FileOptions WITH
    Tables <- {},
    Choices <- ReadChoices,
    Defaults <- NewReadWith,
    open <- object = "alive",
    chosen <- IF object = "alive" THEN ReadWith ELSE NewReadWith,
    tables <- [t \in {} |-> None]

ImplementsFileOptions == Promise!Spec
=============================================================================
