--------------------------- MODULE WriterProperties ---------------------------
(***************************************************************************)
(* GDFParquetWriterProperties and gdf_data_frame_write_parquet()           *)
(* (datafusion-glib/data-frame.c) with DFParquetWriterProperties and       *)
(* df_data_frame_write_parquet() under them (src/capi.rs).                 *)
(*                                                                         *)
(* The limit is a guint64 for C and a usize for Rust, where it becomes a   *)
(* setting of the parquet crate only when a file is written.  One object   *)
(* may be changed between writes, and a file keeps the limit of its time.  *)
(* What a failure says is in DataFrame; here it writes nothing.            *)
(***************************************************************************)
EXTENDS Integers

CONSTANTS
    Properties,        \* addresses of GDFParquetWriterProperties
    Paths,
    Sizes,             \* values of guint64
    UsizeValues,       \* how many values a usize has: 2^32 or 2^64
    DefaultSize,       \* what the parquet crate takes for a limit that is not set
    Rows,              \* how many rows a result may have
    None

ASSUME WriterAssumption ==
    /\ Sizes \subseteq Nat
    /\ UsizeValues \in Nat \ {0}
    /\ DefaultSize \in Nat \ {0}
    /\ Rows \subseteq Nat
    /\ None \notin Nat
    /\ None \notin Properties

VARIABLES
    objects,           \* the GDFParquetWriterProperties there are
    max_row_group_size,\* DFParquetWriterProperties.max_row_group_size, an Option<usize>
    asked,             \* history: the size the caller set last
    files,             \* what was written to each path
    pc                 \* "idle", or "panic": write_parquet() did not come back

vars == <<objects, max_row_group_size, asked, files, pc>>

Limits == Nat \cup {None}
Files == [rows : Nat, largest : Nat, asked : Limits]

ASSUME NoFileAssumption == None \notin Files

TypeOK ==
    /\ objects \subseteq Properties
    /\ max_row_group_size \in [Properties -> Limits]
    /\ asked \in [Properties -> Limits]
    /\ files \in [Paths -> Files \cup {None}]
    /\ pc \in {"idle", "panic"}

Init ==
    /\ objects = {}
    /\ max_row_group_size = [p \in Properties |-> None]
    /\ asked = [p \in Properties |-> None]
    /\ files = [f \in Paths |-> None]
    /\ pc = "idle"
-----------------------------------------------------------------------------
(* A limit that outlives its object, at whose address the next one is.     *)
MutantNew(p) ==
    /\ pc = "idle"
    /\ p \notin objects
    /\ objects' = objects \cup {p}
    /\ asked' = [asked EXCEPT ![p] = None]
    /\ UNCHANGED <<max_row_group_size, files, pc>>

(* Both sides are made; the address may be that of an object that is gone. *)
New(p) ==
    /\ pc = "idle"
    /\ p \notin objects
    /\ objects' = objects \cup {p}
    /\ max_row_group_size' = [max_row_group_size EXCEPT ![p] = None]
    /\ asked' = [asked EXCEPT ![p] = None]
    /\ UNCHANGED <<files, pc>>

Finalize(p) ==
    /\ pc = "idle"
    /\ p \in objects
    /\ objects' = objects \ {p}
    /\ UNCHANGED <<max_row_group_size, asked, files, pc>>

(* A signed type on the way: the upper half becomes negative.              *)
MutantUsize(size) ==
    IF 2 * (size % UsizeValues) < UsizeValues THEN size % UsizeValues
                                              ELSE (size % UsizeValues) - UsizeValues

(* C converts a guint64 to the width of usize.                             *)
Usize(size) == size % UsizeValues

SetMaxRowGroupSize(p, size) ==
    /\ pc = "idle"
    /\ p \in objects
    /\ max_row_group_size' = [max_row_group_size EXCEPT ![p] = Usize(size)]
    /\ asked' = [asked EXCEPT ![p] = size]
    /\ UNCHANGED <<objects, files, pc>>
-----------------------------------------------------------------------------
(* builder.set_max_row_group_size(size) whose result is not assigned.      *)
MutantBuild(limit) == DefaultSize

(* DFParquetWriterProperties::build().                                     *)
Build(limit) == IF limit = None THEN DefaultSize ELSE limit

LimitOf(p) == IF p = None THEN None ELSE max_row_group_size[p]
AskedOf(p) == IF p = None THEN None ELSE asked[p]

(* The writer starts a row group when the last one is full.                *)
Largest(rows, limit) == IF rows < limit THEN rows ELSE limit

(* A path is written anew, with the properties p or with NULL.             *)
WriteParquet(path, p, rows) ==
    /\ pc = "idle"
    /\ LimitOf(p) # 0
    /\ files' = [files EXCEPT ![path] =
           [rows |-> rows, largest |-> Largest(rows, Build(LimitOf(p))), asked |-> AskedOf(p)]]
    /\ UNCHANGED <<objects, max_row_group_size, asked, pc>>

(* The builder of the parquet crate asserts a limit above zero, and this   *)
(* is the panic of an extern "C" function, which returns nothing.          *)
BuildPanics(p) ==
    /\ pc = "idle"
    /\ LimitOf(p) = 0
    /\ pc' = "panic"
    /\ UNCHANGED <<objects, max_row_group_size, asked, files>>

Next ==
    \/ \E p \in Properties : New(p) \/ Finalize(p)
    \/ \E p \in Properties, size \in Sizes : SetMaxRowGroupSize(p, size)
    \/ \E path \in Paths, p \in objects \cup {None}, rows \in Rows : WriteParquet(path, p, rows)
    \/ \E p \in objects \cup {None} : BuildPanics(p)

Spec == Init /\ [][Next]_vars
-----------------------------------------------------------------------------
(* No row group of a file is larger than the size its caller had set, on   *)
(* any width of usize: a size that does not fit becomes a smaller one.     *)
RowGroupsAreBounded ==
    \A f \in Paths : files[f] # None /\ files[f].asked # None =>
        files[f].largest <= files[f].asked

(* A size that fits is used as it is, and without one the default, also    *)
(* when a new object took the address of one with a limit: row groups are  *)
(* no smaller than they have to be.                                        *)
RowGroupsAreFull ==
    \A f \in Paths : files[f] # None =>
        \/ files[f].asked = None /\ files[f].largest = Largest(files[f].rows, DefaultSize)
        \/ /\ files[f].asked # None
           /\ files[f].asked < UsizeValues => files[f].largest = Largest(files[f].rows, files[f].asked)

(* Only a size the caller set itself makes write_parquet() panic: zero, or *)
(* one that becomes zero as a usize.                                       *)
OnlyZeroPanics ==
    pc = "panic" => \E p \in objects : asked[p] # None /\ asked[p] % UsizeValues = 0

(* write_parquet() "Returns: %TRUE on success, %FALSE otherwise."          *)
(* (data-frame.c:246), whatever "maximum number of rows" was set.          *)
WriteParquetReturns ==
    pc # "panic"
=============================================================================
