--------------------------- MODULE ErrorReporting ---------------------------
(***************************************************************************)
(* How a failure in Rust gets its code: into_df_error() chooses a          *)
(* DFErrorCode, df_error_set() keeps it, C passes its number to            *)
(* g_set_error() as it is (src/capi.rs, every datafusion-glib/*.c), and    *)
(* who reads the GError takes that number for a GDFError                   *)
(* (datafusion-glib/error.h).  The two enumerations are declared apart, so *)
(* that a number means what stands at its place in each.                   *)
(***************************************************************************)
EXTENDS Naturals, Sequences

(* Definitions named Mutant... are defects this code could have; no        *)
(* specification uses them, and each breaks a property.                    *)

(* Avro declared only where its feature is on, as it is matched.           *)
MutantDFErrorCode ==
    <<"Arrow", "Parquet", "ObjectStore", "IO", "SQL", "NotImplemented", "Internal", "Plan",
      "Schema", "Execution", "ResourcesExhausted", "External", "Context", "Substrait">>

DFErrorCode ==
    <<"Arrow", "Parquet", "Avro", "ObjectStore", "IO", "SQL", "NotImplemented", "Internal",
      "Plan", "Schema", "Execution", "ResourcesExhausted", "External", "JIT", "Context",
      "Substrait">>

GDFError ==
    <<"ARROW", "PARQUET", "AVRO", "OBJECT_STORE", "IO", "SQL", "NOT_IMPLEMENTED", "INTERNAL",
      "PLAN", "SCHEMA", "EXECUTION", "RESOURCES_EXHAUSTED", "EXTERNAL", "JIT">>

(* The arms of the four into_df_error(), those of features that are off    *)
(* left out.  What a DataFusionError::Context wraps is not looked at.      *)
into_df_error ==
    [ArrowError |-> "Arrow", ParquetError |-> "Parquet", ObjectStore |-> "ObjectStore",
     IoError |-> "IO", SQL |-> "SQL", NotImplemented |-> "NotImplemented",
     Internal |-> "Internal", Plan |-> "Plan", SchemaError |-> "Schema",
     Execution |-> "Execution", ResourcesExhausted |-> "ResourcesExhausted",
     External |-> "External", Context |-> "Context", Substrait |-> "Substrait",
     Utf8Error |-> "External", IntoStringError |-> "External"]

Kinds == DOMAIN into_df_error
DataFusionErrors == Kinds \ {"Utf8Error", "IntoStringError"}

(* CString::new() refuses a message with a NUL, and no error is set.       *)
df_error_set(kind, message) == IF message = "plain" THEN into_df_error[kind] ELSE "NULL"

(* The GDFError that has the number of a DFErrorCode, if there is one.     *)
PlaceOf(code) == CHOOSE i \in DOMAIN DFErrorCode : DFErrorCode[i] = code
GErrorCode(code) ==
    IF PlaceOf(code) \in DOMAIN GDFError THEN GDFError[PlaceOf(code)] ELSE "unknown"
-----------------------------------------------------------------------------
(* What error.h:28-50 says of each code, by kind of failure; it has none   *)
(* for a Context or a Substrait error.                                     *)
Documented ==
    [ArrowError |-> "ARROW", ParquetError |-> "PARQUET", ObjectStore |-> "OBJECT_STORE",
     IoError |-> "IO", SQL |-> "SQL", NotImplemented |-> "NOT_IMPLEMENTED",
     Internal |-> "INTERNAL", Plan |-> "PLAN", SchemaError |-> "SCHEMA",
     Execution |-> "EXECUTION", ResourcesExhausted |-> "RESOURCES_EXHAUSTED",
     External |-> "EXTERNAL", Context |-> "unknown", Substrait |-> "unknown",
     Utf8Error |-> "EXTERNAL", IntoStringError |-> "EXTERNAL"]
=============================================================================
