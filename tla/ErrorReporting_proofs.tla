----------------------- MODULE ErrorReporting_proofs ------------------------
(***************************************************************************)
(* What the two enumerations and the int between them make of each kind of *)
(* failure.                                                                *)
(***************************************************************************)
EXTENDS ErrorReporting, TLAPS

LEMMA KindsAre ==
  Kinds = {"ArrowError", "ParquetError", "ObjectStore", "IoError", "SQL", "NotImplemented",
           "Internal", "Plan", "SchemaError", "Execution", "ResourcesExhausted", "External",
           "Context", "Substrait", "Utf8Error", "IntoStringError"}
  BY DEF Kinds, into_df_error

(* No enumerator is declared twice.                                        *)
LEMMA PlaceIsUnique ==
  ASSUME NEW i \in 1 .. 16
  PROVE  PlaceOf(DFErrorCode[i]) = i
<1>1. DOMAIN DFErrorCode = 1 .. 16
  BY DEF DFErrorCode
<1>2. \A j \in 1 .. 16 : DFErrorCode[j] = DFErrorCode[i] => j = i
  BY DEF DFErrorCode
<1> QED
  BY <1>1, <1>2 DEF PlaceOf

(* Each kind of failure ends as the code that error.h documents for it.    *)
THEOREM CodesAreDocumented ==
  ASSUME NEW k \in Kinds
  PROVE  GErrorCode(into_df_error[k]) = Documented[k]
<1>1. DOMAIN GDFError = 1 .. 14
  BY DEF GDFError
<1>2. ASSUME NEW i \in 1 .. 14 PROVE GErrorCode(DFErrorCode[i]) = GDFError[i]
  BY <1>1, <1>2, PlaceIsUnique DEF GErrorCode
<1>3. ASSUME NEW i \in {15, 16} PROVE GErrorCode(DFErrorCode[i]) = "unknown"
  BY <1>1, <1>3, PlaceIsUnique DEF GErrorCode
<1>4. CASE k \in {"ArrowError", "ParquetError", "ObjectStore", "IoError", "SQL"}
  BY <1>2, <1>4 DEF DFErrorCode, GDFError, into_df_error, Documented
<1>5. CASE k \in {"NotImplemented", "Internal", "Plan", "SchemaError", "Execution"}
  BY <1>2, <1>5 DEF DFErrorCode, GDFError, into_df_error, Documented
<1>6. CASE k \in {"ResourcesExhausted", "External", "Utf8Error", "IntoStringError"}
  BY <1>2, <1>6 DEF DFErrorCode, GDFError, into_df_error, Documented
<1>7. CASE k \in {"Context", "Substrait"}
  BY <1>3, <1>7 DEF DFErrorCode, into_df_error, Documented
<1> QED
  BY <1>4, <1>5, <1>6, <1>7, KindsAre
=============================================================================
