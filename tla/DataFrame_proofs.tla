-------------------------- MODULE DataFrame_proofs --------------------------
(***************************************************************************)
(* Theorems of DataFrame, for every value of its constants.                *)
(*                                                                         *)
(* That a returned table is whole needs, at each step, what part of the    *)
(* result is in which of the three sequences it passes through; that the   *)
(* sequences stay within their type needs the same.                        *)
(***************************************************************************)
EXTENDS DataFrame, ErrorReporting_proofs, SequenceTheorems

LEMMA ResultIsSequence ==
  ASSUME NEW s \in Results
  PROVE  s \in Seq(Batches) /\ Len(s) \in Nat /\ Len(s) <= MaxBatches
<1>1. PICK m \in 0 .. MaxBatches : s \in [1 .. m -> Batches]
  BY DEF Results, SeqOf
<1>2. s \in Seq(Batches) /\ Len(s) = m
  BY <1>1, DataFrameAssumption
<1> QED
  BY <1>2, DataFrameAssumption

LEMMA SequenceIsResult ==
  ASSUME NEW s \in Seq(Batches), Len(s) <= MaxBatches
  PROVE  s \in Results
<1>1. Len(s) \in 0 .. MaxBatches /\ s \in [1 .. Len(s) -> Batches]
  BY LenProperties, DataFrameAssumption
<1> QED
  BY <1>1 DEF Results, SeqOf

LEMMA EmptyIsResult == <<>> \in Results
<1>1. <<>> \in Seq(Batches) /\ Len(<<>>) = 0
  BY EmptySeq
<1>2. Len(<<>>) <= MaxBatches
  BY <1>1, DataFrameAssumption
<1> QED
  BY <1>1, <1>2, SequenceIsResult

(* The first sequence is the beginning of the second.                      *)
Starts(s, t) ==
    /\ Len(s) <= Len(t)
    /\ \A k \in 1 .. Len(s) : s[k] = t[k]

(* The third sequence is the first two, cut apart.                         *)
Cut(s, r, t) ==
    /\ Len(s) + Len(r) = Len(t)
    /\ Starts(s, t)
    /\ \A k \in 1 .. Len(r) : r[k] = t[Len(s) + k]

LEMMA NothingExported ==
  ASSUME NEW t \in Results
  PROVE  Cut(<<>>, t, t)
<1>1. t \in Seq(Batches) /\ Len(t) \in Nat /\ Len(<<>>) = 0
  BY ResultIsSequence, EmptySeq
<1> QED
  BY <1>1 DEF Cut, Starts

LEMMA NothingImported ==
  ASSUME NEW t \in Results
  PROVE  Starts(<<>>, t)
<1>1. t \in Seq(Batches) /\ Len(t) \in Nat /\ Len(<<>>) = 0
  BY ResultIsSequence, EmptySeq
<1> QED
  BY <1>1 DEF Starts

LEMMA OneExported ==
  ASSUME NEW s \in Results, NEW r \in Results, NEW t \in Results,
         Len(s) < Len(t), Cut(s, r, t)
  PROVE  /\ Append(s, Head(r)) \in Results
         /\ Tail(r) \in Results
         /\ Cut(Append(s, Head(r)), Tail(r), t)
<1> DEFINE s1 == Append(s, Head(r))
           r1 == Tail(r)
<1>1. /\ s \in Seq(Batches) /\ Len(s) \in Nat
      /\ r \in Seq(Batches) /\ Len(r) \in Nat /\ Len(r) <= MaxBatches
      /\ t \in Seq(Batches) /\ Len(t) \in Nat /\ Len(t) <= MaxBatches
  BY ResultIsSequence
<1>2. Len(r) > 0
  BY <1>1 DEF Cut
<1>r. r # <<>>
  BY <1>2, EmptySeq
<1>h. Head(r) = r[1]
  BY <1>1, <1>2
<1>t. /\ Head(r) \in Batches
      /\ r1 \in Seq(Batches)
      /\ Len(r1) = Len(r) - 1
      /\ \A k \in 1 .. Len(r1) : r1[k] = r[k + 1]
  BY <1>1, <1>r, HeadTailProperties
<1>c. /\ Len(s) + Len(r) = Len(t)
      /\ \A k \in 1 .. Len(s) : s[k] = t[k]
      /\ \A k \in 1 .. Len(r) : r[k] = t[Len(s) + k]
  BY DEF Cut, Starts
<1>3. /\ Head(r) \in Batches /\ Head(r) = r[1]
      /\ r1 \in Seq(Batches)
      /\ Len(r1) = Len(r) - 1
      /\ \A k \in 1 .. Len(r1) : r1[k] = r[k + 1]
  BY <1>h, <1>t
<1>4. /\ s1 \in Seq(Batches)
      /\ Len(s1) = Len(s) + 1
      /\ \A k \in 1 .. Len(s) : s1[k] = s[k]
      /\ s1[Len(s) + 1] = Head(r)
  BY <1>1, <1>3, AppendProperties
<1> HIDE DEF s1, r1
<1>5. Len(s1) + Len(r1) = Len(t)
  <2>1. /\ Len(s) \in Nat /\ Len(r) \in Nat /\ Len(t) \in Nat
        /\ Len(s) + Len(r) = Len(t)
        /\ Len(s1) = Len(s) + 1 /\ Len(r1) = Len(r) - 1
    BY <1>1, <1>3, <1>4, <1>c
  <2>2. ASSUME NEW a \in Nat, NEW b \in Nat, NEW c \in Nat, a + b = c
        PROVE  (a + 1) + (b - 1) = c
    BY <2>2
  <2> QED
    BY <2>1, <2>2
<1>6. Starts(s1, t)
  <2>1. Len(s1) <= Len(t)
    BY <1>1, <1>2, <1>3, <1>4, <1>5
  <2>2. ASSUME NEW k \in 1 .. Len(s1) PROVE s1[k] = t[k]
    <3>1. CASE k = Len(s) + 1
      <4>1. 1 \in 1 .. Len(r)
        BY <1>1, <1>2
      <4> QED
        BY <1>3, <1>4, <1>c, <3>1, <4>1
    <3>2. CASE k # Len(s) + 1
      <4>1. k \in 1 .. Len(s)
        BY <1>1, <1>4, <3>2
      <4> QED
        BY <1>4, <1>c, <4>1
    <3> QED
      BY <3>1, <3>2
  <2> QED
    BY <2>1, <2>2 DEF Starts
<1>7. \A k \in 1 .. Len(r1) : r1[k] = t[Len(s1) + k]
  <2> TAKE k \in 1 .. Len(r1)
  <2>1. k + 1 \in 1 .. Len(r) /\ r1[k] = r[k + 1]
    BY <1>1, <1>2, <1>3
  <2>2. r[k + 1] = t[Len(s) + (k + 1)] /\ Len(s) + (k + 1) = Len(s1) + k
    BY <1>1, <1>4, <1>c, <2>1
  <2> QED
    BY <2>1, <2>2
<1>8. Len(s1) <= MaxBatches /\ Len(r1) <= MaxBatches
  BY <1>1, <1>2, <1>3, <1>4, <1>5, DataFrameAssumption
<1>9. s1 \in Results /\ r1 \in Results
  BY <1>3, <1>4, <1>8, SequenceIsResult
<1> QED
  BY <1>5, <1>6, <1>7, <1>9 DEF Cut, s1, r1

LEMMA AllExported ==
  ASSUME NEW s \in Results, NEW r, NEW t \in Results, Cut(s, r, t), Len(s) = Len(t)
  PROVE  s = t
<1>1. s \in Seq(Batches) /\ t \in Seq(Batches) /\ Len(s) \in Nat /\ Len(t) \in Nat
  BY ResultIsSequence
<1>3. Len(s) = Len(t) /\ \A k \in 1 .. Len(s) : s[k] = t[k]
  BY <1>1 DEF Cut, Starts
<1> QED
  BY <1>1, <1>3, SeqEqual

LEMMA OneImported ==
  ASSUME NEW s \in Results, NEW t \in Results, Starts(s, t), Len(s) < Len(t)
  PROVE  /\ Append(s, t[Len(s) + 1]) \in Results
         /\ Starts(Append(s, t[Len(s) + 1]), t)
<1> DEFINE s1 == Append(s, t[Len(s) + 1])
<1>1. /\ s \in Seq(Batches) /\ Len(s) \in Nat
      /\ t \in Seq(Batches) /\ Len(t) \in Nat /\ Len(t) <= MaxBatches
  BY ResultIsSequence
<1>2. t[Len(s) + 1] \in Batches
  BY <1>1, ElementOfSeq
<1>3. /\ s1 \in Seq(Batches)
      /\ Len(s1) = Len(s) + 1
      /\ \A k \in 1 .. Len(s) : s1[k] = s[k]
      /\ s1[Len(s) + 1] = t[Len(s) + 1]
  BY <1>1, <1>2, AppendProperties
<1> HIDE DEF s1
<1>4. Len(s1) <= Len(t) /\ Len(s1) <= MaxBatches
  BY <1>1, <1>3, DataFrameAssumption
<1>5. \A k \in 1 .. Len(s1) : s1[k] = t[k]
  BY <1>1, <1>3 DEF Starts
<1>6. s1 \in Results
  BY <1>3, <1>4, SequenceIsResult
<1> QED
  BY <1>4, <1>5, <1>6 DEF Starts, s1

LEMMA AllImported ==
  ASSUME NEW s \in Results, NEW t \in Results, Starts(s, t), Len(s) = Len(t)
  PROVE  s = t
<1>1. s \in Seq(Batches) /\ t \in Seq(Batches)
  BY ResultIsSequence
<1> QED
  BY <1>1, SeqEqual DEF Starts

(* What a kind of failure is on each side of the C interface.              *)
LEMMA KindIsReported ==
  ASSUME NEW k \in Kinds
  PROVE  /\ k \notin {"not yet", "ok"}
         /\ into_df_error[k] \in CodesOfErrors
         /\ into_df_error[k] # "NULL"
         /\ GErrorCode(into_df_error[k]) = Documented[k]
         /\ Documented[k] \in CodesOfGErrors
         /\ Documented[k] # "NULL"
<1>1. k \notin {"not yet", "ok"}
  BY KindsAre
<1>2. \E i \in 1 .. 16 : into_df_error[k] = DFErrorCode[i]
  <2>1. CASE k \in {"ArrowError", "ParquetError", "ObjectStore", "IoError", "SQL"}
    BY <2>1 DEF DFErrorCode, into_df_error
  <2>2. CASE k \in {"NotImplemented", "Internal", "Plan", "SchemaError", "Execution"}
    BY <2>2 DEF DFErrorCode, into_df_error
  <2>3. CASE k \in {"ResourcesExhausted", "External", "Utf8Error", "IntoStringError"}
    BY <2>3 DEF DFErrorCode, into_df_error
  <2>4. CASE k \in {"Context", "Substrait"}
    BY <2>4 DEF DFErrorCode, into_df_error
  <2> QED
    BY <2>1, <2>2, <2>3, <2>4, KindsAre
<1>3. into_df_error[k] \in CodesOfErrors /\ into_df_error[k] # "NULL"
  BY <1>2 DEF CodesOfErrors, DFErrorCode
<1>4. GErrorCode(into_df_error[k]) \in CodesOfGErrors
  BY DEF GErrorCode, CodesOfGErrors
<1>5. GErrorCode(into_df_error[k]) # "NULL"
  BY DEF GErrorCode, GDFError
<1> QED
  BY <1>1, <1>3, <1>4, <1>5, CodesAreDocumented

(* What a failure leaves in df_error, and what C makes of it.              *)
LEMMA FailureIsReported ==
  ASSUME NEW e \in Failures \cup {NotUtf8}
  PROVE  /\ e.kind \in Kinds
         /\ Reported(e) = "NULL" \/ Reported(e) = into_df_error[e.kind]
         /\ Reported(e) # "NULL" => GErrorOf(e) = Documented[e.kind]
<1>1. e.kind \in Kinds
  BY KindsAre DEF Failures, NotUtf8, DataFusionErrors
<1> QED
  BY <1>1, KindIsReported DEF Reported, GErrorOf, df_error_set

LEMMA ArrowFailureIsReported ==
  LET e == [kind |-> "ArrowError", message |-> "plain"]
  IN  e.kind \in Kinds /\ Reported(e) = into_df_error[e.kind]
  BY KindsAre DEF Reported, df_error_set

(* What each step of to_table() may rely on.                               *)
ExportShape ==
    /\ pc \notin {"idle", "undefined"} => fn = "to_table" /\ error = "NULL"
    /\ pc = "collect" => slots = <<>> /\ record_batches = <<>>
    /\ pc = "convert" => ran = "ok" /\ record_batches = <<>>
                           /\ Cut(slots, rs_record_batches, collected)
    /\ pc = "import_schema" => ran = "ok" /\ record_batches = <<>> /\ slots = collected
    /\ pc = "import" => ran = "ok" /\ Starts(record_batches, slots) /\ slots = collected
    /\ df_error # "NULL" => pc \in {"failed", "undefined"}
    /\ pc = "failed" => ran \in Kinds /\ df_error \in {"NULL", into_df_error[ran]}
    /\ pc = "collect" => ~block
    /\ pc = "failed" /\ block => ran = "ArrowError" /\ slots # <<>>

IInv ==
    /\ TypeOK
    /\ ExportShape
    /\ TableIsWhole
    /\ FailuresAreExplained
    /\ ErrorsAreNamed
    /\ BlockIsFreed

LEMMA InitIInv == Init => IInv
  BY EmptyIsResult, KindsAre
     DEF Init, IInv, TypeOK, ExportShape, TableIsWhole, FailuresAreExplained, ErrorsAreNamed,
         BlockIsFreed, QueryFailed, Idle

(* Where the data stays, the type depends on the step and the error only.  *)
LEMMA TypeIsKept ==
  ASSUME TypeOK,
         UNCHANGED <<frame, fn, ran>>, UNCHANGED <<df_error, result>>,
         UNCHANGED <<collected, rs_record_batches, slots, record_batches>>,
         UNCHANGED <<block, schema_out, batches_out>>,
         pc' \in {"idle", "collect", "convert", "failed", "import_schema", "import", "undefined"},
         error' \in CodesOfGErrors \cup {"NULL"}
  PROVE  TypeOK'
<1>1. /\ frame' \in {"none", "frame", "hollow"}
      /\ fn' \in {"none", "sql", "show", "write_parquet", "to_table"}
      /\ ran' \in Kinds \cup {"not yet", "ok"}
      /\ df_error' \in CodesOfErrors \cup {"NULL"}
      /\ result' \in {"none", "success", "failure"}
  BY DEF TypeOK
<1>2. /\ collected' \in Results
      /\ rs_record_batches' \in Results
      /\ slots' \in Results
      /\ record_batches' \in Results
  BY DEF TypeOK
<1>3. /\ block' \in BOOLEAN
      /\ schema_out' \in Garbage \cup {"NULL", "schema"}
      /\ batches_out' \in Garbage \cup {"NULL", "block"}
  BY DEF TypeOK
<1> QED
  BY <1>1, <1>2, <1>3 DEF TypeOK

LEMMA NextIInv == IInv /\ [Next]_vars => IInv'
<1> SUFFICES ASSUME IInv, [Next]_vars PROVE IInv'
  OBVIOUS
<1> USE DEF IInv, TypeOK, Idle, TableIsWhole, FailuresAreExplained, ErrorsAreNamed,
            BlockIsFreed, QueryFailed, export, answer
<1>1. CASE \/ SqlSucceeds
           \/ Finalize
  <2>1. pc = "idle" /\ pc' = "idle" /\ UNCHANGED <<export, record_batches>>
    BY <1>1 DEF SqlSucceeds, Finalize, Returns
  <2>2. TypeOK'
    BY <1>1, <2>1 DEF SqlSucceeds, Finalize, Returns
  <2>3. ExportShape'
    BY <1>1, <2>1 DEF SqlSucceeds, Finalize, Returns, ExportShape
  <2>4. TableIsWhole'
    BY <1>1, <2>1 DEF SqlSucceeds, Finalize, Returns
  <2>5. FailuresAreExplained'
    BY <1>1, <2>1 DEF SqlSucceeds, Finalize, Returns
  <2>6. ErrorsAreNamed' /\ BlockIsFreed'
    BY <1>1, <2>1 DEF SqlSucceeds, Finalize, Returns
  <2> QED
    BY <2>2, <2>3, <2>4, <2>5, <2>6
<1>2. ASSUME NEW f \in {"show", "write_parquet", "to_table"}, UseHollow(f) PROVE IInv'
  BY <1>2 DEF UseHollow, Undefined, ExportShape
<1>3. ASSUME NEW f \in {"show", "write_parquet"}, Succeeds(f) PROVE IInv'
  BY <1>3 DEF Succeeds, Returns, ExportShape
<1>4. ASSUME NEW e \in Failures \cup {NotUtf8},
             SqlFails(e) \/ ShowFails(e) \/ WriteParquetFails(e)
      PROVE  IInv'
  <2> DEFINE g == GErrorOf(e)
  <2>1. e.kind \in Kinds /\ (Reported(e) # "NULL" => g = Documented[e.kind])
    BY FailureIsReported
  <2>2. /\ e.kind \notin {"not yet", "ok"}
        /\ Documented[e.kind] \in CodesOfGErrors
        /\ Documented[e.kind] # "NULL"
    BY <2>1, KindIsReported
  <2> HIDE DEF g
  <2>3. CASE SqlFails(e)
    BY <2>1, <2>2, <2>3 DEF SqlFails, Returns, ExportShape, g
  <2>4. CASE ShowFails(e)
    BY <2>1, <2>2, <2>4 DEF ShowFails, Returns, ExportShape, g
  <2>5. CASE WriteParquetFails(e)
    BY <2>1, <2>2, <2>5 DEF WriteParquetFails, Returns, Undefined, ExportShape, g
  <2> QED
    BY <1>4, <2>3, <2>4, <2>5
<1>5. CASE ToTable
  BY <1>5, EmptyIsResult DEF ToTable, ExportShape
<1>6. ASSUME NEW batches \in Results, Collect(batches) PROVE IInv'
  <2>1. Cut(slots', rs_record_batches', collected')
    BY <1>6, NothingExported DEF Collect, ExportShape
  <2> QED
    BY <1>6, <2>1 DEF Collect, ExportShape
<1>7. ASSUME NEW e \in Failures, CollectFails(e) PROVE IInv'
  <2>1. e.kind \in Kinds /\ (Reported(e) = "NULL" \/ Reported(e) = into_df_error[e.kind])
    BY FailureIsReported
  <2>2. /\ e.kind \notin {"not yet", "ok"}
        /\ into_df_error[e.kind] \in CodesOfErrors
    BY <2>1, KindIsReported
  <2>3. Reported(e) \in CodesOfErrors \cup {"NULL"}
    BY <2>1, <2>2
  <2> HIDE DEF Reported
  <2> QED
    BY <1>7, <2>1, <2>2, <2>3 DEF CollectFails, ExportFails, ExportShape
<1>8. CASE Convert
  <2>1. /\ slots' \in Results
        /\ rs_record_batches' \in Results
        /\ Cut(slots', rs_record_batches', collected')
    BY <1>8, OneExported DEF Convert, Remaining, ExportShape
  <2> QED
    BY <1>8, <2>1 DEF Convert, ExportShape
<1>9. CASE ConvertFails
  <2>1. slots' \in Results /\ rs_record_batches' \in Results
    BY <1>9, OneExported DEF ConvertFails, Remaining, ExportShape
  <2>2. slots' # <<>>
    BY <1>9, ResultIsSequence, EmptySeq DEF ConvertFails, ExportShape
  <2> QED
    BY <1>9, <2>1, <2>2, ArrowFailureIsReported, KindIsReported
       DEF ConvertFails, ExportFails, ExportShape
<1>10. CASE Converted
  <2>1. slots = collected
    BY <1>10, AllExported DEF Converted, ExportShape
  <2> QED
    BY <1>10, <2>1 DEF Converted, ExportShape
<1>11. CASE Failed
  <2>1. CASE df_error = "NULL"
    BY <1>11, <2>1 DEF Failed, ExportShape
  <2>2. CASE df_error # "NULL"
    <3>1. ran \in Kinds /\ df_error = into_df_error[ran]
      BY <1>11, <2>2 DEF Failed, ExportShape
    <3>2. /\ GErrorCode(df_error) = Documented[ran]
          /\ Documented[ran] \in CodesOfGErrors
          /\ Documented[ran] # "NULL"
      BY <3>1, KindIsReported
    <3> QED
      BY <1>11, <2>2, <3>1, <3>2 DEF Failed, ExportShape
  <2> QED
    BY <2>1, <2>2
<1>12. CASE ImportSchema
  <2>1. Starts(<<>>, slots)
    BY NothingImported
  <2>2. pc' = "import" => Starts(record_batches', slots')
    BY <1>12, <2>1 DEF ImportSchema, ExportShape
  <2>3. TypeOK'
    <3>1. /\ UNCHANGED <<frame, fn, ran>> /\ UNCHANGED <<df_error, result>>
          /\ UNCHANGED <<collected, rs_record_batches, slots, record_batches>>
          /\ UNCHANGED <<block, schema_out, batches_out>>
      BY <1>12 DEF ImportSchema
    <3>2. pc' \in {"import", "undefined"} /\ error' \in {error, "garrow"}
      BY <1>12 DEF ImportSchema
    <3>3. error' \in CodesOfGErrors \cup {"NULL"}
      BY <3>2 DEF CodesOfGErrors
    <3> QED
      BY <3>1, <3>2, <3>3, TypeIsKept
  <2>4. ExportShape'
    BY <1>12, <2>2 DEF ImportSchema, ExportShape
  <2>5. TableIsWhole'
    BY <1>12, <2>2 DEF ImportSchema
  <2>6. FailuresAreExplained'
    BY <1>12, <2>2 DEF ImportSchema
  <2>7. ErrorsAreNamed' /\ BlockIsFreed'
    BY <1>12 DEF ImportSchema
  <2> QED
    BY <2>3, <2>4, <2>5, <2>6, <2>7
<1>13. CASE Import
  <2>1. CASE pc' = "undefined" /\ error' = "garrow" /\ UNCHANGED record_batches
    BY <1>13, <2>1 DEF Import, ExportShape, CodesOfGErrors
  <2>2. CASE record_batches' = Append(record_batches, slots[Len(record_batches) + 1])
    <3>1. record_batches' \in Results /\ Starts(record_batches', slots)
      BY <1>13, <2>2, OneImported DEF Import, ExportShape
    <3> QED
      BY <1>13, <2>2, <3>1 DEF Import, ExportShape
  <2> QED
    BY <1>13, <2>1, <2>2 DEF Import
<1>14. CASE NewTable
  <2>1. record_batches = slots
    BY <1>14, AllImported DEF NewTable, ExportShape
  <2>2. ran = "ok" /\ slots = collected /\ fn = "to_table" /\ error = "NULL" /\ df_error = "NULL"
    BY <1>14 DEF NewTable, ExportShape
  <2>3. /\ UNCHANGED <<frame, fn, ran, df_error, collected, rs_record_batches, slots>>
        /\ UNCHANGED <<schema_out, batches_out, record_batches>>
        /\ pc' = "idle" /\ block' = FALSE
        /\ \/ result' = "success" /\ error' = "NULL"
           \/ result' = "failure" /\ error' = "garrow"
    BY <1>14, <2>2 DEF NewTable
  <2>4. /\ frame' \in {"none", "frame", "hollow"}
        /\ fn' \in {"none", "sql", "show", "write_parquet", "to_table"}
        /\ ran' \in Kinds \cup {"not yet", "ok"}
        /\ df_error' \in CodesOfErrors \cup {"NULL"}
        /\ schema_out' \in Garbage \cup {"NULL", "schema"}
        /\ batches_out' \in Garbage \cup {"NULL", "block"}
    BY <2>3
  <2>5. /\ collected' \in Results
        /\ rs_record_batches' \in Results
        /\ slots' \in Results
        /\ record_batches' \in Results
    BY <2>3
  <2>6. result' \in {"none", "success", "failure"} /\ error' \in CodesOfGErrors \cup {"NULL"}
    BY <2>3 DEF CodesOfGErrors
  <2>7. TypeOK'
    BY <2>3, <2>4, <2>5, <2>6
  <2>8. ExportShape'
    BY <2>2, <2>3 DEF ExportShape
  <2>9. TableIsWhole' /\ FailuresAreExplained' /\ BlockIsFreed'
    BY <2>1, <2>2, <2>3
  <2>10. ErrorsAreNamed'
    BY <2>2, <2>3, KindsAre
  <2> QED
    BY <2>7, <2>8, <2>9, <2>10
<1>15. CASE UNCHANGED vars
  <2>1. /\ Cut(slots, rs_record_batches, collected)
            => Cut(slots', rs_record_batches', collected')
        /\ Starts(record_batches, slots) => Starts(record_batches', slots')
    BY <1>15 DEF vars
  <2>2. TypeOK'
    <3>1. /\ UNCHANGED <<frame, pc, fn, ran>> /\ UNCHANGED <<df_error, result, error>>
          /\ UNCHANGED <<collected, rs_record_batches, slots, record_batches>>
          /\ UNCHANGED <<block, schema_out, batches_out>>
      BY <1>15 DEF vars
    <3> QED
      BY <3>1, TypeIsKept
  <2>3. ExportShape'
    BY <1>15, <2>1 DEF vars, ExportShape
  <2>4. TableIsWhole'
    BY <1>15, <2>1 DEF vars
  <2>5. FailuresAreExplained'
    BY <1>15, <2>1 DEF vars
  <2>6. ErrorsAreNamed' /\ BlockIsFreed'
    BY <1>15 DEF vars
  <2> QED
    BY <2>2, <2>3, <2>4, <2>5, <2>6
<1> QED
  BY <1>1, <1>2, <1>3, <1>4, <1>5, <1>6, <1>7, <1>8, <1>9, <1>10, <1>11, <1>12, <1>13, <1>14,
     <1>15 DEF Next

LEMMA Invariance == Spec => []IInv
  BY InitIInv, NextIInv, PTL DEF Spec

(* The sequences a result passes through stay results.                     *)
THEOREM TypeCorrect == Spec => []TypeOK
<1>1. IInv => TypeOK
  BY DEF IInv
<1> QED
  BY <1>1, Invariance, PTL

(* A table has every record batch of the query, once and in order.         *)
THEOREM TablesAreWhole == Spec => []TableIsWhole
<1>1. IInv => TableIsWhole
  BY DEF IInv
<1> QED
  BY <1>1, Invariance, PTL

(* NULL and FALSE come with a GError, and nothing else does.               *)
THEOREM FailuresHaveErrors == Spec => []FailuresAreExplained
<1>1. IInv => FailuresAreExplained
  BY DEF IInv
<1> QED
  BY <1>1, Invariance, PTL

(* No call leaves a DFError behind.                                        *)
THEOREM ErrorsDoNotLeak == Spec => []ErrorsAreFreed
<1>1. IInv => ErrorsAreFreed
  BY DEF IInv, TypeOK, ExportShape, ErrorsAreFreed, Idle
<1> QED
  BY <1>1, Invariance, PTL

(* A failure has one name on both sides.                                   *)
THEOREM ErrorsKeepTheirKind == Spec => []ErrorsAreNamed
<1>1. IInv => ErrorsAreNamed
  BY DEF IInv
<1> QED
  BY <1>1, Invariance, PTL

(* The block is lost by the one step of the export only.                   *)
THEOREM BlocksAreFreed == Spec => []BlockIsFreed
<1>1. IInv => BlockIsFreed
  BY DEF IInv
<1> QED
  BY <1>1, Invariance, PTL

(* How a failure of the query travels: it is known only once the export    *)
(* has ended, and then either as an error or by a NULL that lost it.  And  *)
(* a result with rows comes with its schema.                               *)
FailureShape ==
    /\ pc \in {"collect", "convert", "import_schema", "import"} => ~QueryFailed
    /\ pc \in {"convert", "import_schema"} /\ slots # <<>> => schema_out = "schema"
    /\ NoFailureIsHidden
    /\ CrashesAreKnown

LEMMA StepFailure ==
  ASSUME IInv, FailureShape, [Next]_vars
  PROVE  FailureShape'
<1> USE KindsAre DEF FailureShape, NoFailureIsHidden, CrashesAreKnown, Idle, QueryFailed
<1>1. CASE SqlSucceeds \/ Finalize \/ \E f \in {"show", "write_parquet"} : Succeeds(f)
  BY <1>1 DEF SqlSucceeds, Finalize, Succeeds, Returns, export, answer
<1>2. ASSUME NEW e \in Failures \cup {NotUtf8}, SqlFails(e) \/ ShowFails(e)
      PROVE  FailureShape'
  BY <1>2 DEF SqlFails, ShowFails, Returns, export
<1>3. ASSUME NEW e \in Failures \cup {NotUtf8}, WriteParquetFails(e)
      PROVE  FailureShape'
  <2>1. pc = "idle" /\ df_error = "NULL" /\ e.kind \in Kinds
    BY <1>3, FailureIsReported DEF WriteParquetFails, IInv, ExportShape
  <2>2. CASE Returns("write_parquet", e.kind, "failure", GErrorOf(e))
    BY <2>1, <2>2 DEF Returns, export
  <2>3. CASE Undefined("write_parquet", e.kind)
    <3>1. pc' = "undefined" /\ fn' = "write_parquet" /\ ran' \in Kinds /\ df_error' = "NULL"
      BY <2>1, <2>3 DEF Undefined
    <3> QED
      BY <3>1
  <2> QED
    BY <1>3, <2>2, <2>3 DEF WriteParquetFails
<1>4. CASE \E f \in {"show", "write_parquet", "to_table"} : UseHollow(f)
  BY <1>4 DEF UseHollow, Undefined, export
<1>5. CASE ToTable
  BY <1>5 DEF ToTable
<1>6. ASSUME NEW batches \in Results, Collect(batches)
      PROVE  FailureShape'
  <2>1. pc' = "convert" /\ ran' = "ok" /\ slots' = <<>>
    BY <1>6 DEF Collect, IInv, ExportShape
  <2> QED
    BY <2>1
<1>7. ASSUME NEW e, ExportFails(e), e.kind \in Kinds, pc \in {"collect", "convert"}
      PROVE  FailureShape'
  <2>1. /\ pc' \in {"failed", "undefined"} /\ ran' \in Kinds
        /\ pc' = "undefined" => batches_out' # "NULL"
        /\ fn' = "to_table"
    BY <1>7 DEF ExportFails, IInv, ExportShape
  <2> QED
    BY <2>1
<1>8. ASSUME NEW e \in Failures, CollectFails(e)
      PROVE  FailureShape'
  BY <1>7, <1>8, FailureIsReported DEF CollectFails
<1>9. CASE ConvertFails
  BY <1>7, <1>9, ArrowFailureIsReported DEF ConvertFails
<1>10. CASE Convert
  BY <1>10 DEF Convert, answer
<1>11. CASE Converted
  BY <1>11 DEF Converted, answer
<1>12. CASE Failed
  <2>1. pc = "failed" /\ ran \in Kinds /\ fn = "to_table" /\ UNCHANGED <<frame, fn, ran, collected, batches_out>>
    BY <1>12 DEF Failed, IInv, ExportShape, export
  <2>2. CASE df_error # "NULL"
    <3>1. pc' = "idle" /\ result' = "failure"
      BY <1>12, <2>2 DEF Failed
    <3> QED
      BY <2>1, <3>1
  <2>3. CASE df_error = "NULL"
    <3>1. pc' = "undefined" /\ df_error' = "NULL"
      BY <1>12, <2>3 DEF Failed, answer
    <3> QED
      BY <2>1, <3>1
  <2> QED
    BY <2>2, <2>3
<1>13. CASE ImportSchema
  <2>1. /\ pc = "import_schema" /\ fn = "to_table" /\ ran = "ok" /\ slots = collected
        /\ UNCHANGED <<frame, fn, ran, collected, result>>
    BY <1>13 DEF ImportSchema, IInv, ExportShape, export
  <2>2. pc' = "import" \/ (pc' = "undefined" /\ (error' = "garrow" \/ schema_out # "schema"))
    BY <1>13 DEF ImportSchema
  <2> QED
    BY <2>1, <2>2
<1>14. CASE Import \/ NewTable
  <2>1. /\ pc = "import" /\ fn = "to_table" /\ ran = "ok"
        /\ UNCHANGED <<frame, fn, ran, collected>>
    BY <1>14 DEF Import, NewTable, IInv, ExportShape, export
  <2>2. pc' \in {"import", "idle"} \/ (pc' = "undefined" /\ error' = "garrow")
    BY <1>14, <2>1 DEF Import, NewTable
  <2> QED
    BY <2>1, <2>2
<1>15. CASE UNCHANGED vars
  BY <1>15 DEF vars, export, answer
<1> QED
  BY <1>1, <1>2, <1>3, <1>4, <1>5, <1>6, <1>8, <1>9, <1>10, <1>11, <1>12, <1>13, <1>14, <1>15
     DEF Next

LEMMA FailureInvariance == Spec => []FailureShape
<1>1. Init => FailureShape
  BY KindsAre DEF Init, FailureShape, NoFailureIsHidden, CrashesAreKnown, QueryFailed
<1>2. IInv /\ FailureShape /\ [Next]_vars => FailureShape'
  BY StepFailure
<1> QED
  BY <1>1, <1>2, Invariance, PTL DEF Spec

(* write_parquet() and to_table() never return a result for a failure.     *)
THEOREM FailuresAreSeen == Spec => []NoFailureIsHidden
<1>1. FailureShape => NoFailureIsHidden
  BY DEF FailureShape
<1> QED
  BY <1>1, FailureInvariance, PTL

(* There are no other ways into undefined behaviour than those named.      *)
THEOREM CrashesAreExplained == Spec => []CrashesAreKnown
<1>1. FailureShape => CrashesAreKnown
  BY DEF FailureShape
<1> QED
  BY <1>1, FailureInvariance, PTL
=============================================================================
