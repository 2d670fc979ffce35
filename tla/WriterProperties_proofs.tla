----------------------- MODULE WriterProperties_proofs -----------------------
(***************************************************************************)
(* Theorems of WriterProperties, for every width of usize.                 *)
(*                                                                         *)
(* What is in a file is no longer tied to the object it was written with,  *)
(* so that both invariants hold of files by what Converted says of the     *)
(* objects when a file is written.                                         *)
(***************************************************************************)
EXTENDS WriterProperties, TLAPS

(* The limit Rust has is the size the caller asked for, as far as it fits. *)
Converted ==
    \A p \in Properties :
        max_row_group_size[p] = IF asked[p] = None THEN None ELSE Usize(asked[p])

IInv == TypeOK /\ Converted /\ RowGroupsAreBounded /\ RowGroupsAreFull

(* Truncation never makes a size larger, and leaves one that fits alone.   *)
LEMMA UsizeBound ==
    ASSUME NEW size \in Nat
    PROVE  /\ Usize(size) \in Nat
           /\ Usize(size) <= size
           /\ size < UsizeValues => Usize(size) = size
<1> DEFINE q == size \div UsizeValues
<1>1. UsizeValues \in Nat /\ UsizeValues > 0
  BY WriterAssumption
<1>2. q \in Nat /\ size % UsizeValues \in 0..(UsizeValues - 1)
      /\ size = UsizeValues * q + (size % UsizeValues)
  BY <1>1, SMTT(30)
<1> QED
  BY <1>1, <1>2, SMTT(30) DEF Usize

LEMMA InitIInv == Init => IInv
  BY DEF Init, IInv, TypeOK, Converted, RowGroupsAreBounded, RowGroupsAreFull, Limits

LEMMA NextIInv == IInv /\ [Next]_vars => IInv'
<1> SUFFICES ASSUME IInv, [Next]_vars PROVE IInv'
  OBVIOUS
<1> USE WriterAssumption, NoFileAssumption DEF IInv, TypeOK
<1>1. ASSUME NEW p \in Properties, New(p) PROVE IInv'
  BY <1>1 DEF New, Converted, RowGroupsAreBounded, RowGroupsAreFull, Limits
<1>2. ASSUME NEW p \in Properties, Finalize(p) PROVE IInv'
  BY <1>2 DEF Finalize, Converted, RowGroupsAreBounded, RowGroupsAreFull
<1>3. ASSUME NEW p \in Properties, NEW size \in Sizes, SetMaxRowGroupSize(p, size) PROVE IInv'
  <2>1. size \in Nat /\ size # None /\ Usize(size) \in Nat
    BY UsizeBound
  <2>2. TypeOK'
    BY <1>3, <2>1 DEF SetMaxRowGroupSize, Limits
  <2>3. Converted'
    BY <1>3, <2>1 DEF SetMaxRowGroupSize, Converted
  <2>4. RowGroupsAreBounded' /\ RowGroupsAreFull'
    BY <1>3 DEF SetMaxRowGroupSize, RowGroupsAreBounded, RowGroupsAreFull
  <2> QED
    BY <2>2, <2>3, <2>4
<1>4. ASSUME NEW path \in Paths, NEW p \in objects \cup {None}, NEW rows \in Rows,
             WriteParquet(path, p, rows)
      PROVE IInv'
  <2> DEFINE limit == LimitOf(p)
             size == AskedOf(p)
             largest == Largest(rows, Build(limit))
             file == [rows |-> rows, largest |-> largest, asked |-> size]
  <2>1. rows \in Nat /\ size \in Limits /\ limit \in Limits
    BY DEF AskedOf, LimitOf, Limits
  <2>2. limit = IF size = None THEN None ELSE Usize(size)
    BY DEF AskedOf, LimitOf, Converted
  <2>3. Build(limit) \in Nat /\ (size = None => Build(limit) = DefaultSize)
    BY <2>1, <2>2 DEF Build, Limits
  <2>4. ASSUME size # None
        PROVE  /\ size \in Nat
               /\ Build(limit) <= size
               /\ size < UsizeValues => Build(limit) = size
    BY <2>1, <2>2, <2>4, UsizeBound DEF Build, Limits
  <2>5. largest \in Nat /\ largest <= Build(limit)
    BY <2>1, <2>3 DEF Largest
  <2>6. file \in Files /\ file.rows = rows /\ file.largest = largest /\ file.asked = size
    BY <2>1, <2>5 DEF Files
  <2>7. files' = [files EXCEPT ![path] = file]
    BY <1>4 DEF WriteParquet
  <2>8. TypeOK'
    BY <1>4, <2>6, <2>7 DEF WriteParquet
  <2>9. Converted'
    BY <1>4 DEF WriteParquet, Converted
  <2>10. size # None => largest <= size
    BY <2>3, <2>4, <2>5
  <2>11. RowGroupsAreBounded'
    BY <2>6, <2>7, <2>10 DEF RowGroupsAreBounded
  <2>12. \/ size = None /\ largest = Largest(rows, DefaultSize)
         \/ size # None /\ (size < UsizeValues => largest = Largest(rows, size))
    BY <2>3, <2>4
  <2>13. RowGroupsAreFull'
    BY <2>6, <2>7, <2>12 DEF RowGroupsAreFull
  <2> QED
    BY <2>8, <2>9, <2>11, <2>13
<1>5. ASSUME NEW p \in objects \cup {None}, BuildPanics(p) PROVE IInv'
  BY <1>5 DEF BuildPanics, Converted, RowGroupsAreBounded, RowGroupsAreFull
<1>6. CASE UNCHANGED vars
  BY <1>6 DEF vars, Converted, RowGroupsAreBounded, RowGroupsAreFull
<1> QED
  BY <1>1, <1>2, <1>3, <1>4, <1>5, <1>6 DEF Next

LEMMA Invariance == Spec => []IInv
  BY InitIInv, NextIInv, PTL DEF Spec

(* Limits are natural numbers, whatever was converted.                     *)
THEOREM TypeCorrect == Spec => []TypeOK
<1>1. IInv => TypeOK
  BY DEF IInv
<1> QED
  BY <1>1, Invariance, PTL

(* No row group is larger than the size that was set, on any platform.     *)
THEOREM LimitsHold == Spec => []RowGroupsAreBounded
<1>1. IInv => RowGroupsAreBounded
  BY DEF IInv
<1> QED
  BY <1>1, Invariance, PTL

(* Row groups are no smaller than a size that fits into usize allows.      *)
THEOREM LimitsAreUsed == Spec => []RowGroupsAreFull
<1>1. IInv => RowGroupsAreFull
  BY DEF IInv
<1> QED
  BY <1>1, Invariance, PTL

(* A panic has a size of zero behind it, as the caller or as usize has it. *)
THEOREM PanicsAreExplained == Spec => []OnlyZeroPanics
<1> USE WriterAssumption
<1>1. Init => OnlyZeroPanics
  BY DEF Init, OnlyZeroPanics
<1>2. OnlyZeroPanics /\ IInv /\ [Next]_vars => OnlyZeroPanics'
  <2> SUFFICES ASSUME OnlyZeroPanics, IInv, [Next]_vars PROVE OnlyZeroPanics'
    OBVIOUS
  <2> USE DEF IInv, TypeOK, OnlyZeroPanics
  <2>1. ASSUME NEW p \in objects \cup {None}, BuildPanics(p) PROVE OnlyZeroPanics'
    <3>1. p \in objects /\ max_row_group_size[p] = 0
      BY <2>1 DEF BuildPanics, LimitOf
    <3>2. asked[p] # None /\ asked[p] % UsizeValues = 0
      BY <3>1 DEF Converted, Usize
    <3> QED
      BY <2>1, <3>1, <3>2 DEF BuildPanics
  <2>2. CASE ~ \E p \in objects \cup {None} : BuildPanics(p)
    <3>1. pc' = pc /\ (pc = "panic" => UNCHANGED <<objects, asked>>)
      BY <2>2 DEF Next, New, Finalize, SetMaxRowGroupSize, WriteParquet, vars
    <3> QED
      BY <3>1
  <2> QED
    BY <2>1, <2>2
<1> QED
  BY <1>1, <1>2, Invariance, PTL DEF Spec

(* A program that sets only sizes of a 64 bit usize, and never zero, is    *)
(* always answered by write_parquet().                                     *)
THEOREM WritesReturn ==
    ASSUME \A size \in Sizes : size # 0 /\ size < UsizeValues
    PROVE  Spec => []WriteParquetReturns
<1> DEFINE NoZero == (\A p \in Properties : max_row_group_size[p] # 0) /\ pc = "idle"
<1>1. Init => NoZero
  BY WriterAssumption DEF Init
<1>2. NoZero /\ IInv /\ [Next]_vars => NoZero'
  <2> SUFFICES ASSUME NoZero, IInv, [Next]_vars PROVE NoZero'
    OBVIOUS
  <2> USE DEF IInv, TypeOK
  <2>1. ASSUME NEW p \in Properties, New(p) \/ Finalize(p) PROVE NoZero'
    BY <2>1, WriterAssumption DEF New, Finalize
  <2>2. ASSUME NEW p \in Properties, NEW size \in Sizes, SetMaxRowGroupSize(p, size) PROVE NoZero'
    <3>1. Usize(size) # 0
      BY UsizeBound, WriterAssumption
    <3> QED
      BY <2>2, <3>1 DEF SetMaxRowGroupSize
  <2>3. ASSUME NEW path \in Paths, NEW p \in objects \cup {None}, NEW rows \in Rows,
               WriteParquet(path, p, rows)
        PROVE NoZero'
    BY <2>3 DEF WriteParquet
  <2>4. ASSUME NEW p \in objects \cup {None}, BuildPanics(p) PROVE NoZero'
    BY <2>4, WriterAssumption DEF BuildPanics, LimitOf
  <2>5. CASE UNCHANGED vars
    BY <2>5 DEF vars
  <2> QED
    BY <2>1, <2>2, <2>3, <2>4, <2>5 DEF Next
<1>3. NoZero => WriteParquetReturns
  BY DEF WriteParquetReturns
<1> QED
  BY <1>1, <1>2, <1>3, Invariance, PTL DEF Spec
=============================================================================
