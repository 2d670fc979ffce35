---------------------- MODULE ParquetReadOptions_proofs ----------------------
(***************************************************************************)
(* Theorems of ParquetReadOptions, for every value of its constants.       *)
(*                                                                         *)
(* The invariants speak of tables only.  They are inductive together with  *)
(* what the running options have on their two sides.  What depends on the  *)
(* string the caller lent is kept apart: it holds, and is claimed, only    *)
(* for a caller that keeps its strings.                                    *)
(***************************************************************************)
EXTENDS ParquetReadOptions, TLAPS

(* Rust has what the mirror has, and the pruning that was asked for.       *)
Mirrored ==
    object = "alive" =>
        /\ rs_pruning = asked
        /\ KeepsBuffers => file_extension = ExtensionOf(rs_extension)
        /\ rs_columns = GivenColumns(table_partition_columns)

(* A table has the pruning its options were asked for, and both getters    *)
(* said so.                                                                *)
AsAsked ==
    \A t \in Tables : tables[t] # None =>
        /\ told[t] \in Answers
        /\ tables[t].pruning = told[t].asked
        /\ told[t].is_set = (told[t].asked # None)
        /\ told[t].is_set => told[t].pruning = told[t].asked

IInv == TypeOK /\ Mirrored /\ (KeepsBuffers => TablesReadAsTold) /\ AsAsked

USE ParquetAssumption, NoTableAssumption

LEMMA InitIInv == Init => IInv
  BY DEF Init, IInv, TypeOK, Mirrored, TablesReadAsTold, AsAsked, Pruning

LEMMA NextIInv == IInv /\ [Next]_vars => IInv'
<1> SUFFICES ASSUME IInv, [Next]_vars PROVE IInv'
  OBVIOUS
<1> USE DEF IInv, TypeOK, mirror, options, registered
<1>1. CASE New
  BY <1>1 DEF New, NewOptions, Mirrored, TablesReadAsTold, AsAsked, ExtensionOf, GivenColumns,
     Pruning
<1>2. CASE Dispose \/ Finalize
  BY <1>2 DEF Dispose, Finalize, Mirrored, TablesReadAsTold, AsAsked
<1>3. ASSUME NEW p \in BOOLEAN, SetPruning(p) PROVE IInv'
  BY <1>3 DEF SetPruning, Mirrored, TablesReadAsTold, AsAsked, ExtensionOf, GivenColumns, Pruning
<1>4. ASSUME NEW p \in BOOLEAN, SetSession(p) PROVE IInv'
  BY <1>4 DEF SetSession, Mirrored, TablesReadAsTold, AsAsked, ExtensionOf, GivenColumns
<1>5. CASE UnsetPruning
  BY <1>5 DEF UnsetPruning, Mirrored, TablesReadAsTold, AsAsked, ExtensionOf, GivenColumns, Pruning
<1>6. ASSUME NEW b \in Buffers, SetExtension(b) PROVE IInv'
  BY <1>6 DEF SetExtension, Mirrored, TablesReadAsTold, AsAsked, ExtensionOf, GivenColumns
<1>7. ASSUME NEW c \in Columns \cup {None}, SetColumns(c) PROVE IInv'
  BY <1>7 DEF SetColumns, Mirrored, TablesReadAsTold, AsAsked, ExtensionOf, GivenColumns
<1>8. ASSUME NEW t \in Tables, RegisterParquet(t) PROVE IInv'
  <2>1. Cloned \in Settings /\ Told \in Answers
    BY <1>8 DEF RegisterParquet, Cloned, Told, Settings, Answers, ExtensionOf, GetPruning,
       IsSetPruning
  <2>2. /\ KeepsBuffers => Cloned.extension = Told.extension
        /\ Cloned.columns = GivenColumns(Told.columns)
        /\ Cloned.pruning = Told.asked
    BY <1>8 DEF RegisterParquet, Cloned, Told, Mirrored
  <2>5. Told.is_set = (Told.asked # None) /\ (Told.is_set => Told.pruning = Told.asked)
    BY <1>8 DEF RegisterParquet, Mirrored, Told, GetPruning, IsSetPruning, Pruning
  <2>3. TypeOK' /\ Mirrored'
    BY <1>8, <2>1 DEF RegisterParquet, Mirrored, ExtensionOf, GivenColumns
  <2>4. KeepsBuffers => TablesReadAsTold'
    BY <1>8, <2>1, <2>2 DEF RegisterParquet, TablesReadAsTold, AsAsked, GivenColumns
  <2>6. AsAsked'
    BY <1>8, <2>1, <2>2, <2>5 DEF RegisterParquet, AsAsked
  <2> QED
    BY <2>3, <2>4, <2>6
<1>9. ASSUME NEW t \in Tables, RegisterWithoutOptions(t) PROVE IInv'
  <2>1. /\ Defaults \in Settings /\ Untold \in Answers
        /\ Defaults.columns = None /\ Untold.columns = None
        /\ Defaults.extension = Untold.extension /\ Defaults.pruning = Untold.asked
        /\ Untold.is_set = (Untold.asked # None)
        /\ Untold.is_set => Untold.pruning = Untold.asked
    BY DEF Defaults, Untold, Settings, Answers, Pruning
  <2>2. TypeOK' /\ Mirrored'
    BY <1>9, <2>1 DEF RegisterWithoutOptions, Mirrored, ExtensionOf, GivenColumns
  <2>3. KeepsBuffers => TablesReadAsTold'
    BY <1>9, <2>1 DEF RegisterWithoutOptions, TablesReadAsTold, AsAsked
  <2>4. AsAsked'
    BY <1>9, <2>1 DEF RegisterWithoutOptions, AsAsked
  <2> QED
    BY <2>2, <2>3, <2>4
<1>10. ASSUME NEW t \in Tables, Deregister(t) PROVE IInv'
  BY <1>10 DEF Deregister, Mirrored, TablesReadAsTold, AsAsked, ExtensionOf, GivenColumns
<1>11. ASSUME NEW b \in Buffers, NEW e \in Extensions, ReuseBuffer(b, e) PROVE IInv'
  BY <1>11 DEF ReuseBuffer, Mirrored, TablesReadAsTold, AsAsked, ExtensionOf, GivenColumns
<1>12. CASE UNCHANGED vars
  BY <1>12 DEF vars, Mirrored, TablesReadAsTold, AsAsked, ExtensionOf, GivenColumns
<1> QED
  BY <1>1, <1>2, <1>3, <1>4, <1>5, <1>6, <1>7, <1>8, <1>9, <1>10, <1>11, <1>12 DEF Next

LEMMA Invariance == Spec => []IInv
  BY InitIInv, NextIInv, PTL DEF Spec

(* Options, tables and strings are what they are.                          *)
THEOREM TypeCorrect == Spec => []TypeOK
<1>1. IInv => TypeOK
  BY DEF IInv
<1> QED
  BY <1>1, Invariance, PTL

(* Tables outlive the options and the strings they were registered with,   *)
(* and have what the getters told, if the caller kept its strings until    *)
(* the options were gone.                                                  *)
THEOREM TablesKeepTheirOptions ==
  ASSUME KeepsBuffers
  PROVE  Spec => []TablesReadAsTold
<1>1. IInv => TablesReadAsTold
  BY DEF IInv
<1> QED
  BY <1>1, Invariance, PTL

(* The three values of the pruning setting reach every table.              *)
THEOREM PruningArrives == Spec => []TablesPruneAsAsked
<1>1. IInv => TablesPruneAsAsked
  BY DEF IInv, AsAsked, TablesPruneAsAsked
<1> QED
  BY <1>1, Invariance, PTL

(* Whatever the caller does with its strings, the two getters of pruning   *)
(* together tell what a table registered with the options does.            *)
THEOREM GettersTellPruning == Spec => []TablesPruneAsTold
<1>1. IInv => TablesPruneAsTold
  BY DEF IInv, TypeOK, AsAsked, TablesPruneAsTold, Prunes
<1> QED
  BY <1>1, Invariance, PTL
-----------------------------------------------------------------------------
(* Refinement.  What the abstract options hold, as one record.             *)
LEMMA ChosenIs ==
  /\ Chosen = [pruning |-> asked, extension |-> file_extension,
               columns |-> GivenColumns(table_partition_columns)]
  /\ Chosen' = [pruning |-> asked', extension |-> file_extension',
                columns |-> GivenColumns(table_partition_columns)']
  BY DEF Chosen, GivenColumns

(* The whole of the settings goes into a table, or none of them.           *)
LEMMA StepRefines ==
  ASSUME KeepsBuffers, IInv, [Next]_vars
  PROVE  [Promise!Next]_(Promise!vars)
<1> DEFINE Abstract == IF object = "alive" THEN Chosen ELSE Defaults
<1> USE DEF mirror, options, registered
<1>a. TypeOK /\ Mirrored
  BY DEF IInv
<1>b. ASSUME UNCHANGED <<object, mirror, asked, tables>>
      PROVE  UNCHANGED Promise!vars
  <2>1. Chosen' = Chosen
    BY <1>b DEF Chosen
  <2> QED
    BY <1>b, <2>1 DEF Promise!vars, Defaults
<1>1. CASE New
  <2>1. object = "none" /\ object' = "alive" /\ tables' = tables
    BY <1>1 DEF New
  <2>2. Chosen' = Defaults
    BY <1>1, ChosenIs DEF New, GivenColumns, Chosen, Defaults
  <2> QED
    BY <2>1, <2>2 DEF Promise!Next, Promise!Open, Defaults
<1>2. CASE Dispose
  <2>1. object = "alive" /\ object' = "disposed" /\ tables' = tables
    BY <1>2 DEF Dispose
  <2> QED
    BY <2>1 DEF Promise!Next, Promise!Close, Defaults
<1>3. CASE Finalize
  BY <1>3 DEF Finalize, Promise!vars, Defaults
<1>4. ASSUME NEW p \in BOOLEAN, SetSession(p) PROVE UNCHANGED Promise!vars
  BY <1>b, <1>4 DEF SetSession
<1>5. ASSUME NEW p \in Pruning, object = "alive", asked' = p,
             UNCHANGED <<object, mirror, tables>>
      PROVE  Promise!Next
  <2>1. Chosen' = [Chosen EXCEPT !.pruning = p]
    BY <1>5, ChosenIs DEF GivenColumns
  <2> QED
    BY <1>5, <2>1 DEF Promise!Next, Promise!Choose
<1>6. CASE UnsetPruning \/ \E p \in BOOLEAN : SetPruning(p)
  BY <1>5, <1>6 DEF UnsetPruning, SetPruning, Pruning
<1>7. ASSUME NEW b \in Buffers, SetExtension(b) PROVE Promise!Next
  <2>1. /\ object = "alive" /\ object' = "alive" /\ tables' = tables
        /\ buffer[b] \in Utf8Extensions
    BY <1>7 DEF SetExtension
  <2>2. Chosen' = [Chosen EXCEPT !.extension = buffer[b]]
    BY <1>7, ChosenIs DEF SetExtension, GivenColumns
  <2> QED
    BY <2>1, <2>2 DEF Promise!Next, Promise!Choose
<1>8. ASSUME NEW c \in Columns \cup {None}, SetColumns(c) PROVE Promise!Next
  <2>1. object = "alive" /\ object' = "alive" /\ tables' = tables
    BY <1>8 DEF SetColumns
  <2>2. PICK d \in Columns \cup {None} : d = GivenColumns(c)
    BY DEF GivenColumns
  <2>3. Chosen' = [Chosen EXCEPT !.columns = d]
    BY <1>8, <2>2, ChosenIs DEF SetColumns, GivenColumns
  <2> QED
    BY <2>1, <2>3 DEF Promise!Next, Promise!Choose
<1>9. ASSUME NEW t \in Tables, RegisterParquet(t) PROVE Promise!Next
  <2>1. object = "alive" /\ object' = "alive" /\ Chosen' = Chosen
    BY <1>9 DEF RegisterParquet, Chosen
  <2>2. Cloned = Chosen
    BY <1>a, <2>1, ChosenIs DEF Cloned, Mirrored
  <2>3. tables' = [tables EXCEPT ![t] = Chosen]
    BY <1>9, <2>2 DEF RegisterParquet
  <2> QED
    BY <2>1, <2>3 DEF Promise!Next, Promise!Register
<1>10. ASSUME NEW t \in Tables, RegisterWithoutOptions(t) \/ Deregister(t)
       PROVE  Promise!Next
  <2>1. UNCHANGED <<object, Chosen>>
    BY <1>10 DEF RegisterWithoutOptions, Deregister, Chosen
  <2>2. \/ tables' = [tables EXCEPT ![t] = Defaults]
        \/ tables[t] # None /\ tables' = [tables EXCEPT ![t] = None]
    BY <1>10 DEF RegisterWithoutOptions, Deregister
  <2>3. Defaults' = Defaults
    BY DEF Defaults
  <2> QED
    BY <2>1, <2>2, <2>3
       DEF Promise!Next, Promise!RegisterWithoutOptions, Promise!Deregister
<1>11. ASSUME NEW b \in Buffers, NEW e \in Extensions, ReuseBuffer(b, e)
       PROVE  UNCHANGED Promise!vars
  BY <1>b, <1>11 DEF ReuseBuffer
<1>12. CASE UNCHANGED vars
  BY <1>b, <1>12 DEF vars
<1> QED
  BY <1>1, <1>2, <1>3, <1>4, <1>6, <1>7, <1>8, <1>9, <1>10, <1>11, <1>12 DEF Next

(* A registration takes the settings the caller chose, all of them as they *)
(* are at that moment, and keeps them, if the caller kept its strings.     *)
THEOREM RefinesFileOptions ==
  ASSUME KeepsBuffers
  PROVE  Spec => ImplementsFileOptions
<1>1. Init => Promise!Init
  BY DEF Init, Promise!Init
<1>2. IInv /\ [Next]_vars => [Promise!Next]_(Promise!vars)
  BY StepRefines
<1> QED
  BY <1>1, <1>2, Invariance, PTL DEF Spec, ImplementsFileOptions, Promise!Spec
=============================================================================
