------------------------- MODULE ReadOptions_proofs -------------------------
(***************************************************************************)
(* Theorems of ReadOptions, for every value of its constants.              *)
(*                                                                         *)
(* What the mirror says is not inductive on its own: that a kept schema is *)
(* not freed and made anew under it needs the reference counts, and these  *)
(* need to know who else holds the argument of a running setter.           *)
(***************************************************************************)
EXTENDS ReadOptions, TLAPS

(* A setter runs on a live object, its argument is held by somebody beside *)
(* the place it is about to be kept in, and a dead object keeps nothing.   *)
SetterShape ==
    /\ ~Idle => object = "alive"
    /\ Idle => argument = None
    /\ argument # None =>
            \/ argument \in held
            \/ setting = "schema" /\ argument = columns
            \/ setting = "columns" /\ argument = schema
    /\ object # "alive" => schema = None /\ columns = None

(* What Rust was given is what the mirror has, or is about to have.        *)
Mirrored ==
    object = "alive" =>
        /\ rs_schema = GivenSchema(IF setting = "schema" THEN argument ELSE schema)
        /\ rs_columns = GivenColumns(IF setting = "columns" THEN argument ELSE columns)

(* What the scalar properties hold, also while a setter runs.              *)
Scalars ==
    \A p \in Properties :
        \/ scalars[p] = asked[p]
        \/ p = "schema-infer-max-n-records" /\ asked[p] >= UsizeValues

IInv == TypeOK /\ SetterShape /\ RefsBalanced /\ Mirrored

USE OptionsAssumption

(* The conversions keep what fits.                                         *)
LEMMA ConversionKeeps ==
  ASSUME NEW p \in Properties, NEW v \in Values[p], InRange(p, v)
  PROVE  /\ v \in Nat
         /\ Converted(p, v) \in Nat
         /\ Converted(p, v) = v \/ (p = "schema-infer-max-n-records" /\ v >= UsizeValues)
<1>1. v \in Int
  OBVIOUS
<1>2. CASE p = "has-header"
  BY <1>1, <1>2 DEF InRange, Converted
<1>3. CASE p = "delimiter"
  BY <1>1, <1>3 DEF InRange, Converted
<1>4. CASE p = "schema-infer-max-n-records"
  <2>1. v \in Nat
    BY <1>1, <1>4
  <2>2. v % UsizeValues \in Nat /\ (v < UsizeValues => v % UsizeValues = v)
    BY <2>1
  <2> QED
    BY <1>4, <2>1, <2>2 DEF Converted
<1> QED
  BY <1>2, <1>3, <1>4 DEF Properties

LEMMA DefaultsAreNatural == DefaultScalars \in [Properties -> Nat]
  BY DEF DefaultScalars

LEMMA InitIInv == Init => IInv
  BY DefaultsAreNatural DEF Init, IInv, TypeOK, SetterShape, RefsBalanced, Mirrored, Idle

LEMMA NextIInv == IInv /\ [Next]_vars => IInv'
<1> SUFFICES ASSUME IInv, [Next]_vars PROVE IInv'
  OBVIOUS
<1> USE DEF IInv, TypeOK, mirror, options, values, setter, objects
<1>1. CASE New
  BY <1>1, DefaultsAreNatural DEF New, Idle, SetterShape, RefsBalanced, Mirrored, GivenSchema, GivenColumns
<1>2. CASE Dispose
  <2>1. TypeOK'
    BY <1>2 DEF Dispose, Ready, Idle, RefsBalanced
  <2>2. SetterShape' /\ Mirrored'
    BY <1>2 DEF Dispose, Ready, Idle, SetterShape, Mirrored
  <2>3. RefsBalanced'
    BY <1>2 DEF Dispose, Ready, Idle, RefsBalanced
  <2> QED
    BY <2>1, <2>2, <2>3
<1>3. CASE Finalize
  BY <1>3 DEF Finalize, Idle, SetterShape, RefsBalanced, Mirrored
<1>4. ASSUME NEW s \in Schemas, NEW f \in Fields, NewSchema(s, f) PROVE IInv'
  <2>1. s # schema /\ s # columns /\ s \notin held
    BY <1>4 DEF NewSchema, Idle, RefsBalanced
  <2>2. TypeOK' /\ SetterShape'
    BY <1>4 DEF NewSchema, Idle, SetterShape
  <2>3. RefsBalanced'
    BY <1>4, <2>1 DEF NewSchema, Idle, RefsBalanced
  <2>4. Mirrored'
    BY <1>4, <2>1 DEF NewSchema, Idle, Mirrored, GivenSchema, GivenColumns
  <2> QED
    BY <2>2, <2>3, <2>4
<1>5. ASSUME NEW s \in Schemas, UnrefSchema(s) PROVE IInv'
  <2>1. TypeOK' /\ SetterShape' /\ Mirrored'
    BY <1>5 DEF UnrefSchema, Idle, SetterShape, RefsBalanced, Mirrored, GivenSchema,
       GivenColumns, Unreferenced
  <2>2. RefsBalanced'
    BY <1>5 DEF UnrefSchema, Idle, RefsBalanced, Unreferenced
  <2> QED
    BY <2>1, <2>2
<1>6. ASSUME NEW s \in Schemas \cup {None}, SetSchema(s) PROVE IInv'
  <2>1. TypeOK'
    BY <1>6 DEF SetSchema, Ready, Idle, RefsBalanced, GivenSchema, Unreferenced
  <2>2. SetterShape'
    BY <1>6 DEF SetSchema, Ready, Idle, Passable, SetterShape
  <2>3. RefsBalanced'
    BY <1>6 DEF SetSchema, Ready, Idle, RefsBalanced, Unreferenced
  <2>4. Mirrored'
    BY <1>6 DEF SetSchema, Ready, Idle, Mirrored, GivenSchema, GivenColumns
  <2> QED
    BY <2>1, <2>2, <2>3, <2>4
<1>7. ASSUME NEW s \in Schemas \cup {None}, SetColumns(s) PROVE IInv'
  <2>1. TypeOK'
    BY <1>7 DEF SetColumns, Ready, Idle, RefsBalanced, GivenColumns, Unreferenced
  <2>2. SetterShape'
    BY <1>7 DEF SetColumns, Ready, Idle, Passable, SetterShape
  <2>3. RefsBalanced'
    BY <1>7 DEF SetColumns, Ready, Idle, RefsBalanced, Unreferenced
  <2>4. Mirrored'
    BY <1>7 DEF SetColumns, Ready, Idle, Mirrored, GivenSchema, GivenColumns
  <2> QED
    BY <2>1, <2>2, <2>3, <2>4
<1>8. CASE Keep
  <2>1. TypeOK'
    BY <1>8 DEF Keep, Idle, Referenced
  <2>2. SetterShape'
    BY <1>8 DEF Keep, Idle, SetterShape
  <2>3. RefsBalanced'
    BY <1>8 DEF Keep, Idle, RefsBalanced, Referenced
  <2>4. Mirrored'
    BY <1>8 DEF Keep, Idle, Mirrored, GivenSchema, GivenColumns
  <2> QED
    BY <2>1, <2>2, <2>3, <2>4
<1>9. ASSUME NEW b \in Buffers, SetExtension(b) PROVE IInv'
  BY <1>9 DEF SetExtension, Ready, Idle, SetterShape, RefsBalanced, Mirrored, GivenSchema,
     GivenColumns
<1>10. ASSUME NEW b \in Buffers, NEW e \in Extensions, ReuseBuffer(b, e) PROVE IInv'
  BY <1>10 DEF ReuseBuffer, Idle, SetterShape, RefsBalanced, Mirrored, GivenSchema, GivenColumns
<1>11. ASSUME NEW p \in Properties, NEW v \in Values[p], SetProperty(p, v) PROVE IInv'
  <2>1. scalars' \in [Properties -> Nat] /\ asked' \in [Properties -> Nat]
    BY <1>11, ConversionKeeps DEF SetProperty
  <2> QED
    BY <1>11, <2>1 DEF SetProperty, Ready, Idle, SetterShape, RefsBalanced, Mirrored,
       GivenSchema, GivenColumns
<1>12. CASE UNCHANGED vars
  BY <1>12 DEF vars, Idle, SetterShape, RefsBalanced, Mirrored, GivenSchema, GivenColumns
<1> QED
  BY <1>1, <1>2, <1>3, <1>4, <1>5, <1>6, <1>7, <1>8, <1>9, <1>10, <1>11, <1>12 DEF Next

LEMMA Invariance == Spec => []IInv
  BY InitIInv, NextIInv, PTL DEF Spec

(* Reference counts never go below zero, schemas are what they are.        *)
THEOREM TypeCorrect == Spec => []TypeOK
<1>1. IInv => TypeOK
  BY DEF IInv
<1> QED
  BY <1>1, Invariance, PTL

(* A schema has exactly the references its owners account for.             *)
THEOREM ReferencesBalance == Spec => []RefsBalanced
<1>1. IInv => RefsBalanced
  BY DEF IInv
<1> QED
  BY <1>1, Invariance, PTL

(* A setter called with the result of a getter does not free it.           *)
THEOREM ArgumentsSurvive == Spec => []ArgumentSurvives
<1>1. ASSUME IInv, argument # None PROVE refs[argument] > 0
  <2>1. argument \in Schemas
    BY <1>1 DEF IInv, TypeOK
  <2>2. refs[argument] = (IF argument \in held THEN 1 ELSE 0)
                            + (IF argument = schema /\ setting # "schema" THEN 1 ELSE 0)
                            + (IF argument = columns /\ setting # "columns" THEN 1 ELSE 0)
    BY <1>1, <2>1 DEF IInv, RefsBalanced
  <2> QED
    BY <1>1, <2>2 DEF IInv, SetterShape, Idle
<1> QED
  BY <1>1, Invariance, PTL DEF ArgumentSurvives

(* The schemas the getters return are those the files are read with.       *)
THEOREM GettersTellTheTruth == Spec => []SchemasAgree
<1>1. IInv => SchemasAgree
  BY DEF IInv, Mirrored, SchemasAgree, Ready, Idle, GivenSchema, GivenColumns
<1> QED
  BY <1>1, Invariance, PTL

(* Scalars arrive as they were asked for, on every width of usize.         *)
THEOREM ScalarsArrive == Spec => []ScalarsAgree
<1>1. Init => Scalars
  BY DEF Init, Scalars
<1>2. IInv /\ Scalars /\ [Next]_vars => Scalars'
  <2> SUFFICES ASSUME IInv, Scalars, [Next]_vars PROVE Scalars'
    OBVIOUS
  <2>1. ASSUME NEW p \in Properties, NEW v \in Values[p], SetProperty(p, v) PROVE Scalars'
    <3>1. ASSUME NEW q \in Properties
          PROVE  \/ scalars'[q] = asked'[q]
                 \/ q = "schema-infer-max-n-records" /\ asked'[q] >= UsizeValues
      <4>1. CASE q = p
        BY <2>1, <4>1, ConversionKeeps DEF IInv, TypeOK, SetProperty
      <4>2. CASE q # p
        BY <2>1, <4>2 DEF IInv, TypeOK, SetProperty, Scalars
      <4> QED
        BY <4>1, <4>2
    <3> QED
      BY <3>1 DEF Scalars
  <2>2. CASE New
    BY <2>2 DEF New, Scalars
  <2>3. CASE UNCHANGED <<scalars, asked>>
    BY <2>3 DEF Scalars
  <2>4. CASE \/ Dispose \/ Finalize \/ Keep \/ UNCHANGED vars
             \/ \E s \in Schemas, f \in Fields : NewSchema(s, f)
             \/ \E s \in Schemas : UnrefSchema(s)
             \/ \E s \in Schemas \cup {None} : SetSchema(s) \/ SetColumns(s)
             \/ \E b \in Buffers : SetExtension(b)
             \/ \E b \in Buffers, e \in Extensions : ReuseBuffer(b, e)
    <3>1. UNCHANGED values
      BY <2>4 DEF Dispose, Finalize, Keep, vars, NewSchema, UnrefSchema, SetSchema, SetColumns,
         SetExtension, ReuseBuffer
    <3> QED
      BY <2>3, <3>1 DEF values
  <2> QED
    BY <2>1, <2>2, <2>4 DEF Next
<1>3. Scalars => ScalarsAgree
  BY DEF Scalars, ScalarsAgree
<1> QED
  BY <1>1, <1>2, <1>3, Invariance, PTL DEF Spec

(* For a caller that keeps its strings, the extension the getter returns   *)
(* is the one files are filtered by.                                       *)
THEOREM ExtensionsAreKept == ASSUME KeepsBuffers PROVE Spec => []ExtensionsAgree
<1> DEFINE Extended ==
        object = "alive" =>
            file_extension = IF rs_extension = None THEN Default ELSE buffer[rs_extension]
<1>1. Init => Extended
  BY DEF Init
<1>2. Extended /\ IInv /\ [Next]_vars => Extended'
  <2> SUFFICES ASSUME Extended, IInv, [Next]_vars PROVE Extended'
    OBVIOUS
  <2> USE DEF mirror, options, values, setter, objects
  <2>1. CASE New \/ Dispose \/ Finalize
    BY <2>1 DEF New, Dispose, Finalize
  <2>2. CASE \/ \E s \in Schemas, f \in Fields : NewSchema(s, f)
             \/ \E s \in Schemas : UnrefSchema(s)
             \/ \E s \in Schemas \cup {None} : SetSchema(s) \/ SetColumns(s)
             \/ Keep
             \/ \E p \in Properties : \E v \in Values[p] : SetProperty(p, v)
             \/ UNCHANGED vars
    BY <2>2 DEF NewSchema, UnrefSchema, SetSchema, SetColumns, Keep, SetProperty, vars
  <2>3. ASSUME NEW b \in Buffers, SetExtension(b) PROVE Extended'
    BY <2>3 DEF SetExtension
  <2>4. ASSUME NEW b \in Buffers, NEW e \in Extensions, ReuseBuffer(b, e) PROVE Extended'
    BY <2>4 DEF ReuseBuffer, IInv, TypeOK
  <2> QED
    BY <2>1, <2>2, <2>3, <2>4 DEF Next
<1>3. Extended => ExtensionsAgree
  BY DEF ExtensionsAgree, Ready
<1> QED
  BY <1>1, <1>2, <1>3, Invariance, PTL DEF Spec
-----------------------------------------------------------------------------
(* Refinement.  The settings a file is read with, one by one.              *)
LEMMA ReadWithIs ==
  /\ ReadWith["schema"] = rs_schema
  /\ ReadWith["columns"] = rs_columns
  /\ ReadWith["extension"] = IF rs_extension = None THEN Default ELSE buffer[rs_extension]
  /\ \A p \in Properties : ReadWith[p] = scalars[p]
  /\ DOMAIN ReadWith = Settings
  BY DEF ReadWith, Settings, Properties

LEMMA ReadWithNext ==
  /\ ReadWith'["schema"] = rs_schema'
  /\ ReadWith'["columns"] = rs_columns'
  /\ ReadWith'["extension"] = IF rs_extension' = None THEN Default ELSE buffer'[rs_extension']
  /\ \A p \in Properties : ReadWith'[p] = scalars'[p]
  /\ DOMAIN ReadWith' = Settings
  BY DEF ReadWith, Settings, Properties

(* One setting that takes another value, the others staying as they are.   *)
LEMMA OneChosen ==
  ASSUME object = "alive", object' = "alive", NEW which \in Settings,
         NEW v \in ReadChoices[which],
         ReadWith'[which] = v,
         \A p \in Settings \ {which} : ReadWith'[p] = ReadWith[p]
  PROVE  Promise!Next
<1>1. ReadWith' = [ReadWith EXCEPT ![which] = v]
  BY DEF ReadWith
<1>2. Promise!Choose(which, v)
  BY <1>1 DEF Promise!Choose
<1>3. DOMAIN ReadChoices = Settings
  BY DEF ReadChoices
<1> QED
  BY <1>2, <1>3 DEF Promise!Next

LEMMA StepRefines ==
  ASSUME KeepsBuffers, TypeOK, [Next]_vars
  PROVE  [Promise!Next]_(Promise!vars)
<1> USE DEF mirror, options, values, setter, objects
<1>s. Settings = {"schema", "columns", "extension"} \cup Properties
  BY DEF Settings
<1>a. ASSUME UNCHANGED object, object = "alive" => ReadWith' = ReadWith
      PROVE  UNCHANGED Promise!vars
  BY <1>a DEF Promise!vars, NewReadWith
<1>b. ASSUME UNCHANGED <<object, options, scalars, buffer>>
      PROVE  UNCHANGED Promise!vars
  BY <1>a, <1>b DEF ReadWith
<1>1. CASE New
  <2>1. object = "none" /\ object' = "alive"
    BY <1>1 DEF New
  <2>2. ReadWith' = NewReadWith
    BY <1>1 DEF New, ReadWith, NewReadWith
  <2> QED
    BY <2>1, <2>2 DEF Promise!Next, Promise!Open, NewReadWith
<1>2. CASE Dispose
  <2>1. object = "alive" /\ object' = "disposed"
    BY <1>2 DEF Dispose, Ready
  <2> QED
    BY <2>1 DEF Promise!Next, Promise!Close, NewReadWith
<1>3. CASE Finalize
  BY <1>3 DEF Finalize, Promise!vars, NewReadWith
<1>4. CASE \/ \E s \in Schemas, f \in Fields : NewSchema(s, f)
           \/ \E s \in Schemas : UnrefSchema(s)
           \/ Keep
           \/ UNCHANGED vars
  BY <1>b, <1>4 DEF NewSchema, UnrefSchema, Keep, vars
<1>5. ASSUME NEW s \in Schemas \cup {None}, SetSchema(s) PROVE Promise!Next
  <2>1. /\ object = "alive" /\ object' = "alive" /\ rs_schema' = GivenSchema(s)
        /\ UNCHANGED <<rs_columns, rs_extension, scalars, buffer>>
    BY <1>5 DEF SetSchema, Ready
  <2>2. GivenSchema(s) \in ReadChoices["schema"]
    BY DEF GivenSchema, TypeOK, ReadChoices, Settings
  <2>3. \A p \in Settings \ {"schema"} : ReadWith'[p] = ReadWith[p]
    BY <1>s, <2>1, ReadWithIs, ReadWithNext
  <2> QED
    BY <1>s, <2>1, <2>2, <2>3, ReadWithNext, OneChosen
<1>6. ASSUME NEW s \in Schemas \cup {None}, SetColumns(s) PROVE Promise!Next
  <2>1. /\ object = "alive" /\ object' = "alive" /\ rs_columns' = GivenColumns(s)
        /\ UNCHANGED <<rs_schema, rs_extension, scalars, buffer>>
    BY <1>6 DEF SetColumns, Ready
  <2>2. GivenColumns(s) \in ReadChoices["columns"]
    BY DEF GivenColumns, TypeOK, ReadChoices, Settings
  <2>3. \A p \in Settings \ {"columns"} : ReadWith'[p] = ReadWith[p]
    BY <1>s, <2>1, ReadWithIs, ReadWithNext
  <2> QED
    BY <1>s, <2>1, <2>2, <2>3, ReadWithNext, OneChosen
<1>7. ASSUME NEW b \in Buffers, SetExtension(b) PROVE Promise!Next
  <2>1. /\ object = "alive" /\ object' = "alive" /\ rs_extension' = b /\ b # None
        /\ buffer[b] \in Utf8Extensions
        /\ UNCHANGED <<rs_schema, rs_columns, scalars, buffer>>
    BY <1>7 DEF SetExtension, Ready
  <2>2. buffer[b] \in ReadChoices["extension"]
    BY <2>1 DEF ReadChoices, Settings
  <2>3. \A p \in Settings \ {"extension"} : ReadWith'[p] = ReadWith[p]
    BY <1>s, <2>1, ReadWithIs, ReadWithNext
  <2> QED
    BY <1>s, <2>1, <2>2, <2>3, ReadWithNext, OneChosen
<1>8. ASSUME NEW q \in Properties, NEW v \in Values[q], SetProperty(q, v) PROVE Promise!Next
  <2>1. /\ object = "alive" /\ object' = "alive" /\ InRange(q, v)
        /\ scalars' = [scalars EXCEPT ![q] = Converted(q, v)]
        /\ UNCHANGED <<rs_schema, rs_columns, rs_extension, buffer>>
    BY <1>8 DEF SetProperty, Ready
  <2>2. Converted(q, v) \in ReadChoices[q]
    BY <2>1 DEF ReadChoices, Settings, Properties
  <2>3. scalars'[q] = Converted(q, v) /\ \A p \in Properties \ {q} : scalars'[p] = scalars[p]
    BY <2>1 DEF TypeOK
  <2>4. \A p \in Settings \ {q} : ReadWith'[p] = ReadWith[p]
    BY <1>s, <2>1, <2>3, ReadWithIs, ReadWithNext
  <2>5. ReadWith'[q] = Converted(q, v)
    BY <2>3, ReadWithNext
  <2> QED
    BY <1>s, <2>1, <2>2, <2>4, <2>5, OneChosen
<1>9. ASSUME NEW b \in Buffers, NEW e \in Extensions, ReuseBuffer(b, e)
      PROVE  UNCHANGED Promise!vars
  <2>1. /\ UNCHANGED <<object, options, scalars>>
        /\ object # "none" => rs_extension # b
        /\ buffer' = [buffer EXCEPT ![b] = e]
    BY <1>9 DEF ReuseBuffer
  <2>2. object = "alive" /\ rs_extension # None => buffer'[rs_extension] = buffer[rs_extension]
    BY <2>1 DEF TypeOK
  <2>3. object = "alive" => ReadWith' = ReadWith
    BY <2>1, <2>2 DEF ReadWith
  <2> QED
    BY <1>a, <2>1, <2>3
<1> QED
  BY <1>1, <1>2, <1>3, <1>4, <1>5, <1>6, <1>7, <1>8, <1>9 DEF Next

(* For a caller that keeps its strings, the settings a file is read with   *)
(* change by their setters only, each by its own.                          *)
THEOREM RefinesFileOptions == ASSUME KeepsBuffers PROVE Spec => ImplementsFileOptions
<1>1. Init => Promise!Init
  BY DEF Init, Promise!Init
<1>2. TypeOK /\ [Next]_vars => [Promise!Next]_(Promise!vars)
  BY StepRefines
<1> QED
  BY <1>1, <1>2, TypeCorrect, PTL DEF Spec, ImplementsFileOptions, Promise!Spec
=============================================================================
