------------------------ MODULE SessionContext_proofs ------------------------
(***************************************************************************)
(* Theorems of SessionContext, for every value of its constants.           *)
(*                                                                         *)
(* None of the invariants of the module is inductive on its own: that refs *)
(* stays in Nat needs the balance, the balance needs to know what a running*)
(* call owns, and what a call owns needs to know the step it is at.  IInv  *)
(* is their conjunction with what each step of a call may rely on.         *)
(***************************************************************************)
EXTENDS SessionContext, FiniteSetTheorems, TLAPS

(* What the step of a call says of its arguments and of its schema.        *)
CallShape ==
    /\ pc = "idle" <=> fn = "none"
    /\ pc = "idle" => list = {}
    /\ pc # "idle" => ctx = "alive" /\ name \in Names
    /\ pc \in {"rs_schema", "rs_batches", "rs_register", "insert"} => name \in Utf8Names
    /\ pc \in {"read", "export_schema"} => fn = "table"
    /\ fn = "record_batch" => list \subseteq held
    /\ pc = "insert" => success
    /\ pc \notin {"idle", "insert"} => ~success
    /\ pc \in {"idle", "read", "export_schema", "insert"} => schemaHolder = {}
    /\ pc \in {"rs_name", "rs_schema"} => schemaHolder = {"caller"}
    /\ pc \in {"rs_batches", "rs_register"} => schemaHolder = {"callee"}
    /\ pc = "fail" => schemaHolder \subseteq {"caller"}

(* Who holds an array at which step, and that it is an array of a batch    *)
(* this call registers.                                                    *)
ArrayShape ==
    \A s \in Structs :
        /\ holders[s] \subseteq Owners \cup Live(catalog, frames, shared)
        /\ holders[s] = {} <=> source[s] = None
        /\ "caller" \in holders[s] =>
                pc \in {"read", "export_schema", "rs_name", "rs_schema", "rs_batches", "fail"}
        /\ "callee" \in holders[s] => pc \in {"rs_batches", "rs_register"}
        /\ holders[s] \cap Owners # {} => source[s] \in list

(* Until the table is registered or the call fails every listed batch has  *)
(* an array.                                                               *)
ListExported ==
    pc \in {"read", "export_schema", "rs_name", "rs_schema", "rs_batches", "rs_register"} =>
        \A b \in list : \E s \in Structs : source[s] = b /\ holders[s] \cap Owners # {}

(* A context or a data frame that is gone keeps nothing.                   *)
ContextShape ==
    /\ ctx # "alive" => \A n \in Names : retained[n] = {}
    /\ ctx = "none" => \A t \in Tables : catalog[t] = None
    /\ \A f \in Frames : frames[f] = None => shared[f] = None

Keeping == IF pc = "insert" THEN [retained EXCEPT ![name] = list] ELSE retained

(* A MemTable reads exactly the batches kept under its name.               *)
TablesMatch ==
    /\ ctx = "alive" =>
        \A t \in Tables :
            catalog[t] # None /\ madeFrom[t] # None =>
                /\ Resolve[madeFrom[t]] = t
                /\ BatchesOf(catalog[t]) = Keeping[madeFrom[t]]
    /\ pc = "insert" =>
            catalog[Resolve[name]] # None /\ madeFrom[Resolve[name]] = name

IInv ==
    /\ TypeOK
    /\ CallShape
    /\ OneHolder
    /\ ArrayShape
    /\ ListExported
    /\ ContextShape
    /\ RefsBalanced
    /\ TablesMatch
-----------------------------------------------------------------------------
(* Replacing the entry of one name changes the number of entries that list *)
(* a batch by what leaves and what enters.                                 *)
LEMMA EntriesFinite ==
    ASSUME NEW b
    PROVE  /\ IsFiniteSet(Entries(b))
           /\ Cardinality(Entries(b)) \in Nat
<1>1. Entries(b) \in SUBSET Names
  BY DEF Entries
<1>2. IsFiniteSet(Entries(b))
  BY <1>1, NamesAssumption, FS_Subset
<1> QED
  BY <1>2, FS_CardinalityType

LEMMA EntriesReplaced ==
    ASSUME TypeOK, NEW m \in Names, NEW bs, NEW b,
           retained' = [retained EXCEPT ![m] = bs]
    PROVE  /\ Cardinality(Entries(b)') \in Nat
           /\ Cardinality(Entries(b)') + (IF b \in retained[m] THEN 1 ELSE 0)
                = Cardinality(Entries(b)) + (IF b \in bs THEN 1 ELSE 0)
<1>1. CASE b \in bs
  <2>1. Entries(b)' = Entries(b) \cup {m}
    BY <1>1 DEF Entries, TypeOK
  <2>2. m \in Entries(b) <=> b \in retained[m]
    BY DEF Entries
  <2>3. Cardinality(Entries(b) \cup {m})
            = IF m \in Entries(b) THEN Cardinality(Entries(b)) ELSE Cardinality(Entries(b)) + 1
    BY EntriesFinite, FS_AddElement
  <2>4. Cardinality(Entries(b)) \in Nat
    BY EntriesFinite
  <2> QED
    BY <1>1, <2>1, <2>2, <2>3, <2>4
<1>2. CASE b \notin bs
  <2>1. Entries(b)' = Entries(b) \ {m}
    BY <1>2 DEF Entries, TypeOK
  <2>2. m \in Entries(b) <=> b \in retained[m]
    BY DEF Entries
  <2>3. Cardinality(Entries(b) \ {m})
            = IF m \in Entries(b) THEN Cardinality(Entries(b)) - 1 ELSE Cardinality(Entries(b))
    BY EntriesFinite, FS_RemoveElement
  <2>4. m \in Entries(b) => Cardinality(Entries(b)) # 0
    BY EntriesFinite, FS_EmptySet
  <2>5. Cardinality(Entries(b)) \in Nat
    BY EntriesFinite
  <2> QED
    BY <1>2, <2>1, <2>2, <2>3, <2>4, <2>5
<1> QED
  BY <1>1, <1>2
-----------------------------------------------------------------------------
(* Reference counts.                                                       *)
LEMMA RefsBalancedStep ==
    ASSUME IInv, [Next]_vars
    PROVE  RefsBalanced'
<1> DEFINE Count(b) == (IF b \in held THEN 1 ELSE 0)
                        + (IF fn = "table" /\ b \in list THEN 1 ELSE 0)
                        + Cardinality(Entries(b))
<1>a. \A b \in Batches : refs[b] \in Nat /\ refs[b] = Count(b)
  BY DEF IInv, TypeOK, RefsBalanced
<1>b. \A b \in Batches : Cardinality(Entries(b)) \in Nat
  BY EntriesFinite
<1>c. SUFFICES ASSUME NEW c \in Batches
              PROVE  refs'[c] = Count(c)'
  BY DEF RefsBalanced
<1>d. retained' = retained => Entries(c)' = Entries(c)
  BY DEF Entries
<1>e. ASSUME UNCHANGED <<refs, held, fn, list, retained>>
      PROVE  refs'[c] = Count(c)'
  BY <1>a, <1>d, <1>e
<1>1. CASE UNCHANGED vars
  BY <1>1, <1>e DEF vars, object, registry, memory, call
<1>2. CASE New
  BY <1>2, <1>e DEF New, registry, memory, call
<1>3. CASE Dispose
  <2>1. Entries(c)' = {}
    BY <1>3 DEF Dispose, Entries
  <2>2. Cardinality(Entries(c)') = 0
    BY <2>1, FS_EmptySet
  <2>3. refs'[c] = refs[c] - Cardinality(Entries(c))
    BY <1>3 DEF Dispose
  <2>4. list = {} /\ UNCHANGED <<held, fn, list>>
    BY <1>3 DEF Dispose, Ready, Idle, call, IInv, CallShape
  <2> QED
    BY <1>a, <1>b, <2>2, <2>3, <2>4
<1>4. CASE Finalize
  BY <1>4, <1>e DEF Finalize, call
<1>5. ASSUME NEW b \in Batches, NewRecordBatch(b)
      PROVE  refs'[c] = Count(c)'
  <2>1. refs' = [refs EXCEPT ![b] = 1] /\ held' = held \cup {b} /\ refs[b] = 0
    BY <1>5 DEF NewRecordBatch, Unused
  <2>2. UNCHANGED <<fn, list, retained>> /\ refs \in [Batches -> Nat]
    BY <1>5 DEF NewRecordBatch, registry, call, IInv, TypeOK
  <2> QED
    BY <1>a, <1>b, <1>d, <2>1, <2>2
<1>6. ASSUME NEW b \in Batches, UnrefRecordBatch(b)
      PROVE  refs'[c] = Count(c)'
  <2>1. refs' = [refs EXCEPT ![b] = @ - 1] /\ held' = held \ {b} /\ b \in held
    BY <1>6 DEF UnrefRecordBatch
  <2>2. UNCHANGED <<fn, list, retained>> /\ refs \in [Batches -> Nat]
    BY <1>6 DEF UnrefRecordBatch, registry, call, IInv, TypeOK
  <2> QED
    BY <1>a, <1>b, <1>d, <2>1, <2>2
<1>7. ASSUME NEW f \in Frames, NEW n \in Names, Sql(f, n)
      PROVE  refs'[c] = Count(c)'
  BY <1>7, <1>e DEF Sql, registry, memory, call
<1>8. ASSUME NEW f \in Frames, FreeDataFrame(f)
      PROVE  refs'[c] = Count(c)'
  BY <1>8, <1>e DEF FreeDataFrame, call
<1>9. ASSUME NEW n \in Names, Deregister(n)
      PROVE  refs'[c] = Count(c)'
  <2>0. PICK nothing : nothing = {}
    OBVIOUS
  <2>1. retained' = [retained EXCEPT ![n] = nothing]
    BY <1>9, <2>0 DEF Deregister
  <2>2. Cardinality(Entries(c)') + (IF c \in retained[n] THEN 1 ELSE 0) = Cardinality(Entries(c))
    <3>1. Cardinality(Entries(c)') + (IF c \in retained[n] THEN 1 ELSE 0)
            = Cardinality(Entries(c)) + (IF c \in nothing THEN 1 ELSE 0)
      BY <2>1, EntriesReplaced DEF IInv
    <3> QED
      BY <1>b, <2>0, <3>1
  <2>3. refs'[c] = refs[c] - (IF c \in retained[n] THEN 1 ELSE 0)
    BY <1>9, <1>a DEF Deregister, Rereferenced
  <2>4. UNCHANGED <<held, fn, list>>
    BY <1>9 DEF Deregister, call
  <2>5. Cardinality(Entries(c)') \in Nat
    BY <2>1, EntriesReplaced DEF IInv
  <2> QED
    BY <1>a, <1>b, <2>2, <2>3, <2>4, <2>5
<1>10. ASSUME NEW n \in Names, NEW p \in Providers, RegisterFile(n, p)
       PROVE  refs'[c] = Count(c)'
  BY <1>10, <1>e DEF RegisterFile, call
<1>20. ASSUME NEW n \in Names, SqlDropTable(n)
       PROVE  refs'[c] = Count(c)'
  BY <1>20, <1>e DEF SqlDropTable, call
<1>11. ASSUME NEW n \in Names, NEW b \in Batches, NEW s \in Structs, RegisterRecordBatch(n, b, s)
       PROVE  refs'[c] = Count(c)'
  <2>1. fn = "none" /\ fn' = "record_batch" /\ UNCHANGED <<refs, held, retained>>
    BY <1>11 DEF RegisterRecordBatch, Ready, Idle, object, registry, IInv, CallShape
  <2> QED
    BY <1>a, <1>d, <2>1
<1>12. ASSUME NEW n \in Names, NEW k \in 0 .. MaxChunks, RegisterTable(n, k)
       PROVE  refs'[c] = Count(c)'
  <2>1. list = {} /\ UNCHANGED <<refs, held, list, retained>>
    BY <1>12 DEF RegisterTable, Ready, Idle, object, registry, memory, IInv, CallShape
  <2> QED
    BY <1>a, <1>d, <2>1
<1>13. ASSUME NEW b \in Batches, NEW s \in Structs, ReadBatch(b, s)
       PROVE  refs'[c] = Count(c)'
  <2>1. refs' = [refs EXCEPT ![b] = 1] /\ list' = list \cup {b} /\ refs[b] = 0 /\ fn = "table"
    BY <1>13 DEF ReadBatch, Unused, Prepended, IInv, CallShape
  <2>2. UNCHANGED <<fn, held, retained>> /\ refs \in [Batches -> Nat]
    BY <1>13 DEF ReadBatch, registry, object, IInv, TypeOK
  <2> QED
    BY <1>a, <1>b, <1>d, <2>1, <2>2
<1>14. CASE ReadError \/ ReadEnd \/ ExportSchema
  BY <1>14, <1>e DEF ReadError, ReadEnd, ExportSchema, object, registry, memory
<1>15. CASE RsName \/ RsSchema \/ RsEmptySlice \/ RsBatchesDone \/ RsRefuse
  BY <1>15, <1>e DEF RsName, RsSchema, RsEmptySlice, RsBatchesDone, RsRefuse, RsFail, object, registry, memory
<1>16. ASSUME NEW s \in Structs, RsTakeBatch(s)
       PROVE  refs'[c] = Count(c)'
  BY <1>16, <1>e DEF RsTakeBatch, RsFail, object, registry, memory, call
<1>17. ASSUME NEW p \in Providers, RsRegister(p)
       PROVE  refs'[c] = Count(c)'
  BY <1>17, <1>e DEF RsRegister
<1>18. CASE Insert
  <2> DEFINE own == IF fn = "record_batch" THEN list ELSE {}
  <2>1. retained' = [retained EXCEPT ![name] = list] /\ name \in Names
    BY <1>18 DEF Insert, IInv, CallShape
  <2>2. /\ Cardinality(Entries(c)') \in Nat
        /\ Cardinality(Entries(c)') + (IF c \in retained[name] THEN 1 ELSE 0)
              = Cardinality(Entries(c)) + (IF c \in list THEN 1 ELSE 0)
    BY <2>1, EntriesReplaced DEF IInv
  <2>3. refs'[c] = (refs[c] + (IF c \in own THEN 1 ELSE 0)) - (IF c \in retained[name] THEN 1 ELSE 0)
    BY <1>18 DEF Insert, Rereferenced
  <2>4. fn \in {"record_batch", "table"} /\ fn' = "none" /\ held' = held
    BY <1>18 DEF Insert, Return, object, IInv, TypeOK, CallShape
  <2>5. CASE fn = "record_batch"
    BY <1>a, <1>b, <2>2, <2>3, <2>4, <2>5
  <2>6. CASE fn = "table"
    BY <1>a, <1>b, <2>2, <2>3, <2>4, <2>6
  <2> QED
    BY <2>4, <2>5, <2>6
<1>19. CASE Fail
  <2>1. refs'[c] = refs[c] - (IF fn = "table" /\ c \in list THEN 1 ELSE 0)
    BY <1>19, <1>a DEF Fail, Rereferenced
  <2>2. fn' = "none" /\ UNCHANGED <<held, retained>>
    BY <1>19 DEF Fail, Return, object, registry
  <2> QED
    BY <1>a, <1>b, <1>d, <2>1, <2>2
<1> QED
  BY <1>1, <1>2, <1>3, <1>4, <1>5, <1>6, <1>7, <1>8, <1>9, <1>10, <1>11, <1>12, <1>13,
     <1>14, <1>15, <1>16, <1>17, <1>18, <1>19, <1>20 DEF Next, CallStep, Aborted
-----------------------------------------------------------------------------
(* Types.  That a count does not fall below zero follows from the balance. *)
LEMMA HoldTyped ==
    ASSUME TypeOK, NEW h \in [Structs -> SUBSET (Owners \cup Providers)], Hold(h)
    PROVE  /\ holders' \in [Structs -> SUBSET (Owners \cup Providers)]
           /\ source' \in [Structs -> Batches \cup {None}]
BY DEF TypeOK, Hold

LEMMA CatalogueTyped ==
    ASSUME TypeOK, NEW h \in [Structs -> SUBSET (Owners \cup Providers)],
           NEW cat \in [Tables -> Providers \cup {None}],
           NEW frs \in [Frames -> Providers \cup {None}],
           NEW shr \in [Frames -> (SUBSET Providers) \cup {None}],
           Catalogue(cat, frs, shr, h)
    PROVE  /\ catalog' \in [Tables -> Providers \cup {None}]
           /\ frames' \in [Frames -> Providers \cup {None}]
           /\ shared' \in [Frames -> (SUBSET Providers) \cup {None}]
           /\ holders' \in [Structs -> SUBSET (Owners \cup Providers)]
           /\ source' \in [Structs -> Batches \cup {None}]
<1>1. Collected(h, Live(cat, frs, shr)) \in [Structs -> SUBSET (Owners \cup Providers)]
  BY DEF Collected, Live
<1> QED
  BY <1>1, HoldTyped DEF Catalogue

LEMMA RsFailTyped ==
    ASSUME TypeOK, NEW h \in [Structs -> SUBSET (Owners \cup Providers)], RsFail(h),
           schemaHolder' \subseteq schemaHolder
    PROVE  TypeOK'
<1>1. Dropped(h, "callee") \in [Structs -> SUBSET (Owners \cup Providers)]
  BY DEF Dropped
<1>2. /\ holders' \in [Structs -> SUBSET (Owners \cup Providers)]
      /\ source' \in [Structs -> Batches \cup {None}]
  BY <1>1, HoldTyped DEF RsFail
<1> QED
  BY <1>2 DEF RsFail, object, registry, TypeOK, Steps

LEMMA TypeStep ==
    ASSUME IInv, [Next]_vars
    PROVE  TypeOK'
<1>a. TypeOK
  BY DEF IInv
<1>b. ASSUME DOMAIN refs' = Batches, refs' = [b \in Batches |-> refs'[b]]
      PROVE  refs' \in [Batches -> Nat]
  <2>1. ASSUME NEW b \in Batches
        PROVE  refs'[b] \in Nat
    <3>1. Cardinality(Entries(b)') \in Nat
      <4>1. Entries(b)' \in SUBSET Names
        BY DEF Entries
      <4> QED
        BY <4>1, NamesAssumption, FS_Subset, FS_CardinalityType
    <3> QED
      BY <3>1, RefsBalancedStep DEF RefsBalanced
  <2> QED
    BY <1>b, <2>1
<1>1. CASE UNCHANGED vars
  BY <1>a, <1>1 DEF TypeOK, vars, object, registry, memory, call
<1>2. CASE New
  BY <1>a, <1>2 DEF TypeOK, New, registry, memory, call
<1>3. CASE Dispose
  <2>1. refs' \in [Batches -> Nat]
    BY <1>b, <1>3 DEF Dispose
  <2> QED
    BY <1>a, <1>3, <2>1 DEF TypeOK, Dispose, call
<1>4. CASE Finalize
  <2> DEFINE shr == [f \in Frames |-> IF frames[f] # None /\ shared[f] = None
                                     THEN {p \in Providers : \E t \in Tables : catalog[t] = p}
                                     ELSE shared[f]]
  <2>1. [t \in Tables |-> None] \in [Tables -> Providers \cup {None}]
    OBVIOUS
  <2>2. shr \in [Frames -> (SUBSET Providers) \cup {None}]
    BY <1>a DEF TypeOK
  <2>3. Catalogue([t \in Tables |-> None], frames, shr, holders)
    BY <1>4 DEF Finalize
  <2> HIDE DEF shr
  <2>4. /\ catalog' \in [Tables -> Providers \cup {None}]
        /\ frames' \in [Frames -> Providers \cup {None}]
        /\ shared' \in [Frames -> (SUBSET Providers) \cup {None}]
        /\ holders' \in [Structs -> SUBSET (Owners \cup Providers)]
        /\ source' \in [Structs -> Batches \cup {None}]
    BY <1>a, <2>1, <2>2, <2>3, CatalogueTyped DEF TypeOK
  <2> QED
    BY <1>a, <1>4, <2>4 DEF TypeOK, Finalize, call
<1>5. ASSUME NEW b \in Batches, NewRecordBatch(b)
      PROVE  TypeOK'
  BY <1>a, <1>5 DEF TypeOK, NewRecordBatch, registry, call
<1>6. ASSUME NEW b \in Batches, UnrefRecordBatch(b)
      PROVE  TypeOK'
  <2>1. refs' \in [Batches -> Nat]
    BY <1>a, <1>b, <1>6 DEF UnrefRecordBatch, TypeOK
  <2> QED
    BY <1>a, <1>6, <2>1 DEF TypeOK, UnrefRecordBatch, registry, call
<1>7. ASSUME NEW f \in Frames, NEW n \in Names, Sql(f, n)
      PROVE  TypeOK'
  BY <1>a, <1>7, NamesAssumption DEF TypeOK, Sql, registry, memory, call
<1>8. ASSUME NEW f \in Frames, FreeDataFrame(f)
      PROVE  TypeOK'
  <2>1. [frames EXCEPT ![f] = None] \in [Frames -> Providers \cup {None}]
    BY <1>a DEF TypeOK
  <2>4. [shared EXCEPT ![f] = None] \in [Frames -> (SUBSET Providers) \cup {None}]
    BY <1>a DEF TypeOK
  <2>2. Catalogue(catalog, [frames EXCEPT ![f] = None], [shared EXCEPT ![f] = None], holders)
    BY <1>8 DEF FreeDataFrame
  <2>3. /\ catalog' \in [Tables -> Providers \cup {None}]
        /\ frames' \in [Frames -> Providers \cup {None}]
        /\ shared' \in [Frames -> (SUBSET Providers) \cup {None}]
        /\ holders' \in [Structs -> SUBSET (Owners \cup Providers)]
        /\ source' \in [Structs -> Batches \cup {None}]
    BY <1>a, <2>1, <2>2, <2>4, CatalogueTyped DEF TypeOK
  <2> QED
    BY <1>a, <1>8, <2>3 DEF TypeOK, FreeDataFrame, call
<1>9. ASSUME NEW n \in Names, Deregister(n)
      PROVE  TypeOK'
  <2>1. [catalog EXCEPT ![Resolve[n]] = None] \in [Tables -> Providers \cup {None}]
    BY <1>a DEF TypeOK
  <2>2. Catalogue([catalog EXCEPT ![Resolve[n]] = None], frames, shared, holders)
    BY <1>9 DEF Deregister
  <2>3. /\ catalog' \in [Tables -> Providers \cup {None}]
        /\ frames' \in [Frames -> Providers \cup {None}]
        /\ shared' \in [Frames -> (SUBSET Providers) \cup {None}]
        /\ holders' \in [Structs -> SUBSET (Owners \cup Providers)]
        /\ source' \in [Structs -> Batches \cup {None}]
    BY <1>a, <2>1, <2>2, CatalogueTyped DEF TypeOK
  <2>4. refs' \in [Batches -> Nat]
    BY <1>b, <1>9 DEF Deregister, Rereferenced
  <2> QED
    BY <1>a, <1>9, <2>3, <2>4 DEF TypeOK, Deregister, call
<1>23. ASSUME NEW n \in Names, SqlDropTable(n)
       PROVE  TypeOK'
  <2>1. [catalog EXCEPT ![Resolve[n]] = None] \in [Tables -> Providers \cup {None}]
    BY <1>a DEF TypeOK
  <2>2. Catalogue([catalog EXCEPT ![Resolve[n]] = None], frames, shared, holders)
    BY <1>23 DEF SqlDropTable
  <2>3. /\ catalog' \in [Tables -> Providers \cup {None}]
        /\ frames' \in [Frames -> Providers \cup {None}]
        /\ shared' \in [Frames -> (SUBSET Providers) \cup {None}]
        /\ holders' \in [Structs -> SUBSET (Owners \cup Providers)]
        /\ source' \in [Structs -> Batches \cup {None}]
    BY <1>a, <2>1, <2>2, CatalogueTyped DEF TypeOK
  <2> QED
    BY <1>a, <1>23, <2>3 DEF TypeOK, SqlDropTable, call
<1>10. ASSUME NEW n \in Names, NEW p \in Providers, RegisterFile(n, p)
       PROVE  TypeOK'
  <2>1. [catalog EXCEPT ![Resolve[n]] = p] \in [Tables -> Providers \cup {None}]
    BY <1>a DEF TypeOK
  <2>2. Catalogue([catalog EXCEPT ![Resolve[n]] = p], frames, shared, holders)
    BY <1>10 DEF RegisterFile
  <2>3. /\ catalog' \in [Tables -> Providers \cup {None}]
        /\ frames' \in [Frames -> Providers \cup {None}]
        /\ shared' \in [Frames -> (SUBSET Providers) \cup {None}]
        /\ holders' \in [Structs -> SUBSET (Owners \cup Providers)]
        /\ source' \in [Structs -> Batches \cup {None}]
    BY <1>a, <2>1, <2>2, CatalogueTyped DEF TypeOK
  <2> QED
    BY <1>a, <1>10, <2>3 DEF TypeOK, RegisterFile, call
<1>11. ASSUME NEW n \in Names, NEW b \in Batches, NEW s \in Structs, RegisterRecordBatch(n, b, s)
       PROVE  TypeOK'
  BY <1>a, <1>11 DEF TypeOK, RegisterRecordBatch, object, registry, Owners, Steps
<1>12. ASSUME NEW n \in Names, NEW k \in 0 .. MaxChunks, RegisterTable(n, k)
       PROVE  TypeOK'
  BY <1>a, <1>12 DEF TypeOK, RegisterTable, object, registry, memory, Steps
<1>13. ASSUME NEW b \in Batches, NEW s \in Structs, ReadBatch(b, s)
       PROVE  TypeOK'
  BY <1>a, <1>13, PoolsAssumption DEF TypeOK, ReadBatch, Prepended, object, registry, Owners, Steps
<1>14. CASE ReadError \/ ReadEnd \/ ExportSchema
  BY <1>a, <1>14 DEF TypeOK, ReadError, ReadEnd, ExportSchema, object, registry, memory, Owners, Steps
<1>15. CASE RsName
  BY <1>a, <1>15, RsFailTyped DEF RsName, TypeOK, object, registry, memory, Steps
<1>16. CASE RsSchema
  BY <1>a, <1>16, RsFailTyped DEF RsSchema, TypeOK, object, registry, memory, Owners, Steps
<1>17. ASSUME NEW s \in Structs, RsTakeBatch(s)
       PROVE  TypeOK'
  <2>1. Moved(holders, s) \in [Structs -> SUBSET (Owners \cup Providers)]
    BY <1>a DEF TypeOK, Moved, Owners
  <2>2. CASE RsFail(Moved(holders, s)) /\ schemaHolder' = schemaHolder \ {"callee"}
    BY <1>a, <2>1, <2>2, RsFailTyped
  <2>3. CASE Hold(Moved(holders, s)) /\ UNCHANGED <<object, registry, refs, call>>
    <3>1. /\ holders' \in [Structs -> SUBSET (Owners \cup Providers)]
          /\ source' \in [Structs -> Batches \cup {None}]
      BY <1>a, <2>1, <2>3, HoldTyped
    <3> QED
      BY <1>a, <2>3, <3>1 DEF TypeOK, object, registry, call
  <2> QED
    BY <1>17, <2>2, <2>3 DEF RsTakeBatch
<1>18. CASE RsEmptySlice \/ RsBatchesDone
  BY <1>a, <1>18 DEF TypeOK, RsEmptySlice, RsBatchesDone, object, registry, memory, Steps
<1>19. ASSUME NEW p \in Providers, RsRegister(p)
       PROVE  TypeOK'
  <2>1. [catalog EXCEPT ![Resolve[name]] = p] \in [Tables -> Providers \cup {None}]
    BY <1>a DEF TypeOK
  <2>2. Given(holders, p) \in [Structs -> SUBSET (Owners \cup Providers)]
    BY <1>a DEF TypeOK, Given
  <2>3. /\ catalog' \in [Tables -> Providers \cup {None}]
        /\ frames' \in [Frames -> Providers \cup {None}]
        /\ shared' \in [Frames -> (SUBSET Providers) \cup {None}]
        /\ holders' \in [Structs -> SUBSET (Owners \cup Providers)]
        /\ source' \in [Structs -> Batches \cup {None}]
    BY <1>a, <1>19, <2>1, <2>2, CatalogueTyped DEF TypeOK, RsRegister
  <2> QED
    BY <1>a, <1>19, <2>3 DEF TypeOK, RsRegister, Steps
<1>20. CASE RsRefuse
  BY <1>a, <1>20, RsFailTyped DEF RsRefuse, TypeOK
<1>21. CASE Insert
  <2>1. refs' \in [Batches -> Nat]
    BY <1>b, <1>21 DEF Insert, Rereferenced
  <2>2. retained' \in [Names -> SUBSET Batches]
    BY <1>a, <1>21 DEF TypeOK, Insert
  <2>3. /\ pc' = "idle" /\ fn' = "none" /\ name' = None /\ list' = {} /\ chunks' = 0
        /\ UNCHANGED <<ctx, frames, shared, held, catalog, madeFrom, source, holders, schemaHolder, success>>
    BY <1>21 DEF Insert, Return, object
  <2> QED
    BY <1>a, <2>1, <2>2, <2>3, PoolsAssumption DEF TypeOK, Steps
<1>22. CASE Fail
  <2>1. refs' \in [Batches -> Nat]
    BY <1>b, <1>22 DEF Fail, Rereferenced
  <2>2. Dropped(holders, "caller") \in [Structs -> SUBSET (Owners \cup Providers)]
    BY <1>a DEF TypeOK, Dropped
  <2>3. /\ holders' \in [Structs -> SUBSET (Owners \cup Providers)]
        /\ source' \in [Structs -> Batches \cup {None}]
    BY <1>a, <1>22, <2>2, HoldTyped DEF Fail
  <2> QED
    BY <1>a, <1>22, <2>1, <2>3, PoolsAssumption DEF TypeOK, Fail, Return, object, registry, Steps
<1> QED
  BY <1>1, <1>2, <1>3, <1>4, <1>5, <1>6, <1>7, <1>8, <1>9, <1>10, <1>11, <1>12, <1>13,
     <1>14, <1>15, <1>16, <1>17, <1>18, <1>19, <1>20, <1>21, <1>22, <1>23 DEF Next, CallStep, Aborted
-----------------------------------------------------------------------------
(* The shape of a call.                                                    *)
LEMMA CallShapeStep ==
    ASSUME IInv, [Next]_vars
    PROVE  CallShape'
<1>a. TypeOK /\ CallShape
  BY DEF IInv
<1>b. ASSUME UNCHANGED <<ctx, call>>, list = {} \/ held' = held
      PROVE  CallShape'
  BY <1>a, <1>b DEF CallShape, call
<1>1. CASE UNCHANGED vars
  BY <1>b, <1>1 DEF vars, object
<1>2. CASE New
  BY <1>a, <1>2 DEF CallShape, New, Idle, call
<1>3. CASE Dispose
  BY <1>a, <1>3 DEF CallShape, Dispose, Ready, Idle, call
<1>4. CASE Finalize
  BY <1>a, <1>4 DEF CallShape, Finalize, Idle, call
<1>5. ASSUME NEW b \in Batches, NewRecordBatch(b) \/ UnrefRecordBatch(b)
      PROVE  CallShape'
  BY <1>a, <1>b, <1>5 DEF CallShape, NewRecordBatch, UnrefRecordBatch, Idle
<1>6. ASSUME NEW f \in Frames, NEW n \in Names, Sql(f, n)
      PROVE  CallShape'
  BY <1>b, <1>6 DEF Sql
<1>7. ASSUME NEW f \in Frames, FreeDataFrame(f)
      PROVE  CallShape'
  BY <1>b, <1>7 DEF FreeDataFrame
<1>8. ASSUME NEW n \in Names, Deregister(n) \/ SqlDropTable(n)
      PROVE  CallShape'
  BY <1>b, <1>8 DEF Deregister, SqlDropTable
<1>9. ASSUME NEW n \in Names, NEW p \in Providers, RegisterFile(n, p)
      PROVE  CallShape'
  BY <1>b, <1>9 DEF RegisterFile
<1>10. ASSUME NEW n \in Names, NEW b \in Batches, NEW s \in Structs, RegisterRecordBatch(n, b, s)
       PROVE  CallShape'
  BY <1>a, <1>10 DEF CallShape, RegisterRecordBatch, Ready, Idle, object
<1>11. ASSUME NEW n \in Names, NEW k \in 0 .. MaxChunks, RegisterTable(n, k)
       PROVE  CallShape'
  BY <1>a, <1>11 DEF CallShape, RegisterTable, Ready, Idle, object
<1>12. ASSUME NEW b \in Batches, NEW s \in Structs, ReadBatch(b, s)
       PROVE  CallShape'
  BY <1>a, <1>12 DEF CallShape, ReadBatch, object
<1>13. CASE ReadError \/ ReadEnd \/ ExportSchema
  BY <1>a, <1>13 DEF CallShape, ReadError, ReadEnd, ExportSchema, object
<1>14. CASE RsName
  BY <1>a, <1>14 DEF CallShape, RsName, RsFail, object
<1>15. CASE RsSchema
  BY <1>a, <1>15 DEF CallShape, RsSchema, RsFail, object
<1>16. ASSUME NEW s \in Structs, RsTakeBatch(s)
       PROVE  CallShape'
  BY <1>a, <1>b, <1>16 DEF CallShape, RsTakeBatch, RsFail, object
<1>17. CASE RsEmptySlice \/ RsBatchesDone
  BY <1>a, <1>17 DEF CallShape, RsEmptySlice, RsBatchesDone, object
<1>18. ASSUME NEW p \in Providers, RsRegister(p)
       PROVE  CallShape'
  BY <1>a, <1>18 DEF CallShape, RsRegister
<1>19. CASE RsRefuse
  BY <1>a, <1>19 DEF CallShape, RsRefuse, RsFail, object
<1>20. CASE Insert
  BY <1>a, <1>20 DEF CallShape, Insert, Return, object
<1>21. CASE Fail
  BY <1>a, <1>21 DEF CallShape, Fail, Return, object
<1> QED
  BY <1>1, <1>2, <1>3, <1>4, <1>5, <1>6, <1>7, <1>8, <1>9, <1>10, <1>11, <1>12, <1>13,
     <1>14, <1>15, <1>16, <1>17, <1>18, <1>19, <1>20, <1>21 DEF Next, CallStep, Aborted

(* A context that is gone keeps no batch and, once finalized, no table.    *)
LEMMA ContextShapeStep ==
    ASSUME IInv, [Next]_vars
    PROVE  ContextShape'
<1>a. TypeOK /\ ContextShape /\ CallShape
  BY DEF IInv
<1>d. \A f \in Frames : frames[f] = None => shared[f] = None
  BY <1>a DEF ContextShape
<1>b. ASSUME UNCHANGED <<ctx, frames, shared>>, ctx = "alive"
      PROVE  ContextShape'
  BY <1>b, <1>d DEF ContextShape
<1>c. ASSUME UNCHANGED <<ctx, catalog, retained, frames, shared>>
      PROVE  ContextShape'
  BY <1>a, <1>c DEF ContextShape
<1>1. CASE UNCHANGED vars
  BY <1>c, <1>1 DEF vars, object, registry
<1>2. CASE New
  BY <1>d, <1>2 DEF ContextShape, New
<1>3. CASE Dispose
  BY <1>d, <1>3 DEF ContextShape, Dispose
<1>4. CASE Finalize
  BY <1>a, <1>d, <1>4 DEF ContextShape, Finalize, Catalogue
<1>5. ASSUME NEW b \in Batches, NewRecordBatch(b) \/ UnrefRecordBatch(b)
      PROVE  ContextShape'
  BY <1>c, <1>5 DEF NewRecordBatch, UnrefRecordBatch, registry
<1>6. ASSUME NEW f \in Frames, NEW n \in Names, Sql(f, n)
      PROVE  ContextShape'
  <2>1. catalog[Resolve[n]] # None /\ frames' = [frames EXCEPT ![f] = catalog[Resolve[n]]]
        /\ UNCHANGED <<ctx, catalog, retained, shared>>
    BY <1>6 DEF Sql, registry
  <2>2. \A g \in Frames : frames'[g] = None => shared'[g] = None
    BY <1>a, <1>d, <2>1 DEF TypeOK
  <2> QED
    BY <1>a, <2>1, <2>2 DEF ContextShape
<1>7. ASSUME NEW f \in Frames, FreeDataFrame(f)
      PROVE  ContextShape'
  <2>1. /\ frames' = [frames EXCEPT ![f] = None] /\ shared' = [shared EXCEPT ![f] = None]
        /\ UNCHANGED <<ctx, catalog, retained>>
    BY <1>7 DEF FreeDataFrame, Catalogue
  <2>2. \A g \in Frames : frames'[g] = None => shared'[g] = None
    BY <1>a, <1>d, <2>1 DEF TypeOK
  <2> QED
    BY <1>a, <2>1, <2>2 DEF ContextShape
<1>8. ASSUME NEW n \in Names, Deregister(n) \/ SqlDropTable(n)
      PROVE  ContextShape'
  BY <1>b, <1>8 DEF Deregister, SqlDropTable, Catalogue, Ready
<1>9. ASSUME NEW n \in Names, NEW p \in Providers, RegisterFile(n, p)
      PROVE  ContextShape'
  BY <1>b, <1>9 DEF RegisterFile, Catalogue, Ready
<1>10. ASSUME NEW n \in Names, NEW b \in Batches, NEW s \in Structs, RegisterRecordBatch(n, b, s)
       PROVE  ContextShape'
  BY <1>c, <1>10 DEF RegisterRecordBatch, object, registry
<1>11. ASSUME NEW n \in Names, NEW k \in 0 .. MaxChunks, RegisterTable(n, k)
       PROVE  ContextShape'
  BY <1>c, <1>11 DEF RegisterTable, object, registry
<1>12. CASE CallStep
  <2>1. pc # "idle" /\ UNCHANGED <<ctx, frames, shared>>
    BY <1>12 DEF CallStep, ReadBatch, ReadError, ReadEnd, ExportSchema, RsName, RsSchema,
       RsTakeBatch, RsEmptySlice, RsBatchesDone, RsRegister, RsRefuse, RsFail, Catalogue, Insert, Fail, object
  <2> QED
    BY <1>a, <1>b, <2>1 DEF CallShape
<1> QED
  BY <1>1, <1>2, <1>3, <1>4, <1>5, <1>6, <1>7, <1>8, <1>9, <1>10, <1>11, <1>12 DEF Next, Aborted
-----------------------------------------------------------------------------
(* Arrays.                                                                 *)
LEMMA OneHolderStep ==
    ASSUME IInv, [Next]_vars
    PROVE  OneHolder'
<1>a. TypeOK /\ OneHolder
  BY DEF IInv
<1>b. ASSUME \A s \in Structs : holders'[s] \subseteq holders[s]
      PROVE  OneHolder'
  BY <1>a, <1>b DEF OneHolder
<1>c. ASSUME UNCHANGED holders
      PROVE  OneHolder'
  BY <1>b, <1>c
<1>d. ASSUME NEW cat, NEW frs, NEW shr, Catalogue(cat, frs, shr, holders)
      PROVE  OneHolder'
  BY <1>b, <1>d DEF Catalogue, Hold, Collected
<1>e. ASSUME NEW s \in Structs, "caller" \in holders[s]
      PROVE  \A x \in Structs : \A o1, o2 \in Moved(holders, s)[x] : o1 = o2
  BY <1>a, <1>e DEF TypeOK, OneHolder, Moved
<1>f. RsFail(holders) => OneHolder'
  BY <1>b DEF RsFail, Hold, Dropped
<1>1. CASE UNCHANGED vars
  BY <1>c, <1>1 DEF vars, memory
<1>2. CASE New
  BY <1>c, <1>2 DEF New, memory
<1>3. CASE Dispose
  BY <1>c, <1>3 DEF Dispose
<1>4. CASE Finalize
  BY <1>d, <1>4 DEF Finalize
<1>5. ASSUME NEW b \in Batches, NewRecordBatch(b) \/ UnrefRecordBatch(b)
      PROVE  OneHolder'
  BY <1>c, <1>5 DEF NewRecordBatch, UnrefRecordBatch
<1>6. ASSUME NEW f \in Frames, NEW n \in Names, Sql(f, n)
      PROVE  OneHolder'
  BY <1>c, <1>6 DEF Sql, memory
<1>7. ASSUME NEW f \in Frames, FreeDataFrame(f)
      PROVE  OneHolder'
  BY <1>d, <1>7 DEF FreeDataFrame
<1>8. ASSUME NEW n \in Names, Deregister(n) \/ SqlDropTable(n)
      PROVE  OneHolder'
  BY <1>d, <1>8 DEF Deregister, SqlDropTable
<1>9. ASSUME NEW n \in Names, NEW p \in Providers, RegisterFile(n, p)
      PROVE  OneHolder'
  BY <1>d, <1>9 DEF RegisterFile
<1>10. ASSUME NEW n \in Names, NEW b \in Batches, NEW s \in Structs, RegisterRecordBatch(n, b, s)
       PROVE  OneHolder'
  BY <1>a, <1>10 DEF TypeOK, OneHolder, RegisterRecordBatch
<1>11. ASSUME NEW n \in Names, NEW k \in 0 .. MaxChunks, RegisterTable(n, k)
       PROVE  OneHolder'
  BY <1>c, <1>11 DEF RegisterTable, memory
<1>12. ASSUME NEW b \in Batches, NEW s \in Structs, ReadBatch(b, s)
       PROVE  OneHolder'
  BY <1>a, <1>12 DEF TypeOK, OneHolder, ReadBatch
<1>13. CASE ReadError \/ ReadEnd \/ ExportSchema
  BY <1>c, <1>13 DEF ReadError, ReadEnd, ExportSchema, memory
<1>14. CASE RsName \/ RsSchema
  BY <1>c, <1>f, <1>14 DEF RsName, RsSchema, memory
<1>15. ASSUME NEW s \in Structs, RsTakeBatch(s)
       PROVE  OneHolder'
  <2>1. \A x \in Structs : holders'[x] \subseteq Moved(holders, s)[x]
    BY <1>15 DEF RsTakeBatch, RsFail, Hold, Dropped
  <2> QED
    BY <1>e, <1>15, <2>1 DEF RsTakeBatch, OneHolder
<1>16. CASE RsEmptySlice \/ RsBatchesDone
  BY <1>c, <1>16 DEF RsEmptySlice, RsBatchesDone, memory
<1>17. ASSUME NEW p \in Providers, RsRegister(p)
       PROVE  OneHolder'
  <2>1. \A x \in Structs : holders'[x] \subseteq Given(holders, p)[x]
    BY <1>17 DEF RsRegister, Catalogue, Hold, Collected
  <2>2. \A x \in Structs : \A o1, o2 \in Given(holders, p)[x] : o1 = o2
    BY <1>a DEF OneHolder, Given
  <2> QED
    BY <2>1, <2>2 DEF OneHolder
<1>18. CASE RsRefuse
  BY <1>f, <1>18 DEF RsRefuse
<1>19. CASE Insert
  BY <1>c, <1>19 DEF Insert
<1>20. CASE Fail
  BY <1>b, <1>20 DEF Fail, Hold, Dropped
<1> QED
  BY <1>1, <1>2, <1>3, <1>4, <1>5, <1>6, <1>7, <1>8, <1>9, <1>10, <1>11, <1>12, <1>13,
     <1>14, <1>15, <1>16, <1>17, <1>18, <1>19, <1>20 DEF Next, CallStep, Aborted

LEMMA CatalogueShape ==
    ASSUME IInv, NEW cat, NEW frs, NEW shr, Catalogue(cat, frs, shr, holders), UNCHANGED <<pc, list>>
    PROVE  ArrayShape'
<1>1. Live(catalog, frames, shared)' = Live(cat, frs, shr)
  BY DEF Catalogue, Live
<1>2. \A s \in Structs : /\ holders'[s] = holders[s] \cap (Owners \cup Live(cat, frs, shr))
                         /\ source'[s] = IF holders'[s] = {} THEN None ELSE source[s]
  BY DEF Catalogue, Hold, Collected
<1>3. \A s \in Structs : source[s] = None => holders[s] = {}
  BY DEF IInv, ArrayShape
<1> QED
  BY <1>1, <1>2, <1>3 DEF IInv, ArrayShape

LEMMA RsFailShape ==
    ASSUME IInv, RsFail(holders)
    PROVE  ArrayShape'
<1>1. Live(catalog, frames, shared)' = Live(catalog, frames, shared)
  BY DEF RsFail, object, registry
<1>2. \A s \in Structs : /\ holders'[s] = holders[s] \ {"callee"}
                         /\ source'[s] = IF holders'[s] = {} THEN None ELSE source[s]
  BY DEF RsFail, Hold, Dropped
<1>3. \A s \in Structs : source[s] = None => holders[s] = {}
  BY DEF IInv, ArrayShape
<1>4. pc' = "fail" /\ list' = list
  BY DEF RsFail
<1> QED
  BY <1>1, <1>2, <1>3, <1>4 DEF IInv, ArrayShape, Owners

LEMMA ArrayShapeStep ==
    ASSUME IInv, [Next]_vars
    PROVE  ArrayShape'
<1>a. TypeOK /\ ArrayShape /\ CallShape
  BY DEF IInv
<1>b. ASSUME UNCHANGED <<catalog, frames, shared, holders, source, list>>,
             \/ pc' = pc
             \/ pc \notin {"rs_batches", "rs_register"}
                    /\ pc' \in {"read", "export_schema", "rs_name", "rs_schema", "rs_batches", "fail"}
      PROVE  ArrayShape'
  BY <1>a, <1>b DEF ArrayShape, Live
<1>1. CASE UNCHANGED vars
  BY <1>b, <1>1 DEF vars, object, registry, memory, call
<1>2. CASE New
  BY <1>b, <1>2 DEF New, registry, memory, call
<1>3. CASE Dispose
  BY <1>b, <1>3 DEF Dispose, call
<1>4. CASE Finalize
  BY CatalogueShape, <1>4 DEF Finalize, call
<1>5. ASSUME NEW b \in Batches, NewRecordBatch(b) \/ UnrefRecordBatch(b)
      PROVE  ArrayShape'
  BY <1>b, <1>5 DEF NewRecordBatch, UnrefRecordBatch, registry, call
<1>6. ASSUME NEW f \in Frames, NEW n \in Names, Sql(f, n)
      PROVE  ArrayShape'
  <2>1. Live(catalog, frames, shared) \subseteq Live(catalog, frames, shared)'
    BY <1>a, <1>6, PoolsAssumption DEF Sql, Live, registry, TypeOK
  <2>2. UNCHANGED <<holders, source, list, pc>>
    BY <1>6 DEF Sql, memory, call
  <2> QED
    BY <1>a, <2>1, <2>2 DEF ArrayShape
<1>7. ASSUME NEW f \in Frames, FreeDataFrame(f)
      PROVE  ArrayShape'
  BY CatalogueShape, <1>7 DEF FreeDataFrame, call
<1>8. ASSUME NEW n \in Names, Deregister(n) \/ SqlDropTable(n)
      PROVE  ArrayShape'
  BY CatalogueShape, <1>8 DEF Deregister, SqlDropTable, call
<1>9. ASSUME NEW n \in Names, NEW p \in Providers, RegisterFile(n, p)
      PROVE  ArrayShape'
  BY CatalogueShape, <1>9 DEF RegisterFile, call
<1>10. ASSUME NEW n \in Names, NEW b \in Batches, NEW s \in Structs, RegisterRecordBatch(n, b, s)
       PROVE  ArrayShape'
  <2>1. /\ holders' = [holders EXCEPT ![s] = {"caller"}]
        /\ source' = [source EXCEPT ![s] = b]
        /\ list' = {b} /\ pc' = "rs_name" /\ pc = "idle"
        /\ UNCHANGED <<catalog, frames, shared>>
    BY <1>10 DEF RegisterRecordBatch, Ready, Idle, object, registry
  <2> QED
    BY <1>a, <2>1, PoolsAssumption DEF ArrayShape, TypeOK, Live, Owners
<1>11. ASSUME NEW n \in Names, NEW k \in 0 .. MaxChunks, RegisterTable(n, k)
       PROVE  ArrayShape'
  <2>1. pc = "idle" /\ pc' = "read" /\ UNCHANGED <<catalog, frames, shared, holders, source, list>>
    BY <1>11 DEF RegisterTable, Ready, Idle, object, registry, memory
  <2> QED
    BY <1>b, <2>1
<1>12. ASSUME NEW b \in Batches, NEW s \in Structs, ReadBatch(b, s)
       PROVE  ArrayShape'
  <2>1. list \subseteq list' /\ UNCHANGED <<catalog, frames, shared>> /\ pc = "read"
    BY <1>12 DEF ReadBatch, Prepended, object, registry
  <2>2. CASE UNCHANGED <<holders, source>> /\ pc' = "fail"
    BY <1>a, <2>1, <2>2 DEF ArrayShape, Live
  <2>3. CASE /\ holders' = [holders EXCEPT ![s] = {"caller"}]
             /\ source' = [source EXCEPT ![s] = b]
             /\ pc' = pc /\ b \in list'
    <3>1. Live(catalog, frames, shared)' = Live(catalog, frames, shared)
      BY <2>1
    <3>2. holders'[s] = {"caller"} /\ source'[s] = b /\ b # None
      BY <1>a, <2>3, PoolsAssumption DEF TypeOK
    <3>3. \A x \in Structs \ {s} : holders'[x] = holders[x] /\ source'[x] = source[x]
      BY <1>a, <2>3 DEF TypeOK
    <3>4. \A x \in Structs \ {s} : "callee" \in holders[x] => FALSE
      BY <1>a, <2>1 DEF ArrayShape
    <3> QED
      BY <1>a, <2>1, <2>3, <3>1, <3>2, <3>3, <3>4 DEF ArrayShape, Owners
  <2> QED
    BY <1>12, <2>2, <2>3 DEF ReadBatch, Prepended
<1>13. CASE ReadError \/ ReadEnd \/ ExportSchema
  BY <1>b, <1>13 DEF ReadError, ReadEnd, ExportSchema, object, registry, memory
<1>14. CASE RsName \/ RsSchema
  <2>1. CASE RsFail(holders)
    BY <2>1, RsFailShape
  <2>2. CASE ~RsFail(holders)
    BY <1>b, <1>14, <2>2 DEF RsName, RsSchema, object, registry, memory
  <2> QED
    BY <2>1, <2>2
<1>15. ASSUME NEW s \in Structs, RsTakeBatch(s)
       PROVE  ArrayShape'
  <2> DEFINE h == Moved(holders, s)
  <2>1. /\ pc = "rs_batches" /\ list' = list
        /\ UNCHANGED <<catalog, frames, shared>>
        /\ \/ Hold(h) /\ pc' = pc
           \/ Hold(Dropped(h, "callee")) /\ pc' = "fail"
    BY <1>15 DEF RsTakeBatch, RsFail, object, registry, call
  <2>2. \A x \in Structs : /\ h[x] \subseteq holders[x] \cup {"callee"}
                           /\ h[x] \cap Owners # {} => holders[x] \cap Owners # {}
                           /\ h[x] # {} => holders[x] # {}
    BY <1>a, <1>15 DEF RsTakeBatch, Moved, TypeOK, Owners
  <2>3. Live(catalog, frames, shared)' = Live(catalog, frames, shared)
    BY <2>1
  <2>4. \A x \in Structs : holders'[x] \subseteq h[x]
    BY <2>1 DEF Hold, Dropped
  <2>5. \A x \in Structs : source'[x] = IF holders'[x] = {} THEN None ELSE source[x]
    BY <2>1 DEF Hold
  <2>6. \A x \in Structs : "callee" \in holders'[x] => pc' = pc
    BY <2>1 DEF Hold, Dropped
  <2> HIDE DEF h
  <2>7. \A x \in Structs : holders'[x] # {} => holders[x] # {} /\ source'[x] = source[x]
    BY <2>2, <2>4, <2>5
  <2>8. \A x \in Structs : holders'[x] \subseteq Owners \cup Live(catalog, frames, shared)
    BY <1>a, <2>2, <2>4 DEF ArrayShape, Owners
  <2>9. \A x \in Structs : holders'[x] \cap Owners # {} => holders[x] \cap Owners # {}
    BY <2>2, <2>4
  <2> QED
    BY <1>a, <2>1, <2>3, <2>5, <2>6, <2>7, <2>8, <2>9 DEF ArrayShape
<1>16. CASE RsEmptySlice \/ RsBatchesDone
  <2>1. UNCHANGED <<catalog, frames, shared, holders, source, list>>
    BY <1>16 DEF RsEmptySlice, RsBatchesDone, object, registry, memory
  <2>2. Live(catalog, frames, shared)' = Live(catalog, frames, shared)
    BY <2>1
  <2>3. CASE RsEmptySlice
    <3>1. \A s \in Structs : holders[s] \cap Owners = {}
      BY <1>a, <2>3 DEF RsEmptySlice, ArrayShape
    <3> QED
      BY <1>a, <2>1, <2>2, <3>1 DEF ArrayShape, Owners
  <2>4. CASE RsBatchesDone
    BY <1>a, <2>1, <2>2, <2>4 DEF RsBatchesDone, ArrayShape
  <2> QED
    BY <1>16, <2>3, <2>4
<1>17. ASSUME NEW p \in Providers, RsRegister(p)
       PROVE  ArrayShape'
  <2> DEFINE cat == [catalog EXCEPT ![Resolve[name]] = p]
             h == Given(holders, p)
             live == Live(cat, frames, shared)
  <2>1. /\ catalog' = cat /\ frames' = frames /\ shared' = shared
        /\ Hold(Collected(h, live)) /\ pc' = "insert" /\ list' = list
    BY <1>17 DEF RsRegister, Catalogue
  <2>2. \A x \in Structs : holders'[x] = h[x] \cap (Owners \cup live)
    BY <2>1 DEF Hold, Collected
  <2>3. \A x \in Structs : "callee" \notin h[x] /\ "caller" \notin h[x]
    BY <1>a, <1>17, PoolsAssumption DEF RsRegister, ArrayShape, Given, Owners
  <2>4. \A x \in Structs : h[x] # {} => holders[x] # {}
    BY DEF Given
  <2>5. \A x \in Structs : source'[x] = IF holders'[x] = {} THEN None ELSE source[x]
    BY <2>1 DEF Hold
  <2>6. Live(catalog, frames, shared)' = live
    BY <2>1 DEF Live
  <2> HIDE DEF cat, h, live
  <2>7. \A x \in Structs : holders'[x] = {} <=> source'[x] = None
    BY <1>a, <2>2, <2>4, <2>5 DEF ArrayShape
  <2> QED
    BY <2>1, <2>2, <2>3, <2>6, <2>7 DEF ArrayShape, Owners
<1>18. CASE RsRefuse
  BY <1>18, RsFailShape DEF RsRefuse
<1>19. CASE Insert
  <2>1. pc = "insert" /\ UNCHANGED <<catalog, frames, shared, holders, source>>
    BY <1>19 DEF Insert, object
  <2>2. \A s \in Structs : holders[s] \cap Owners = {}
    BY <1>a, <2>1 DEF ArrayShape, Owners
  <2> QED
    BY <1>a, <2>1, <2>2 DEF ArrayShape, Owners, Live
<1>20. CASE Fail
  <2>1. /\ pc = "fail" /\ UNCHANGED <<catalog, frames, shared>>
        /\ Hold(Dropped(holders, "caller"))
    BY <1>20 DEF Fail, object, registry
  <2>2. \A s \in Structs : /\ holders'[s] = holders[s] \ {"caller"}
                           /\ source'[s] = IF holders'[s] = {} THEN None ELSE source[s]
    BY <2>1 DEF Hold, Dropped
  <2>3. Live(catalog, frames, shared)' = Live(catalog, frames, shared)
    BY <2>1
  <2>4. \A s \in Structs : holders'[s] \cap Owners = {}
    BY <1>a, <2>1, <2>2 DEF ArrayShape, Owners
  <2>5. \A s \in Structs : source[s] = None => holders[s] = {}
    BY <1>a DEF ArrayShape
  <2> QED
    BY <1>a, <2>2, <2>3, <2>4, <2>5 DEF ArrayShape, Owners
<1> QED
  BY <1>1, <1>2, <1>3, <1>4, <1>5, <1>6, <1>7, <1>8, <1>9, <1>10, <1>11, <1>12, <1>13,
     <1>14, <1>15, <1>16, <1>17, <1>18, <1>19, <1>20 DEF Next, CallStep, Aborted

(* Every listed batch has an array until the call ends.                    *)
LEMMA ListExportedStep ==
    ASSUME IInv, [Next]_vars
    PROVE  ListExported'
<1>a. TypeOK /\ ListExported /\ CallShape /\ ArrayShape
  BY DEF IInv
<1>b. ASSUME pc' \in {"idle", "insert", "fail"}
      PROVE  ListExported'
  BY <1>b DEF ListExported
<1>c. ASSUME UNCHANGED <<holders, source, list>>,
             \/ pc' = pc
             \/ pc \in {"read", "export_schema", "rs_name", "rs_schema", "rs_batches", "rs_register"}
      PROVE  ListExported'
  BY <1>a, <1>c DEF ListExported
<1>1. CASE UNCHANGED vars
  BY <1>c, <1>1 DEF vars, memory, call
<1>2. CASE New \/ Dispose \/ Finalize
  BY <1>b, <1>2 DEF New, Dispose, Finalize, Ready, Idle, call
<1>3. ASSUME NEW b \in Batches, NewRecordBatch(b) \/ UnrefRecordBatch(b)
      PROVE  ListExported'
  BY <1>b, <1>3 DEF NewRecordBatch, UnrefRecordBatch, Idle, call
<1>4. ASSUME NEW f \in Frames, NEW n \in Names, Sql(f, n)
      PROVE  ListExported'
  BY <1>b, <1>4 DEF Sql, Ready, Idle, call
<1>5. ASSUME NEW f \in Frames, FreeDataFrame(f)
      PROVE  ListExported'
  BY <1>b, <1>5 DEF FreeDataFrame, Idle, call
<1>6. ASSUME NEW n \in Names, Deregister(n) \/ SqlDropTable(n)
      PROVE  ListExported'
  BY <1>b, <1>6 DEF Deregister, SqlDropTable, Ready, Idle, call
<1>7. ASSUME NEW n \in Names, NEW p \in Providers, RegisterFile(n, p)
      PROVE  ListExported'
  BY <1>b, <1>7 DEF RegisterFile, Ready, Idle, call
<1>8. ASSUME NEW n \in Names, NEW b \in Batches, NEW s \in Structs, RegisterRecordBatch(n, b, s)
      PROVE  ListExported'
  <2>1. holders'[s] = {"caller"} /\ source'[s] = b /\ list' = {b}
    BY <1>a, <1>8 DEF RegisterRecordBatch, TypeOK
  <2> QED
    BY <2>1 DEF ListExported, Owners
<1>9. ASSUME NEW n \in Names, NEW k \in 0 .. MaxChunks, RegisterTable(n, k)
      PROVE  ListExported'
  <2>1. list' = {}
    BY <1>a, <1>9 DEF RegisterTable, Ready, Idle, CallShape
  <2> QED
    BY <2>1 DEF ListExported
<1>10. ASSUME NEW b \in Batches, NEW s \in Structs, ReadBatch(b, s)
       PROVE  ListExported'
  <2>1. CASE pc' = "fail"
    BY <1>b, <2>1
  <2>2. CASE /\ holders' = [holders EXCEPT ![s] = {"caller"}]
             /\ source' = [source EXCEPT ![s] = b]
    <3>1. holders'[s] = {"caller"} /\ source'[s] = b
      BY <1>a, <2>2 DEF TypeOK
    <3>2. \A x \in Structs \ {s} : holders'[x] = holders[x] /\ source'[x] = source[x]
      BY <1>a, <2>2 DEF TypeOK
    <3>3. holders[s] = {} /\ pc = "read" /\ list' = list \cup {b}
      BY <1>10 DEF ReadBatch, Free, Prepended
    <3> QED
      BY <1>a, <3>1, <3>2, <3>3 DEF ListExported, Owners
  <2> QED
    BY <1>10, <2>1, <2>2 DEF ReadBatch
<1>11. CASE ReadError \/ ReadEnd \/ ExportSchema \/ RsEmptySlice \/ RsBatchesDone
  BY <1>c, <1>11 DEF ReadError, ReadEnd, ExportSchema, RsEmptySlice, RsBatchesDone, memory
<1>12. CASE RsName \/ RsSchema
  BY <1>b, <1>c, <1>12 DEF RsName, RsSchema, RsFail, memory
<1>13. ASSUME NEW s \in Structs, RsTakeBatch(s)
       PROVE  ListExported'
  <2>1. CASE pc' = "fail"
    BY <1>b, <2>1
  <2>2. CASE Hold(Moved(holders, s)) /\ UNCHANGED call
    <3>1. \A x \in Structs : holders'[x] \cap Owners # {} <=> holders[x] \cap Owners # {}
      BY <1>a, <1>13, <2>2 DEF RsTakeBatch, Hold, Moved, TypeOK, Owners
    <3>2. \A x \in Structs : holders'[x] # {} => source'[x] = source[x]
      BY <2>2 DEF Hold
    <3>3. pc = "rs_batches" /\ list' = list
      BY <1>13, <2>2 DEF RsTakeBatch, call
    <3> QED
      BY <1>a, <3>1, <3>2, <3>3 DEF ListExported
  <2> QED
    BY <1>13, <2>1, <2>2 DEF RsTakeBatch, RsFail
<1>14. ASSUME NEW p \in Providers, RsRegister(p)
       PROVE  ListExported'
  BY <1>b, <1>14 DEF RsRegister
<1>15. CASE RsRefuse \/ Insert \/ Fail
  BY <1>b, <1>15 DEF RsRefuse, RsFail, Insert, Fail, Return
<1> QED
  BY <1>1, <1>2, <1>3, <1>4, <1>5, <1>6, <1>7, <1>8, <1>9, <1>10, <1>11, <1>12, <1>13,
     <1>14, <1>15 DEF Next, CallStep, Aborted
-----------------------------------------------------------------------------
(* Tables and what is kept for them.                                       *)
LEMMA BatchesOfSame ==
    ASSUME NEW p,
           \A s \in Structs : /\ p \in holders'[s] <=> p \in holders[s]
                              /\ p \in holders[s] => source'[s] = source[s]
    PROVE  BatchesOf(p)' = BatchesOf(p)
BY DEF BatchesOf

(* A provider that stays in the catalog or with a data frame keeps its     *)
(* arrays through every step.                                              *)
LEMMA LiveBatchesSame ==
    ASSUME IInv, [Next]_vars, NEW p \in Providers,
           p \in Live(catalog, frames, shared), p \in Live(catalog, frames, shared)'
    PROVE  BatchesOf(p)' = BatchesOf(p)
<1>a. TypeOK /\ ArrayShape /\ p \notin Owners
  BY PoolsAssumption DEF IInv
<1>b. ASSUME UNCHANGED <<holders, source>>
      PROVE  BatchesOf(p)' = BatchesOf(p)
  BY <1>b, BatchesOfSame
<1>c. ASSUME NEW cat, NEW frs, NEW shr, NEW h, Catalogue(cat, frs, shr, h),
             \A s \in Structs : p \in h[s] <=> p \in holders[s]
      PROVE  BatchesOf(p)' = BatchesOf(p)
  <2>1. Live(catalog, frames, shared)' = Live(cat, frs, shr)
    BY <1>c DEF Catalogue, Live
  <2>2. \A s \in Structs : p \in holders'[s] <=> p \in holders[s]
    BY <1>c, <2>1 DEF Catalogue, Hold, Collected
  <2>3. \A s \in Structs : holders'[s] # {} => source'[s] = source[s]
    BY <1>c DEF Catalogue, Hold
  <2> QED
    BY <2>2, <2>3, BatchesOfSame
<1>d. ASSUME NEW h, Hold(h), \A s \in Structs : p \in h[s] <=> p \in holders[s]
      PROVE  BatchesOf(p)' = BatchesOf(p)
  <2>1. \A s \in Structs : p \in holders'[s] <=> p \in holders[s]
    BY <1>d DEF Hold
  <2>2. \A s \in Structs : holders'[s] # {} => source'[s] = source[s]
    BY <1>d DEF Hold
  <2> QED
    BY <2>1, <2>2, BatchesOfSame
<1>e. ASSUME NEW s \in Structs, NEW b, Free(s),
             holders' = [holders EXCEPT ![s] = {"caller"}], source' = [source EXCEPT ![s] = b]
      PROVE  BatchesOf(p)' = BatchesOf(p)
  <2>1. \A x \in Structs : /\ p \in holders'[x] <=> p \in holders[x]
                           /\ p \in holders[x] => source'[x] = source[x]
    BY <1>a, <1>e DEF Free, TypeOK, Owners
  <2> QED
    BY <2>1, BatchesOfSame
<1>f. \A o \in Owners : \A s \in Structs : p \in Dropped(holders, o)[s] <=> p \in holders[s]
  BY <1>a DEF Dropped
<1>g. RsFail(holders) => BatchesOf(p)' = BatchesOf(p)
  BY <1>d, <1>f DEF RsFail, Owners
<1>1. CASE UNCHANGED vars
  BY <1>b, <1>1 DEF vars, memory
<1>2. CASE New \/ Dispose
  BY <1>b, <1>2 DEF New, Dispose, memory
<1>3. CASE Finalize
  BY <1>c, <1>3 DEF Finalize
<1>4. ASSUME NEW b \in Batches, NewRecordBatch(b) \/ UnrefRecordBatch(b)
      PROVE  BatchesOf(p)' = BatchesOf(p)
  BY <1>b, <1>4 DEF NewRecordBatch, UnrefRecordBatch
<1>5. ASSUME NEW f \in Frames, NEW n \in Names, Sql(f, n)
      PROVE  BatchesOf(p)' = BatchesOf(p)
  BY <1>b, <1>5 DEF Sql, memory
<1>6. ASSUME NEW f \in Frames, FreeDataFrame(f)
      PROVE  BatchesOf(p)' = BatchesOf(p)
  BY <1>c, <1>6 DEF FreeDataFrame
<1>7. ASSUME NEW n \in Names, Deregister(n) \/ SqlDropTable(n)
      PROVE  BatchesOf(p)' = BatchesOf(p)
  BY <1>c, <1>7 DEF Deregister, SqlDropTable
<1>8. ASSUME NEW n \in Names, NEW q \in Providers, RegisterFile(n, q)
      PROVE  BatchesOf(p)' = BatchesOf(p)
  BY <1>c, <1>8 DEF RegisterFile
<1>9. ASSUME NEW n \in Names, NEW b \in Batches, NEW s \in Structs, RegisterRecordBatch(n, b, s)
      PROVE  BatchesOf(p)' = BatchesOf(p)
  BY <1>e, <1>9 DEF RegisterRecordBatch
<1>10. ASSUME NEW n \in Names, NEW k \in 0 .. MaxChunks, RegisterTable(n, k)
       PROVE  BatchesOf(p)' = BatchesOf(p)
  BY <1>b, <1>10 DEF RegisterTable, memory
<1>11. ASSUME NEW b \in Batches, NEW s \in Structs, ReadBatch(b, s)
       PROVE  BatchesOf(p)' = BatchesOf(p)
  BY <1>b, <1>e, <1>11 DEF ReadBatch
<1>12. CASE ReadError \/ ReadEnd \/ ExportSchema \/ RsEmptySlice \/ RsBatchesDone \/ Insert
  BY <1>b, <1>12 DEF ReadError, ReadEnd, ExportSchema, RsEmptySlice, RsBatchesDone, Insert, memory
<1>13. CASE RsName \/ RsSchema \/ RsRefuse
  BY <1>b, <1>g, <1>13 DEF RsName, RsSchema, RsRefuse, memory
<1>14. ASSUME NEW s \in Structs, RsTakeBatch(s)
       PROVE  BatchesOf(p)' = BatchesOf(p)
  <2>1. \A x \in Structs : p \in Moved(holders, s)[x] <=> p \in holders[x]
    BY <1>a DEF Moved, TypeOK, Owners
  <2>2. \A x \in Structs : p \in Dropped(Moved(holders, s), "callee")[x] <=> p \in holders[x]
    BY <1>a, <2>1 DEF Dropped, Owners
  <2> QED
    BY <1>d, <1>14, <2>1, <2>2 DEF RsTakeBatch, RsFail
<1>15. ASSUME NEW q \in Providers, RsRegister(q)
       PROVE  BatchesOf(p)' = BatchesOf(p)
  <2>1. p # q
    BY <1>15 DEF RsRegister
  <2>2. \A s \in Structs : p \in Given(holders, q)[s] <=> p \in holders[s]
    BY <1>a, <2>1 DEF Given, Owners
  <2> QED
    BY <1>c, <1>15, <2>2 DEF RsRegister
<1>16. CASE Fail
  BY <1>d, <1>f, <1>16 DEF Fail, Owners
<1> QED
  BY <1>1, <1>2, <1>3, <1>4, <1>5, <1>6, <1>7, <1>8, <1>9, <1>10, <1>11, <1>12, <1>13,
     <1>14, <1>15, <1>16 DEF Next, CallStep, Aborted

(* A provider that leaves no live table is unused, and RsRegister gives it *)
(* exactly the listed batches.                                             *)
LEMMA RegisteredBatches ==
    ASSUME IInv, NEW p \in Providers, RsRegister(p)
    PROVE  /\ catalog'[Resolve[name]] = p
           /\ madeFrom'[Resolve[name]] = name
           /\ BatchesOf(p)' = list
<1>a. TypeOK /\ ArrayShape /\ ListExported /\ pc = "rs_register" /\ p \notin Owners
      /\ p \notin Live(catalog, frames, shared) /\ name \in Names /\ Resolve[name] \in Tables
  BY NamesAssumption, PoolsAssumption DEF IInv, RsRegister, CallShape
<1> DEFINE cat == [catalog EXCEPT ![Resolve[name]] = p]
           h == Given(holders, p)
<1>1. /\ catalog' = cat /\ madeFrom' = [madeFrom EXCEPT ![Resolve[name]] = name]
      /\ Hold(Collected(h, Live(cat, frames, shared)))
  BY DEF RsRegister, Catalogue
<1>2. p \in Live(cat, frames, shared)
  BY <1>a DEF Live, TypeOK
<1>3. \A s \in Structs : p \notin holders[s] /\ "caller" \notin holders[s]
  BY <1>a DEF ArrayShape
<1>4. \A s \in Structs : p \in holders'[s] <=> "callee" \in holders[s]
  BY <1>1, <1>2, <1>3 DEF Hold, Collected, Given
<1>5. \A s \in Structs : holders'[s] # {} => source'[s] = source[s]
  BY <1>1 DEF Hold
<1>6. \A s \in Structs : "callee" \in holders[s] <=> holders[s] \cap Owners # {}
  BY <1>3 DEF Owners
<1>7. \A s \in Structs : p \in holders'[s] => source'[s] \in list
  BY <1>a, <1>4, <1>5, <1>6 DEF ArrayShape
<1>8. \A b \in list : \E s \in Structs : p \in holders'[s] /\ source'[s] = b
  BY <1>a, <1>4, <1>5, <1>6 DEF ListExported
<1>9. BatchesOf(p)' = list
  BY <1>7, <1>8 DEF BatchesOf
<1> QED
  BY <1>a, <1>1, <1>9 DEF TypeOK

LEMMA TablesMatchStep ==
    ASSUME IInv, [Next]_vars
    PROVE  TablesMatch'
<1>a. TypeOK /\ TablesMatch /\ CallShape /\ ContextShape
  BY DEF IInv
<1>b. ASSUME NEW t \in Tables, catalog[t] # None, catalog'[t] = catalog[t]
      PROVE  BatchesOf(catalog[t])' = BatchesOf(catalog[t])
  <2>1. catalog[t] \in Providers
    BY <1>a, <1>b DEF TypeOK
  <2>2. PICK p \in Providers : p = catalog[t]
    BY <2>1
  <2>3. p \in Live(catalog, frames, shared) /\ p \in Live(catalog, frames, shared)'
    BY <1>b, <2>2 DEF Live
  <2>4. BatchesOf(p)' = BatchesOf(p)
    BY <2>3, LiveBatchesSame
  <2> QED
    BY <1>b, <2>2, <2>4 DEF BatchesOf
<1>c. ASSUME UNCHANGED <<ctx, catalog, madeFrom, Keeping, name>>, pc' = "insert" => pc = "insert"
      PROVE  TablesMatch'
  BY <1>a, <1>b, <1>c DEF TablesMatch, BatchesOf
<1>d. ASSUME pc' # "insert", ctx' # "alive"
      PROVE  TablesMatch'
  BY <1>d DEF TablesMatch
<1>e. ASSUME UNCHANGED <<ctx, registry>>, pc # "insert", pc' # "insert"
      PROVE  TablesMatch'
  <2>1. UNCHANGED <<ctx, catalog, madeFrom, Keeping>>
    BY <1>e DEF Keeping, registry
  <2>2. ASSUME ctx' = "alive", NEW t \in Tables, catalog'[t] # None, madeFrom'[t] # None
        PROVE  /\ Resolve[madeFrom'[t]] = t
               /\ BatchesOf(catalog[t])' = Keeping'[madeFrom'[t]]
    BY <1>a, <1>b, <2>1, <2>2 DEF TablesMatch, BatchesOf
  <2> QED
    BY <1>e, <2>2 DEF TablesMatch
<1>1. CASE UNCHANGED vars
  BY <1>c, <1>1 DEF vars, object, registry, call, Keeping
<1>2. CASE New
  <2>1. \A t \in Tables : catalog'[t] = None
    BY <1>a, <1>2 DEF New, ContextShape, registry
  <2>2. pc' # "insert"
    BY <1>2 DEF New, Idle, call
  <2> QED
    BY <2>1, <2>2 DEF TablesMatch
<1>3. CASE Dispose \/ Finalize
  BY <1>d, <1>3 DEF Dispose, Finalize, Ready, Idle, call
<1>4. ASSUME NEW b \in Batches, NewRecordBatch(b) \/ UnrefRecordBatch(b)
      PROVE  TablesMatch'
  BY <1>e, <1>4 DEF NewRecordBatch, UnrefRecordBatch, Idle, call
<1>5. ASSUME NEW f \in Frames, NEW n \in Names, Sql(f, n)
      PROVE  TablesMatch'
  BY <1>e, <1>5 DEF Sql, Ready, Idle, call
<1>6. ASSUME NEW f \in Frames, FreeDataFrame(f)
      PROVE  TablesMatch'
  BY <1>e, <1>6 DEF FreeDataFrame, Catalogue, registry, Idle, call
<1>7. ASSUME NEW n \in Names, Deregister(n)
      PROVE  TablesMatch'
  <2>1. /\ catalog' = [catalog EXCEPT ![Resolve[n]] = None]
        /\ retained' = [retained EXCEPT ![n] = {}]
        /\ madeFrom' = [madeFrom EXCEPT ![Resolve[n]] = None]
        /\ pc = "idle" /\ pc' = "idle" /\ ctx = "alive"
    BY <1>7 DEF Deregister, Catalogue, Ready, Idle, call
  <2>2. Keeping = retained /\ Keeping' = retained'
    BY <2>1 DEF Keeping
  <2>3. ASSUME NEW t \in Tables, catalog'[t] # None, madeFrom'[t] # None
        PROVE  /\ Resolve[madeFrom'[t]] = t
               /\ BatchesOf(catalog[t])' = Keeping'[madeFrom'[t]]
    <3>1. t # Resolve[n] /\ catalog'[t] = catalog[t]
      BY <1>a, <2>1, <2>3 DEF TypeOK
    <3>2. /\ Resolve[madeFrom[t]] = t
          /\ BatchesOf(catalog[t]) = retained[madeFrom[t]]
      BY <1>a, <2>1, <2>2, <2>3, <3>1 DEF TablesMatch
    <3>3. madeFrom[t] # n
      BY <3>1, <3>2
    <3>4. retained'[madeFrom[t]] = retained[madeFrom[t]]
      BY <1>a, <2>1, <3>3 DEF TypeOK
    <3> QED
      BY <1>b, <2>1, <2>2, <2>3, <3>1, <3>2, <3>4
  <2> QED
    BY <2>1, <2>3 DEF TablesMatch
<1>18. ASSUME NEW n \in Names, SqlDropTable(n)
       PROVE  TablesMatch'
  <2>1. /\ catalog' = [catalog EXCEPT ![Resolve[n]] = None]
        /\ madeFrom' = [madeFrom EXCEPT ![Resolve[n]] = None]
        /\ UNCHANGED <<ctx, retained>> /\ pc = "idle" /\ pc' = "idle"
    BY <1>18 DEF SqlDropTable, Catalogue, Ready, Idle, call
  <2>2. Keeping = retained /\ Keeping' = retained'
    BY <2>1 DEF Keeping
  <2>3. ASSUME ctx' = "alive", NEW t \in Tables, catalog'[t] # None,
               madeFrom'[t] # None
        PROVE  /\ Resolve[madeFrom'[t]] = t
               /\ BatchesOf(catalog[t])' = Keeping'[madeFrom'[t]]
    <3>1. t # Resolve[n] /\ catalog'[t] = catalog[t]
      BY <1>a, <2>1, <2>3 DEF TypeOK
    <3> QED
      BY <1>a, <1>b, <2>1, <2>2, <2>3, <3>1 DEF TablesMatch
  <2> QED
    BY <2>1, <2>3 DEF TablesMatch
<1>8. ASSUME NEW n \in Names, NEW p \in Providers, RegisterFile(n, p)
      PROVE  TablesMatch'
  <2>1. /\ catalog' = [catalog EXCEPT ![Resolve[n]] = p]
        /\ madeFrom' = [madeFrom EXCEPT ![Resolve[n]] = None]
        /\ retained' = retained /\ pc = "idle" /\ pc' = "idle" /\ ctx = "alive"
    BY <1>8 DEF RegisterFile, Catalogue, Ready, Idle, call
  <2>2. Keeping = retained /\ Keeping' = retained'
    BY <2>1 DEF Keeping
  <2>3. ASSUME NEW t \in Tables, catalog'[t] # None, madeFrom'[t] # None
        PROVE  /\ Resolve[madeFrom'[t]] = t
               /\ BatchesOf(catalog[t])' = Keeping'[madeFrom'[t]]
    <3>1. t # Resolve[n] /\ catalog'[t] = catalog[t]
      BY <1>a, <2>1, <2>3 DEF TypeOK
    <3>2. madeFrom'[t] = madeFrom[t]
      BY <1>a, <2>1, <3>1 DEF TypeOK
    <3> QED
      BY <1>a, <1>b, <2>1, <2>2, <2>3, <3>1, <3>2 DEF TablesMatch
  <2> QED
    BY <2>1, <2>3 DEF TablesMatch
<1>9. ASSUME NEW n \in Names, NEW b \in Batches, NEW s \in Structs, RegisterRecordBatch(n, b, s)
      PROVE  TablesMatch'
  BY <1>e, <1>9 DEF RegisterRecordBatch, Ready, Idle, object
<1>10. ASSUME NEW n \in Names, NEW k \in 0 .. MaxChunks, RegisterTable(n, k)
       PROVE  TablesMatch'
  BY <1>e, <1>10 DEF RegisterTable, Ready, Idle, object
<1>11. ASSUME NEW b \in Batches, NEW s \in Structs, ReadBatch(b, s)
       PROVE  TablesMatch'
  BY <1>e, <1>11 DEF ReadBatch, object
<1>12. CASE ReadError \/ ReadEnd \/ ExportSchema \/ RsEmptySlice \/ RsBatchesDone
  BY <1>e, <1>12 DEF ReadError, ReadEnd, ExportSchema, RsEmptySlice, RsBatchesDone, object
<1>13. CASE RsName \/ RsSchema \/ RsRefuse
  BY <1>e, <1>13 DEF RsName, RsSchema, RsRefuse, RsFail, object
<1>14. ASSUME NEW s \in Structs, RsTakeBatch(s)
       PROVE  TablesMatch'
  BY <1>e, <1>14 DEF RsTakeBatch, RsFail, object, call
<1>15. ASSUME NEW p \in Providers, RsRegister(p)
       PROVE  TablesMatch'
  <2>1. /\ catalog' = [catalog EXCEPT ![Resolve[name]] = p]
        /\ madeFrom' = [madeFrom EXCEPT ![Resolve[name]] = name]
        /\ UNCHANGED <<retained, name, list, ctx>> /\ pc # "insert" /\ pc' = "insert"
        /\ ctx = "alive" /\ name \in Names
    BY <1>a, <1>15 DEF RsRegister, Catalogue, CallShape
  <2>2. Keeping = retained /\ Keeping' = [retained EXCEPT ![name] = list]
    BY <2>1 DEF Keeping
  <2>3. /\ catalog'[Resolve[name]] = p /\ madeFrom'[Resolve[name]] = name
        /\ BatchesOf(p)' = list
    BY <1>15, RegisteredBatches
  <2>4. Keeping'[name] = list /\ name # None /\ p # None
    BY <1>a, <2>1, <2>2, PoolsAssumption DEF TypeOK
  <2>5. ASSUME NEW t \in Tables, t # Resolve[name], catalog'[t] # None, madeFrom'[t] # None
        PROVE  /\ Resolve[madeFrom'[t]] = t
               /\ BatchesOf(catalog[t])' = Keeping'[madeFrom'[t]]
    <3>1. catalog'[t] = catalog[t]
      BY <1>a, <2>1, <2>5 DEF TypeOK
    <3>2. madeFrom'[t] = madeFrom[t]
      BY <1>a, <2>1, <2>5, <3>1 DEF Live, TypeOK
    <3>3. /\ Resolve[madeFrom[t]] = t
          /\ BatchesOf(catalog[t]) = retained[madeFrom[t]]
      BY <1>a, <2>1, <2>2, <2>5, <3>1, <3>2 DEF TablesMatch
    <3>4. Keeping'[madeFrom[t]] = retained[madeFrom[t]]
      BY <1>a, <2>1, <2>2, <2>5, <3>3 DEF TypeOK
    <3> QED
      BY <1>b, <2>1, <2>5, <3>1, <3>2, <3>3, <3>4
  <2>6. ASSUME NEW t \in Tables, t = Resolve[name]
        PROVE  /\ Resolve[madeFrom'[t]] = t
               /\ BatchesOf(catalog[t])' = Keeping'[madeFrom'[t]]
    <3>1. catalog'[t] = p
      BY <2>3, <2>6
    <3>2. BatchesOf(catalog[t])' = list
      BY <2>3, <3>1 DEF BatchesOf
    <3> QED
      BY <2>3, <2>4, <2>6, <3>1, <3>2
  <2>7. ASSUME NEW t \in Tables, catalog'[t] # None, madeFrom'[t] # None
        PROVE  /\ Resolve[madeFrom'[t]] = t
               /\ BatchesOf(catalog[t])' = Keeping'[madeFrom'[t]]
    BY <2>5, <2>6, <2>7
  <2>8. /\ catalog'[Resolve[name']] # None
        /\ madeFrom'[Resolve[name']] = name'
    BY <2>1, <2>3, <2>4
  <2> QED
    BY <2>7, <2>8 DEF TablesMatch
<1>16. CASE Insert
  <2>1. /\ UNCHANGED <<ctx, catalog, madeFrom>> /\ pc = "insert" /\ pc' = "idle"
        /\ retained' = [retained EXCEPT ![name] = list]
    BY <1>16 DEF Insert, Return, object
  <2>2. Keeping' = Keeping
    BY <2>1 DEF Keeping
  <2>3. ASSUME ctx' = "alive", NEW t \in Tables, catalog'[t] # None, madeFrom'[t] # None
        PROVE  /\ Resolve[madeFrom'[t]] = t
               /\ BatchesOf(catalog[t])' = Keeping'[madeFrom'[t]]
    BY <1>a, <1>b, <2>1, <2>2, <2>3 DEF TablesMatch
  <2> QED
    BY <2>1, <2>3 DEF TablesMatch
<1>17. CASE Fail
  BY <1>e, <1>17 DEF Fail, Return, object
<1> QED
  BY <1>1, <1>2, <1>3, <1>4, <1>5, <1>6, <1>7, <1>8, <1>9, <1>10, <1>11, <1>12, <1>13,
     <1>14, <1>15, <1>16, <1>17, <1>18 DEF Next, CallStep, Aborted
-----------------------------------------------------------------------------
LEMMA Invariance ==
    Spec => []IInv
<1>1. Init => IInv
  <2> SUFFICES ASSUME Init
               PROVE  IInv
    OBVIOUS
  <2>1. TypeOK
    <3>1. /\ ctx = "none" /\ pc \in Steps /\ fn = "none" /\ name = None /\ list = {}
          /\ held = {} /\ schemaHolder = {} /\ success = FALSE
      BY DEF Init, Steps
    <3>2. chunks \in 0 .. MaxChunks
      BY PoolsAssumption DEF Init
    <3>3. /\ catalog \in [Tables -> Providers \cup {None}]
          /\ madeFrom \in [Tables -> Names \cup {None}]
          /\ retained \in [Names -> SUBSET Batches]
          /\ frames \in [Frames -> Providers \cup {None}]
          /\ shared \in [Frames -> (SUBSET Providers) \cup {None}]
          /\ refs \in [Batches -> Nat]
          /\ source \in [Structs -> Batches \cup {None}]
          /\ holders \in [Structs -> SUBSET (Owners \cup Providers)]
      BY DEF Init
    <3> QED
      BY <3>1, <3>2, <3>3 DEF TypeOK
  <2>2. CallShape /\ OneHolder /\ ListExported /\ ContextShape /\ TablesMatch
    BY DEF Init, CallShape, OneHolder, ListExported, ContextShape, TablesMatch
  <2>3. ArrayShape
    BY DEF Init, ArrayShape
  <2>4. RefsBalanced
    <3>1. \A b \in Batches : Entries(b) = {}
      BY DEF Init, Entries
    <3>2. \A b \in Batches : Cardinality(Entries(b)) = 0
      BY <3>1, FS_EmptySet
    <3>3. \A b \in Batches : refs[b] = 0 /\ b \notin held /\ fn # "table"
      BY DEF Init
    <3> QED
      BY <3>2, <3>3 DEF RefsBalanced
  <2> QED
    BY <2>1, <2>2, <2>3, <2>4 DEF IInv
<1>2. IInv /\ [Next]_vars => IInv'
  BY TypeStep, CallShapeStep, OneHolderStep, ArrayShapeStep, ListExportedStep,
     ContextShapeStep, RefsBalancedStep, TablesMatchStep DEF IInv
<1> QED
  BY <1>1, <1>2, PTL DEF Spec

-----------------------------------------------------------------------------
(* Every variable keeps its type; in particular no reference count falls   *)
(* below zero, so no GArrowRecordBatch is unreferenced once too often by   *)
(* session-context.c.                                                      *)
THEOREM TypeCorrect == Spec => []TypeOK
<1>1. IInv => TypeOK
  BY DEF IInv
<1> QED
  BY <1>1, Invariance, PTL

(* The contents of an exported array have one holder, from                 *)
(* garrow_record_batch_export() through ptr::replace() to their release.   *)
THEOREM ArraysHaveOneHolder == Spec => []OneHolder
<1>1. IInv => OneHolder
  BY DEF IInv
<1> QED
  BY <1>1, Invariance, PTL

(* When no call runs, no array or schema of an earlier call is left in C   *)
(* or in the Rust closure, whichever step of it failed.                    *)
THEOREM CallsLeaveNothing == Spec => []NothingLeftOver
<1>1. IInv => NothingLeftOver
  <2> SUFFICES ASSUME IInv, Idle
               PROVE  /\ schemaHolder = {}
                      /\ \A s \in Structs : holders[s] \subseteq Live(catalog, frames, shared)
    BY DEF NothingLeftOver
  <2>1. schemaHolder = {}
    BY DEF IInv, CallShape, Idle
  <2>2. \A s \in Structs : "caller" \notin holders[s] /\ "callee" \notin holders[s]
    BY DEF IInv, ArrayShape, Idle
  <2> QED
    BY <2>1, <2>2 DEF IInv, ArrayShape, Owners
<1> QED
  BY <1>1, Invariance, PTL

(* Every g_object_ref() and every batch handed over by the reader is       *)
(* matched by one owner.                                                   *)
THEOREM ReferencesBalance == Spec => []RefsBalanced
<1>1. IInv => RefsBalanced
  BY DEF IInv
<1> QED
  BY <1>1, Invariance, PTL

(* The batches of a registered table are retained and referenced.          *)
THEOREM TablesAreKeptAlive == Spec => []KeptAlive
<1>1. IInv => KeptAlive
  <2> SUFFICES ASSUME IInv, Ready, NEW t \in Tables, NEW n \in Names,
                      catalog[t] # None, madeFrom[t] = n,
                      NEW b \in BatchesOf(catalog[t])
               PROVE  b \in retained[n] /\ refs[b] > 0
    BY DEF KeptAlive
  <2>1. n # None
    BY PoolsAssumption
  <2>2. b \in retained[n]
    BY <2>1 DEF IInv, TablesMatch, Keeping, Ready, Idle
  <2>3. b \in Batches
    BY <2>2 DEF IInv, TypeOK
  <2>4. Cardinality(Entries(b)) \in Nat /\ Cardinality(Entries(b)) # 0
    <3>1. Entries(b) # {}
      BY <2>2 DEF Entries
    <3> QED
      BY <3>1, EntriesFinite, FS_EmptySet
  <2>5. refs[b] = (IF b \in held THEN 1 ELSE 0)
                    + (IF fn = "table" /\ b \in list THEN 1 ELSE 0)
                    + Cardinality(Entries(b))
    BY <2>3 DEF IInv, RefsBalanced
  <2> QED
    BY <2>2, <2>4, <2>5
<1> QED
  BY <1>1, Invariance, PTL

(* Once the context, the data frames and the caller's references are gone, *)
(* no batch is referenced and no array waits for its release.              *)
THEOREM EverythingIsFreed == Spec => []AllIsFreed
<1>1. IInv => AllIsFreed
  <2> SUFFICES ASSUME IInv, ctx = "none", held = {}, \A f \in Frames : frames[f] = None
               PROVE  /\ \A b \in Batches : refs[b] = 0
                      /\ \A s \in Structs : holders[s] = {}
    BY DEF AllIsFreed
  <2>1. pc = "idle" /\ fn = "none"
    BY DEF IInv, CallShape
  <2>2. ASSUME NEW b \in Batches
        PROVE  refs[b] = 0
    <3>1. Entries(b) = {}
      BY DEF IInv, ContextShape, Entries
    <3>2. Cardinality(Entries(b)) = 0
      BY <3>1, FS_EmptySet
    <3> QED
      BY <2>1, <2>2, <3>2 DEF IInv, RefsBalanced
  <2>3. Live(catalog, frames, shared) = {}
    BY PoolsAssumption DEF IInv, ContextShape, Live
  <2>4. ASSUME NEW s \in Structs
        PROVE  holders[s] = {}
    BY <2>1, <2>3 DEF IInv, ArrayShape, Owners
  <2> QED
    BY <2>2, <2>4
<1> QED
  BY <1>1, Invariance, PTL

(* What a data frame reads does not change while it exists.                *)
THEOREM DataFramesAreSnapshots == Spec => FramesAreSnapshots
<1>1. ASSUME IInv, [Next]_vars, NEW f \in Frames, frames[f] # None, frames'[f] = frames[f]
      PROVE  BatchesOf(frames[f])' = BatchesOf(frames[f])
  <2>1. PICK p \in Providers : p = frames[f]
    BY <1>1 DEF IInv, TypeOK
  <2>2. p \in Live(catalog, frames, shared) /\ p \in Live(catalog, frames, shared)'
    BY <1>1, <2>1 DEF Live
  <2>3. BatchesOf(p)' = BatchesOf(p)
    BY <1>1, <2>2, LiveBatchesSame
  <2> QED
    BY <1>1, <2>1, <2>3 DEF BatchesOf
<1>2. IInv /\ [Next]_vars =>
        [\A f \in Frames : frames[f] # None /\ frames'[f] = frames[f] =>
            BatchesOf(frames[f])' = BatchesOf(frames[f])]_vars
  BY <1>1
<1> QED
  BY <1>2, Invariance, PTL DEF Spec, FramesAreSnapshots

(* TRUE means registered and retained, FALSE means untouched.              *)
THEOREM ResultsAreTruthful == Spec => ResultIsTruthful
<1> DEFINE Truthful ==
        /\ pc # "idle" /\ pc' = "idle" /\ success' =>
            /\ catalog[Resolve[name]] # None
            /\ retained'[name] = BatchesOf(catalog[Resolve[name]])
        /\ pc # "idle" /\ ~success' => UNCHANGED <<catalog, retained>>
<1>1. ASSUME IInv, Insert
      PROVE  Truthful
  <2>1. /\ pc = "insert" /\ retained' = [retained EXCEPT ![name] = list]
        /\ success' = success /\ success /\ name \in Names /\ ctx = "alive" /\ name # None
        /\ Resolve[name] \in Tables
    BY <1>1, NamesAssumption, PoolsAssumption DEF Insert, IInv, CallShape
  <2>2. catalog[Resolve[name]] # None /\ madeFrom[Resolve[name]] = name
    BY <1>1, <2>1 DEF IInv, TablesMatch
  <2>3. BatchesOf(catalog[Resolve[name]]) = Keeping[name]
    BY <1>1, <2>1, <2>2 DEF IInv, TablesMatch
  <2>4. Keeping[name] = list /\ retained'[name] = list
    BY <1>1, <2>1 DEF IInv, TypeOK, Keeping
  <2> QED
    BY <2>1, <2>2, <2>3, <2>4
<1>2. ASSUME IInv, [Next]_vars, pc # "idle", ~Insert
      PROVE  Truthful
  <2>1. CASE UNCHANGED vars
    BY <1>2, <2>1 DEF vars, registry, call
  <2>2. CASE \E p \in Providers : RsRegister(p)
    BY <2>2 DEF RsRegister
  <2>3. CASE CallStep /\ ~\E p \in Providers : RsRegister(p)
    <3>1. UNCHANGED <<catalog, retained>>
      BY <1>2, <2>3 DEF CallStep, ReadBatch, ReadError, ReadEnd, ExportSchema, RsName, RsSchema,
         RsTakeBatch, RsEmptySlice, RsBatchesDone, RsRefuse, RsFail, Fail, registry
    <3>2. pc' = "idle" => ~success'
      BY <1>2, <2>3 DEF CallStep, ReadBatch, ReadError, ReadEnd, ExportSchema, RsName, RsSchema,
         RsTakeBatch, RsEmptySlice, RsBatchesDone, RsRefuse, RsFail, Fail, call, IInv, CallShape
    <3> QED
      BY <3>1, <3>2
  <2>4. CASE Next /\ ~CallStep /\ ~UNCHANGED vars
    BY <1>2, <2>4 DEF Next, Aborted, New, Dispose, Finalize, NewRecordBatch, UnrefRecordBatch, Sql,
       FreeDataFrame, Deregister, SqlDropTable, RegisterFile, RegisterRecordBatch, RegisterTable, Ready, Idle
  <2> QED
    BY <1>2, <2>1, <2>2, <2>3, <2>4
<1>3. IInv /\ [Next]_vars => [Truthful]_vars
  BY <1>1, <1>2
<1> QED
  BY <1>3, Invariance, PTL DEF Spec, ResultIsTruthful

-----------------------------------------------------------------------------
(* A call cannot go on for ever.                                           *)
LEMMA HandedFinite ==
    /\ IsFiniteSet(Handed) /\ Cardinality(Handed) \in Nat
    /\ IsFiniteSet(Handed') /\ Cardinality(Handed') \in Nat
<1>1. Handed \in SUBSET Structs /\ Handed' \in SUBSET Structs
  BY DEF Handed
<1>2. IsFiniteSet(Handed) /\ IsFiniteSet(Handed')
  BY <1>1, PoolsAssumption, FS_Subset
<1> QED
  BY <1>2, FS_CardinalityType

(* One array more and one array less in the hands of the caller.           *)
LEMMA HandedGrows ==
    ASSUME TypeOK, NEW s \in Structs, Free(s), holders' = [holders EXCEPT ![s] = {"caller"}]
    PROVE  Cardinality(Handed') = Cardinality(Handed) + 1
<1>1. Handed' = Handed \cup {s} /\ s \notin Handed
  BY DEF Handed, Free, TypeOK
<1>2. Cardinality(Handed \cup {s}) = IF s \in Handed THEN Cardinality(Handed) ELSE Cardinality(Handed) + 1
  BY HandedFinite, FS_AddElement
<1> QED
  BY <1>1, <1>2

LEMMA HandedShrinks ==
    ASSUME TypeOK, NEW s \in Structs, "caller" \in holders[s], Hold(Moved(holders, s))
    PROVE  Cardinality(Handed') = Cardinality(Handed) - 1
<1>1. Handed' = Handed \ {s} /\ s \in Handed
  BY DEF Handed, Hold, Moved, TypeOK
<1>2. Cardinality(Handed \ {s}) = IF s \in Handed THEN Cardinality(Handed) - 1 ELSE Cardinality(Handed)
  BY HandedFinite, FS_RemoveElement
<1> QED
  BY <1>1, <1>2

(* What is left at a step of a call, before and after a transition.        *)
LEMMA StepsLeftAt ==
    ASSUME IInv
    PROVE  /\ StepsLeft \in Nat
           /\ pc \in {"insert", "fail"} => StepsLeft = 1
           /\ pc = "aborted" => StepsLeft = 0
           /\ pc = "rs_register" => StepsLeft = 2
           /\ pc = "rs_batches" => StepsLeft = 3 + 2 * chunks + Cardinality(Handed)
           /\ pc = "rs_schema" => StepsLeft = 4 + 2 * chunks + Cardinality(Handed)
           /\ pc = "rs_name" => StepsLeft = 5 + 2 * chunks + Cardinality(Handed)
           /\ pc = "export_schema" => StepsLeft = 6 + 2 * chunks + Cardinality(Handed)
           /\ pc = "read" => StepsLeft = 7 + 2 * chunks + Cardinality(Handed)
<1>1. chunks \in Nat /\ pc \in Steps
  BY PoolsAssumption DEF IInv, TypeOK
<1>2. /\ pc \in {"idle", "aborted"} => StepsAhead = 0
      /\ pc \in {"insert", "fail"} => StepsAhead = 1
      /\ pc = "rs_register" => StepsAhead = 2
      /\ pc = "rs_batches" => StepsAhead = 3
      /\ pc = "rs_schema" => StepsAhead = 4
      /\ pc = "rs_name" => StepsAhead = 5
      /\ pc = "export_schema" => StepsAhead = 6
      /\ pc = "read" => StepsAhead = 7
  BY DEF StepsAhead
<1> QED
  BY <1>1, <1>2, HandedFinite DEF StepsLeft, Steps

LEMMA StepsLeftNext ==
    ASSUME TypeOK'
    PROVE  /\ pc' \in {"idle", "aborted"} => StepsLeft' = 0
           /\ pc' \in {"insert", "fail"} => StepsLeft' = 1
           /\ pc' = "rs_register" => StepsLeft' = 2
           /\ pc' = "rs_batches" => StepsLeft' = 3 + 2 * chunks' + Cardinality(Handed')
           /\ pc' = "rs_schema" => StepsLeft' = 4 + 2 * chunks' + Cardinality(Handed')
           /\ pc' = "rs_name" => StepsLeft' = 5 + 2 * chunks' + Cardinality(Handed')
           /\ pc' = "export_schema" => StepsLeft' = 6 + 2 * chunks' + Cardinality(Handed')
           /\ pc' = "read" => StepsLeft' = 7 + 2 * chunks' + Cardinality(Handed')
<1>1. /\ pc' \in {"idle", "aborted"} => StepsAhead' = 0
      /\ pc' \in {"insert", "fail"} => StepsAhead' = 1
      /\ pc' = "rs_register" => StepsAhead' = 2
      /\ pc' = "rs_batches" => StepsAhead' = 3
      /\ pc' = "rs_schema" => StepsAhead' = 4
      /\ pc' = "rs_name" => StepsAhead' = 5
      /\ pc' = "export_schema" => StepsAhead' = 6
      /\ pc' = "read" => StepsAhead' = 7
  BY DEF StepsAhead
<1> QED
  BY <1>1 DEF StepsLeft

(* A failing step goes to the release, and is the last but one.            *)
LEMMA FailIsShort ==
    ASSUME IInv, TypeOK', pc \in Steps \ {"idle", "insert", "fail", "aborted"}, pc' = "fail"
    PROVE  StepsLeft' < StepsLeft
<1>1. chunks \in Nat
  BY PoolsAssumption DEF IInv, TypeOK
<1> QED
  BY <1>1, StepsLeftAt, StepsLeftNext, HandedFinite DEF Steps

(* A registration of k record batches takes at most 7 + 2 * k steps.       *)
THEOREM CallsAreBounded == Spec => CallsAdvance
<1> DEFINE Advances ==
        /\ pc = "idle" => StepsLeft' <= 7 + 2 * chunks'
        /\ pc # "idle" => StepsLeft' < StepsLeft
<1>1. ASSUME IInv, Next, ~UNCHANGED vars
      PROVE  Advances
  <2>a. TypeOK' /\ TypeOK
    BY <1>1, TypeStep DEF IInv
  <2>b. chunks \in Nat /\ chunks' \in Nat
    BY <2>a, PoolsAssumption DEF TypeOK
  <2>g. \A k \in Nat : /\ 0 <= 7 + 2 * k
                       /\ 5 + 2 * k + 1 <= 7 + 2 * k
                       /\ 7 + 2 * k + 0 <= 7 + 2 * k
    OBVIOUS
  <2>c. /\ Cardinality(Handed) \in Nat /\ Cardinality(Handed') \in Nat
    BY HandedFinite
  <2>d. pc = "idle" => Handed = {}
    BY <1>1 DEF IInv, ArrayShape, Handed
  <2>e. holders' = holders => Handed' = Handed
    BY DEF Handed
  <2>f. ASSUME pc = "idle", pc' = "idle"
        PROVE  Advances
    <3>1. StepsLeft' = 0
      BY <2>a, <2>f, StepsLeftNext
    <3>2. StepsLeft' <= 7 + 2 * chunks'
      BY <2>b, <2>g, <3>1
    <3> QED
      BY <2>f, <3>2
  <2>1. CASE New \/ Dispose \/ Finalize
    BY <2>1, <2>f DEF New, Dispose, Finalize, Ready, Idle, call
  <2>2. ASSUME NEW b \in Batches, NewRecordBatch(b) \/ UnrefRecordBatch(b)
        PROVE  Advances
    BY <2>2, <2>f DEF NewRecordBatch, UnrefRecordBatch, Idle, call
  <2>3. ASSUME NEW f \in Frames, FreeDataFrame(f) \/ \E n \in Names : Sql(f, n)
        PROVE  Advances
    BY <2>3, <2>f DEF FreeDataFrame, Sql, Ready, Idle, call
  <2>4. ASSUME NEW n \in Names, Deregister(n) \/ SqlDropTable(n) \/ \E p \in Providers : RegisterFile(n, p)
        PROVE  Advances
    BY <2>4, <2>f DEF Deregister, SqlDropTable, RegisterFile, Ready, Idle, call
  <2>5. ASSUME NEW n \in Names, NEW b \in Batches, NEW s \in Structs, RegisterRecordBatch(n, b, s)
        PROVE  Advances
    <3>1. pc = "idle" /\ pc' = "rs_name" /\ Free(s) /\ holders' = [holders EXCEPT ![s] = {"caller"}]
      BY <2>5 DEF RegisterRecordBatch, Ready, Idle
    <3>2. Cardinality(Handed') = Cardinality(Handed) + 1
      BY <2>a, <3>1, HandedGrows
    <3>3. Cardinality(Handed') = 1
      BY <2>d, <3>1, <3>2, FS_EmptySet
    <3>4. StepsLeft' = 5 + 2 * chunks' + Cardinality(Handed')
      BY <2>a, <3>1, StepsLeftNext
    <3>5. StepsLeft' <= 7 + 2 * chunks'
      BY <2>b, <2>g, <3>3, <3>4
    <3> QED
      BY <3>1, <3>5
  <2>6. ASSUME NEW n \in Names, NEW k \in 0 .. MaxChunks, RegisterTable(n, k)
        PROVE  Advances
    <3>1. pc = "idle" /\ pc' = "read" /\ holders' = holders
      BY <2>6 DEF RegisterTable, Ready, Idle, memory
    <3>2. Cardinality(Handed') = 0
      BY <2>d, <2>e, <3>1, FS_EmptySet
    <3>3. StepsLeft' = 7 + 2 * chunks' + Cardinality(Handed')
      BY <2>a, <3>1, StepsLeftNext
    <3>4. StepsLeft' <= 7 + 2 * chunks'
      BY <2>b, <2>g, <3>2, <3>3
    <3> QED
      BY <3>1, <3>4
  <2>7. ASSUME NEW b \in Batches, NEW s \in Structs, ReadBatch(b, s)
        PROVE  Advances
    <3>1. pc = "read" /\ chunks > 0 /\ Free(s)
      BY <2>7 DEF ReadBatch
    <3>2. CASE pc' = "fail"
      BY <1>1, <2>a, <3>1, <3>2, FailIsShort DEF Steps
    <3>3. CASE pc' # "fail"
      <4>1. /\ holders' = [holders EXCEPT ![s] = {"caller"}]
            /\ chunks' = chunks - 1 /\ pc' = "read"
        BY <2>7, <3>1, <3>3 DEF ReadBatch
      <4>2. Cardinality(Handed') = Cardinality(Handed) + 1
        BY <2>a, <3>1, <4>1, HandedGrows
      <4>3. /\ StepsLeft = 7 + 2 * chunks + Cardinality(Handed)
            /\ StepsLeft' = 7 + 2 * chunks' + Cardinality(Handed')
        BY <1>1, <2>a, <3>1, <4>1, StepsLeftAt, StepsLeftNext
      <4> QED
        BY <2>b, <2>c, <3>1, <4>1, <4>2, <4>3
    <3> QED
      BY <3>2, <3>3
  <2>8. CASE ReadError \/ RsRefuse
    <3>1. pc \in {"read", "rs_register"} /\ pc' = "fail"
      BY <2>8 DEF ReadError, RsRefuse, RsFail
    <3> QED
      BY <1>1, <2>a, <3>1, FailIsShort DEF Steps
  <2>9. CASE ReadEnd \/ ExportSchema \/ RsName \/ RsSchema
    <3>1. CASE pc' = "fail"
      <4>1. pc \in {"read", "export_schema", "rs_name", "rs_schema"}
        BY <2>9 DEF ReadEnd, ExportSchema, RsName, RsSchema
      <4> QED
        BY <1>1, <2>a, <3>1, <4>1, FailIsShort DEF Steps
    <3>2. CASE pc' # "fail"
      <4>1. /\ UNCHANGED <<holders, chunks>>
            /\ \/ pc = "read" /\ pc' = "export_schema"
               \/ pc = "export_schema" /\ pc' = "rs_name"
               \/ pc = "rs_name" /\ pc' = "rs_schema"
               \/ pc = "rs_schema" /\ pc' = "rs_batches"
        BY <2>9, <3>2 DEF ReadEnd, ExportSchema, RsName, RsSchema, RsFail, memory
      <4>2. Handed' = Handed
        BY <2>e, <4>1
      <4> QED
        BY <1>1, <2>a, <2>b, <2>c, <4>1, <4>2, StepsLeftAt, StepsLeftNext
    <3> QED
      BY <3>1, <3>2
  <2>10. ASSUME NEW s \in Structs, RsTakeBatch(s)
         PROVE  Advances
    <3>1. pc = "rs_batches" /\ "caller" \in holders[s]
      BY <2>10 DEF RsTakeBatch
    <3>2. CASE RsFail(Moved(holders, s))
      <4>1. pc' = "fail"
        BY <3>2 DEF RsFail
      <4> QED
        BY <1>1, <2>a, <3>1, <4>1, FailIsShort DEF Steps
    <3>3. CASE Hold(Moved(holders, s)) /\ UNCHANGED call
      <4>1. Cardinality(Handed') = Cardinality(Handed) - 1
        BY <2>a, <3>1, <3>3, HandedShrinks
      <4>2. pc' = "rs_batches" /\ chunks' = chunks
        BY <3>1, <3>3 DEF call
      <4>3. /\ StepsLeft = 3 + 2 * chunks + Cardinality(Handed)
            /\ StepsLeft' = 3 + 2 * chunks' + Cardinality(Handed')
        BY <1>1, <2>a, <3>1, <4>2, StepsLeftAt, StepsLeftNext
      <4> QED
        BY <2>b, <2>c, <3>1, <4>1, <4>2, <4>3
    <3> QED
      BY <2>10, <3>2, <3>3 DEF RsTakeBatch
  <2>11. CASE RsEmptySlice \/ RsBatchesDone
    <3>1. pc = "rs_batches" /\ pc' \in {"rs_register", "aborted"}
      BY <2>11 DEF RsEmptySlice, RsBatchesDone
    <3> QED
      BY <1>1, <2>a, <2>b, <2>c, <3>1, StepsLeftAt, StepsLeftNext
  <2>12. ASSUME NEW p \in Providers, RsRegister(p)
         PROVE  Advances
    <3>1. pc = "rs_register" /\ pc' = "insert"
      BY <2>12 DEF RsRegister
    <3> QED
      BY <1>1, <2>a, <3>1, StepsLeftAt, StepsLeftNext
  <2>13. CASE Insert \/ Fail
    <3>1. pc \in {"insert", "fail"} /\ pc' = "idle"
      BY <2>13 DEF Insert, Fail, Return
    <3> QED
      BY <1>1, <2>a, <3>1, StepsLeftAt, StepsLeftNext
  <2> QED
    BY <1>1, <2>1, <2>2, <2>3, <2>4, <2>5, <2>6, <2>7, <2>8, <2>9, <2>10, <2>11, <2>12, <2>13
       DEF Next, CallStep, Aborted
<1>2. IInv /\ [Next]_vars => [Advances]_vars
  BY <1>1
<1> QED
  BY <1>2, Invariance, PTL DEF Spec, CallsAdvance

-----------------------------------------------------------------------------
(* Refinement.                                                             *)
Mapped == [t \in Tables |-> Registered(t)]

(* A table whose provider stays looks the same after any step that does    *)
(* not give the provider another name.                                     *)
LEMMA RegisteredSame ==
    ASSUME IInv, [Next]_vars, NEW t \in Tables, catalog'[t] = catalog[t],
           catalog[t] # None => madeFrom'[t] = madeFrom[t]
    PROVE  Mapped'[t] = Mapped[t]
<1>1. CASE catalog[t] = None
  BY <1>1 DEF Mapped, Registered
<1>2. CASE catalog[t] # None
  <2>1. PICK p \in Providers : p = catalog[t]
    BY <1>2 DEF IInv, TypeOK
  <2>2. p \in Live(catalog, frames, shared) /\ p \in Live(catalog, frames, shared)'
    BY <2>1 DEF Live
  <2>3. BatchesOf(p)' = BatchesOf(p)
    BY <2>2, LiveBatchesSame
  <2>4. BatchesOf(catalog[t])' = BatchesOf(catalog[t])
    BY <2>1, <2>3 DEF BatchesOf
  <2> QED
    BY <1>2, <2>4 DEF Mapped, Registered
<1> QED
  BY <1>1, <1>2

LEMMA MappedSame ==
    ASSUME IInv, [Next]_vars, UNCHANGED <<catalog, madeFrom>>
    PROVE  Mapped' = Mapped
<1>1. \A t \in Tables : Mapped'[t] = Mapped[t]
  BY RegisteredSame
<1> QED
  BY <1>1 DEF Mapped

LEMMA StepRefines ==
    ASSUME IInv, [Next]_vars
    PROVE  [Registry!Next]_(Registry!vars)
<1>a. TypeOK /\ CallShape /\ ContextShape /\ TablesMatch
  BY DEF IInv
<1>b. ASSUME UNCHANGED <<ctx, catalog, madeFrom, Keeping>>
      PROVE  UNCHANGED Registry!vars
  <2>1. Mapped' = Mapped
    BY <1>b, MappedSame
  <2> QED
    BY <1>b, <2>1 DEF Registry!vars, Mapped, Keeping
<1>c. ASSUME UNCHANGED <<ctx, registry>>, pc # "insert", pc' # "insert"
      PROVE  UNCHANGED Registry!vars
  BY <1>b, <1>c DEF Keeping, registry
<1>d. \A t \in Tables : Registry!NoTables[t] = Registry!Absent
  BY DEF Registry!NoTables
<1>1. CASE UNCHANGED vars
  BY <1>b, <1>1 DEF vars, object, registry, call, Keeping
<1>2. CASE New
  <2>1. /\ ctx = "none" /\ ctx' = "alive" /\ pc = "idle" /\ pc' = "idle"
        /\ UNCHANGED <<catalog, madeFrom, retained>>
    BY <1>2 DEF New, Idle, registry, call
  <2>2. Mapped' = Mapped
    BY <2>1, MappedSame
  <2>3. Mapped = Registry!NoTables
    BY <1>a, <2>1 DEF ContextShape, Mapped, Registered, Registry!NoTables, Registry!Absent
  <2> QED
    BY <2>1, <2>2, <2>3 DEF Registry!Next, Registry!Open, Mapped
<1>3. CASE Dispose
  <2>1. /\ ctx = "alive" /\ ctx' = "disposed" /\ pc = "idle" /\ pc' = "idle"
        /\ UNCHANGED <<catalog, madeFrom>> /\ retained' = [n \in Names |-> {}]
    BY <1>3 DEF Dispose, Ready, Idle, call
  <2>2. Mapped' = Mapped
    BY <2>1, MappedSame
  <2> QED
    BY <2>1, <2>2 DEF Registry!Next, Registry!Close, Registry!NothingKept, Mapped
<1>4. CASE Finalize
  <2>1. /\ ctx = "disposed" /\ ctx' = "none" /\ pc = "idle" /\ pc' = "idle"
        /\ catalog' = [t \in Tables |-> None] /\ retained' = retained
    BY <1>4 DEF Finalize, Catalogue, Idle, call
  <2>2. Mapped' = Registry!NoTables
    BY <2>1 DEF Mapped, Registered, Registry!NoTables, Registry!Absent
  <2> QED
    BY <2>1, <2>2 DEF Registry!Next, Registry!Clear, Mapped
<1>5. ASSUME NEW b \in Batches, NewRecordBatch(b) \/ UnrefRecordBatch(b)
      PROVE  UNCHANGED Registry!vars
  BY <1>c, <1>5 DEF NewRecordBatch, UnrefRecordBatch, Idle, call
<1>6. ASSUME NEW f \in Frames, NEW n \in Names, Sql(f, n)
      PROVE  UNCHANGED Registry!vars
  BY <1>c, <1>6 DEF Sql, Ready, Idle, call
<1>7. ASSUME NEW f \in Frames, FreeDataFrame(f)
      PROVE  UNCHANGED Registry!vars
  BY <1>c, <1>7 DEF FreeDataFrame, Catalogue, registry, Idle, call
<1>8. ASSUME NEW n \in Names, Deregister(n)
      PROVE  Registry!Next
  <2>1. /\ catalog' = [catalog EXCEPT ![Resolve[n]] = None]
        /\ retained' = [retained EXCEPT ![n] = {}]
        /\ madeFrom' = [madeFrom EXCEPT ![Resolve[n]] = None] /\ pc = "idle" /\ pc' = "idle"
        /\ ctx = "alive" /\ ctx' = "alive" /\ n \in Utf8Names
    BY <1>8 DEF Deregister, Catalogue, Ready, Idle, call
  <2>2. \A t \in Tables \ {Resolve[n]} : Mapped'[t] = Mapped[t]
    BY <1>a, <2>1, RegisteredSame DEF TypeOK
  <2>3. Resolve[n] \in Tables => Mapped'[Resolve[n]] = Registry!Absent
    BY <1>a, <2>1 DEF TypeOK, Mapped, Registered, Registry!Absent
  <2>4. Mapped' = [Mapped EXCEPT ![Resolve[n]] = Registry!Absent]
    BY <2>2, <2>3 DEF Mapped
  <2>5. Registry!Deregister(n)
    BY <2>1, <2>4 DEF Registry!Deregister, Mapped
  <2> QED
    BY <2>1, <2>5 DEF Registry!Next
<1>19. ASSUME NEW n \in Names, SqlDropTable(n)
       PROVE  Registry!Next
  <2>1. /\ catalog' = [catalog EXCEPT ![Resolve[n]] = None]
        /\ catalog[Resolve[n]] # None
        /\ madeFrom' = [madeFrom EXCEPT ![Resolve[n]] = None]
        /\ retained' = retained /\ pc = "idle" /\ pc' = "idle"
        /\ ctx = "alive" /\ ctx' = "alive" /\ n \in Utf8Names
    BY <1>19 DEF SqlDropTable, Catalogue, Ready, Idle, call
  <2>2. \A t \in Tables \ {Resolve[n]} : Mapped'[t] = Mapped[t]
    BY <1>a, <2>1, RegisteredSame DEF TypeOK
  <2>3. Resolve[n] \in Tables
    BY NamesAssumption
  <2>4. Mapped'[Resolve[n]] = Registry!Absent
    BY <1>a, <2>1, <2>3 DEF TypeOK, Mapped, Registered, Registry!Absent
  <2>5. Mapped' = [Mapped EXCEPT ![Resolve[n]] = Registry!Absent]
    BY <2>2, <2>4 DEF Mapped
  <2>6. Mapped[Resolve[n]].kind # "absent" /\ Registry!Absent.kind = "absent"
    BY <2>1, <2>3 DEF Mapped, Registered, Registry!Absent
  <2>7. Registry!Drop(n)
    BY <2>1, <2>5, <2>6 DEF Registry!Drop, Mapped, Keeping
  <2> QED
    BY <2>1, <2>7 DEF Registry!Next
<1>9. ASSUME NEW n \in Names, NEW p \in Providers, RegisterFile(n, p)
      PROVE  Registry!Next
  <2>1. /\ catalog' = [catalog EXCEPT ![Resolve[n]] = p]
        /\ madeFrom' = [madeFrom EXCEPT ![Resolve[n]] = None]
        /\ retained' = retained /\ pc = "idle" /\ pc' = "idle"
        /\ ctx = "alive" /\ ctx' = "alive" /\ n \in Utf8Names
    BY <1>9 DEF RegisterFile, Catalogue, Ready, Idle, call
  <2>2. ASSUME NEW t \in Tables \ {Resolve[n]}
        PROVE  Mapped'[t] = Mapped[t]
    <3>1. catalog'[t] = catalog[t]
      BY <1>a, <2>1, <2>2 DEF TypeOK
    <3>2. madeFrom'[t] = madeFrom[t]
      BY <1>a, <2>1, <3>1 DEF TypeOK
    <3> QED
      BY <2>2, <3>1, <3>2, RegisteredSame
  <2>3. Resolve[n] \in Tables => Mapped'[Resolve[n]] = Registry!File
    BY <1>a, <2>1, PoolsAssumption DEF TypeOK, Mapped, Registered, Registry!File
  <2>4. Mapped' = [Mapped EXCEPT ![Resolve[n]] = Registry!File]
    BY <2>2, <2>3 DEF Mapped
  <2>5. Registry!RegisterFile(n)
    BY <2>1, <2>4 DEF Registry!RegisterFile, Mapped
  <2> QED
    BY <2>1, <2>5 DEF Registry!Next
<1>10. ASSUME NEW n \in Names, NEW b \in Batches, NEW s \in Structs, RegisterRecordBatch(n, b, s)
       PROVE  UNCHANGED Registry!vars
  BY <1>c, <1>10 DEF RegisterRecordBatch, Ready, Idle, object
<1>11. ASSUME NEW n \in Names, NEW k \in 0 .. MaxChunks, RegisterTable(n, k)
       PROVE  UNCHANGED Registry!vars
  BY <1>c, <1>11 DEF RegisterTable, Ready, Idle, object
<1>12. ASSUME NEW b \in Batches, NEW s \in Structs, ReadBatch(b, s)
       PROVE  UNCHANGED Registry!vars
  BY <1>c, <1>12 DEF ReadBatch, object
<1>13. CASE ReadError \/ ReadEnd \/ ExportSchema \/ RsEmptySlice \/ RsBatchesDone
  BY <1>c, <1>13 DEF ReadError, ReadEnd, ExportSchema, RsEmptySlice, RsBatchesDone, object
<1>14. CASE RsName \/ RsSchema \/ RsRefuse
  BY <1>c, <1>14 DEF RsName, RsSchema, RsRefuse, RsFail, object
<1>15. ASSUME NEW s \in Structs, RsTakeBatch(s)
       PROVE  UNCHANGED Registry!vars
  BY <1>c, <1>15 DEF RsTakeBatch, RsFail, object, call
<1>16. ASSUME NEW p \in Providers, RsRegister(p)
       PROVE  Registry!Next
  <2>1. /\ catalog' = [catalog EXCEPT ![Resolve[name]] = p]
        /\ madeFrom' = [madeFrom EXCEPT ![Resolve[name]] = name]
        /\ UNCHANGED <<retained, name, list>> /\ pc # "insert" /\ pc' = "insert"
        /\ ctx = "alive" /\ ctx' = "alive" /\ name \in Utf8Names /\ name \in Names
    BY <1>a, <1>16 DEF RsRegister, Catalogue, CallShape
  <2>2. /\ catalog'[Resolve[name]] = p /\ madeFrom'[Resolve[name]] = name
        /\ BatchesOf(p)' = list
    BY <1>16, RegisteredBatches
  <2>3. ASSUME NEW t \in Tables \ {Resolve[name]}
        PROVE  Mapped'[t] = Mapped[t]
    <3>1. catalog'[t] = catalog[t]
      BY <1>a, <2>1, <2>3 DEF TypeOK
    <3>2. madeFrom'[t] = madeFrom[t]
      BY <1>a, <2>1, <3>1 DEF TypeOK
    <3> QED
      BY <2>3, <3>1, <3>2, RegisteredSame
  <2>4. Mapped'[Resolve[name]] = Registry!Memory(name, list)
    <3>1. BatchesOf(catalog[Resolve[name]])' = list
      BY <2>1, <2>2 DEF BatchesOf
    <3>2. p # None /\ name # None /\ Resolve[name] \in Tables
      BY <2>1, NamesAssumption, PoolsAssumption
    <3> QED
      BY <2>1, <2>2, <3>1, <3>2 DEF Mapped, Registered, Registry!Memory
  <2>5. Mapped' = [Mapped EXCEPT ![Resolve[name]] = Registry!Memory(name, list)]
    BY <2>3, <2>4 DEF Mapped
  <2>6. Registry!Register(name, list)
    BY <2>1, <2>5 DEF Registry!Register, Mapped
  <2>7. list \in SUBSET Batches
    BY <1>a DEF TypeOK
  <2> QED
    BY <2>1, <2>6, <2>7 DEF Registry!Next
<1>17. CASE Insert
  <2>1. UNCHANGED <<ctx, catalog, madeFrom>> /\ pc = "insert" /\ pc' = "idle"
        /\ retained' = [retained EXCEPT ![name] = list]
    BY <1>17 DEF Insert, Return, object
  <2> QED
    BY <1>b, <2>1 DEF Keeping
<1>18. CASE Fail
  BY <1>c, <1>18 DEF Fail, Return, object
<1> QED
  BY <1>1, <1>2, <1>3, <1>4, <1>5, <1>6, <1>7, <1>8, <1>9, <1>10, <1>11, <1>12, <1>13,
     <1>14, <1>15, <1>16, <1>17, <1>18, <1>19 DEF Next, CallStep, Aborted

(* Seen from outside, a registration happens as one step or not at all.    *)
THEOREM RefinesRegistry == Spec => ImplementsRegistry
<1>1. Init => Registry!Init
  BY DEF Init, Registry!Init, Registry!NoTables, Registry!NothingKept, Registry!Absent, Registered
<1>2. IInv /\ [Next]_vars => [Registry!Next]_(Registry!vars)
  BY StepRefines
<1> QED
  BY <1>1, <1>2, Invariance, PTL DEF Spec, ImplementsRegistry, Registry!Spec
-----------------------------------------------------------------------------
(* The theorems of the registry, of the context's state.                   *)
RegistryTheory == INSTANCE TableRegistry_proofs WITH
    open <- ctx = "alive",
    tables <- [t \in Tables |-> Registered(t)],
    kept <- IF pc = "insert" THEN [retained EXCEPT ![name] = list] ELSE retained

(* What TableRegistry promises of every name and table therefore holds of  *)
(* the context, by the refinement alone: between two steps of a call, too, *)
(* the batches of a table are kept under the name it was registered with.  *)
THEOREM KeptThroughRegistry == Spec => []Registry!TablesAreKept
<1>0. Utf8Names \subseteq Names /\ Resolve \in [Names -> Tables] /\ None \notin Names
  BY NamesAssumption, PoolsAssumption
<1>1. RegistryTheory!Spec => []RegistryTheory!TablesAreKept
  BY <1>0, RegistryTheory!RegistryKeepsTables, PTL
<1>2. Registry!Init => RegistryTheory!Init
  BY DEF Registry!Init, Registry!NoTables, Registry!NothingKept, Registry!Absent,
     RegistryTheory!Init, RegistryTheory!NoTables, RegistryTheory!NothingKept, RegistryTheory!Absent
<1>3. [Registry!Next]_(Registry!vars) => [RegistryTheory!Next]_(RegistryTheory!vars)
  BY DEF Registry!Next, Registry!Open, Registry!Register, Registry!RegisterFile, Registry!Deregister,
     Registry!Drop, Registry!Close, Registry!Clear, Registry!Memory, Registry!File, Registry!Absent,
     Registry!NoTables, Registry!NothingKept, Registry!vars,
     RegistryTheory!Next, RegistryTheory!Open, RegistryTheory!Register, RegistryTheory!RegisterFile,
     RegistryTheory!Deregister, RegistryTheory!Drop, RegistryTheory!Close, RegistryTheory!Clear,
     RegistryTheory!Memory, RegistryTheory!File, RegistryTheory!Absent, RegistryTheory!NoTables,
     RegistryTheory!NothingKept, RegistryTheory!vars
<1> QED
  BY <1>1, <1>2, <1>3, RefinesRegistry, PTL DEF ImplementsRegistry, Registry!Spec, RegistryTheory!Spec,
     Registry!TablesAreKept, RegistryTheory!TablesAreKept
=============================================================================
