------------------------ MODULE TableRegistry_proofs ------------------------
(***************************************************************************)
(* Theorems of TableRegistry, for every value of its constants.            *)
(***************************************************************************)
EXTENDS TableRegistry, TLAPS

IInv == TypeOK /\ TablesAreKept

LEMMA TypeStep ==
    ASSUME TypeOK, [Next]_vars
    PROVE  TypeOK'
<1>1. /\ Absent \in Registration
      /\ File \in Registration
      /\ \A n \in Utf8Names, bs \in SUBSET Batches : Memory(n, bs) \in Registration
  BY RegistryAssumption DEF Registration, Absent, File, Memory
<1>2. NoTables \in [Tables -> Registration] /\ NothingKept \in [Names -> SUBSET Batches]
  BY <1>1 DEF NoTables, NothingKept
<1>3. CASE UNCHANGED vars
  BY <1>3 DEF vars, TypeOK
<1>4. CASE Open \/ Close \/ Clear
  BY <1>2, <1>4 DEF Open, Close, Clear, TypeOK
<1>5. ASSUME NEW n \in Utf8Names, NEW bs \in SUBSET Batches, Register(n, bs)
      PROVE  TypeOK'
  BY <1>1, <1>5 DEF Register, TypeOK
<1>6. ASSUME NEW n \in Utf8Names, RegisterFile(n) \/ Deregister(n) \/ Drop(n)
      PROVE  TypeOK'
  BY <1>1, <1>6 DEF RegisterFile, Deregister, Drop, TypeOK
<1> QED
  BY <1>3, <1>4, <1>5, <1>6 DEF Next

(* A table that is replaced or dropped through one name was registered     *)
(* under a name of the same table, so the entry that is overwritten never  *)
(* belongs to a table that stays.                                          *)
LEMMA KeptStep ==
    ASSUME IInv, [Next]_vars
    PROVE  TablesAreKept'
<1>a. TypeOK /\ TablesAreKept /\ Utf8Names \subseteq Names
  BY RegistryAssumption DEF IInv
<1>b. Absent.kind # "memory" /\ File.kind # "memory"
  BY DEF Absent, File
<1>1. CASE UNCHANGED vars
  BY <1>a, <1>1 DEF vars, TablesAreKept
<1>2. CASE Open
  BY <1>b, <1>2 DEF Open, NoTables, TablesAreKept
<1>3. CASE Close \/ Clear
  BY <1>3 DEF Close, Clear, TablesAreKept
<1>4. ASSUME NEW n \in Utf8Names, NEW bs \in SUBSET Batches, Register(n, bs)
      PROVE  TablesAreKept'
  <2> SUFFICES ASSUME NEW t \in Tables, tables'[t].kind = "memory"
               PROVE  /\ Resolve[tables'[t].name] = t
                      /\ tables'[t].batches \subseteq kept'[tables'[t].name]
    BY DEF TablesAreKept
  <2>1. CASE t = Resolve[n]
    BY <1>a, <1>4, <2>1 DEF Register, Memory, TypeOK
  <2>2. CASE t # Resolve[n]
    <3>1. tables'[t] = tables[t] /\ open
      BY <1>a, <1>4, <2>2 DEF Register, TypeOK
    <3>2. tables[t].name # n
      BY <1>a, <2>2, <3>1 DEF TablesAreKept
    <3> QED
      BY <1>a, <1>4, <3>1, <3>2 DEF Register, TablesAreKept, TypeOK
  <2> QED
    BY <2>1, <2>2
<1>5. ASSUME NEW n \in Utf8Names, RegisterFile(n) \/ Drop(n)
      PROVE  TablesAreKept'
  BY <1>a, <1>b, <1>5 DEF RegisterFile, Drop, TypeOK, TablesAreKept
<1>6. ASSUME NEW n \in Utf8Names, Deregister(n)
      PROVE  TablesAreKept'
  <2> SUFFICES ASSUME NEW t \in Tables, tables'[t].kind = "memory"
               PROVE  /\ Resolve[tables'[t].name] = t
                      /\ tables'[t].batches \subseteq kept'[tables'[t].name]
    BY DEF TablesAreKept
  <2>1. t # Resolve[n] /\ tables'[t] = tables[t] /\ open
    BY <1>a, <1>b, <1>6 DEF Deregister, TypeOK
  <2>2. tables[t].name # n
    BY <1>a, <2>1 DEF TablesAreKept
  <2> QED
    BY <1>a, <1>6, <2>1, <2>2 DEF Deregister, TablesAreKept, TypeOK
<1> QED
  BY <1>1, <1>2, <1>3, <1>4, <1>5, <1>6 DEF Next

(* Whatever is registered, replaced and dropped, and through whichever     *)
(* names, the context keeps the batches of every table in memory.          *)
THEOREM RegistryKeepsTables == Spec => []TablesAreKept
<1>1. Init => IInv
  <2>1. Absent \in Registration /\ Absent.kind # "memory"
    BY DEF Absent, Registration
  <2> QED
    BY <2>1 DEF Init, IInv, TypeOK, TablesAreKept, NoTables, NothingKept
<1>2. IInv /\ [Next]_vars => IInv'
  BY TypeStep, KeptStep DEF IInv
<1>3. IInv => TablesAreKept
  BY DEF IInv
<1> QED
  BY <1>1, <1>2, <1>3, PTL DEF Spec
=============================================================================
