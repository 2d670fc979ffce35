--------------------------- MODULE TableRegistry ---------------------------
(***************************************************************************)
(* What a GDFSessionContext promises about the tables registered in it:    *)
(* a registration happens as one step, and the record batches a table      *)
(* reads stay in the context's keeping for as long as the table is there.  *)
(* SessionContext.tla is shown to implement this module.                   *)
(***************************************************************************)
EXTENDS Naturals

CONSTANTS
    Names,         \* the table names a caller may pass
    Utf8Names,     \* those that are valid UTF-8
    Tables,        \* the tables the names stand for
    Resolve,       \* the table of a name: "data" and "datafusion.public.data" are one
    Batches,       \* GArrowRecordBatch objects
    None           \* no name

ASSUME RegistryAssumption ==
    /\ Utf8Names \subseteq Names
    /\ Resolve \in [Names -> Tables]
    /\ None \notin Names

VARIABLES
    open,          \* a context exists and has not been disposed
    tables,        \* what is registered as each table
    kept           \* the record batches the context keeps alive, per name

vars == <<open, tables, kept>>

Registration == [kind : {"absent", "file", "memory"},
                 name : Names \cup {None},
                 batches : SUBSET Batches]

Absent == [kind |-> "absent", name |-> None, batches |-> {}]
File == [kind |-> "file", name |-> None, batches |-> {}]
Memory(n, bs) == [kind |-> "memory", name |-> n, batches |-> bs]

NoTables == [t \in Tables |-> Absent]
NothingKept == [n \in Names |-> {}]

TypeOK ==
    /\ open \in BOOLEAN
    /\ tables \in [Tables -> Registration]
    /\ kept \in [Names -> SUBSET Batches]

Init ==
    /\ open = FALSE
    /\ tables = NoTables
    /\ kept = NothingKept
-----------------------------------------------------------------------------
Open ==
    /\ ~open
    /\ tables = NoTables
    /\ open' = TRUE
    /\ UNCHANGED <<tables, kept>>

Register(n, bs) ==
    /\ open
    /\ tables' = [tables EXCEPT ![Resolve[n]] = Memory(n, bs)]
    /\ kept' = [kept EXCEPT ![n] = bs]
    /\ UNCHANGED open

RegisterFile(n) ==
    /\ open
    /\ tables' = [tables EXCEPT ![Resolve[n]] = File]
    /\ UNCHANGED <<open, kept>>

(* The entry goes and the table stays.                                     *)
MutantDeregister(n) ==
    /\ open
    /\ kept' = [kept EXCEPT ![n] = {}]
    /\ UNCHANGED <<open, tables>>

Deregister(n) ==
    /\ open
    /\ tables' = [tables EXCEPT ![Resolve[n]] = Absent]
    /\ kept' = [kept EXCEPT ![n] = {}]
    /\ UNCHANGED open

(* In SQL: the entry stays.                                                *)
Drop(n) ==
    /\ open
    /\ tables[Resolve[n]] # Absent
    /\ tables' = [tables EXCEPT ![Resolve[n]] = Absent]
    /\ UNCHANGED <<open, kept>>

(* dispose drops what is kept, finalize drops the tables.                  *)
Close ==
    /\ open
    /\ open' = FALSE
    /\ kept' = NothingKept
    /\ UNCHANGED tables

Clear ==
    /\ ~open
    /\ tables' = NoTables
    /\ UNCHANGED <<open, kept>>

Next ==
    \/ Open
    \/ \E n \in Utf8Names, bs \in SUBSET Batches : Register(n, bs)
    \/ \E n \in Utf8Names : RegisterFile(n) \/ Deregister(n) \/ Drop(n)
    \/ Close
    \/ Clear

Spec == Init /\ [][Next]_vars
-----------------------------------------------------------------------------
(* Every batch of a table in memory is kept under the name the table was   *)
(* registered with, whatever was registered, replaced and dropped through  *)
(* other names of the same table (session-context.c:212, 269-271, 359-361).*)
TablesAreKept ==
    open => \A t \in Tables :
                tables[t].kind = "memory" =>
                    /\ Resolve[tables[t].name] = t
                    /\ tables[t].batches \subseteq kept[tables[t].name]
=============================================================================
