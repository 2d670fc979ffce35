----------------------------- MODULE FileOptions -----------------------------
(***************************************************************************)
(* What the read options of CSV and Parquet files promise: a caller        *)
(* chooses settings one by one, none of them changes on its own or with    *)
(* another, and a table registered with the options takes all of them as   *)
(* they are at that moment.  Nothing that happens to the options later     *)
(* reaches the table.  There is one copy of each setting here; the code    *)
(* keeps one in C, one in Rust, and a string only as a pointer to the      *)
(* caller's.  ParquetReadOptions.tla and, without tables, ReadOptions.tla  *)
(* are shown to implement this module.                                     *)
(***************************************************************************)
CONSTANTS
    Tables,
    Choices,           \* the values of each setting
    Defaults,          \* the settings of new options
    None               \* no table

VARIABLES
    open,              \* the options are there
    chosen,            \* the settings a caller chose
    tables             \* the settings a table reads its files with

vars == <<open, chosen, tables>>

Init ==
    /\ open = FALSE
    /\ chosen = Defaults
    /\ tables = [t \in Tables |-> None]

Open ==
    /\ ~open
    /\ open' = TRUE
    /\ UNCHANGED <<chosen, tables>>

Close ==
    /\ open
    /\ open' = FALSE
    /\ chosen' = Defaults
    /\ UNCHANGED tables

Choose(setting, v) ==
    /\ open
    /\ chosen' = [chosen EXCEPT ![setting] = v]
    /\ UNCHANGED <<open, tables>>

Register(t) ==
    /\ open
    /\ tables' = [tables EXCEPT ![t] = chosen]
    /\ UNCHANGED <<open, chosen>>

RegisterWithoutOptions(t) ==
    /\ tables' = [tables EXCEPT ![t] = Defaults]
    /\ UNCHANGED <<open, chosen>>

Deregister(t) ==
    /\ tables[t] # None
    /\ tables' = [tables EXCEPT ![t] = None]
    /\ UNCHANGED <<open, chosen>>

Next ==
    \/ Open
    \/ Close
    \/ \E setting \in DOMAIN Choices : \E v \in Choices[setting] : Choose(setting, v)
    \/ \E t \in Tables : Register(t) \/ RegisterWithoutOptions(t) \/ Deregister(t)

Spec == Init /\ [][Next]_vars
=============================================================================
