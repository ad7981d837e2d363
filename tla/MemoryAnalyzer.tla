--------------------------- MODULE MemoryAnalyzer ---------------------------
(***************************************************************************)
(* MemoryAnalyzer: which globals a load or a store may access and which it *)
(* must, from the answers of LLVM's alias analysis for every integer       *)
(* global: alias[g] is "No", "May", "Partial" or "Must".                   *)
(***************************************************************************)

maySet(alias) == {g \in DOMAIN alias : alias[g] = "May"}

loadMust(alias) == {g \in DOMAIN alias : alias[g] = "Must"}

storeMust(alias) == {g \in DOMAIN alias : alias[g] \in {"Must", "Partial"}}
=============================================================================
