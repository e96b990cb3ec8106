------------------------------ MODULE MCPublish -----------------------------
(* The crates of the workspace and what their manifests depend on, tests    *)
(* included: cargo resolves the dependencies of tests, too.                 *)
EXTENDS Publish

CratesInOrder ==
  <<"error", "bits", "kind", "signal", "ir", "circuit", "sync", "sim",
    "verilog", "circom", "std", "macros", "hdl-cat">>

DepsInManifests ==
  [c \in Names |->
    CASE c = "error"   -> {}
      [] c = "bits"    -> {"error"}
      [] c = "kind"    -> {"error", "bits"}
      [] c = "signal"  -> {"error", "kind", "bits"}
      [] c = "ir"      -> {"error", "kind"}
      [] c = "circuit" -> {"error", "kind", "ir", "bits"}
      [] c = "sync"    -> {"error", "kind", "ir", "circuit", "bits"}
      [] c = "sim"     -> {"error", "kind", "ir", "sync", "bits", "circuit"}
      [] c = "verilog" -> {"error", "ir", "kind", "bits", "circuit"}
      [] c = "circom"  -> {"error", "ir", "kind", "bits", "sim"}
      [] c = "std"     -> {"error", "bits", "ir", "circuit", "kind", "sync"}
      [] c = "macros"  -> {}
      [] c = "hdl-cat" -> Names \ {"hdl-cat"}]

\* Some were released before, most were not.
ReleasedBefore == {"error"}
=============================================================================
