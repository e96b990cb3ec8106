-------------------------- MODULE TestbenchChecked -------------------------
(***************************************************************************)
(* The testbench against what the machines it runs are documented to do:   *)
(* run_cycles over the flat state implements Mealy over numbers, for every *)
(* machine a term of SyncTerms can name.                                   *)
(***************************************************************************)
EXTENDS Testbench, SyncTerms

\* The machine of a term, assembled once.
Built == [m \in Machines |-> Build(m)]

BuiltMachine(m) == Built[m]

---------------------------------------------------------------------------
(* The refinement mapping *)

Numbers(bits, widths) ==
  LET chunks == Chunks(bits, widths)
  IN  [k \in DOMAIN widths |-> ToNat(chunks[k])]

StateNumbers ==
  IF status = "new" THEN Start(machine) ELSE Numbers(stateBits, StateWidths(M))

Observed ==
  [k \in DOMAIN samples |->
     [cycle |-> samples[k].cycle,
      value |-> Numbers(samples[k].value, Widths(M.graph, DataOut(M)))]]

NumberInputs(m) ==
  LET widths == InputWidths(MachineOf(m))
  IN  {Numbers(bits, widths) : bits \in BitSeq(Total(widths))}

Promise == INSTANCE Mealy WITH
  Inputs <- NumberInputs, state <- StateNumbers, observed <- Observed

---------------------------------------------------------------------------
(* Properties *)

\* Every machine assembled from the library with compose_sync, par_sync and
\* feedback_sync, simulated over its flat state, steps and outputs as the
\* documentation of its parts says.
ImplementsMealy == Promise!Spec
=============================================================================
