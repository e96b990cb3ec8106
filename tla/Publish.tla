------------------------------- MODULE Publish ------------------------------
(***************************************************************************)
(* scripts/publish.sh --execute: the crates of the workspace are uploaded  *)
(* one at a time, in a fixed order, and the script halts where cargo       *)
(* refuses.  It may be interrupted anywhere and is run again, from the     *)
(* start or from a crate the operator names.  Dry runs change nothing and  *)
(* are left out.                                                           *)
(*                                                                         *)
(* The registry keeps every upload for good, and its index, which cargo    *)
(* reads dependencies from, follows with a delay.                          *)
(***************************************************************************)
EXTENDS Naturals, Sequences

CONSTANTS
  Crates,     \* the crates in the order the script goes through them
  Deps,       \* the crates each one depends on
  Released    \* the crates that have an older release the others may use

Names == {Crates[k] : k \in DOMAIN Crates}

ASSUME CratesAssumption == Crates \in Seq(Names) /\ Crates # <<>>

ASSUME OnceAssumption ==
  \A j, k \in DOMAIN Crates : Crates[j] = Crates[k] => j = k

\* "Topological order: each crate depends only on those listed above it."
ASSUME TopologicalAssumption ==
  \A k \in DOMAIN Crates : Deps[Crates[k]] \subseteq {Crates[j] : j \in 1..(k - 1)}

VARIABLES
  uploaded,   \* the crates the registry has at the version being published
  indexed,    \* those of them in the index
  phase,      \* what the script is at, or how it ended
  from,       \* the position --from names, 1 without it
  pos         \* the position of the loop

vars == <<uploaded, indexed, phase, from, pos>>

\* Not running; in the gate; in the loop; and back from cargo, which published
\* the crate, found it there or failed.
Ended   == {"idle", "interrupted", "done"}
Running == {"verify", "loop", "published", "exists", "failed"}

\* The end of the script; its variables go with it.
Exit(how) ==
  /\ phase' = how
  /\ from' = 1
  /\ pos' = 1

Init ==
  /\ uploaded = {}
  /\ indexed = {}
  /\ phase = "idle"
  /\ from = 1
  /\ pos = 1

---------------------------------------------------------------------------
(* The script *)

\* A name that is no crate's ends the script before it begins.
Start(f, verify) ==
  /\ phase \in Ended
  /\ phase' = IF verify THEN "verify" ELSE "loop"
  /\ from' = f
  /\ pos' = 1
  /\ UNCHANGED <<uploaded, indexed>>

\* clippy and the tests; the shell exits on the first that fails.
Gate ==
  /\ phase = "verify"
  /\ \/ phase' = "loop" /\ UNCHANGED <<from, pos>>
     \/ Exit("idle")
  /\ UNCHANGED <<uploaded, indexed>>

\* The off-by-one that leaves out the crate named, too.
SkippedThrough(k) == from > 1 /\ k <= from

Skipped(k) == k < from

Skip ==
  /\ phase = "loop" /\ pos \in DOMAIN Crates /\ Skipped(pos)
  /\ pos' = pos + 1
  /\ UNCHANGED <<uploaded, indexed, phase, from>>

Attempts(k) == phase = "loop" /\ pos = k /\ ~Skipped(k)

\* cargo finds every dependency, of some release, in the index.
Resolves(crate) == Deps[crate] \subseteq indexed \cup Released

\* cargo publish; its status and what it printed are left for the script.
Accepted(k) ==
  /\ Attempts(k)
  /\ Crates[k] \notin uploaded
  /\ Resolves(Crates[k])
  /\ uploaded' = uploaded \cup {Crates[k]}
  /\ phase' = "published"
  /\ UNCHANGED <<indexed, from, pos>>

\* "already exists on crates.io"
FoundThere(k) ==
  /\ Attempts(k)
  /\ Crates[k] \in uploaded
  /\ phase' = "exists"
  /\ UNCHANGED <<uploaded, indexed, from, pos>>

\* A dependency that is not in the index; but also no network, no token, a
\* package that does not build.
Refused(k) ==
  /\ Attempts(k)
  /\ phase' = "failed"
  /\ UNCHANGED <<uploaded, indexed, from, pos>>

\* The seconds of sleep go by, however far the index has come.
Sleep ==
  /\ phase = "published"
  /\ phase' = "loop"
  /\ pos' = pos + 1
  /\ UNCHANGED <<uploaded, indexed, from>>

\* Halting where the crate is already there.
HaltAtExisting ==
  /\ phase = "exists"
  /\ Exit("idle")
  /\ UNCHANGED <<uploaded, indexed>>

\* On to the next one, without sleeping.
Continue ==
  /\ phase = "exists"
  /\ phase' = "loop"
  /\ pos' = pos + 1
  /\ UNCHANGED <<uploaded, indexed, from>>

\* The status of tee, always 0, taken for cargo's.
FailureUnseen ==
  /\ phase = "failed"
  /\ phase' = "published"
  /\ UNCHANGED <<uploaded, indexed, from, pos>>

Halt ==
  /\ phase = "failed"
  /\ Exit("idle")
  /\ UNCHANGED <<uploaded, indexed>>

\* "All crates published."
Finish ==
  /\ phase = "loop" /\ pos = Len(Crates) + 1
  /\ phase' = "done"
  /\ UNCHANGED <<uploaded, indexed, from, pos>>

\* Ctrl-C or a crash, of the script or of cargo, before or after the registry
\* took the upload.
Interrupt ==
  /\ phase \in Running
  /\ Exit("interrupted")
  /\ UNCHANGED <<uploaded, indexed>>

---------------------------------------------------------------------------
(* The registry *)

Index ==
  /\ \E c \in uploaded \ indexed : indexed' = indexed \cup {c}
  /\ UNCHANGED <<uploaded, phase, from, pos>>

---------------------------------------------------------------------------

Cargo(k) == Accepted(k) \/ FoundThere(k) \/ Refused(k)

\* What the script does by itself once it is started.
Script ==
  \/ Gate \/ Skip \/ Sleep \/ Continue \/ Halt \/ Finish
  \/ \E k \in DOMAIN Crates : Cargo(k)

Next ==
  \/ \E f \in DOMAIN Crates, verify \in BOOLEAN : Start(f, verify)
  \/ Script \/ Interrupt \/ Index

Spec == Init /\ [][Next]_vars

\* An end the script does not come to by itself, or a failure of cargo's that no
\* missing dependency accounts for.
Disturbed == Interrupt \/ \E k \in DOMAIN Crates : Refused(k) /\ Resolves(Crates[k])

\* The script runs and the index follows; someone runs the script again and
\* again, not always with --from or --verify; and in the end it is left alone.
Fairness ==
  /\ WF_vars(Script)
  /\ WF_vars(Index)
  /\ SF_vars(Start(1, FALSE))
  /\ <>[][~Disturbed]_vars

FairSpec == Spec /\ Fairness

---------------------------------------------------------------------------
(* Properties *)

TypeOK ==
  /\ uploaded \subseteq Names
  /\ indexed \subseteq uploaded
  /\ phase \in Ended \cup Running
  /\ from \in DOMAIN Crates
  /\ pos \in 1..(Len(Crates) + 1)

\* Every crate behind the one the script is at, from the one it was told to
\* begin with, is on the registry, and so is this one when cargo published or
\* found it.
BehindUploaded ==
  /\ phase \in Running \cup {"done"} => \A k \in from..(pos - 1) : Crates[k] \in uploaded
  /\ phase \in {"published", "exists"} => pos <= Len(Crates) /\ from <= pos /\ Crates[pos] \in uploaded
  /\ phase = "done" => pos = Len(Crates) + 1

\* The inductive invariant: what the script knows of the registry by where it
\* is, over interruptions and earlier runs.
PublishInv == TypeOK /\ BehindUploaded

\* "All crates published." is printed only when they are, if nothing was left
\* out with --from; and of a crate --from does not leave out, always.
DoneMeansPublished ==
  phase = "done" => \A k \in from..Len(Crates) : Crates[k] \in uploaded

\* In a run without --from a crate comes up only when all its dependencies are
\* on the registry: the order leaves cargo nothing to miss but the index.
NeverTooEarly ==
  \A k \in DOMAIN Crates : Attempts(k) /\ from = 1 => Deps[Crates[k]] \subseteq uploaded

\* Interrupted, refused, resumed in the wrong place: running the script again
\* gets everything published in the end.
EventuallyPublished == <>(uploaded = Names)
=============================================================================
