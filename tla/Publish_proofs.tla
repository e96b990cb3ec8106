--------------------------- MODULE Publish_proofs ---------------------------
(***************************************************************************)
(* Publish for every list of crates in dependency order: what the script   *)
(* claims is true, and it never comes to a crate before its dependencies.  *)
(***************************************************************************)
EXTENDS Publish, TLAPS

\* What the loop's counter ranges over.
LEMMA Positions ==
  /\ Len(Crates) \in Nat
  /\ DOMAIN Crates = 1..Len(Crates)
  /\ 1 \in DOMAIN Crates
  /\ \A k \in DOMAIN Crates : Crates[k] \in Names
BY CratesAssumption DEF Names

\* The invariant survives every step in which the script moves on by one crate
\* that is on the registry or left out with --from.
LEMMA MovingOn ==
  ASSUME PublishInv, phase \in Running, pos \in DOMAIN Crates,
         pos < from \/ Crates[pos] \in uploaded,
         phase' = "loop", pos' = pos + 1, UNCHANGED <<uploaded, indexed, from>>
  PROVE  PublishInv'
<1>1. TypeOK'
  BY Positions DEF PublishInv, TypeOK, Ended, Running
<1>2. \A k \in from..((pos + 1) - 1) : Crates[k] \in uploaded
  BY Positions DEF PublishInv, TypeOK, BehindUploaded
<1>3. BehindUploaded'
  BY <1>2 DEF BehindUploaded
<1> QED
  BY <1>1, <1>3 DEF PublishInv

\* The invariant survives the end of the script, whichever way it ends early.
LEMMA Ending ==
  ASSUME PublishInv,
         NEW how \in {"idle", "interrupted"}, Exit(how), UNCHANGED <<uploaded, indexed>>
  PROVE  PublishInv'
<1>1. TypeOK'
  BY Positions DEF PublishInv, TypeOK, Exit, Ended, Running
<1>2. BehindUploaded'
  BY DEF BehindUploaded, Exit, Running
<1> QED
  BY <1>1, <1>2 DEF PublishInv

\* One attempt, whatever cargo answers.
LEMMA Attempting ==
  ASSUME PublishInv, NEW k \in DOMAIN Crates, Cargo(k)
  PROVE  PublishInv'
<1>1. /\ phase = "loop" /\ pos = k /\ from <= pos
      /\ pos' = pos /\ from' = from /\ indexed' = indexed
  BY Positions DEF Cargo, Accepted, FoundThere, Refused, Attempts, Skipped, PublishInv, TypeOK
<1>2. /\ uploaded \subseteq uploaded' /\ uploaded' \subseteq Names
      /\ \/ phase' \in {"published", "exists"} /\ Crates[k] \in uploaded'
         \/ phase' = "failed"
  BY Positions DEF Cargo, Accepted, FoundThere, Refused, Attempts, PublishInv, TypeOK
<1>3. TypeOK'
  BY <1>1, <1>2 DEF PublishInv, TypeOK, Running, Ended
<1>4. BehindUploaded'
  BY <1>1, <1>2, Positions DEF PublishInv, BehindUploaded, Running
<1> QED
  BY <1>3, <1>4 DEF PublishInv

\* The invariant of the script and the registry, over any number of runs of
\* the script, ended anywhere (publish.sh:174-218).
THEOREM Inductive == Spec => []PublishInv
<1>1. Init => PublishInv
  BY Positions DEF Init, PublishInv, TypeOK, BehindUploaded, Ended, Running
<1>2. PublishInv /\ [Next]_vars => PublishInv'
  <2> SUFFICES ASSUME PublishInv, [Next]_vars PROVE PublishInv'
    OBVIOUS
  <2>1. ASSUME NEW f \in DOMAIN Crates, NEW verify \in BOOLEAN, Start(f, verify)
        PROVE  PublishInv'
    <3>1. TypeOK'
      BY <2>1, Positions DEF PublishInv, TypeOK, Start, Ended, Running
    <3>2. BehindUploaded'
      BY <2>1, Positions DEF BehindUploaded, Start, Ended, Running
    <3> QED
      BY <3>1, <3>2 DEF PublishInv
  <2>2. CASE Gate
    <3>1. CASE Exit("idle")
      BY <2>2, <3>1, Ending DEF Gate
    <3>2. CASE phase' = "loop" /\ UNCHANGED <<from, pos>>
      BY <2>2, <3>2 DEF Gate, PublishInv, TypeOK, BehindUploaded, Running, Ended
    <3> QED
      BY <2>2, <3>1, <3>2 DEF Gate
  <2>3. CASE Skip
    BY <2>3, MovingOn DEF Skip, Skipped, Running
  <2>4. CASE Sleep
    BY <2>4, MovingOn, Positions DEF Sleep, PublishInv, TypeOK, BehindUploaded, Running
  <2>5. CASE Continue
    BY <2>5, MovingOn, Positions DEF Continue, PublishInv, TypeOK, BehindUploaded, Running
  <2>6. CASE Halt
    BY <2>6, Ending DEF Halt
  <2>7. CASE Finish
    BY <2>7 DEF Finish, PublishInv, TypeOK, BehindUploaded, Running, Ended
  <2>8. ASSUME NEW k \in DOMAIN Crates, Cargo(k) PROVE PublishInv'
    BY <2>8, Attempting
  <2>9. CASE Interrupt
    BY <2>9, Ending DEF Interrupt
  <2>10. CASE Index
    BY <2>10 DEF Index, PublishInv, TypeOK, BehindUploaded
  <2>11. CASE UNCHANGED vars
    BY <2>11 DEF vars, PublishInv, TypeOK, BehindUploaded
  <2> QED
    BY <2>1, <2>2, <2>3, <2>4, <2>5, <2>6, <2>7, <2>8, <2>9, <2>10, <2>11 DEF Next, Script
<1> QED
  BY <1>1, <1>2, PTL DEF Spec

\* "All crates published." (publish.sh:220-221) is true of every crate that
\* --from did not leave out.
THEOREM Done == Spec => []DoneMeansPublished
<1>1. PublishInv => DoneMeansPublished
  BY Positions DEF PublishInv, TypeOK, BehindUploaded, DoneMeansPublished
<1> QED
  BY <1>1, Inductive, PTL

\* The order of CRATES (publish.sh:104-119) is enough: a run from the start
\* never comes to a crate whose dependencies are not on the registry.
THEOREM OrderSuffices == Spec => []NeverTooEarly
<1>1. PublishInv => NeverTooEarly
  <2> SUFFICES ASSUME PublishInv, NEW k \in DOMAIN Crates, Attempts(k), from = 1
               PROVE  Deps[Crates[k]] \subseteq uploaded
    BY DEF NeverTooEarly
  <2>1. \A j \in 1..(k - 1) : Crates[j] \in uploaded
    BY DEF Attempts, PublishInv, BehindUploaded, Running
  <2> QED
    BY <2>1, TopologicalAssumption
<1> QED
  BY <1>1, Inductive, PTL
=============================================================================
