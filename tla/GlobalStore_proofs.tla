-------------------------- MODULE GlobalStore_proofs --------------------------
(***************************************************************************)
(* What the shared store promises, for every set of processes and every    *)
(* number of installs, failures, crashes and damaged entries.              *)
(*                                                                         *)
(* The inductive invariant says of each stage of a task which trees it     *)
(* owns (Ownership), that a tree on its way to the final path is complete  *)
(* and that a run ends only after it has tried to remove its temporary     *)
(* trees (Finished), and that the entry, once somebody has relied on it,   *)
(* is only ever missing between the two renames of a --force install       *)
(* (Reliance).  Paid adds that a tree that stayed has cost a fault.        *)
(***************************************************************************)
EXTENDS GlobalStore, TLAPS

Labels == {"idle", "check", "clear", "detach", "build", "link", "warm", "bins", "commit",
           "swap", "publish", "gc"}
Built == {"none", "bare", "partial", "full"}

Shapes ==
  /\ final \in {"none", "full", "damaged"}
  /\ staging \in [Procs -> Built \cup {"left"}]
  /\ old \in [Procs -> {"none", "full", "damaged", "left"}]
  /\ local \in [Procs -> Built \cup {"link"}]
  /\ pc \in [Procs -> Labels]
  /\ run \in [Procs -> [mode : {"global", "local", "off"}, force : BOOLEAN, rotten : BOOLEAN]]
  /\ outcome \in [Procs -> {"none", "built", "skipped", "failed", "crashed"}]
  /\ lost \in BOOLEAN

\* Which stages a task for the shared store goes through, and what it holds at each.
Ownership(p) ==
  /\ pc[p] \in {"clear", "link", "warm", "commit", "swap", "publish", "gc"} => Global(p)
  /\ pc[p] = "detach" => ~Global(p)
  /\ pc[p] = "build" /\ ~Global(p) => local[p] # "link"
  /\ pc[p] = "bins" => (Global(p) <=> local[p] = "link")
  /\ pc[p] = "bins" /\ ~Global(p) => local[p] \in {"bare", "partial", "full"}
  /\ pc[p] \in {"commit", "swap", "publish", "gc"} => local[p] = "link"

\* Only a complete staging tree is renamed to the final path; what a run leaves behind is what
\* it failed to remove.
Finished(p) ==
  /\ pc[p] \in {"commit", "swap", "publish"} => staging[p] = "full"
  /\ pc[p] \in {"check", "warm", "detach", "gc"} => staging[p] = "none"
  /\ ~Global(p) => staging[p] = "none" \/ outcome[p] = "crashed"
  /\ pc[p] = "idle" /\ outcome[p] # "crashed" => staging[p] \in {"none", "left"}
  /\ pc[p] # "idle" => outcome[p] = "none"
  /\ pc[p] \notin {"publish", "gc"} /\ outcome[p] # "crashed" => old[p] \in {"none", "left"}

\* Once true for ever: the entry is there, or a --force install has taken it away.
Present == final # "none" \/ lost \/ \E q \in Procs : pc[q] = "publish"

Reliance(p) ==
  /\ pc[p] \in {"warm", "swap", "gc"} => Present
  /\ Succeeded(p) /\ local[p] = "link" => Present
  /\ Succeeded(p) /\ local[p] # "link" =>
       ~Global(p) /\ local[p] \in (IF outcome[p] = "built" THEN {"full"} ELSE {"partial", "full"})

\* A --force install on its way out has replaced what it found.
Replacing(p) ==
  /\ pc[p] = "warm" => ~run[p].force
  /\ run[p].force /\ run[p].rotten /\ Global(p) /\ (pc[p] \in {"publish", "gc"} \/ Succeeded(p))
       => final # "damaged"

Inv == Shapes /\ \A p \in Procs : Ownership(p) /\ Finished(p) /\ Reliance(p) /\ Replacing(p)

LEMMA Initially == Init => Inv
<1> SUFFICES ASSUME Init PROVE Inv
  OBVIOUS
<1>1. Shapes
  BY DEF Init, Shapes, Labels, Built
<1>2. ASSUME NEW p \in Procs PROVE Ownership(p) /\ Finished(p)
  BY DEF Init, Ownership, Finished, Global
<1>3. ASSUME NEW p \in Procs PROVE Reliance(p) /\ Replacing(p)
  BY DEF Init, Reliance, Replacing, Succeeded
<1> QED BY <1>1, <1>2, <1>3 DEF Inv

\* A step of p leaves the others alone.
Alone(p) ==
  \A q \in Procs \ {p} :
    /\ pc'[q] = pc[q] /\ run'[q] = run[q] /\ outcome'[q] = outcome[q]
    /\ staging'[q] = staging[q] /\ old'[q] = old[q] /\ local'[q] = local[q]

\* What a step of p has to show: the others keep their part of the invariant.
LEMMA Frame ==
  ASSUME Inv, NEW p \in Procs, Alone(p), Shapes', Present => Present',
         final' = "damaged" => final = "damaged",
         (Ownership(p) /\ Finished(p) /\ Reliance(p) /\ Replacing(p))'
  PROVE  Inv'
<1>1. ASSUME NEW q \in Procs \ {p}
      PROVE  (Ownership(q) /\ Finished(q) /\ Reliance(q) /\ Replacing(q))'
  <2>1. Ownership(q)'
    BY DEF Inv, Alone, Ownership, Global
  <2>2. Finished(q)'
    BY DEF Inv, Alone, Finished, Global
  <2>3. Reliance(q)'
    BY DEF Inv, Alone, Reliance, Succeeded, Global
  <2>4. Replacing(q)'
    BY DEF Inv, Alone, Replacing, Succeeded, Global
  <2> QED BY <2>1, <2>2, <2>3, <2>4
<1> QED BY <1>1 DEF Inv

LEMMA BeginKeeps == ASSUME Inv, NEW p \in Procs, NEW mode \in {"global", "local", "off"},
                           NEW force \in BOOLEAN, NEW fresh \in BOOLEAN, Begin(p, mode, force, fresh) PROVE Inv'
<1> USE DEF Inv, Begin, Spend, files
<1>1. Shapes' /\ Alone(p)
  BY DEF Shapes, Alone, Labels, Built, Finished, Ownership, Global
<1>2. (Present => Present') /\ (final' = "damaged" => final = "damaged")
  BY <1>1 DEF Shapes, Present, Finished
<1>3. Ownership(p)'
  BY DEF Shapes, Ownership, Global, Labels
<1>4. Finished(p)'
  BY DEF Shapes, Ownership, Finished, Global, Labels, Built
<1>5. Reliance(p)'
  BY <1>2 DEF Shapes, Ownership, Reliance, Finished, Succeeded, Present, Global, Labels
<1>6. Replacing(p)'
  BY DEF Shapes, Ownership, Replacing, Finished, Succeeded, Global, Labels
<1> QED BY <1>1, <1>2, <1>3, <1>4, <1>5, <1>6, Frame DEF Inv

LEMMA CrashKeeps == ASSUME Inv, NEW p \in Procs, Crash(p) PROVE Inv'
<1> USE DEF Inv, Crash, End, Spend, files
<1>1. Shapes' /\ Alone(p)
  BY DEF Shapes, Alone, Labels, Built, Finished, Ownership, Global
<1>2. (Present => Present') /\ (final' = "damaged" => final = "damaged")
  BY ZenonT(60), <1>1 DEF Shapes, Present, Finished
<1>3. Ownership(p)'
  BY DEF Shapes, Ownership, Global, Labels
<1>4. Finished(p)'
  BY DEF Shapes, Ownership, Finished, Global, Labels, Built
<1>5. Reliance(p)'
  BY <1>2 DEF Shapes, Ownership, Reliance, Finished, Succeeded, Present, Global, Labels
<1>6. Replacing(p)'
  BY DEF Shapes, Ownership, Replacing, Finished, Succeeded, Global, Labels
<1> QED BY <1>1, <1>2, <1>3, <1>4, <1>5, <1>6, Frame DEF Inv

LEMMA CheckKeeps == ASSUME Inv, NEW p \in Procs, Check(p) PROVE Inv'
<1> USE DEF Inv, Check, End, Goto, NeedsInstall, Exists, files
<1>1. Shapes' /\ Alone(p)
  <2>1. /\ pc' \in [Procs -> Labels] /\ run' = run /\ lost' = lost
        /\ outcome' \in [Procs -> {"none", "built", "skipped", "failed", "crashed"}]
    BY DEF Shapes, Labels
  <2>2. Alone(p)
    BY DEF Shapes, Alone
  <2> QED BY <2>1, <2>2 DEF Shapes
<1>2. (Present => Present') /\ (final' = "damaged" => final = "damaged")
  BY <1>1 DEF Shapes, Present, Finished
<1>3. Ownership(p)'
  BY DEF Shapes, Ownership, Global, Labels
<1>4. Finished(p)'
  BY DEF Shapes, Ownership, Finished, Global, Labels, Built
<1>5. Reliance(p)'
  BY <1>2 DEF Shapes, Ownership, Reliance, Finished, Succeeded, Present, Global, Labels
<1>6. Replacing(p)'
  BY DEF Shapes, Ownership, Replacing, Finished, Succeeded, Global, Labels
<1> QED BY <1>1, <1>2, <1>3, <1>4, <1>5, <1>6, Frame DEF Inv

LEMMA DetachKeeps == ASSUME Inv, NEW p \in Procs, Detach(p) PROVE Inv'
<1> USE DEF Inv, Detach, Goto, files
<1>1. Shapes' /\ Alone(p)
  BY DEF Shapes, Alone, Labels, Built, Finished, Ownership, Global
<1>2. (Present => Present') /\ (final' = "damaged" => final = "damaged")
  BY <1>1 DEF Shapes, Present, Finished
<1>3. Ownership(p)'
  BY DEF Shapes, Ownership, Global, Labels
<1>4. Finished(p)'
  BY DEF Shapes, Ownership, Finished, Global, Labels, Built
<1>5. Reliance(p)'
  BY <1>2 DEF Shapes, Ownership, Reliance, Finished, Succeeded, Present, Global, Labels
<1>6. Replacing(p)'
  BY DEF Shapes, Ownership, Replacing, Finished, Succeeded, Global, Labels
<1> QED BY <1>1, <1>2, <1>3, <1>4, <1>5, <1>6, Frame DEF Inv

LEMMA ClearStagingKeeps == ASSUME Inv, NEW p \in Procs, ClearStaging(p) PROVE Inv'
<1> USE DEF Inv, ClearStaging, Goto, files
<1>1. Shapes' /\ Alone(p)
  BY DEF Shapes, Alone, Labels, Built, Finished, Ownership, Global
<1>2. (Present => Present') /\ (final' = "damaged" => final = "damaged")
  BY <1>1 DEF Shapes, Present, Finished
<1>3. Ownership(p)'
  BY DEF Shapes, Ownership, Global, Labels
<1>4. Finished(p)'
  BY DEF Shapes, Ownership, Finished, Global, Labels, Built
<1>5. Reliance(p)'
  BY <1>2 DEF Shapes, Ownership, Reliance, Finished, Succeeded, Present, Global, Labels
<1>6. Replacing(p)'
  BY DEF Shapes, Ownership, Replacing, Finished, Succeeded, Global, Labels
<1> QED BY <1>1, <1>2, <1>3, <1>4, <1>5, <1>6, Frame DEF Inv

LEMMA BuildKeeps == ASSUME Inv, NEW p \in Procs, Build(p) PROVE Inv'
<1> USE DEF Inv, Build, Goto, Grown, files
<1>1. Shapes' /\ Alone(p)
  <2>1. final' \in {"none", "full", "damaged"} /\ lost' \in BOOLEAN
    BY DEF Shapes, Ownership, Finished, Global
  <2>2. staging' \in [Procs -> Built \cup {"left"}] /\ local' \in [Procs -> Built \cup {"link"}]
    BY SMTT(60) DEF Shapes, Built
  <2>3. old' \in [Procs -> {"none", "full", "damaged", "left"}]
    BY DEF Shapes
  <2>4. /\ pc' \in [Procs -> Labels] /\ run' = run
        /\ outcome' \in [Procs -> {"none", "built", "skipped", "failed", "crashed"}]
    BY DEF Shapes, Labels
  <2>5. Alone(p)
    BY DEF Shapes, Alone
  <2> QED BY <2>1, <2>2, <2>3, <2>4, <2>5 DEF Shapes
<1>2. (Present => Present') /\ (final' = "damaged" => final = "damaged")
  BY <1>1 DEF Shapes, Present, Finished
<1>3. Ownership(p)'
  BY DEF Shapes, Ownership, Global, Labels
<1>4. Finished(p)'
  BY DEF Shapes, Ownership, Finished, Global, Labels, Built
<1>5. Reliance(p)'
  BY <1>2 DEF Shapes, Ownership, Reliance, Finished, Succeeded, Present, Global, Labels
<1>6. Replacing(p)'
  BY DEF Shapes, Ownership, Replacing, Finished, Succeeded, Global, Labels
<1> QED BY <1>1, <1>2, <1>3, <1>4, <1>5, <1>6, Frame DEF Inv

LEMMA LinkProjectKeeps == ASSUME Inv, NEW p \in Procs, LinkProject(p) PROVE Inv'
<1> USE DEF Inv, LinkProject, Goto, End, files
<1>1. Shapes' /\ Alone(p)
  <2>1. final' \in {"none", "full", "damaged"} /\ lost' \in BOOLEAN
    BY DEF Shapes, Ownership, Finished, Global
  <2>2. staging' \in [Procs -> Built \cup {"left"}] /\ local' \in [Procs -> Built \cup {"link"}]
    BY DEF Shapes, Built
  <2>3. old' \in [Procs -> {"none", "full", "damaged", "left"}]
    BY DEF Shapes
  <2>4. /\ pc' \in [Procs -> Labels] /\ run' = run
        /\ outcome' \in [Procs -> {"none", "built", "skipped", "failed", "crashed"}]
    BY DEF Shapes, Labels
  <2>5. Alone(p)
    BY DEF Shapes, Alone
  <2> QED BY <2>1, <2>2, <2>3, <2>4, <2>5 DEF Shapes
<1>2. (Present => Present') /\ (final' = "damaged" => final = "damaged")
  BY <1>1 DEF Shapes, Present, Finished
<1>3. Ownership(p)'
  BY DEF Shapes, Ownership, Global, Labels
<1>4. Finished(p)'
  BY DEF Shapes, Ownership, Finished, Global, Labels, Built
<1>5. Reliance(p)'
  BY <1>2 DEF Shapes, Ownership, Reliance, Finished, Succeeded, Present, Global, Labels
<1>6. Replacing(p)'
  BY DEF Shapes, Ownership, Replacing, Finished, Succeeded, Global, Labels
<1> QED BY <1>1, <1>2, <1>3, <1>4, <1>5, <1>6, Frame DEF Inv

LEMMA BinariesKeeps == ASSUME Inv, NEW p \in Procs, Binaries(p) PROVE Inv'
<1> USE DEF Inv, Binaries, Goto, End, files
<1>1. Shapes' /\ Alone(p)
  <2>1. final' \in {"none", "full", "damaged"} /\ lost' \in BOOLEAN
    BY DEF Shapes, Ownership, Finished, Global
  <2>2. staging' \in [Procs -> Built \cup {"left"}] /\ local' \in [Procs -> Built \cup {"link"}]
    BY DEF Shapes, Built
  <2>3. old' \in [Procs -> {"none", "full", "damaged", "left"}]
    BY DEF Shapes
  <2>4. /\ pc' \in [Procs -> Labels] /\ run' = run
        /\ outcome' \in [Procs -> {"none", "built", "skipped", "failed", "crashed"}]
    BY DEF Shapes, Labels
  <2>5. Alone(p)
    BY DEF Shapes, Alone
  <2> QED BY <2>1, <2>2, <2>3, <2>4, <2>5 DEF Shapes
<1>2. (Present => Present') /\ (final' = "damaged" => final = "damaged")
  BY <1>1 DEF Shapes, Present, Finished
<1>3. Ownership(p)'
  BY DEF Shapes, Ownership, Global, Labels
<1>4. Finished(p)'
  BY DEF Shapes, Ownership, Finished, Global, Labels, Built
<1>5. Reliance(p)'
  BY <1>2 DEF Shapes, Ownership, Reliance, Finished, Succeeded, Present, Global, Labels
<1>6. Replacing(p)'
  BY DEF Shapes, Ownership, Replacing, Finished, Succeeded, Global, Labels
<1> QED BY <1>1, <1>2, <1>3, <1>4, <1>5, <1>6, Frame DEF Inv

LEMMA FailKeeps == ASSUME Inv, NEW p \in Procs, Fail(p) PROVE Inv'
<1> USE DEF Inv, Fail, Discard, Cleared, Faults, End, files
<1>1. Shapes' /\ Alone(p)
  BY DEF Shapes, Alone, Labels, Built, Finished, Ownership, Global
<1>2. (Present => Present') /\ (final' = "damaged" => final = "damaged")
  BY <1>1 DEF Shapes, Present, Finished
<1>3. Ownership(p)'
  BY DEF Shapes, Ownership, Global, Labels
<1>4. Finished(p)'
  BY DEF Shapes, Ownership, Finished, Global, Labels, Built
<1>5. Reliance(p)'
  BY <1>2 DEF Shapes, Ownership, Reliance, Finished, Succeeded, Present, Global, Labels
<1>6. Replacing(p)'
  BY DEF Shapes, Ownership, Replacing, Finished, Succeeded, Global, Labels
<1> QED BY <1>1, <1>2, <1>3, <1>4, <1>5, <1>6, Frame DEF Inv

LEMMA CommitKeeps == ASSUME Inv, NEW p \in Procs, Commit(p) PROVE Inv'
<1> USE DEF Inv, Commit, Goto, End, Discard, DiscardOld, Cleared, Published, Faults, files
<1>1. Shapes' /\ Alone(p)
  <2>1. final' \in {"none", "full", "damaged"} /\ lost' \in BOOLEAN
    BY DEF Shapes, Ownership, Finished, Global
  <2>2. staging' \in [Procs -> Built \cup {"left"}] /\ local' \in [Procs -> Built \cup {"link"}]
    BY DEF Shapes, Built
  <2>3. old' \in [Procs -> {"none", "full", "damaged", "left"}]
    BY DEF Shapes
  <2>4. /\ pc' \in [Procs -> Labels] /\ run' = run
        /\ outcome' \in [Procs -> {"none", "built", "skipped", "failed", "crashed"}]
    BY DEF Shapes, Labels
  <2>5. Alone(p)
    BY DEF Shapes, Alone
  <2> QED BY <2>1, <2>2, <2>3, <2>4, <2>5 DEF Shapes
<1>2. (Present => Present') /\ (final' = "damaged" => final = "damaged")
  BY <1>1 DEF Shapes, Present, Finished
<1>3. Ownership(p)'
  BY DEF Shapes, Ownership, Global, Labels
<1>4. Finished(p)'
  BY DEF Shapes, Ownership, Finished, Global, Labels, Built
<1>5. Reliance(p)'
  BY <1>2 DEF Shapes, Ownership, Reliance, Finished, Succeeded, Present, Global, Labels
<1>6. Replacing(p)'
  BY DEF Shapes, Ownership, Replacing, Finished, Succeeded, Global, Labels
<1> QED BY <1>1, <1>2, <1>3, <1>4, <1>5, <1>6, Frame DEF Inv

LEMMA SwapKeeps == ASSUME Inv, NEW p \in Procs, Swap(p) PROVE Inv'
<1> USE DEF Inv, Swap, Goto, End, Discard, Cleared, Faults, files
<1>1. Shapes' /\ Alone(p)
  <2>1. final' \in {"none", "full", "damaged"} /\ lost' \in BOOLEAN
    BY DEF Shapes, Ownership, Finished, Global
  <2>2. staging' \in [Procs -> Built \cup {"left"}] /\ local' \in [Procs -> Built \cup {"link"}]
    BY DEF Shapes, Built
  <2>3. old' \in [Procs -> {"none", "full", "damaged", "left"}]
    BY DEF Shapes
  <2>4. /\ pc' \in [Procs -> Labels] /\ run' = run
        /\ outcome' \in [Procs -> {"none", "built", "skipped", "failed", "crashed"}]
    BY DEF Shapes, Labels
  <2>5. Alone(p)
    BY DEF Shapes, Alone
  <2> QED BY <2>1, <2>2, <2>3, <2>4, <2>5 DEF Shapes
<1>2. (Present => Present') /\ (final' = "damaged" => final = "damaged")
  BY <1>1 DEF Shapes, Present, Finished
<1>3. Ownership(p)'
  BY DEF Shapes, Ownership, Global, Labels
<1>4. Finished(p)'
  BY DEF Shapes, Ownership, Finished, Global, Labels, Built
<1>5. Reliance(p)'
  BY <1>2 DEF Shapes, Ownership, Reliance, Finished, Succeeded, Present, Global, Labels
<1>6. Replacing(p)'
  BY DEF Shapes, Ownership, Replacing, Finished, Succeeded, Global, Labels
<1> QED BY <1>1, <1>2, <1>3, <1>4, <1>5, <1>6, Frame DEF Inv

LEMMA PublishKeeps == ASSUME Inv, NEW p \in Procs, Publish(p) PROVE Inv'
<1> USE DEF Inv, Publish, Goto, End, Discard, DiscardOld, Cleared, Published, Faults, files
<1>1. Shapes' /\ Alone(p)
  <2>1. final' \in {"none", "full", "damaged"} /\ lost' \in BOOLEAN
    BY DEF Shapes, Ownership, Finished, Global
  <2>2. staging' \in [Procs -> Built \cup {"left"}] /\ local' \in [Procs -> Built \cup {"link"}]
    BY DEF Shapes, Built
  <2>3. old' \in [Procs -> {"none", "full", "damaged", "left"}]
    BY DEF Shapes
  <2>4. /\ pc' \in [Procs -> Labels] /\ run' = run
        /\ outcome' \in [Procs -> {"none", "built", "skipped", "failed", "crashed"}]
    BY DEF Shapes, Labels
  <2>5. Alone(p)
    BY DEF Shapes, Alone
  <2> QED BY <2>1, <2>2, <2>3, <2>4, <2>5 DEF Shapes
<1>2. (Present => Present') /\ (final' = "damaged" => final = "damaged")
  BY <1>1 DEF Shapes, Present, Finished
<1>3. Ownership(p)'
  BY DEF Shapes, Ownership, Global, Labels
<1>4. Finished(p)'
  BY DEF Shapes, Ownership, Finished, Global, Labels, Built
<1>5. Reliance(p)'
  BY <1>2 DEF Shapes, Ownership, Reliance, Finished, Succeeded, Present, Global, Labels
<1>6. Replacing(p)'
  BY DEF Shapes, Ownership, Replacing, Finished, Succeeded, Global, Labels
<1> QED BY <1>1, <1>2, <1>3, <1>4, <1>5, <1>6, Frame DEF Inv

LEMMA GcKeeps == ASSUME Inv, NEW p \in Procs, Gc(p) PROVE Inv'
<1> USE DEF Inv, Gc, DiscardOld, Cleared, Faults, End, files
<1>1. Shapes' /\ Alone(p)
  BY DEF Shapes, Alone, Labels, Built, Finished, Ownership, Global
<1>2. (Present => Present') /\ (final' = "damaged" => final = "damaged")
  BY <1>1 DEF Shapes, Present, Finished
<1>3. Ownership(p)'
  BY DEF Shapes, Ownership, Global, Labels
<1>4. Finished(p)'
  BY DEF Shapes, Ownership, Finished, Global, Labels, Built
<1>5. Reliance(p)'
  BY <1>2 DEF Shapes, Ownership, Reliance, Finished, Succeeded, Present, Global, Labels
<1>6. Replacing(p)'
  BY DEF Shapes, Ownership, Replacing, Finished, Succeeded, Global, Labels
<1> QED BY <1>1, <1>2, <1>3, <1>4, <1>5, <1>6, Frame DEF Inv

LEMMA DamageKeeps == ASSUME Inv, Damage PROVE Inv'
<1> USE DEF Inv, Damage, Spend
<1>1. Shapes'
  BY DEF Shapes, Labels
<1>2. Present'
  BY DEF Present
<1>3. \A p \in Procs : /\ run'[p].mode = run[p].mode /\ run'[p].force = run[p].force
                       /\ run'[p].rotten = FALSE
  BY DEF Shapes
<1>4. ASSUME NEW p \in Procs PROVE (Ownership(p) /\ Finished(p) /\ Reliance(p) /\ Replacing(p))'
  BY <1>2, <1>3 DEF Ownership, Finished, Reliance, Replacing, Succeeded, Global
<1> QED BY <1>1, <1>4

LEMMA Steps == Inv /\ [Next]_vars => Inv'
<1> SUFFICES ASSUME Inv, [Next]_vars PROVE Inv'
  OBVIOUS
<1>1. CASE Damage
  BY <1>1, DamageKeeps
<1>2. ASSUME NEW p \in Procs, NEW mode \in {"global", "local", "off"},
             NEW force \in BOOLEAN, NEW fresh \in BOOLEAN, Begin(p, mode, force, fresh)
      PROVE  Inv'
  BY <1>2, BeginKeeps
<1>3. ASSUME NEW p \in Procs,
             \/ Crash(p) \/ Check(p) \/ Detach(p) \/ ClearStaging(p) \/ Build(p) \/ LinkProject(p)
             \/ Binaries(p) \/ Fail(p) \/ Commit(p) \/ Swap(p) \/ Publish(p) \/ Gc(p)
      PROVE  Inv'
  BY <1>3, CrashKeeps, CheckKeeps, DetachKeeps, ClearStagingKeeps, BuildKeeps, LinkProjectKeeps,
     BinariesKeeps, FailKeeps, CommitKeeps, SwapKeeps, PublishKeeps, GcKeeps
<1>4. CASE UNCHANGED vars
  BY <1>4 DEF vars, files, Inv, Shapes, Ownership, Finished, Reliance, Replacing, Succeeded,
              Present, Global
<1> QED BY <1>1, <1>2, <1>3, <1>4 DEF Next

-----------------------------------------------------------------------------
(* A tree that stayed behind was paid for: faults are only ever spent.       *)

Paid ==
  /\ budget \in [runs : Nat, faults : 0 .. MaxFaults, crashes : Nat, damage : Nat]
  /\ \A p \in Procs : "left" \in {staging[p], old[p]} => budget.faults < MaxFaults

LEMMA InitiallyPaid == Init => Paid
BY StoreAssumption DEF Init, Paid

\* A step whose temporary trees are not "left", or were before, or that spends a fault.
LEMMA PaidFrame ==
  ASSUME Paid, budget' \in [runs : Nat, faults : 0 .. MaxFaults, crashes : Nat, damage : Nat],
         budget'.faults <= budget.faults,
         \A q \in Procs : \/ staging'[q] = "left" => staging[q] = "left"
                          \/ budget'.faults < budget.faults,
         \A q \in Procs : \/ old'[q] = "left" => old[q] = "left"
                          \/ budget'.faults < budget.faults
  PROVE  Paid'
BY StoreAssumption DEF Paid

LEMMA SpendingPays ==
  ASSUME Paid
  PROVE  /\ \A b \in {"runs", "faults", "crashes", "damage"} : Spend(b) =>
              /\ budget' \in [runs : Nat, faults : 0 .. MaxFaults, crashes : Nat, damage : Nat]
              /\ budget'.faults <= budget.faults
         /\ \A n \in Nat : Faults(n) =>
              /\ budget' \in [runs : Nat, faults : 0 .. MaxFaults, crashes : Nat, damage : Nat]
              /\ budget'.faults = budget.faults - n
<1> USE StoreAssumption DEF Paid
<1>1. ASSUME NEW b \in {"runs", "faults", "crashes", "damage"}, Spend(b)
      PROVE  /\ budget' \in [runs : Nat, faults : 0 .. MaxFaults, crashes : Nat, damage : Nat]
             /\ budget'.faults <= budget.faults
  BY <1>1 DEF Spend
<1>2. ASSUME NEW n \in Nat, Faults(n)
      PROVE  /\ budget' \in [runs : Nat, faults : 0 .. MaxFaults, crashes : Nat, damage : Nat]
             /\ budget'.faults = budget.faults - n
  BY <1>2 DEF Faults
<1> QED BY <1>1, <1>2

\* Removing a tree leaves it only if the removal fails.
LEMMA Removals ==
  ASSUME Inv, NEW p \in Procs, NEW k \in 0 .. 1
  PROVE  /\ Discard(p, k) => \A q \in Procs : (staging'[q] = "left" => staging[q] = "left") \/ k = 1
         /\ DiscardOld(p, k) => \A q \in Procs : (old'[q] = "left" => old[q] = "left") \/ k = 1
BY DEF Inv, Shapes, Discard, DiscardOld, Cleared

LEMMA PaidSteps == Inv /\ Paid /\ [Next]_vars => Paid'
<1> SUFFICES ASSUME Inv, Paid, [Next]_vars PROVE Paid'
  OBVIOUS
<1>1. CASE Damage
  BY <1>1, PaidFrame, SpendingPays DEF Damage
<1>2. ASSUME NEW p \in Procs, NEW mode \in {"global", "local", "off"},
             NEW force \in BOOLEAN, NEW fresh \in BOOLEAN, Begin(p, mode, force, fresh)
      PROVE  Paid'
  BY <1>2, PaidFrame, SpendingPays DEF Begin, Inv, Shapes
<1>3. ASSUME NEW p \in Procs, Crash(p) PROVE Paid'
  BY <1>3, PaidFrame, SpendingPays DEF Crash, files
<1>4. ASSUME NEW p \in Procs, Check(p) \/ Detach(p) \/ LinkProject(p) PROVE Paid'
  BY <1>4 DEF Check, Detach, LinkProject, files, Paid
<1>5. ASSUME NEW p \in Procs, ClearStaging(p) \/ Build(p) \/ Binaries(p) PROVE Paid'
  <2>1. /\ UNCHANGED <<old, budget>>
        /\ \A q \in Procs : staging'[q] = "left" => staging[q] = "left"
    BY <1>5 DEF ClearStaging, Build, Grown, Binaries, Inv, Shapes
  <2> QED BY <2>1 DEF Paid
<1>6. ASSUME NEW p \in Procs, Fail(p) PROVE Paid'
  <2>1. PICK k \in 0 .. 1 : Faults(1 + k) /\ Discard(p, k)
    BY <1>6 DEF Fail
  <2> QED BY <1>6, <2>1, PaidFrame, SpendingPays DEF Fail, Paid
<1>7. ASSUME NEW p \in Procs, Commit(p) PROVE Paid'
  <2>1. CASE \E k \in 0 .. 1 : (Faults(k) \/ Faults(1 + k)) /\ Discard(p, k)
    <3>1. PICK k \in 0 .. 1 : (Faults(k) \/ Faults(1 + k)) /\ Discard(p, k)
      BY <2>1
    <3> QED BY <1>7, <3>1, PaidFrame, SpendingPays, Removals DEF Commit, Paid
  <2>2. CASE UNCHANGED <<old, budget>> /\ (Published(p) \/ UNCHANGED staging)
    BY <2>2 DEF Published, Paid, Inv, Shapes
  <2> QED BY <1>7, <2>1, <2>2 DEF Commit
<1>8. ASSUME NEW p \in Procs, Swap(p) PROVE Paid'
  <2>1. CASE UNCHANGED old /\ \E k \in 0 .. 1 : Faults((IF final = "none" THEN 0 ELSE 1) + k) /\ Discard(p, k)
    <3>1. PICK k \in 0 .. 1 : Faults((IF final = "none" THEN 0 ELSE 1) + k) /\ Discard(p, k)
      BY <2>1
    <3> QED BY <2>1, <3>1, PaidFrame, SpendingPays, Removals DEF Paid
  <2>2. CASE UNCHANGED <<staging, budget>> /\ old' = [old EXCEPT ![p] = final]
    BY <2>2 DEF Paid, Inv, Shapes
  <2> QED BY <1>8, <2>1, <2>2 DEF Swap
<1>9. ASSUME NEW p \in Procs, Publish(p) PROVE Paid'
  <2>1. CASE \E j, k \in 0 .. 1 : (Faults(j + k) \/ Faults(1 + j + k)) /\ Discard(p, j) /\ DiscardOld(p, k)
    <3>1. PICK j \in 0 .. 1, k \in 0 .. 1 :
             (Faults(j + k) \/ Faults(1 + j + k)) /\ Discard(p, j) /\ DiscardOld(p, k)
      BY <2>1
    <3> QED BY <3>1, PaidFrame, SpendingPays, Removals DEF Paid
  <2>2. CASE Published(p) /\ UNCHANGED <<old, budget>>
    BY <2>2 DEF Published, Paid, Inv, Shapes
  <2> QED BY <1>9, <2>1, <2>2 DEF Publish
<1>10. ASSUME NEW p \in Procs, Gc(p) PROVE Paid'
  <2>1. PICK k \in 0 .. 1 : Faults(k) /\ DiscardOld(p, k)
    BY <1>10 DEF Gc
  <2> QED BY <1>10, <2>1, PaidFrame, SpendingPays, Removals DEF Gc, Paid
<1>11. CASE UNCHANGED vars
  BY <1>11 DEF vars, files, Paid
<1> QED BY <1>1, <1>2, <1>3, <1>4, <1>5, <1>6, <1>7, <1>8, <1>9, <1>10, <1>11 DEF Next

LEMMA Invariance == Spec => []Inv
BY Initially, Steps, PTL DEF Spec

\* The directory at the final path is complete whenever it exists: no crash, failure, race or
\* lost eligibility makes an unfinished tree visible, and no project writes into the entry.
THEOREM EntriesAreComplete == Spec => []FinalIsComplete
<1>1. Inv => FinalIsComplete
  BY DEF Inv, Shapes, FinalIsComplete
<1> QED BY <1>1, Invariance, PTL

\* What an install has reported as built or skipped resolves in the project.
THEOREM SuccessIsSuccess == Spec => []SuccessResolves
<1>1. Inv => SuccessResolves
  BY DEF Inv, Reliance, Present, SuccessResolves
<1> QED BY <1>1, Invariance, PTL

\* Whoever loses a race, fails or wins has tried to remove its staging tree and the tree it swapped
\* out: one stays only where delete_tree() failed on it, and none without a failing system call.
THEOREM CacheStaysClean == Spec => []NothingLeaks
<1>1. Spec => []Paid
  BY InitiallyPaid, PaidSteps, Invariance, PTL DEF Spec
<1>2. Inv /\ Paid => NothingLeaks
  BY DEF Inv, Finished, Paid, NothingLeaks
<1> QED BY <1>1, <1>2, Invariance, PTL

\* --force replaces the damaged entry it found, races included.
THEOREM ForceWorks == Spec => []ForceReplaces
<1>1. Inv => ForceReplaces
  BY DEF Inv, Replacing, ForceReplaces
<1> QED BY <1>1, Invariance, PTL
=============================================================================
