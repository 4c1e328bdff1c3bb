---------------------------- MODULE GlobalStore ----------------------------
(***************************************************************************)
(* One entry of the shared global virtual store (<cache>/links), installed *)
(* by processes that run the isolated installer at the same time, each in  *)
(* a project of its own.  An entry is built in a staging directory of the  *)
(* process and renamed to its final path; the project holds a symlink to   *)
(* it.  A run for which the entry is not eligible, or with the store       *)
(* turned off, builds in the project instead.                              *)
(*                                                                         *)
(* IsolatedInstall models the steps of the task this tree goes through and *)
(* their order; here every system call that changes a path is a step.      *)
(***************************************************************************)
EXTENDS Naturals

CONSTANTS
  Procs,       \* the installing processes
  MaxRuns,     \* bound: installs
  MaxFaults,   \* bound: system calls that fail for another reason than a collision, removals too
  MaxCrashes,  \* bound: processes killed
  MaxDamage    \* bound: entries that rot in the cache

ASSUME StoreAssumption == {MaxRuns, MaxFaults, MaxCrashes, MaxDamage} \subseteq Nat

\* A directory: absent, without its package.json, with it but unfinished, complete; damaged
\* by the world, or written into by somebody else than its builder; "left": what delete_tree()
\* could not remove.

VARIABLES
  final,     \* the tree at <cache>/links/<storepath>-<hash>
  staging,   \* staging[p]: the tree at .tmp-<suffix>
  old,       \* old[p]: the tree at .old-<random>
  local,     \* local[p]: node_modules/.bun/<storepath>, a tree or "link"
  pc,        \* pc[p]
  run,       \* run[p]: [mode, force, rotten], the current or last run; rotten: the entry it found was damaged
  outcome,   \* outcome[p]: "none", "built", "skipped", "failed", "crashed"
  lost,      \* history: a replacement was cut short, the final path left empty
  budget     \* what is left of the bounds

files == <<final, staging, old, local>>
vars  == <<files, pc, run, outcome, lost, budget>>

Init ==
  /\ final = "none" /\ lost = FALSE
  /\ staging = [p \in Procs |-> "none"] /\ old = [p \in Procs |-> "none"]
  /\ local = [p \in Procs |-> "none"]
  /\ pc = [p \in Procs |-> "idle"] /\ outcome = [p \in Procs |-> "none"]
  /\ run = [p \in Procs |-> [mode |-> "global", force |-> FALSE, rotten |-> FALSE]]
  /\ budget = [runs |-> MaxRuns, faults |-> MaxFaults, crashes |-> MaxCrashes, damage |-> MaxDamage]

Spend(b)   == budget[b] > 0 /\ budget' = [budget EXCEPT ![b] = @ - 1]
Faults(n)  == n <= budget.faults /\ budget' = [budget EXCEPT !.faults = @ - n]
Goto(p, l) == pc' = [pc EXCEPT ![p] = l] /\ UNCHANGED <<run, outcome, lost>>
End(p, o)  == pc' = [pc EXCEPT ![p] = "idle"] /\ outcome' = [outcome EXCEPT ![p] = o] /\ UNCHANGED run

\* entry_uses_global_store()
Global(p) == run[p].mode = "global"

-----------------------------------------------------------------------------
(* Around a run. *)

\* mode "global": the entry is eligible; "local": it is not; "off": there is no global store.
\* Somebody may have removed node_modules.  The suffixes of the staging and old paths are
\* random: they are new paths, whatever stayed behind under the former ones.
Begin(p, mode, force, fresh) ==
  /\ pc[p] = "idle" /\ Spend("runs")
  /\ pc' = [pc EXCEPT ![p] = "check"] /\ outcome' = [outcome EXCEPT ![p] = "none"]
  /\ run' = [run EXCEPT ![p] = [mode |-> mode, force |-> force, rotten |-> final = "damaged"]]
  /\ staging' = [staging EXCEPT ![p] = "none"] /\ old' = [old EXCEPT ![p] = "none"]
  /\ local' = [local EXCEPT ![p] = IF fresh THEN "none" ELSE @]
  /\ UNCHANGED <<final, lost>>

\* What rots now is not what the runs under way were asked to replace.
Damage ==
  /\ final = "full" /\ Spend("damage")
  /\ final' = "damaged"
  /\ run' = [p \in Procs |-> [run[p] EXCEPT !.rotten = FALSE]]
  /\ UNCHANGED <<staging, old, local, pc, outcome, lost>>

\* The process dies; its temporary trees stay behind under names nobody looks for.
Crash(p) ==
  /\ pc[p] # "idle" /\ Spend("crashes")
  /\ End(p, "crashed") /\ lost' = (lost \/ pc[p] = "publish")
  /\ UNCHANGED files

-----------------------------------------------------------------------------
(* Temporary trees are removed with `let _ = delete_tree(...)`: the removal may fail, of a    *)
(* tree that is there, and the install goes on as if it had not.  k = 1: it fails, and fails  *)
(* again where commit_global_store_entry() and on_task_fail() both try it.                    *)

Cleared(tree, k) == IF tree = "none" \/ k = 0 THEN "none" ELSE "left"
Discard(p, k)    == staging' = [staging EXCEPT ![p] = Cleared(@, k)]
DiscardOld(p, k) == old' = [old EXCEPT ![p] = Cleared(@, k)]

-----------------------------------------------------------------------------
(* needs_install, and the start of the task. *)

\* A link is followed: package.json is there when the entry is.
Exists(p) == IF local[p] = "link" THEN final # "none" ELSE local[p] \in {"partial", "full"}

\* Mutant: the link of an earlier install counts as the package.
MutNeedsInstall(p) ==
  run[p].force \/ IF Global(p) THEN local[p] = "none" ELSE ~Exists(p)

NeedsInstall(p) ==
  \/ run[p].force
  \/ IF Global(p) THEN final = "none"
                  ELSE (run[p].mode = "local" /\ local[p] = "link") \/ ~Exists(p)

Check(p) ==
  /\ pc[p] = "check"
  /\ IF NeedsInstall(p) THEN Goto(p, IF Global(p) THEN "clear" ELSE "detach")
     ELSE IF Global(p)  THEN Goto(p, "warm")
                        ELSE End(p, "skipped") /\ UNCHANGED lost
  /\ UNCHANGED <<files, budget>>

\* Mutant: the stale link into the store stays.
MutDetach(p) ==
  /\ pc[p] = "detach" /\ Goto(p, "build")
  /\ UNCHANGED <<files, budget>>

\* A stale link into the store is unlinked before anything is written.
Detach(p) ==
  /\ pc[p] = "detach" /\ Goto(p, "build")
  /\ local' = [local EXCEPT ![p] = IF @ = "link" THEN "none" ELSE @]
  /\ UNCHANGED <<final, staging, old, budget>>

\* The random suffix is new: there is nothing to remove.
ClearStaging(p) ==
  /\ pc[p] = "clear" /\ Goto(p, "build")
  /\ staging' = [staging EXCEPT ![p] = "none"]
  /\ UNCHANGED <<final, old, local, budget>>

-----------------------------------------------------------------------------
(* The task: package files, then the links of dependencies and binaries.     *)

Grown(t) == CASE t = "none" -> "bare" [] t = "bare" -> "partial" [] OTHER -> t

\* Files are written in any order; what is there already is replaced file by file.
Build(p) ==
  /\ pc[p] = "build"
  /\ IF Global(p)
       THEN staging' = [staging EXCEPT ![p] = Grown(@)] /\ UNCHANGED <<final, local>>
     ELSE IF local[p] = "link"
       THEN final' = "mixed" /\ UNCHANGED <<staging, local>>
       ELSE local' = [local EXCEPT ![p] = IF @ = "full" THEN "partial" ELSE Grown(@)] /\ UNCHANGED <<final, staging>>
  /\ UNCHANGED old
  /\ \/ Goto(p, "build")
     \/ Goto(p, IF Global(p) THEN "link" ELSE "bins") /\ (Global(p) => staging'[p] = "partial")
                                                     /\ (~Global(p) => local'[p] \in {"partial", "link"})
  /\ UNCHANGED budget

\* link_project_to_global_store(): what is in the way is removed first.
LinkProject(p) ==
  /\ pc[p] \in {"link", "warm"}
  /\ IF local[p] # "none"
       THEN local' = [local EXCEPT ![p] = "none"] /\ Goto(p, pc[p])
       ELSE /\ local' = [local EXCEPT ![p] = "link"]
            /\ IF pc[p] = "link" THEN Goto(p, "bins") ELSE End(p, "skipped") /\ UNCHANGED lost
  /\ UNCHANGED <<final, staging, old, budget>>

Binaries(p) ==
  /\ pc[p] = "bins"
  /\ IF Global(p)
       THEN staging' = [staging EXCEPT ![p] = "full"] /\ Goto(p, "commit") /\ UNCHANGED local
       ELSE local' = [local EXCEPT ![p] = IF @ = "link" THEN @ ELSE "full"] /\ End(p, "built") /\ UNCHANGED <<staging, lost>>
  /\ UNCHANGED <<final, old, budget>>

\* on_task_fail(): the staging tree goes; unlink() of the project's tree misses it.
Fail(p) ==
  /\ pc[p] \in {"detach", "clear", "build", "link", "warm", "bins"}
  /\ \E k \in 0 .. 1 : Faults(1 + k) /\ Discard(p, k)
  /\ End(p, "failed")
  /\ UNCHANGED <<final, old, local, lost>>

-----------------------------------------------------------------------------
(* commit_global_store_entry() *)

Published(p) == final' = staging[p] /\ staging' = [staging EXCEPT ![p] = "none"]

\* Mutant: the tree that is there is kept, --force or not.
MutCommit(p) ==
  /\ pc[p] = "commit"
  /\ IF final = "none" THEN Published(p) ELSE Discard(p, 0) /\ UNCHANGED final
  /\ End(p, "built") /\ UNCHANGED <<old, local, lost, budget>>

Commit(p) ==
  /\ pc[p] = "commit"
  /\ \/ final = "none" /\ Published(p) /\ End(p, "built") /\ UNCHANGED <<lost, budget>>
     \/ /\ final # "none" /\ ~run[p].force /\ End(p, "built") /\ UNCHANGED <<final, lost>>
        /\ \E k \in 0 .. 1 : Faults(k) /\ Discard(p, k)
     \/ final # "none" /\ run[p].force /\ Goto(p, "swap") /\ UNCHANGED <<final, staging, budget>>
     \/ /\ End(p, "failed") /\ UNCHANGED <<final, lost>>
        /\ \E k \in 0 .. 1 : Faults(1 + k) /\ Discard(p, k)
  /\ UNCHANGED <<old, local>>

\* The tree in place is renamed aside, unless another process has just done so.
Swap(p) ==
  /\ pc[p] = "swap"
  /\ \/ /\ final # "none" /\ Goto(p, "publish")
        /\ old' = [old EXCEPT ![p] = final] /\ final' = "none" /\ UNCHANGED <<staging, budget>>
     \/ /\ End(p, "failed") /\ UNCHANGED <<final, old, lost>>
        /\ \E k \in 0 .. 1 : Faults((IF final = "none" THEN 0 ELSE 1) + k) /\ Discard(p, k)
  /\ UNCHANGED local

\* Mutant: the loser of the race leaves the tree it swapped out behind.
MutPublish(p) ==
  /\ pc[p] = "publish"
  /\ IF final = "none" THEN Published(p) /\ Goto(p, "gc")
                       ELSE Discard(p, 0) /\ End(p, "built") /\ UNCHANGED <<final, lost>>
  /\ UNCHANGED <<old, local, budget>>

Publish(p) ==
  /\ pc[p] = "publish"
  /\ \/ final = "none" /\ Published(p) /\ Goto(p, "gc") /\ UNCHANGED <<old, budget>>
     \/ /\ final # "none" /\ End(p, "built") /\ UNCHANGED <<final, lost>>
        /\ \E j, k \in 0 .. 1 : Faults(j + k) /\ Discard(p, j) /\ DiscardOld(p, k)
     \/ /\ End(p, "failed") /\ lost' = (lost \/ final = "none") /\ UNCHANGED final
        /\ \E j, k \in 0 .. 1 : Faults(1 + j + k) /\ Discard(p, j) /\ DiscardOld(p, k)
  /\ UNCHANGED local

Gc(p) ==
  /\ pc[p] = "gc" /\ End(p, "built")
  /\ \E k \in 0 .. 1 : Faults(k) /\ DiscardOld(p, k)
  /\ UNCHANGED <<final, staging, local, lost>>

-----------------------------------------------------------------------------
Next ==
  \/ Damage
  \/ \E p \in Procs :
       \/ \E mode \in {"global", "local", "off"}, force, fresh \in BOOLEAN : Begin(p, mode, force, fresh)
       \/ Crash(p) \/ Check(p) \/ Detach(p) \/ ClearStaging(p) \/ Build(p)
       \/ LinkProject(p) \/ Binaries(p) \/ Fail(p) \/ Commit(p) \/ Swap(p) \/ Publish(p) \/ Gc(p)

Spec == Init /\ [][Next]_vars

-----------------------------------------------------------------------------
(* Properties *)

Succeeded(p) == pc[p] = "idle" /\ outcome[p] \in {"built", "skipped"}

\* "The final directory existing is the only completeness signal": whatever crashes, fails or
\* loses its eligibility, no reader ever finds an unfinished tree or one another project wrote to.
FinalIsComplete == final \in {"none", "full", "damaged"}

\* After a run that succeeded the project resolves the package: its link leads to the entry,
\* unless a --force install is between its two renames or was cut short there; a tree built
\* in the project is complete, one that was skipped has its package.json.
SuccessResolves ==
  \A p \in Procs : Succeeded(p) =>
    /\ local[p] = "link" => final # "none" \/ lost \/ \E q \in Procs : pc[q] = "publish"
    /\ local[p] # "link" => ~Global(p) /\ local[p] \in (IF outcome[p] = "built" THEN {"full"} ELSE {"partial", "full"})

\* "A half-built global-store entry doesn't leak in the cache": a run that comes to its end, however
\* it ends, has tried to remove each temporary tree it made.  One is left only where delete_tree()
\* failed on it, and none where no system call failed.
NothingLeaks ==
  \A p \in Procs : pc[p] = "idle" /\ outcome[p] # "crashed" =>
    /\ {staging[p], old[p]} \subseteq {"none", "left"}
    /\ "left" \in {staging[p], old[p]} => budget.faults < MaxFaults

\* A --force install that succeeds has replaced the damaged entry it found.
ForceReplaces ==
  \A p \in Procs : Succeeded(p) /\ Global(p) /\ run[p].force /\ run[p].rotten => final # "damaged"

\* The comment on the swap, "`final` is always either the old or the new tree, never missing".
NeverMissing == [][final # "none" => final' # "none"]_vars

\* on_task_fail(): "attempt deleting the package so the next install will install it again".
FailedIsReinstalled ==
  \A p \in Procs : pc[p] = "idle" /\ outcome[p] = "failed" /\ ~Global(p) => ~Exists(p)

\* "Another --force install raced us [...] Theirs is fresh too": racing is no failure.
OnlyFaultsFail == \A p \in Procs : outcome[p] = "failed" => budget.faults < MaxFaults
=============================================================================
