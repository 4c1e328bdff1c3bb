--------------------------- MODULE IsolatedInstall ---------------------------
(***************************************************************************)
(* The isolated installer of the package manager (install/                 *)
(* isolated_install.rs, isolated_install/Installer.rs): one task for each  *)
(* entry of the store runs step by step on the thread pool and comes back  *)
(* to the main thread through task_queue when it is blocked on a           *)
(* dependency, has scripts to run, failed or is done.  The main thread     *)
(* starts the tasks, downloads what is missing from the cache, runs the    *)
(* lifecycle scripts as subprocesses and counts the pending tasks; it      *)
(* returns when the count is zero.                                         *)
(*                                                                         *)
(* ThreadPool models the pool and Spec assumes what it shows: a scheduled  *)
(* task runs.  The files a task writes are GlobalStore's subject.          *)
(***************************************************************************)
EXTENDS Integers, Sequences, FiniteSets

CONSTANTS
  Entries,      \* ids of the entries of the store, 1 .. n; 1 is the root
  Deps,         \* Deps[e]: the entries e depends on
  Kind,         \* Kind[e]: what the main thread finds when it comes to e
  Package,      \* Package[e]: the task id its tarball is downloaded under
  Preinstall,   \* the entries with a preinstall script that may run
  Scripts,      \* Scripts[e]: how many further scripts of e run
  Optional,     \* the entries that are optional dependencies
  BadUrls,      \* packages whose tarball URL is not http(s)
  FailEarly,    \* options.enable.fail_early
  MaxRetries,   \* options.max_retry_count
  MaxFaults     \* bound: failures of steps, downloads, patches and scripts

Root     == 1
Packages == {Package[e] : e \in Entries}
Kinds    == {"root", "workspace", "duplicate", "folder", "installed", "cached", "patched", "missing"}

ASSUME InstallAssumption ==
  /\ IsFiniteSet(Entries) /\ Root \in Entries /\ Entries = 1 .. Cardinality(Entries)
  /\ Deps \in [Entries -> SUBSET Entries] /\ Kind \in [Entries -> Kinds]
  /\ \A e \in Entries : Kind[e] = "root" <=> e = Root
  /\ Preinstall \subseteq Entries \ {Root} /\ Scripts \in [Entries -> Nat] /\ Scripts[Root] = 0
  /\ Optional \subseteq Entries /\ BadUrls \subseteq Packages
  /\ FailEarly \in BOOLEAN /\ {MaxRetries, MaxFaults} \subseteq Nat

\* A workspace is a child of the root although the root does not depend on it.
Parents(e) == {p \in Entries : e \in Deps[p] \/ (p = Root /\ Kind[e] = "workspace")}

\* is_cycle(): the parents of e, their parents, and so on.
Ancestors == [e \in Entries |->
  {a \in Entries : \A S \in SUBSET Entries : (\A x \in S \cup {e} : Parents(x) \subseteq S) => a \in S}]

\* Cycles do not block.
Needs == [e \in Entries |-> Deps[e] \ Ancestors[e]]

VARIABLES
  step,      \* entries.step: written by the task of e while it runs, else by the main thread
  result,    \* tasks[e].result
  place,     \* where the task is: "main", "pool", "push" (done, not yet pushed), "queued", "script"
  queue,     \* task_queue of the installer
  wakers,    \* threads that have pushed something and not yet called wake_raw
  woken,     \* the event loop of the main thread has something to do
  pending,   \* manager.pending_tasks
  dl,        \* downloads: [at, ok, tries] of each package
  waiters,   \* manager.task_queue: the entries that wait for a package
  script,    \* index of the script an entry runs; 0 is preinstall
  main,      \* the main thread: [pc, ret, back, at, batch, nets, todo, ok]
  faults     \* what is left of MaxFaults

tasks == <<step, result, place>>
io    == <<dl, waiters, script>>
vars  == <<step, result, place, queue, wakers, woken, pending, dl, waiters, script, main, faults>>

Init ==
  /\ step = [e \in Entries |-> "LinkPackage"]
  /\ result = [e \in Entries |-> "None"] /\ place = [e \in Entries |-> "main"]
  /\ queue = <<>> /\ wakers = 0 /\ woken = FALSE
  /\ pending = Cardinality(Entries)
  /\ dl = [p \in Packages |-> [at |-> "none", ok |-> TRUE, tries |-> 0]]
  /\ waiters = [p \in Packages |-> <<>>]
  /\ script = [e \in Entries |-> 0]
  /\ main = [pc |-> "entry", ret |-> "entry", back |-> "entry", at |-> 1, next |-> 1,
             batch |-> <<>>, nets |-> {}, todo |-> <<>>, ok |-> TRUE]
  /\ faults = MaxFaults

Running  == main.pc \notin {"returned", "exited"}
Fault    == faults > 0 /\ faults' = faults - 1
NoFault  == UNCHANGED faults

\* is_task_blocked(): a step that is Done stays Done, so reading them one by one is one reading.
IsBlocked(e) == \E d \in Needs[e] : step[d] # "Done"

-----------------------------------------------------------------------------
(* A task on the thread pool: Task::run step by step, then Task::callback.   *)

Step(e, from, to) ==
  /\ Running /\ place[e] = "pool" /\ step[e] = from
  /\ step' = [step EXCEPT ![e] = to]
  /\ UNCHANGED <<result, place, queue, wakers, woken, pending, io, main, faults>>

\* run() returned: the callback stores the result.
Yield(e, res) ==
  /\ result' = [result EXCEPT ![e] = res] /\ place' = [place EXCEPT ![e] = "push"]
  /\ UNCHANGED <<queue, wakers, woken, pending, io, main>>

\* A failed step: the callback marks the entry done and hands the error to the main thread.
StepFails(e) ==
  /\ Running /\ place[e] = "pool" /\ Fault
  /\ step[e] \in {"LinkPackage", "SymlinkDependencies", "SymlinkDependencyBinaries", "RunPreinstall", "Binaries"}
  /\ step' = [step EXCEPT ![e] = "Done"] /\ Yield(e, "Err")

LinkPackage(e)               == Step(e, "LinkPackage", "SymlinkDependencies")
SymlinkDependencies(e)       == Step(e, "SymlinkDependencies", "CheckIfBlocked")
SymlinkDependencyBinaries(e) == Step(e, "SymlinkDependencyBinaries", "RunPreinstall")
Binaries(e)                  == Step(e, "Binaries", "RunPostInstallAndPrePostPrepare")

\* Mutant: the task marks itself blocked.
MutCheckIfBlocked(e) ==
  /\ Running /\ place[e] = "pool" /\ step[e] = "CheckIfBlocked"
  /\ step' = [step EXCEPT ![e] = IF IsBlocked(e) THEN "Blocked" ELSE "SymlinkDependencyBinaries"]
  /\ IF IsBlocked(e) THEN Yield(e, "Blocked")
                     ELSE UNCHANGED <<result, place, queue, wakers, woken, pending, io, main>>
  /\ NoFault

CheckIfBlocked(e) ==
  /\ Running /\ place[e] = "pool" /\ step[e] = "CheckIfBlocked" /\ NoFault
  /\ IF IsBlocked(e)
       THEN UNCHANGED step /\ Yield(e, "Blocked")
       ELSE /\ step' = [step EXCEPT ![e] = "SymlinkDependencyBinaries"]
            /\ UNCHANGED <<result, place, queue, wakers, woken, pending, io, main>>

\* The task stops at its step while its scripts run.
RunScripts(e) ==
  /\ Running /\ place[e] = "pool" /\ NoFault
  /\ \/ step[e] = "RunPreinstall" /\ e \in Preinstall
     \/ step[e] = "RunPostInstallAndPrePostPrepare" /\ Scripts[e] > 0
  /\ UNCHANGED step /\ Yield(e, "RunScripts")

RunPreinstall(e)                  == e \notin Preinstall /\ Step(e, "RunPreinstall", "Binaries")
RunPostInstallAndPrePostPrepare(e) == Scripts[e] = 0 /\ Step(e, "RunPostInstallAndPrePostPrepare", "Done")

Finish(e) ==
  /\ Running /\ place[e] = "pool" /\ step[e] = "Done" /\ NoFault
  /\ UNCHANGED step /\ Yield(e, "Done")

Push(e) ==
  /\ Running /\ place[e] = "push"
  /\ queue' = Append(queue, e) /\ place' = [place EXCEPT ![e] = "queued"] /\ wakers' = wakers + 1
  /\ UNCHANGED <<step, result, woken, pending, io, main, faults>>

\* wake_raw(), by whoever pushed to one of the queues of the main thread.
Wake ==
  /\ Running /\ wakers > 0
  /\ wakers' = wakers - 1 /\ woken' = TRUE
  /\ UNCHANGED <<tasks, queue, pending, io, main, faults>>

-----------------------------------------------------------------------------
(* Downloads: the HTTP thread, and the extraction on the thread pool.        *)

Download(p, at, ok) == dl' = [dl EXCEPT ![p].at = at, ![p].ok = ok]

\* The response is in async_network_task_queue; ok is false for an error and for a status above 399.
Respond(p, ok) ==
  /\ Running /\ dl[p].at = "network"
  /\ IF ok THEN NoFault ELSE Fault
  /\ Download(p, "answered", ok) /\ wakers' = wakers + 1
  /\ UNCHANGED <<tasks, queue, woken, pending, waiters, script, main>>

\* The tarball is extracted, from the buffered response or while it streams in.
Extract(p, ok) ==
  /\ Running /\ dl[p].at \in {"network", "extracting"}
  /\ IF ok THEN NoFault ELSE Fault
  /\ Download(p, "extracted", ok) /\ wakers' = wakers + 1
  /\ UNCHANGED <<tasks, queue, woken, pending, waiters, script, main>>

InFlight == {p \in Packages : dl[p].at \in {"network", "answered", "extracting", "extracted"}}

-----------------------------------------------------------------------------
(* The main thread.                                                          *)

Goto(l) == main' = [main EXCEPT !.pc = l]

\* start_task(), with the step the caller has stored.
Start(e, s) ==
  /\ step' = [step EXCEPT ![e] = s] /\ result' = [result EXCEPT ![e] = "None"]
  /\ place' = [place EXCEPT ![e] = "pool"]

\* on_task_complete() and on_task_fail(): one task fewer, then resume_unblocked_tasks().
Settle(e, m) ==
  /\ step' = [step EXCEPT ![e] = "Done"] /\ place' = [place EXCEPT ![e] = "main"]
  /\ pending' = pending - 1
  /\ main' = [m EXCEPT !.pc = "resume", !.ret = m.pc, !.at = 1]
  /\ UNCHANGED result

Exit == Goto("exited") /\ UNCHANGED <<tasks, pending>>

\* on_task_fail() gives up when the install fails early.
Fail(e, m) == IF FailEarly THEN Exit ELSE Settle(e, m)

Blocked == {e \in Entries : step[e] = "Blocked" /\ e >= main.at}

\* Mutant: every blocked entry is resumed.
MutResume ==
  /\ main.pc = "resume"
  /\ IF Blocked = {}
       THEN Goto(main.ret) /\ UNCHANGED tasks
       ELSE \E e \in Blocked :
            /\ \A b \in Blocked : e <= b
            /\ main' = [main EXCEPT !.at = e + 1] /\ Start(e, "SymlinkDependencyBinaries")
  /\ UNCHANGED <<queue, wakers, woken, pending, io, faults>>

\* resume_unblocked_tasks(), one blocked entry at a time.
Resume ==
  /\ main.pc = "resume"
  /\ IF Blocked = {}
       THEN Goto(main.ret) /\ UNCHANGED tasks
       ELSE \E e \in Blocked :
            /\ \A b \in Blocked : e <= b
            /\ main' = [main EXCEPT !.at = e + 1]
            /\ IF IsBlocked(e) THEN UNCHANGED tasks ELSE Start(e, "SymlinkDependencyBinaries")
  /\ UNCHANGED <<queue, wakers, woken, pending, io, faults>>

\* The loop over the entries has come to main.next.
Visit(e) == main.pc = "entry" /\ e = main.next /\ e \in Entries
Visited  == [main EXCEPT !.next = @ + 1]

StartEntry(e) ==
  /\ Visit(e) /\ Kind[e] \in {"root", "workspace", "folder", "cached", "patched"}
  /\ Start(e, IF Kind[e] \in {"root", "workspace"} THEN "SymlinkDependencies" ELSE "LinkPackage")
  /\ main' = Visited
  /\ UNCHANGED <<queue, wakers, woken, pending, io, faults>>

\* Nothing to install: a workspace seen before, a link, or what an earlier install left.
SkipEntry(e) ==
  /\ Visit(e) /\ Kind[e] \in {"duplicate", "installed"}
  /\ Settle(e, Visited)
  /\ UNCHANGED <<queue, wakers, woken, io, faults>>

\* The link to the global store or the patch fails before a task starts.
EntryFails(e) ==
  /\ Visit(e) /\ Kind[e] \in {"installed", "patched"} /\ Fault
  /\ Fail(e, Visited)
  /\ UNCHANGED <<queue, wakers, woken, io>>

\* enqueue_package_for_download(): the first waiter starts the download.
EnqueueDownload(e) ==
  LET p == Package[e] IN
  /\ Visit(e) /\ Kind[e] = "missing"
  /\ waiters' = [waiters EXCEPT ![p] = Append(@, e)]
  /\ IF waiters[p] # <<>>
       THEN main' = Visited /\ UNCHANGED <<tasks, pending, dl>>
       ELSE IF p \notin BadUrls
       THEN main' = Visited /\ pending' = pending + 1 /\ Download(p, "network", TRUE) /\ UNCHANGED tasks
       ELSE Fail(e, Visited) /\ UNCHANGED dl
  /\ UNCHANGED <<queue, wakers, woken, script, faults>>

EntriesVisited ==
  /\ main.pc = "entry" /\ main.next \notin Entries
  /\ Goto(IF pending > 0 THEN "tick" ELSE "returned")
  /\ UNCHANGED <<tasks, queue, wakers, woken, pending, io, faults>>

-----------------------------------------------------------------------------
(* One pass of Wait::is_done: run_tasks() drains the queues in this order.   *)

PopBatch ==
  /\ main.pc = "tick"
  /\ main' = [main EXCEPT !.pc = "installer", !.batch = queue] /\ queue' = <<>>
  /\ UNCHANGED <<tasks, wakers, woken, pending, io, faults>>

\* The next task of the batch that came back with this result.
Returned(e, res) == main.pc = "installer" /\ main.batch # <<>> /\ e = Head(main.batch) /\ result[e] = res
Drained          == [main EXCEPT !.batch = Tail(@)]

TaskDone(e) ==
  /\ Returned(e, "Done") /\ Settle(e, Drained)
  /\ UNCHANGED <<queue, wakers, woken, io, faults>>

TaskFailed(e) ==
  /\ Returned(e, "Err") /\ Fail(e, Drained)
  /\ UNCHANGED <<queue, wakers, woken, io, faults>>

\* Mutant: no second look at the dependencies.
MutTaskBlocked(e) ==
  /\ Returned(e, "Blocked") /\ main' = Drained
  /\ step' = [step EXCEPT ![e] = "Blocked"] /\ place' = [place EXCEPT ![e] = "main"] /\ UNCHANGED result
  /\ UNCHANGED <<queue, wakers, woken, pending, io, faults>>

\* on_task_blocked(): the dependency may have finished since the task looked.
TaskBlocked(e) ==
  /\ Returned(e, "Blocked") /\ main' = Drained
  /\ IF IsBlocked(e)
       THEN /\ step' = [step EXCEPT ![e] = "Blocked"] /\ place' = [place EXCEPT ![e] = "main"]
            /\ UNCHANGED result
       ELSE Start(e, "SymlinkDependencyBinaries")
  /\ UNCHANGED <<queue, wakers, woken, pending, io, faults>>

SpawnScript(e) ==
  /\ Returned(e, "RunScripts") /\ main' = Drained
  /\ place' = [place EXCEPT ![e] = "script"]
  /\ script' = [script EXCEPT ![e] = IF step[e] = "RunPreinstall" THEN 0 ELSE 1]
  /\ UNCHANGED <<step, result, queue, wakers, woken, pending, dl, waiters, faults>>

\* Preparing the environment fails the task; a script that cannot be spawned ends the install.
SpawnFails(e) ==
  /\ Returned(e, "RunScripts") /\ Fault
  /\ Fail(e, Drained) \/ Exit
  /\ UNCHANGED <<queue, wakers, woken, io>>

PopAnswers ==
  /\ main.pc = "installer" /\ main.batch = <<>>
  /\ main' = [main EXCEPT !.pc = "network", !.nets = {p \in Packages : dl[p].at = "answered"}]
  /\ UNCHANGED <<tasks, queue, wakers, woken, pending, io, faults>>

\* Hand a package to its waiters: on_package_extracted() or on_package_download_error().
Hand(p, ok, m) ==
  /\ main' = [m EXCEPT !.nets = @ \ {p}, !.pc = "waiters", !.back = m.pc, !.todo = waiters[p], !.ok = ok]
  /\ waiters' = [waiters EXCEPT ![p] = <<>>]

\* A failed download is retried, unless the server refused it or the retries are used up.
Answer(p) ==
  /\ main.pc = "network" /\ p \in main.nets
  /\ pending' = pending - 1
  /\ \/ /\ dl[p].ok \/ dl[p].tries < MaxRetries
        /\ dl' = [dl EXCEPT ![p].at = IF dl[p].ok THEN "extract" ELSE "retry",
                            ![p].tries = IF dl[p].ok THEN @ ELSE @ + 1]
        /\ main' = [main EXCEPT !.nets = @ \ {p}] /\ UNCHANGED waiters
     \/ ~dl[p].ok /\ Download(p, "none", TRUE) /\ Hand(p, FALSE, main)
  /\ UNCHANGED <<tasks, queue, wakers, woken, script, faults>>

PopExtracted ==
  /\ main.pc = "network" /\ main.nets = {}
  /\ main' = [main EXCEPT !.pc = "resolve", !.nets = {p \in Packages : dl[p].at = "extracted"}]
  /\ UNCHANGED <<tasks, queue, wakers, woken, pending, io, faults>>

Extracted(p) ==
  /\ main.pc = "resolve" /\ p \in main.nets
  /\ pending' = pending - 1
  /\ Download(p, "none", TRUE) /\ Hand(p, dl[p].ok, main)
  /\ UNCHANGED <<tasks, queue, wakers, woken, script, faults>>

\* The next entry that waited for the package in hand.
Waiter(e) == main.pc = "waiters" /\ main.todo # <<>> /\ e = Head(main.todo)
Served    == [main EXCEPT !.todo = Tail(@)]

StartWaiter(e) ==
  /\ Waiter(e) /\ main.ok /\ Start(e, step[e]) /\ main' = Served
  /\ UNCHANGED <<queue, wakers, woken, pending, io, faults>>

\* Mutant: the upfront slot of the entry is not released.
MutFailWaiter(e) ==
  /\ Waiter(e) /\ ~main.ok /\ NoFault
  /\ step' = [step EXCEPT ![e] = "Done"] /\ main' = Served
  /\ UNCHANGED <<result, place, pending, queue, wakers, woken, io>>

\* The download failed, or the patch of this entry does.
FailWaiter(e) ==
  /\ Waiter(e) /\ IF main.ok THEN Fault ELSE NoFault
  /\ Fail(e, Served)
  /\ UNCHANGED <<queue, wakers, woken, io>>

WaitersServed ==
  /\ main.pc = "waiters" /\ main.todo = <<>> /\ Goto(main.back)
  /\ UNCHANGED <<tasks, queue, wakers, woken, pending, io, faults>>

\* schedule_tasks() counts the retries and extractions it starts; then the count decides.
Flush ==
  LET again == {p \in Packages : dl[p].at \in {"retry", "extract"}} IN
  /\ main.pc = "resolve" /\ main.nets = {}
  /\ dl' = [p \in Packages |->
              IF p \in again THEN [dl[p] EXCEPT !.at = IF @ = "retry" THEN "network" ELSE "extracting"]
                             ELSE dl[p]]
  /\ pending' = pending + Cardinality(again)
  /\ Goto(IF pending' = 0 THEN "returned" ELSE "sleep")
  /\ UNCHANGED <<tasks, queue, wakers, woken, waiters, script, faults>>

\* The event loop returns from its wait.
Tick ==
  /\ main.pc = "sleep" /\ woken
  /\ woken' = FALSE /\ Goto("tick")
  /\ UNCHANGED <<tasks, queue, wakers, pending, io, faults>>

-----------------------------------------------------------------------------
(* handle_exit() of a lifecycle script, in the event loop.                   *)

Exited(e) == main.pc = "sleep" /\ place[e] = "script" /\ woken' = TRUE

PreinstallExits(e) ==
  /\ Exited(e) /\ step[e] = "RunPreinstall"
  /\ Start(e, "Binaries")
  /\ UNCHANGED <<queue, wakers, pending, io, main, faults>>

ScriptExits(e) ==
  /\ Exited(e) /\ step[e] # "RunPreinstall" /\ NoFault
  /\ IF script[e] < Scripts[e]
       THEN script' = [script EXCEPT ![e] = @ + 1] /\ UNCHANGED <<tasks, pending, main>>
       ELSE Settle(e, main) /\ UNCHANGED script
  /\ UNCHANGED <<queue, wakers, dl, waiters>>

\* A script that fails skips an optional entry and ends any other install.
ScriptFails(e) ==
  /\ Exited(e) /\ Fault
  /\ IF e \in Optional THEN Settle(e, main) ELSE Exit
  /\ UNCHANGED <<queue, wakers, io>>

-----------------------------------------------------------------------------
TaskStep(e) ==
  \/ LinkPackage(e) \/ SymlinkDependencies(e) \/ CheckIfBlocked(e) \/ SymlinkDependencyBinaries(e)
  \/ RunPreinstall(e) \/ Binaries(e) \/ RunPostInstallAndPrePostPrepare(e)
  \/ RunScripts(e) \/ StepFails(e) \/ Finish(e) \/ Push(e)

DownloadStep(p) == \E ok \in BOOLEAN : Respond(p, ok) \/ Extract(p, ok)

VisitStep == EntriesVisited \/ \E e \in Entries : StartEntry(e) \/ SkipEntry(e) \/ EntryFails(e) \/ EnqueueDownload(e)

DrainStep ==
  \/ PopBatch \/ PopAnswers \/ PopExtracted \/ WaitersServed \/ Flush
  \/ \E e \in Entries : \/ TaskDone(e) \/ TaskFailed(e) \/ TaskBlocked(e) \/ SpawnScript(e) \/ SpawnFails(e)
                        \/ StartWaiter(e) \/ FailWaiter(e)
  \/ \E p \in Packages : Answer(p) \/ Extracted(p)

MainStep == VisitStep \/ DrainStep \/ Resume \/ Tick

ScriptStep(e) == PreinstallExits(e) \/ ScriptExits(e) \/ ScriptFails(e)

Next ==
  \/ \E e \in Entries : TaskStep(e) \/ ScriptStep(e)
  \/ \E p \in Packages : DownloadStep(p)
  \/ MainStep \/ Wake

\* The pool runs its tasks, the HTTP thread answers (requests time out), scripts end
\* (strongly fair: they are only noticed while the main thread is in its event loop).
Fairness ==
  /\ \A e \in Entries : WF_vars(TaskStep(e)) /\ SF_vars(ScriptStep(e))
  /\ \A p \in Packages : WF_vars(DownloadStep(p))
  /\ WF_vars(MainStep) /\ WF_vars(Wake)

Spec == Init /\ [][Next]_vars /\ Fairness

-----------------------------------------------------------------------------
(* Properties *)

Settled(e) == step[e] = "Done" /\ place[e] = "main"

\* The count the install loop waits on is the number of entries the main thread has not
\* settled plus the downloads and extractions under way: it can neither reach zero early
\* nor stay above zero when all is done.
PendingExact == pending = Cardinality({e \in Entries : ~Settled(e)}) + Cardinality(InFlight)

\* ".monotonic is okay because the task isn't running right now": the main thread changes
\* the step, the result or the place of a task only while the task is its own, and starts
\* only tasks that came back blocked or for scripts, or never ran.
TasksHaveOneOwner ==
  [][main' # main => \A e \in Entries :
       /\ place[e] \in {"pool", "push"} => UNCHANGED <<step[e], result[e], place[e]>>
       /\ place'[e] = "pool" /\ place[e] # "pool" => result[e] \in {"None", "Blocked", "RunScripts"}]_vars

Phase(e) == CASE step[e] = "Done" -> "settled"
              [] step[e] \in {"SymlinkDependencyBinaries", "RunPreinstall", "Binaries",
                              "RunPostInstallAndPrePostPrepare"} -> "open"
              [] OTHER -> "waiting"

Plan == INSTANCE InstallPlan WITH
  phase <- [e \in Entries |-> Phase(e)],
  outcome <- CASE main.pc = "returned" -> "returned" [] main.pc = "exited" -> "aborted" [] OTHER -> "running"

\* An entry links binaries and runs scripts only after the dependencies it has to wait
\* for, Done is final, and the install returns with every entry done.
ImplementsPlan == Plan!Spec

\* An entry waits for a download nobody will start: the first waiter of the package failed
\* on its URL and left the list of waiters behind.
Orphaned == \E p \in BadUrls : Len(waiters[p]) > 1

\* The install ends, whatever blocks, fails, is retried or comes back at the same time.
InstallEnds == <>(~Running \/ Orphaned)

\* Without the exception: a package that failed is not waited for.
NeverWaitsForEver == <>~Running
=============================================================================
