------------------------ MODULE IsolatedInstall_proofs ------------------------
(***************************************************************************)
(* The main loop of the isolated installer, for every set of entries, every*)
(* dependency graph and every number of faults and retries: a task has one *)
(* owner at a time, the count of pending tasks is exact, and the install   *)
(* implements InstallPlan.                                                 *)
(*                                                                         *)
(* The inductive invariant says where each entry is: in which one of the   *)
(* lists the main thread keeps (Lists), what it may do next given its step *)
(* and result (Stages), and that a download is known to its waiters as     *)
(* long as it is under way (Downloads).                                    *)
(***************************************************************************)
EXTENDS IsolatedInstall, FiniteSetTheorems, TLAPS

Steps   == {"LinkPackage", "SymlinkDependencies", "CheckIfBlocked", "SymlinkDependencyBinaries",
            "RunPreinstall", "Binaries", "RunPostInstallAndPrePostPrepare", "Blocked", "Done"}
Results == {"None", "Blocked", "RunScripts", "Err", "Done"}
Places  == {"main", "pool", "push", "queued", "script"}
Stops   == {"none", "network", "answered", "retry", "extract", "extracting", "extracted"}
Labels  == {"entry", "tick", "installer", "network", "resolve", "waiters", "resume", "sleep",
            "returned", "exited"}

\* Where the main thread goes on after resume_unblocked_tasks() and after a list of waiters.
Inner == Labels \ {"returned", "exited"}

Mains == [pc : Labels, ret : Inner, back : Inner, at : Nat, next : Nat, batch : Seq(Entries),
          nets : SUBSET Packages, todo : Seq(Entries), ok : BOOLEAN]

Types ==
  /\ step \in [Entries -> Steps] /\ result \in [Entries -> Results] /\ place \in [Entries -> Places]
  /\ queue \in Seq(Entries) /\ pending \in Int
  /\ dl \in [Packages -> [at : Stops, ok : BOOLEAN, tries : Nat]]
  /\ waiters \in [Packages -> Seq(Entries)]
  /\ main \in Mains

Members(s)  == {s[i] : i \in 1 .. Len(s)}
Distinct(s) == \A i, j \in 1 .. Len(s) : s[i] = s[j] => i = j

Fresh(e) == step[e] = "LinkPackage" /\ result[e] = "None" /\ place[e] = "main"

\* Packages that can be downloaded: the list of another is never handed out.
Live == Packages \ BadUrls

\* An entry is in one list at most.
Lists ==
  /\ Distinct(queue) /\ Distinct(main.batch) /\ Members(queue) \cap Members(main.batch) = {}
  /\ \A e \in Members(queue) \cup Members(main.batch) : place[e] = "queued"
  /\ Distinct(main.todo)
  /\ \A e \in Members(main.todo) : Fresh(e) /\ e < main.next
  /\ \A p \in Live :
       /\ Distinct(waiters[p]) /\ Members(waiters[p]) \cap Members(main.todo) = {}
       /\ \A e \in Members(waiters[p]) : Fresh(e) /\ e < main.next
       /\ \A q \in Live \ {p} : Members(waiters[p]) \cap Members(waiters[q]) = {}

Stages ==
  \A e \in Entries :
    /\ e >= main.next => Fresh(e)
    /\ step[e] = "Blocked" => place[e] = "main" /\ result[e] = "Blocked"
    /\ result[e] = "Blocked" /\ place[e] \in {"push", "queued"} => step[e] = "CheckIfBlocked"

Downloads ==
  /\ \A p \in Packages : dl[p].at # "none" => waiters[p] # <<>>
  /\ \A p \in BadUrls : dl[p].at = "none"
  /\ \A p \in main.nets : dl[p].at \in {"answered", "extracted"}

Unsettled == {e \in Entries : ~Settled(e)}

Inv == Types /\ Lists /\ Stages /\ Downloads /\ PendingExact

-----------------------------------------------------------------------------
(* Lists of entries. *)

LEMMA EmptyList == Members(<<>>) = {} /\ Distinct(<<>>)
BY DEF Members, Distinct

LEMMA ListMembers == \A s \in Seq(Entries) : Members(s) \subseteq Entries
BY DEF Members

LEMMA TailList ==
  ASSUME NEW s \in Seq(Entries), s # <<>>, Distinct(s)
  PROVE  /\ Tail(s) \in Seq(Entries) /\ Distinct(Tail(s))
         /\ Head(s) \in Members(s) /\ Head(s) \in Entries
         /\ Members(Tail(s)) = Members(s) \ {Head(s)}
<1>1. /\ Len(s) \in Nat \ {0} /\ Head(s) = s[1]
      /\ Tail(s) \in Seq(Entries) /\ Len(Tail(s)) = Len(s) - 1
      /\ \A i \in 1 .. Len(s) - 1 : Tail(s)[i] = s[i + 1]
  OBVIOUS
<1>2. Distinct(Tail(s))
  BY <1>1 DEF Distinct
<1>3. Head(s) \in Members(s) /\ Head(s) \in Entries
  BY <1>1 DEF Members
<1>4. ASSUME NEW e \in Members(Tail(s)) PROVE e \in Members(s) \ {Head(s)}
  <2>1. PICK i \in 1 .. Len(s) - 1 : e = s[i + 1]
    BY <1>1, <1>4 DEF Members
  <2>2. i + 1 \in 1 .. Len(s) /\ 1 \in 1 .. Len(s) /\ i + 1 # 1
    BY <1>1
  <2>3. QED BY <1>1, <2>1, <2>2 DEF Distinct, Members
<1>5. ASSUME NEW e \in Members(s) \ {Head(s)} PROVE e \in Members(Tail(s))
  <2>1. PICK i \in 1 .. Len(s) : e = s[i]
    BY <1>5 DEF Members
  <2>2. i - 1 \in 1 .. Len(s) - 1 /\ Tail(s)[i - 1] = s[i]
    BY <1>1, <1>5, <2>1
  <2>3. QED BY <1>1, <2>1, <2>2 DEF Members
<1>6. QED BY <1>1, <1>2, <1>3, <1>4, <1>5

LEMMA AppendList ==
  ASSUME NEW s \in Seq(Entries), NEW e \in Entries, e \notin Members(s), Distinct(s)
  PROVE  /\ Append(s, e) \in Seq(Entries) /\ Append(s, e) # <<>> /\ Distinct(Append(s, e))
         /\ Members(Append(s, e)) = Members(s) \cup {e}
<1>1. /\ Len(s) \in Nat /\ Append(s, e) \in Seq(Entries) /\ Len(Append(s, e)) = Len(s) + 1
      /\ \A i \in 1 .. Len(s) : Append(s, e)[i] = s[i]
      /\ Append(s, e)[Len(s) + 1] = e
  OBVIOUS
<1>2. Members(Append(s, e)) = Members(s) \cup {e}
  BY <1>1 DEF Members
<1>3. Distinct(Append(s, e))
  BY <1>1 DEF Distinct, Members
<1>4. QED BY <1>1, <1>2, <1>3

(* Frames: what a step that moves one entry has to show. *)

LEMMA Counts ==
  /\ \A e \in Entries : e \in Nat
  /\ \A S \in SUBSET Entries : IsFiniteSet(S) /\ Cardinality(S) \in Nat
  /\ \A S \in SUBSET Packages : IsFiniteSet(S) /\ Cardinality(S) \in Nat
<1>1. IsFiniteSet(Entries) /\ \A e \in Entries : e \in Nat
  <2>1. IsFiniteSet(Entries) /\ Entries = 1 .. Cardinality(Entries)
    BY InstallAssumption
  <2>2. Cardinality(Entries) \in Nat
    BY <2>1, FS_CardinalityType
  <2>3. QED BY <2>1, <2>2
<1>2. IsFiniteSet(Packages)
  <2> DEFINE f == [e \in Entries |-> Package[e]]
  <2>1. f \in Surjection(Entries, Packages)
    BY DEF Surjection, Packages
  <2>2. QED BY <1>1, <2>1, FS_Surjection
<1>3. QED BY <1>1, <1>2, FS_Subset, FS_CardinalityType

\* The new list t has no member the old list s had not, and not e.
Narrower(s, t, e) == Distinct(t) /\ Members(t) \subseteq Members(s) \ {e}

LEMMA Elsewhere ==
  ASSUME Types, Lists, NEW e \in Entries
  PROVE  /\ place[e] # "queued" => Narrower(queue, queue, e) /\ Narrower(main.batch, main.batch, e)
         /\ ~Fresh(e) \/ e >= main.next =>
              /\ Narrower(main.todo, main.todo, e)
              /\ \A p \in Live : Narrower(waiters[p], waiters[p], e)
<1>1. e \in Nat /\ main.next \in Nat
  BY Counts DEF Types, Mains
<1>2. QED BY <1>1 DEF Types, Lists, Narrower

LEMMA EntryMoves ==
  ASSUME Types, Lists, Stages, Types', NEW e \in Entries,
         \A f \in Entries \ {e} : step'[f] = step[f] /\ result'[f] = result[f] /\ place'[f] = place[f],
         e < main'.next, main.next <= main'.next,
         Narrower(queue, queue', e), Narrower(main.batch, main'.batch, e),
         Narrower(main.todo, main'.todo, e),
         \A p \in Live : Narrower(waiters[p], waiters'[p], e),
         step'[e] = "Blocked" => place'[e] = "main" /\ result'[e] = "Blocked",
         result'[e] = "Blocked" /\ place'[e] \in {"push", "queued"} => step'[e] = "CheckIfBlocked"
  PROVE  Lists' /\ Stages'
<1>1. main.next \in Nat /\ main'.next \in Nat /\ \A f \in Entries : f \in Nat
  BY Counts DEF Types, Mains
<1>2. /\ Members(queue) \subseteq Entries /\ Members(main.batch) \subseteq Entries
      /\ Members(main.todo) \subseteq Entries /\ \A p \in Live : Members(waiters[p]) \subseteq Entries
  BY ListMembers DEF Types, Mains, Live
<1>3. Stages'
  BY <1>1 DEF Stages, Fresh
<1>4. /\ Distinct(queue)' /\ Distinct(main.batch)' /\ (Members(queue) \cap Members(main.batch) = {})'
      /\ (\A f \in Members(queue) \cup Members(main.batch) : place[f] = "queued")'
  BY <1>2 DEF Lists, Narrower
<1>5. Distinct(main.todo)' /\ (\A f \in Members(main.todo) : Fresh(f) /\ f < main.next)'
  BY <1>1, <1>2 DEF Lists, Narrower, Fresh
<1>6. ASSUME NEW p \in Live
      PROVE  (/\ Distinct(waiters[p]) /\ Members(waiters[p]) \cap Members(main.todo) = {}
              /\ (\A f \in Members(waiters[p]) : Fresh(f) /\ f < main.next)
              /\ \A q \in Live \ {p} : Members(waiters[p]) \cap Members(waiters[q]) = {})'
  BY SMTT(30), <1>1, <1>2 DEF Lists, Narrower, Fresh
<1>7. QED BY <1>3, <1>4, <1>5, <1>6 DEF Lists

\* An entry that is settled leaves the count.
LEMMA EntrySettles ==
  ASSUME Types, PendingExact, NEW e \in Entries, ~Settled(e),
         \A f \in Entries \ {e} : step'[f] = step[f] /\ place'[f] = place[f],
         step'[e] = "Done", place'[e] = "main", pending' = pending - 1, InFlight' = InFlight
  PROVE  PendingExact'
<1>1. Unsettled' = Unsettled \ {e} /\ e \in Unsettled /\ Unsettled \in SUBSET Entries
  BY DEF Unsettled, Settled
<1>2. Cardinality(Unsettled') = Cardinality(Unsettled) - 1
  BY <1>1, Counts, FS_RemoveElement
<1>3. Cardinality(Unsettled) \in Nat /\ Cardinality(InFlight) \in Nat
  BY <1>1, Counts DEF InFlight
<1>4. QED BY <1>2, <1>3 DEF PendingExact, Unsettled

\* One that was not settled and still is not stays in it.
LEMMA EntryStays ==
  ASSUME PendingExact, pending' = pending, InFlight' = InFlight,
         \A f \in Entries : Settled(f)' <=> Settled(f)
  PROVE  PendingExact'
BY DEF PendingExact

LEMMA Initially == Init => Inv
<1> SUFFICES ASSUME Init PROVE Inv
  OBVIOUS
<1>1. Cardinality(Entries) \in Nat
  BY Counts
<1>2. Types
  BY <1>1 DEF Init, Types, Mains, Inner, Steps, Results, Places, Stops, Labels
<1>3. Lists
  BY EmptyList DEF Init, Lists, Live
<1>4. Stages /\ Downloads
  BY InstallAssumption, Counts DEF Init, Stages, Downloads, Fresh
<1>5. PendingExact
  <2>1. Unsettled = Entries /\ InFlight = {}
    BY DEF Init, Unsettled, Settled, InFlight
  <2>2. Cardinality(InFlight) = 0
    BY <2>1, FS_EmptySet
  <2>3. pending = Cardinality(Unsettled) + Cardinality(InFlight)
    BY <1>1, <2>1, <2>2 DEF Init
  <2>4. QED BY <2>3 DEF PendingExact, Unsettled
<1>6. QED BY <1>2, <1>3, <1>4, <1>5 DEF Inv

(* The threads other than the main one. *)

LEMMA TaskKeeps == ASSUME Inv, NEW e \in Entries, TaskStep(e) PROVE Inv'
<1> USE DEF Inv, Steps, Results, Places
<1>1. ASSUME Push(e) PROVE Inv'
  <2> USE <1>1 DEF Push
  <2>1. Types'
    BY DEF Types, io
  <2>2. e \notin Members(queue) /\ e \notin Members(main.batch)
    BY DEF Lists
  <2>3. /\ queue' \in Seq(Entries) /\ Distinct(queue)' /\ Members(queue)' = Members(queue) \cup {e}
    BY <2>2, AppendList DEF Lists, Types
  <2>4. Members(queue) \subseteq Entries /\ Members(main.batch) \subseteq Entries
    BY ListMembers DEF Types, Mains, Live
  <2>5. /\ \A f \in Entries \ {e} : place'[f] = place[f]
        /\ place'[e] = "queued" /\ place[e] = "push" /\ step' = step /\ result' = result
        /\ main' = main /\ waiters' = waiters
    BY DEF Types, io
  <2>6. (/\ Distinct(main.batch) /\ Members(queue) \cap Members(main.batch) = {}
         /\ \A f \in Members(queue) \cup Members(main.batch) : place[f] = "queued")'
    BY <2>2, <2>3, <2>4, <2>5 DEF Lists
  <2>7. \A f \in Entries : Fresh(f) => Fresh(f)' /\ f # e
    BY <2>5 DEF Fresh
  <2>8. Members(main.todo) \subseteq Entries /\ \A p \in Live : Members(waiters[p]) \subseteq Entries
    BY ListMembers DEF Types, Mains, Live
  <2>9. (/\ Distinct(main.todo) /\ \A f \in Members(main.todo) : Fresh(f) /\ f < main.next)'
    BY <2>5, <2>7, <2>8 DEF Lists
  <2>10. ASSUME NEW p \in Live
         PROVE  (/\ Distinct(waiters[p]) /\ Members(waiters[p]) \cap Members(main.todo) = {}
                 /\ (\A f \in Members(waiters[p]) : Fresh(f) /\ f < main.next)
                 /\ \A q \in Live \ {p} : Members(waiters[p]) \cap Members(waiters[q]) = {})'
    BY <2>5, <2>7, <2>8 DEF Lists
  <2>11. Lists'
    BY <2>3, <2>6, <2>9, <2>10 DEF Lists
  <2>12. Stages'
    BY <2>5 DEF Stages, Fresh
  <2>13. Downloads'
    BY DEF Downloads, io
  <2>14. PendingExact'
    BY <2>5, EntryStays DEF Settled, InFlight, io
  <2>15. QED BY <2>1, <2>11, <2>12, <2>13, <2>14
<1>2. ASSUME NEW s \in Steps \ {"Blocked"}, NEW r \in Results, NEW l \in {"pool", "push"},
             place[e] = "pool",
             step' = [step EXCEPT ![e] = s], result' = [result EXCEPT ![e] = r],
             place' = [place EXCEPT ![e] = l],
             r = "Blocked" /\ l = "push" => s = "CheckIfBlocked",
             UNCHANGED <<queue, wakers, woken, pending, io, main>>
      PROVE  Inv'
  <2>1. Types'
    BY <1>2 DEF Types, io
  <2>2. /\ \A f \in Entries \ {e} : step'[f] = step[f] /\ result'[f] = result[f] /\ place'[f] = place[f]
        /\ step'[e] = s /\ result'[e] = r /\ place'[e] = l
    BY <1>2 DEF Types
  <2>3. ~Fresh(e) /\ e < main.next
    BY <1>2, Counts DEF Fresh, Stages, Types, Mains
  <2>4. main' = main /\ queue' = queue /\ waiters' = waiters /\ main.next \in Nat
    BY <1>2 DEF io, Types, Mains
  <2>5. Lists' /\ Stages'
    BY <1>2, <2>1, <2>2, <2>3, <2>4, Elsewhere, EntryMoves
  <2>6. Downloads'
    BY <1>2 DEF Downloads, io
  <2>7. PendingExact'
    BY <1>2, <2>2, EntryStays DEF Settled, InFlight, io
  <2>8. QED BY <2>1, <2>5, <2>6, <2>7
<1>3. ASSUME NEW from \in Steps, NEW to \in Steps \ {"Blocked"}, Step(e, from, to) PROVE Inv'
  <2>1. result' = [result EXCEPT ![e] = result[e]] /\ place' = [place EXCEPT ![e] = "pool"]
    BY <1>3 DEF Step, Types
  <2>2. QED BY <1>2, <1>3, <2>1 DEF Step, Types
<1>4. ASSUME UNCHANGED step, place[e] = "pool", NEW r \in Results, Yield(e, r),
             r = "Blocked" => step[e] = "CheckIfBlocked"
      PROVE  Inv'
  <2>1. step' = [step EXCEPT ![e] = step[e]]
    BY <1>4 DEF Types
  <2>2. step[e] \in Steps \ {"Blocked"}
    BY <1>4 DEF Types, Stages
  <2>3. QED BY <1>2, <1>4, <2>1, <2>2 DEF Yield
<1>5. ASSUME StepFails(e) PROVE Inv'
  BY <1>2, <1>5 DEF StepFails, Yield
<1>6. ASSUME CheckIfBlocked(e) PROVE Inv'
  <2>1. CASE IsBlocked(e)
    BY <1>4, <1>6, <2>1 DEF CheckIfBlocked
  <2>2. CASE ~IsBlocked(e)
    <3>1. result' = [result EXCEPT ![e] = result[e]] /\ place' = [place EXCEPT ![e] = "pool"]
      BY <1>6, <2>2 DEF CheckIfBlocked, Types
    <3>2. QED BY <1>2, <1>6, <2>2, <3>1 DEF CheckIfBlocked, Types
  <2>3. QED BY <2>1, <2>2
<1>7. ASSUME RunScripts(e) \/ Finish(e) PROVE Inv'
  BY <1>4, <1>7 DEF RunScripts, Finish
<1>8. QED
  BY <1>1, <1>3, <1>5, <1>6, <1>7
     DEF TaskStep, LinkPackage, SymlinkDependencies, SymlinkDependencyBinaries, RunPreinstall,
         Binaries, RunPostInstallAndPrePostPrepare

LEMMA DownloadKeeps == ASSUME Inv, NEW p \in Packages, DownloadStep(p) PROVE Inv'
<1> USE DEF Inv
<1>1. PICK ok \in BOOLEAN : Respond(p, ok) \/ Extract(p, ok)
  BY DEF DownloadStep
<1>2. PICK stop \in {"answered", "extracted"} : Download(p, stop, ok)
  BY <1>1 DEF Respond, Extract
<1>3. dl[p].at \in {"network", "extracting"} /\ p \notin main.nets
  BY <1>1 DEF Respond, Extract, Downloads
<1>4. UNCHANGED <<tasks, queue, pending, waiters, main>>
  BY <1>1 DEF Respond, Extract
<1>5. Types'
  BY <1>2, <1>4 DEF Types, Download, tasks, Stops
<1>6. /\ \A q \in Packages \ {p} : dl'[q] = dl[q]
      /\ dl'[p].at = stop
  BY <1>2 DEF Download, Types
<1>7. Lists' /\ Stages'
  BY <1>4 DEF Lists, Stages, Fresh, tasks
<1>8. Downloads'
  BY <1>3, <1>4, <1>6, InstallAssumption DEF Downloads, Types, Mains
<1>9. InFlight' = InFlight
  BY <1>3, <1>6 DEF InFlight
<1>10. PendingExact'
  BY <1>4, <1>9, EntryStays DEF Settled, tasks
<1>11. QED BY <1>5, <1>7, <1>8, <1>10

LEMMA IdleKeeps == ASSUME Inv, UNCHANGED <<tasks, queue, pending, io, main>> PROVE Inv'
<1>1. Types' /\ Lists' /\ Stages' /\ Downloads'
  BY DEF Inv, Types, Lists, Stages, Downloads, Fresh, tasks, io
<1>2. PendingExact'
  BY EntryStays DEF Inv, Settled, InFlight, tasks, io
<1>3. QED BY <1>1, <1>2 DEF Inv

(* The main thread. *)

\* It moves on, and no entry does.
LEMMA MainKeeps ==
  ASSUME Inv, UNCHANGED <<tasks, queue, pending, dl>>, waiters' \in [Packages -> Seq(Entries)],
         \A p \in Live : waiters'[p] = waiters[p],
         \A p \in Packages : waiters[p] # <<>> => waiters'[p] # <<>>,
         main' \in Mains, main'.next = main.next, main'.batch = main.batch,
         main'.nets = main.nets, main'.todo = main.todo
  PROVE  Inv'
<1>1. Types' /\ Stages'
  BY DEF Inv, Types, Stages, Fresh, tasks
<1>2. Lists'
  BY DEF Inv, Lists, Fresh, tasks
<1>3. Downloads'
  BY DEF Inv, Downloads
<1>4. PendingExact'
  BY EntryStays DEF Inv, Settled, InFlight, tasks
<1>5. QED BY <1>1, <1>2, <1>3, <1>4 DEF Inv

LEMMA ExitKeeps == ASSUME Inv, Exit, UNCHANGED <<queue, dl, waiters>> PROVE Inv'
<1>1. /\ main' \in Mains /\ main'.next = main.next /\ main'.batch = main.batch
      /\ main'.nets = main.nets /\ main'.todo = main.todo
  BY DEF Inv, Types, Mains, Exit, Goto, Labels
<1>2. QED BY <1>1, MainKeeps DEF Exit, Inv, Types

\* What the caller of on_task_complete() or on_task_fail() has taken from its list.
Taken(e, m) ==
  /\ m \in Mains /\ m.pc \in Inner /\ e < m.next /\ main.next <= m.next /\ m.nets = main.nets
  /\ Narrower(queue, queue', e) /\ Narrower(main.batch, m.batch, e) /\ Narrower(main.todo, m.todo, e)
  /\ waiters' \in [Packages -> Seq(Entries)]
  /\ \A p \in Live : Narrower(waiters[p], waiters'[p], e)
  /\ \A p \in Packages : waiters[p] # <<>> => waiters'[p] # <<>>

LEMMA SettleKeeps ==
  ASSUME Inv, NEW e \in Entries, NEW m, Taken(e, m), ~Settled(e), Settle(e, m), UNCHANGED <<queue, dl>>
  PROVE  Inv'
<1> USE DEF Settle, Taken
<1>1. /\ main' \in Mains /\ main'.next = m.next /\ main'.batch = m.batch
      /\ main'.nets = main.nets /\ main'.todo = m.todo
  BY DEF Mains, Labels, Inner
<1>2. Types'
  BY <1>1 DEF Inv, Types, Steps, Places
<1>3. /\ \A f \in Entries \ {e} : step'[f] = step[f] /\ result'[f] = result[f] /\ place'[f] = place[f]
      /\ step'[e] = "Done" /\ place'[e] = "main"
  BY DEF Inv, Types
<1>4. Lists' /\ Stages'
  BY <1>1, <1>2, <1>3, EntryMoves DEF Inv
<1>5. Downloads'
  BY <1>1 DEF Inv, Downloads
<1>6. PendingExact'
  BY <1>3, EntrySettles DEF Inv, InFlight
<1>7. QED BY <1>2, <1>4, <1>5, <1>6 DEF Inv

LEMMA FailKeeps ==
  ASSUME Inv, NEW e \in Entries, NEW m, Taken(e, m), ~Settled(e), Fail(e, m), UNCHANGED <<queue, dl>>,
         \A p \in Live : waiters'[p] = waiters[p]
  PROVE  Inv'
<1>1. CASE FailEarly
  <2>1. /\ main' \in Mains /\ main'.next = main.next /\ main'.batch = main.batch
        /\ main'.nets = main.nets /\ main'.todo = main.todo
    BY <1>1 DEF Inv, Types, Mains, Fail, Exit, Goto, Labels
  <2>2. QED BY <1>1, <2>1, MainKeeps DEF Fail, Exit, Taken
<1>2. CASE ~FailEarly
  BY <1>2, SettleKeeps DEF Fail
<1>3. QED BY <1>1, <1>2

LEMMA StartKeeps ==
  ASSUME Inv, NEW e \in Entries, NEW s \in Steps \ {"Blocked"}, Start(e, s), ~Settled(e),
         Taken(e, main'), UNCHANGED <<queue, dl, pending>>
  PROVE  Inv'
<1> USE DEF Start, Taken
<1>1. Types'
  BY DEF Inv, Types, Results, Places
<1>2. /\ \A f \in Entries \ {e} : step'[f] = step[f] /\ result'[f] = result[f] /\ place'[f] = place[f]
      /\ result'[e] = "None" /\ place'[e] = "pool" /\ step'[e] = s
  BY DEF Inv, Types
<1>3. Lists' /\ Stages'
  BY <1>1, <1>2, EntryMoves DEF Inv
<1>4. Downloads'
  BY DEF Inv, Downloads
<1>5. PendingExact'
  BY <1>2, EntryStays DEF Inv, Settled, InFlight
<1>6. QED BY <1>1, <1>3, <1>4, <1>5 DEF Inv

\* A step of the main thread for an entry that is in none of its lists.
LEMMA Unlisted ==
  ASSUME Inv, NEW e \in Entries, UNCHANGED <<queue, waiters>>, place[e] # "queued", ~Fresh(e),
         NEW m \in Mains, m.pc \in Inner, m.next = main.next, m.nets = main.nets, m.batch = main.batch, m.todo = main.todo
  PROVE  Taken(e, m)
<1>1. main.next \in Nat /\ e \in Nat
  BY Counts DEF Inv, Types, Mains
<1>2. e < main.next
  BY <1>1 DEF Inv, Stages
<1>3. QED BY <1>1, <1>2, Elsewhere DEF Inv, Taken, Types

LEMMA ResumeKeeps == ASSUME Inv, Resume PROVE Inv'
<1> USE DEF Resume, io
<1>1. CASE Blocked = {}
  <2>1. /\ main' \in Mains /\ main'.next = main.next /\ main'.batch = main.batch
        /\ main'.nets = main.nets /\ main'.todo = main.todo
    BY <1>1 DEF Inv, Types, Mains, Goto, Inner
  <2>2. QED BY <1>1, <2>1, MainKeeps DEF Inv, Types
<1>2. CASE Blocked # {}
  <2>1. PICK e \in Blocked : /\ main' = [main EXCEPT !.at = e + 1]
                             /\ IF IsBlocked(e) THEN UNCHANGED tasks ELSE Start(e, "SymlinkDependencyBinaries")
    BY <1>2
  <2>2. e \in Entries /\ step[e] = "Blocked" /\ e + 1 \in Nat
    BY Counts DEF Blocked
  <2>3. /\ main' \in Mains /\ main'.pc \in Inner /\ main'.next = main.next /\ main'.batch = main.batch
        /\ main'.nets = main.nets /\ main'.todo = main.todo
    BY <2>1, <2>2 DEF Inv, Types, Mains, Inner, Labels
  <2>4. CASE IsBlocked(e)
    BY <2>1, <2>3, <2>4, MainKeeps DEF Inv, Types
  <2>5. CASE ~IsBlocked(e)
    <3>1. place[e] # "queued" /\ ~Fresh(e) /\ ~Settled(e)
      BY <2>2 DEF Inv, Stages, Fresh, Settled
    <3>2. Taken(e, main')
      BY <2>2, <2>3, <3>1, Unlisted
    <3>3. QED BY <2>1, <2>2, <2>5, <3>1, <3>2, StartKeeps DEF Steps
  <2>6. QED BY <2>4, <2>5
<1>3. QED BY <1>1, <1>2

LEMMA VisitKeeps == ASSUME Inv, VisitStep PROVE Inv'
<1> USE DEF Visited, io
<1>1. ASSUME NEW e \in Entries, Visit(e)
      PROVE  /\ Fresh(e) /\ ~Settled(e) /\ e = main.next
             /\ Visited \in Mains /\ Visited.pc \in Inner /\ Visited.next = main.next + 1 /\ Visited.nets = main.nets
             /\ Visited.batch = main.batch /\ Visited.todo = main.todo
             /\ Narrower(queue, queue, e) /\ Narrower(main.batch, main.batch, e)
             /\ Narrower(main.todo, main.todo, e) /\ \A p \in Live : Narrower(waiters[p], waiters[p], e)
             /\ e < Visited.next /\ main.next <= Visited.next
  <2>1. e = main.next /\ main.next \in Nat
    BY <1>1, Counts DEF Visit, Inv, Types, Mains
  <2>2. Fresh(e) /\ ~Settled(e)
    BY <2>1 DEF Inv, Stages, Fresh, Settled
  <2>3. /\ Visited \in Mains /\ Visited.pc \in Inner /\ Visited.next = main.next + 1 /\ Visited.nets = main.nets
        /\ Visited.batch = main.batch /\ Visited.todo = main.todo
    <3>1. main \in Mains /\ main.next + 1 \in Nat
      BY <2>1 DEF Inv, Types
    <3>2. QED BY <1>1, <3>1 DEF Mains, Visit, Inner, Labels
  <2>4. QED BY <2>1, <2>2, <2>3, Elsewhere DEF Inv, Fresh
<1>2. ASSUME NEW e \in Entries, StartEntry(e) PROVE Inv'
  <2>1. /\ Visit(e) /\ main' = Visited /\ UNCHANGED <<queue, dl, waiters, pending>>
    BY <1>2 DEF StartEntry
  <2>2. PICK s \in Steps \ {"Blocked"} : Start(e, s)
    BY <1>2 DEF StartEntry, Steps
  <2>3. Taken(e, main')
    BY <1>1, <2>1 DEF Taken, Inv, Types
  <2>4. QED BY <1>1, <2>1, <2>2, <2>3, StartKeeps
<1>3. ASSUME NEW e \in Entries, SkipEntry(e) PROVE Inv'
  <2>1. Visit(e) /\ Settle(e, Visited) /\ UNCHANGED <<queue, dl, waiters>>
    BY <1>3 DEF SkipEntry
  <2>2. Taken(e, Visited)
    BY <1>1, <2>1 DEF Taken, Inv, Types
  <2>3. QED BY <1>1, <2>1, <2>2, SettleKeeps
<1>4. ASSUME NEW e \in Entries, EntryFails(e) PROVE Inv'
  <2>1. Visit(e) /\ Fail(e, Visited) /\ UNCHANGED <<queue, dl, waiters>>
    BY <1>4 DEF EntryFails
  <2>2. Taken(e, Visited)
    BY <1>1, <2>1 DEF Taken, Inv, Types
  <2>3. QED BY <1>1, <2>1, <2>2, FailKeeps
<1>5. ASSUME NEW e \in Entries, EnqueueDownload(e) PROVE Inv'
  <2> DEFINE p == Package[e]
  <2>1. /\ Visit(e) /\ p \in Packages /\ waiters' = [waiters EXCEPT ![p] = Append(@, e)]
        /\ UNCHANGED queue
    BY <1>5 DEF EnqueueDownload, Packages
  <2>2. /\ Append(waiters[p], e) \in Seq(Entries) /\ Append(waiters[p], e) # <<>>
        /\ waiters' \in [Packages -> Seq(Entries)]
        /\ \A q \in Packages : waiters[q] # <<>> => waiters'[q] # <<>>
    <3>1. waiters \in [Packages -> Seq(Entries)]
      BY DEF Inv, Types
    <3>2. Append(waiters[p], e) \in Seq(Entries) /\ Append(waiters[p], e) # <<>>
      BY <2>1, <3>1
    <3>3. QED BY <2>1, <3>1, <3>2
  <2>3. CASE waiters[p] = <<>> /\ p \in BadUrls
    <3>1. Fail(e, Visited) /\ UNCHANGED <<dl, queue>>
      BY <1>5, <2>3 DEF EnqueueDownload
    <3>2. \A q \in Live : waiters'[q] = waiters[q]
      BY <2>1, <2>3 DEF Live, Inv, Types
    <3>3. Taken(e, Visited)
      BY <1>1, <2>1, <2>2, <3>2 DEF Taken
    <3>4. QED BY <1>1, <2>1, <3>1, <3>2, <3>3, FailKeeps
  <2>4. CASE ~(waiters[p] = <<>> /\ p \in BadUrls)
    <3>1. main' = Visited /\ UNCHANGED tasks
      BY <1>5, <2>4 DEF EnqueueDownload
    <3>2. dl' \in [Packages -> [at : Stops, ok : BOOLEAN, tries : Nat]] /\ pending' \in Int
      <4>1. dl \in [Packages -> [at : Stops, ok : BOOLEAN, tries : Nat]] /\ pending \in Int
        BY DEF Inv, Types
      <4>2. CASE waiters[p] # <<>>
        BY <1>5, <4>1, <4>2 DEF EnqueueDownload
      <4>3. CASE waiters[p] = <<>>
        <5>1. Download(p, "network", TRUE) /\ pending' = pending + 1
          BY <1>5, <2>4, <4>3 DEF EnqueueDownload
        <5>2. QED BY <2>1, <4>1, <5>1 DEF Download, Stops
      <4>4. QED BY <4>2, <4>3
    <3>3. Types'
      BY <1>1, <2>1, <2>2, <3>1, <3>2 DEF Inv, Types, tasks
    <3>4. Stages'
      <4>1. main.next \in Nat /\ main'.next = main.next + 1 /\ \A f \in Entries : f \in Nat
        BY <1>1, <2>1, <3>1, Counts DEF Inv, Types, Mains
      <4>2. QED BY <3>1, <4>1 DEF Inv, Stages, Fresh, tasks
    <3>5. Lists'
      <4>1. main.next \in Nat /\ main'.next = main.next + 1 /\ \A f \in Entries : f \in Nat
        BY <1>1, <2>1, <3>1, Counts DEF Inv, Types, Mains
      <4>2. /\ Members(main.todo) \subseteq Entries
            /\ \A q \in Live : Members(waiters[q]) \subseteq Entries
        BY ListMembers DEF Inv, Types, Mains, Live
      <4>3. /\ main'.batch = main.batch /\ main'.todo = main.todo /\ Fresh(e) /\ e = main.next
            /\ \A f \in Entries : Fresh(f)' <=> Fresh(f)
            /\ \A f \in Entries : place'[f] = place[f]
        BY <1>1, <2>1, <3>1 DEF tasks, Fresh
      <4>4. (/\ Distinct(queue) /\ Distinct(main.batch) /\ Members(queue) \cap Members(main.batch) = {}
             /\ \A f \in Members(queue) \cup Members(main.batch) : place[f] = "queued"
             /\ Distinct(main.todo)
             /\ \A f \in Members(main.todo) : Fresh(f) /\ f < main.next)'
        BY <2>1, <3>1, <4>1, <4>2, <4>3 DEF Inv, Lists, tasks
      <4>5. ASSUME NEW q \in Live
            PROVE  /\ e \notin Members(waiters[q]) /\ e \notin Members(main.todo)
                   /\ q # p => waiters'[q] = waiters[q]
                   /\ q = p => /\ Distinct(waiters'[q])
                               /\ Members(waiters'[q]) = Members(waiters[q]) \cup {e}
        <5>1. e \notin Members(waiters[q]) /\ e \notin Members(main.todo)
          BY <1>1, <2>1 DEF Narrower
        <5>2. q # p => waiters'[q] = waiters[q]
          BY <2>1 DEF Inv, Types, Live
        <5>3. CASE q = p
          <6>1. waiters'[q] = Append(waiters[q], e) /\ waiters[q] \in Seq(Entries) /\ Distinct(waiters[q])
            BY <2>1, <5>3 DEF Inv, Types, Live, Lists
          <6>2. QED BY <5>1, <5>3, <6>1, AppendList
        <5>4. QED BY <5>1, <5>2, <5>3
      <4>6. ASSUME NEW q \in Live
            PROVE  (/\ Distinct(waiters[q]) /\ Members(waiters[q]) \cap Members(main.todo) = {}
                    /\ (\A f \in Members(waiters[q]) : Fresh(f) /\ f < main.next)
                    /\ \A r \in Live \ {q} : Members(waiters[q]) \cap Members(waiters[r]) = {})'
        <5>1. Distinct(waiters'[q]) /\ Members(waiters'[q]) \cap Members(main'.todo) = {}
          BY <4>3, <4>5 DEF Inv, Lists
        <5>2. \A f \in Members(waiters'[q]) : Fresh(f)' /\ f < main'.next
          BY <4>1, <4>2, <4>3, <4>5 DEF Inv, Lists
        <5>3. \A r \in Live \ {q} : Members(waiters'[q]) \cap Members(waiters'[r]) = {}
          BY <4>5 DEF Inv, Lists
        <5>4. QED BY <5>1, <5>2, <5>3
      <4>7. QED BY <4>4, <4>6 DEF Lists
    <3>6. \A f \in Entries : Settled(f)' <=> Settled(f)
      BY <3>1 DEF Settled, tasks
    <3>7. CASE waiters[p] # <<>>
      <4>1. UNCHANGED <<dl, pending>>
        BY <1>5, <3>7 DEF EnqueueDownload
      <4>2. Downloads'
        BY <1>1, <2>1, <2>2, <3>1, <4>1 DEF Inv, Downloads
      <4>3. PendingExact'
        BY <3>6, <4>1, EntryStays DEF Inv, InFlight
      <4>4. QED BY <3>3, <3>4, <3>5, <4>2, <4>3 DEF Inv
    <3>8. CASE waiters[p] = <<>>
      <4>1. p \notin BadUrls /\ pending' = pending + 1 /\ Download(p, "network", TRUE)
        BY <1>5, <2>4, <3>8 DEF EnqueueDownload
      <4>2. /\ \A q \in Packages \ {p} : dl'[q] = dl[q] /\ waiters'[q] = waiters[q]
            /\ dl'[p].at = "network" /\ waiters'[p] # <<>> /\ dl[p].at = "none"
        BY <2>1, <2>2, <3>8, <4>1 DEF Download, Inv, Types, Downloads
      <4>3. Downloads'
        <5>1. main'.nets = main.nets /\ main.nets \subseteq Packages /\ BadUrls \subseteq Packages
          BY <1>1, <2>1, <3>1, InstallAssumption DEF Inv, Types, Mains
        <5>2. QED BY <4>1, <4>2, <5>1 DEF Inv, Downloads
      <4>4. InFlight' = InFlight \cup {p} /\ p \notin InFlight /\ InFlight \in SUBSET Packages
        BY <2>1, <4>2 DEF InFlight
      <4>5. Cardinality(InFlight') = Cardinality(InFlight) + 1 /\ Cardinality(InFlight) \in Nat
        BY <4>4, Counts, FS_AddElement
      <4>6. Unsettled' = Unsettled /\ Cardinality(Unsettled) \in Nat
        BY <3>6, Counts DEF Unsettled
      <4>7. pending = Cardinality(Unsettled) + Cardinality(InFlight)
        BY DEF Inv, PendingExact, Unsettled
      <4>8. pending' = Cardinality(Unsettled') + Cardinality(InFlight')
        BY <4>1, <4>5, <4>6, <4>7
      <4>9. QED BY <3>3, <3>4, <3>5, <4>3, <4>8 DEF Inv, PendingExact, Unsettled
    <3>9. QED BY <3>7, <3>8
  <2>5. QED BY <2>3, <2>4
<1>6. ASSUME EntriesVisited PROVE Inv'
  <2>1. /\ main' \in Mains /\ main'.next = main.next /\ main'.batch = main.batch
        /\ main'.nets = main.nets /\ main'.todo = main.todo
    BY <1>6 DEF Inv, Types, Mains, Goto, EntriesVisited, Labels
  <2>2. QED BY <1>6, <2>1, MainKeeps DEF EntriesVisited, Inv, Types
<1>7. QED BY <1>2, <1>3, <1>4, <1>5, <1>6 DEF VisitStep

LEMMA ReturnedKeeps ==
  ASSUME Inv, NEW e \in Entries, TaskDone(e) \/ TaskFailed(e) \/ TaskBlocked(e) \/ SpawnScript(e) \/ SpawnFails(e)
  PROVE  Inv'
<1> USE DEF Drained, io
<1>1. PICK res \in Results : Returned(e, res)
  BY DEF TaskDone, TaskFailed, TaskBlocked, SpawnScript, SpawnFails, Results
<1>2. main \in Mains /\ main.batch \in Seq(Entries) /\ main.next \in Nat
  BY DEF Inv, Types, Mains
<1>3. /\ main.batch # <<>> /\ e = Head(main.batch)
      /\ Tail(main.batch) \in Seq(Entries) /\ Narrower(main.batch, Tail(main.batch), e)
      /\ place[e] = "queued" /\ ~Fresh(e) /\ ~Settled(e)
  BY <1>1, <1>2, TailList DEF Returned, Narrower, Inv, Lists, Fresh, Settled
<1>4. /\ Drained \in Mains /\ Drained.pc \in Inner /\ Drained.next = main.next
      /\ Drained.nets = main.nets /\ Drained.batch = Tail(main.batch) /\ Drained.todo = main.todo
  BY <1>1, <1>2, <1>3 DEF Mains, Returned, Inner, Labels
<1>5. /\ e < main.next /\ Narrower(queue, queue, e) /\ Narrower(main.todo, main.todo, e)
      /\ \A p \in Live : Narrower(waiters[p], waiters[p], e)
  <2>1. e < main.next
    BY <1>2, <1>3, Counts DEF Inv, Stages
  <2>2. Narrower(queue, queue, e)
    BY <1>1, <1>2, <1>3, TailList DEF Inv, Lists, Narrower
  <2>3. QED BY <1>3, <2>1, <2>2, Elsewhere DEF Inv
<1>6. ASSUME UNCHANGED <<queue, waiters>> PROVE Taken(e, Drained)
  BY <1>2, <1>3, <1>4, <1>5, <1>6 DEF Taken, Inv, Types
<1>7. CASE TaskDone(e)
  <2>1. Settle(e, Drained) /\ UNCHANGED <<queue, dl, waiters>>
    BY <1>7 DEF TaskDone
  <2>2. QED BY <1>3, <1>6, <2>1, SettleKeeps
<1>8. CASE TaskFailed(e)
  <2>1. Fail(e, Drained) /\ UNCHANGED <<queue, dl, waiters>>
    BY <1>8 DEF TaskFailed
  <2>2. QED BY <1>3, <1>6, <2>1, FailKeeps
<1>9. CASE SpawnFails(e)
  <2>1. (Fail(e, Drained) \/ Exit) /\ UNCHANGED <<queue, dl, waiters>>
    BY <1>9 DEF SpawnFails
  <2>2. QED BY <1>3, <1>6, <2>1, FailKeeps, ExitKeeps
<1>10. ASSUME NEW s \in Steps, NEW r \in Results, NEW l \in Places \ {"queued"},
              /\ step' = [step EXCEPT ![e] = s] /\ result' = [result EXCEPT ![e] = r]
              /\ place' = [place EXCEPT ![e] = l] /\ main' = Drained
              /\ s # "Done" \/ l # "main"
              /\ UNCHANGED <<queue, pending, dl, waiters>>
              /\ s = "Blocked" => l = "main" /\ r = "Blocked"
              /\ r = "Blocked" => l # "push"
       PROVE  Inv'
  <2>1. Types'
    BY <1>4, <1>10 DEF Inv, Types
  <2>2. /\ \A f \in Entries \ {e} : step'[f] = step[f] /\ result'[f] = result[f] /\ place'[f] = place[f]
        /\ step'[e] = s /\ result'[e] = r /\ place'[e] = l
    BY <1>10 DEF Inv, Types
  <2>3. Taken(e, Drained)
    BY <1>6, <1>10
  <2>4. Lists' /\ Stages'
    BY <1>10, <2>1, <2>2, <2>3, EntryMoves DEF Taken, Inv
  <2>5. Downloads'
    BY <1>4, <1>10 DEF Inv, Downloads
  <2>6. PendingExact'
    BY <1>3, <1>10, <2>2, EntryStays DEF Inv, Settled, InFlight
  <2>7. QED BY <2>1, <2>4, <2>5, <2>6 DEF Inv
<1>11. CASE TaskBlocked(e)
  <2>1. result[e] = "Blocked" /\ result' \in [Entries -> Results]
    BY <1>11 DEF TaskBlocked, Returned, Inv, Types, Start, Results
  <2>2. CASE IsBlocked(e)
    <3>1. result' = [result EXCEPT ![e] = "Blocked"]
      BY <1>11, <2>1, <2>2 DEF TaskBlocked, Inv, Types
    <3>2. QED BY <1>10, <1>11, <2>2, <3>1 DEF TaskBlocked, Steps, Results, Places
  <2>3. CASE ~IsBlocked(e)
    BY <1>10, <1>11, <2>3 DEF TaskBlocked, Start, Steps, Results, Places
  <2>4. QED BY <2>2, <2>3
<1>12. CASE SpawnScript(e)
  <2>1. result[e] = "RunScripts"
    BY <1>12 DEF SpawnScript, Returned
  <2>2. step[e] \in Steps \ {"Blocked"}
    BY <2>1 DEF Inv, Stages, Types
  <2>3. step' = [step EXCEPT ![e] = step[e]] /\ result' = [result EXCEPT ![e] = "RunScripts"]
    BY <1>12, <2>1 DEF SpawnScript, Inv, Types
  <2>4. QED BY <1>10, <1>12, <2>2, <2>3 DEF SpawnScript, Results, Places
<1>13. QED BY <1>7, <1>8, <1>9, <1>11, <1>12

LEMMA WaiterKeeps == ASSUME Inv, NEW e \in Entries, StartWaiter(e) \/ FailWaiter(e) PROVE Inv'
<1> USE DEF Served, io
<1>1. Waiter(e) /\ UNCHANGED <<queue, dl, waiters>>
  BY DEF StartWaiter, FailWaiter
<1>2. main \in Mains /\ main.todo \in Seq(Entries) /\ main.next \in Nat
  BY DEF Inv, Types, Mains
<1>3. /\ Tail(main.todo) \in Seq(Entries) /\ Narrower(main.todo, Tail(main.todo), e)
      /\ Fresh(e) /\ e < main.next /\ ~Settled(e)
      /\ \A p \in Live : e \notin Members(waiters[p])
  BY <1>1, <1>2, TailList DEF Waiter, Narrower, Inv, Lists, Fresh, Settled
<1>4. /\ Served \in Mains /\ Served.pc \in Inner /\ Served.next = main.next /\ Served.nets = main.nets
      /\ Served.batch = main.batch /\ Served.todo = Tail(main.todo)
  BY <1>1, <1>2, <1>3 DEF Mains, Waiter, Inner, Labels
<1>5. Narrower(queue, queue, e) /\ Narrower(main.batch, main.batch, e)
  BY <1>3, Elsewhere DEF Inv, Fresh
<1>6. \A p \in Live : Narrower(waiters[p], waiters[p], e)
  BY <1>3 DEF Narrower, Inv, Lists
<1>7. Taken(e, Served)
  BY <1>1, <1>2, <1>3, <1>4, <1>5, <1>6 DEF Taken, Inv, Types
<1>8. CASE StartWaiter(e)
  <2>1. Start(e, step[e]) /\ main' = Served /\ UNCHANGED <<queue, dl, pending>>
    BY <1>8 DEF StartWaiter
  <2>2. step[e] \in Steps \ {"Blocked"}
    BY <1>3 DEF Fresh, Steps
  <2>3. QED BY <1>3, <1>7, <2>1, <2>2, StartKeeps
<1>9. CASE FailWaiter(e)
  <2>1. Fail(e, Served)
    BY <1>9 DEF FailWaiter
  <2>2. QED BY <1>1, <1>3, <1>7, <2>1, FailKeeps
<1>10. QED BY <1>8, <1>9

\* The count follows a package that leaves the downloads under way.
LEMMA PackageLeaves ==
  ASSUME Inv, NEW p \in Packages, p \in InFlight, UNCHANGED tasks, pending' = pending - 1,
         dl' \in [Packages -> [at : Stops, ok : BOOLEAN, tries : Nat]],
         \A q \in Packages \ {p} : dl'[q] = dl[q], dl'[p].at \in {"none", "retry", "extract"}
  PROVE  PendingExact'
<1>1. InFlight' = InFlight \ {p} /\ InFlight \in SUBSET Packages
  BY DEF InFlight
<1>2. Cardinality(InFlight') = Cardinality(InFlight) - 1 /\ Cardinality(InFlight) \in Nat
  BY <1>1, Counts, FS_RemoveElement
<1>3. Unsettled' = Unsettled /\ Cardinality(Unsettled) \in Nat
  BY Counts DEF Unsettled, Settled, tasks
<1>4. pending = Cardinality(Unsettled) + Cardinality(InFlight)
  BY DEF Inv, PendingExact, Unsettled
<1>5. pending' = Cardinality(Unsettled') + Cardinality(InFlight')
  BY <1>2, <1>3, <1>4
<1>6. QED BY <1>5 DEF PendingExact, Unsettled

LEMMA HandKeeps ==
  ASSUME Inv, main.pc \in Inner, NEW p \in main.nets, NEW ok \in BOOLEAN, Download(p, "none", TRUE), Hand(p, ok, main),
         pending' = pending - 1, UNCHANGED <<tasks, queue>>
  PROVE  Inv'
<1>1. main \in Mains /\ p \in Packages /\ p \in Live /\ p \in InFlight
  BY InstallAssumption DEF Inv, Types, Mains, Downloads, Live, InFlight
<1>2. /\ waiters' = [waiters EXCEPT ![p] = <<>>] /\ waiters' \in [Packages -> Seq(Entries)]
      /\ waiters[p] \in Seq(Entries) /\ waiters'[p] = <<>>
      /\ \A q \in Packages \ {p} : waiters'[q] = waiters[q]
  BY <1>1 DEF Hand, Inv, Types
<1>3. /\ main' \in Mains /\ main'.next = main.next /\ main'.batch = main.batch
      /\ main'.nets = main.nets \ {p} /\ main'.todo = waiters[p]
  BY <1>1, <1>2 DEF Hand, Mains, Labels, Inner
<1>4. /\ dl' \in [Packages -> [at : Stops, ok : BOOLEAN, tries : Nat]]
      /\ \A q \in Packages \ {p} : dl'[q] = dl[q]
      /\ dl'[p].at = "none"
  BY <1>1 DEF Download, Inv, Types, Stops
<1>5. Types' /\ Stages'
  <2>1. Types'
    <3>1. UNCHANGED <<step, result, place, queue>> /\ pending' = pending - 1
      BY DEF tasks
    <3>2. /\ waiters' \in [Packages -> Seq(Entries)] /\ main' \in Mains
          /\ dl' \in [Packages -> [at : Stops, ok : BOOLEAN, tries : Nat]]
      BY <1>2, <1>3, <1>4
    <3>3. Types
      BY DEF Inv
    <3>4. QED BY <3>1, <3>2, <3>3 DEF Types
  <2>2. Stages'
    BY <1>3 DEF Inv, Stages, Fresh, tasks
  <2>3. QED BY <2>1, <2>2
<1>6. Lists'
  <2>1. /\ \A f \in Entries : (Fresh(f)' <=> Fresh(f)) /\ place'[f] = place[f]
        /\ \A q \in Live : Members(waiters[q]) \subseteq Entries
    BY ListMembers DEF Inv, Types, Live, Fresh, tasks
  <2>2. (/\ Distinct(queue) /\ Distinct(main.batch) /\ Members(queue) \cap Members(main.batch) = {}
         /\ \A e \in Members(queue) \cup Members(main.batch) : place[e] = "queued")'
    BY <1>3 DEF Inv, Lists, tasks
  <2>3. (/\ Distinct(main.todo)
         /\ \A e \in Members(main.todo) : Fresh(e) /\ e < main.next)'
    BY <1>1, <1>3, <2>1 DEF Inv, Lists
  <2>4. ASSUME NEW q \in Live
        PROVE  (/\ Distinct(waiters[q]) /\ Members(waiters[q]) \cap Members(main.todo) = {}
                /\ (\A e \in Members(waiters[q]) : Fresh(e) /\ e < main.next)
                /\ \A r \in Live \ {q} : Members(waiters[q]) \cap Members(waiters[r]) = {})'
    <3>1. \A r \in Live : waiters'[r] = IF r = p THEN <<>> ELSE waiters[r]
      BY <1>2 DEF Live
    <3>2. CASE q = p
      BY <3>1, <3>2, EmptyList
    <3>3. CASE q # p
      BY <1>1, <1>3, <2>1, <3>1, <3>3, EmptyList DEF Inv, Lists
    <3>4. QED BY <3>2, <3>3
  <2>5. QED BY <2>2, <2>3, <2>4 DEF Lists
<1>7. Downloads'
  <2>1. main.nets \subseteq Packages /\ BadUrls \subseteq Packages
    BY <1>1, InstallAssumption DEF Mains
  <2>2. \A q \in BadUrls : q # p
    BY DEF Inv, Downloads
  <2>3. QED BY ZenonT(60), <1>1, <1>2, <1>3, <1>4, <2>1, <2>2 DEF Inv, Downloads
<1>8. PendingExact'
  BY <1>1, <1>4, PackageLeaves
<1>9. QED BY <1>5, <1>6, <1>7, <1>8 DEF Inv

LEMMA NetworkKeeps == ASSUME Inv, NEW p \in Packages, Answer(p) \/ Extracted(p) PROVE Inv'
<1>1. main \in Mains /\ dl[p] \in [at : Stops, ok : BOOLEAN, tries : Nat]
  BY DEF Inv, Types
<1>2. CASE Extracted(p)
  BY <1>1, <1>2, HandKeeps DEF Extracted, Inner, Labels
<1>3. CASE Answer(p) /\ Download(p, "none", TRUE) /\ Hand(p, FALSE, main)
  BY <1>3, HandKeeps DEF Answer, Inner, Labels
<1>4. CASE Answer(p) /\ ~(Download(p, "none", TRUE) /\ Hand(p, FALSE, main))
  <2>1. /\ p \in main.nets /\ pending' = pending - 1 /\ main' = [main EXCEPT !.nets = @ \ {p}]
        /\ UNCHANGED <<tasks, queue, waiters>>
        /\ dl' = [dl EXCEPT ![p].at = IF dl[p].ok THEN "extract" ELSE "retry",
                            ![p].tries = IF dl[p].ok THEN @ ELSE @ + 1]
    BY <1>4 DEF Answer
  <2>2. /\ main' \in Mains /\ main'.next = main.next /\ main'.batch = main.batch
        /\ main'.nets = main.nets \ {p} /\ main'.todo = main.todo
    BY <1>1, <2>1 DEF Mains
  <2>3. /\ dl' \in [Packages -> [at : Stops, ok : BOOLEAN, tries : Nat]]
        /\ \A q \in Packages \ {p} : dl'[q] = dl[q]
        /\ dl'[p].at \in {"retry", "extract"}
    <3>1. dl \in [Packages -> [at : Stops, ok : BOOLEAN, tries : Nat]]
      BY DEF Inv, Types
    <3>2. CASE dl[p].ok
      BY ZenonT(60), <2>1, <3>1, <3>2 DEF Stops
    <3>3. CASE ~dl[p].ok
      BY <1>1, <2>1, <3>1, <3>3 DEF Stops
    <3>4. QED BY <3>2, <3>3
  <2>4. p \in InFlight /\ p \notin BadUrls
    <3>1. p \in main.nets
      BY <2>1
    <3>2. QED BY <3>1 DEF Inv, Downloads, InFlight
  <2>5. Types' /\ Lists' /\ Stages'
    <3>1. Types'
      BY <2>1, <2>2, <2>3 DEF Inv, Types, tasks
    <3>2. Lists' /\ Stages'
      BY <2>1, <2>2 DEF Inv, Lists, Stages, Fresh, tasks
    <3>3. QED BY <3>1, <3>2
  <2>6. Downloads'
    <3>1. main.nets \subseteq Packages /\ BadUrls \subseteq Packages /\ dl[p].at # "none"
      BY <1>1, <2>1, InstallAssumption DEF Mains, Inv, Downloads
    <3>2. QED BY <2>1, <2>2, <2>3, <2>4, <3>1 DEF Inv, Downloads
  <2>7. PendingExact'
    BY <2>1, <2>3, <2>4, PackageLeaves
  <2>8. QED BY <2>5, <2>6, <2>7 DEF Inv
<1>5. QED BY <1>2, <1>3, <1>4

LEMMA FlushKeeps == ASSUME Inv, Flush PROVE Inv'
<1> DEFINE again == {p \in Packages : dl[p].at \in {"retry", "extract"}}
<1>1. /\ main \in Mains /\ pending' = pending + Cardinality(again)
      /\ UNCHANGED <<tasks, queue, waiters>> /\ main.nets = {}
      /\ \E l \in Labels : main' = [main EXCEPT !.pc = l]
  BY DEF Flush, Goto, Inv, Types, Labels
<1>2. /\ main' \in Mains /\ main'.next = main.next /\ main'.batch = main.batch
      /\ main'.nets = {} /\ main'.todo = main.todo
  BY <1>1 DEF Mains
<1>3. /\ dl' \in [Packages -> [at : Stops, ok : BOOLEAN, tries : Nat]]
      /\ \A p \in Packages \ again : dl'[p] = dl[p]
      /\ \A p \in again : dl'[p].at \in {"network", "extracting"}
  BY DEF Flush, Inv, Types, Stops
<1>4. Cardinality(again) \in Nat
  BY Counts
<1>5. Types' /\ Lists' /\ Stages'
  <2>1. Types'
    BY <1>1, <1>2, <1>3, <1>4 DEF Inv, Types, tasks
  <2>2. Lists' /\ Stages'
    BY <1>1, <1>2 DEF Inv, Lists, Stages, Fresh, tasks
  <2>3. QED BY <2>1, <2>2
<1>6. Downloads'
  <2>1. /\ \A p \in Packages : dl'[p].at # "none" => dl[p].at # "none"
        /\ BadUrls \subseteq Packages
    BY <1>3, InstallAssumption
  <2>2. \A p \in BadUrls : dl'[p].at = "none"
    BY <2>1 DEF Inv, Downloads
  <2>3. QED BY <1>1, <1>2, <2>1, <2>2 DEF Inv, Downloads
<1>7. PendingExact'
  <2>1. InFlight' = InFlight \cup again /\ InFlight \cap again = {} /\ InFlight \in SUBSET Packages
    BY <1>3 DEF InFlight
  <2>2. IsFiniteSet(InFlight) /\ IsFiniteSet(again) /\ Cardinality(InFlight) \in Nat
    BY <2>1, Counts
  <2>3. Cardinality(InFlight \cap again) = 0
    BY <2>1, FS_EmptySet
  <2>4. Cardinality(InFlight') = Cardinality(InFlight) + Cardinality(again)
    <3>1. Cardinality(InFlight \cup again) =
            Cardinality(InFlight) + Cardinality(again) - Cardinality(InFlight \cap again)
      BY <2>2, FS_Union
    <3>2. QED BY <1>4, <2>1, <2>2, <2>3, <3>1
  <2>5. Unsettled' = Unsettled /\ Cardinality(Unsettled) \in Nat
    BY <1>1, Counts DEF Unsettled, Settled, tasks
  <2>6. pending = Cardinality(Unsettled) + Cardinality(InFlight)
    BY DEF Inv, PendingExact, Unsettled
  <2>7. pending' = Cardinality(Unsettled') + Cardinality(InFlight')
    BY <1>1, <1>4, <2>2, <2>4, <2>5, <2>6
  <2>8. QED BY <2>7 DEF PendingExact, Unsettled
<1>8. QED BY <1>5, <1>6, <1>7 DEF Inv

LEMMA PopKeeps == ASSUME Inv, PopBatch \/ PopAnswers \/ PopExtracted PROVE Inv'
<1> USE DEF io
<1>1. main \in Mains /\ queue \in Seq(Entries) /\ <<>> \in Seq(Entries)
  BY DEF Inv, Types
<1>2. CASE PopBatch
  <2>1. /\ main' \in Mains /\ main'.next = main.next /\ main'.batch = queue /\ queue' = <<>>
        /\ main'.nets = main.nets /\ main'.todo = main.todo
        /\ UNCHANGED <<tasks, pending, dl, waiters>>
    BY <1>1, <1>2 DEF PopBatch, Mains, Labels
  <2>2. Types' /\ Lists' /\ Stages' /\ Downloads'
    BY <1>1, <2>1, EmptyList DEF Inv, Types, Lists, Stages, Downloads, Fresh, tasks
  <2>3. PendingExact'
    BY <2>1, EntryStays DEF Inv, Settled, InFlight, tasks
  <2>4. QED BY <2>2, <2>3 DEF Inv
<1>3. CASE PopAnswers \/ PopExtracted
  <2>1. PICK l \in Labels, stop \in {"answered", "extracted"} :
          main' = [main EXCEPT !.pc = l, !.nets = {p \in Packages : dl[p].at = stop}]
    BY <1>3 DEF PopAnswers, PopExtracted, Labels
  <2>2. /\ main' \in Mains /\ main'.next = main.next /\ main'.batch = main.batch
        /\ main'.nets = {p \in Packages : dl[p].at = stop} /\ main'.todo = main.todo
    BY <1>1, <2>1 DEF Mains
  <2>3. UNCHANGED <<tasks, queue, pending, dl, waiters>>
    BY <1>3 DEF PopAnswers, PopExtracted
  <2>4. Types' /\ Lists' /\ Stages' /\ Downloads'
    BY <2>2, <2>3 DEF Inv, Types, Lists, Stages, Downloads, Fresh, tasks
  <2>5. PendingExact'
    BY <2>3, EntryStays DEF Inv, Settled, InFlight, tasks
  <2>6. QED BY <2>4, <2>5 DEF Inv
<1>4. QED BY <1>2, <1>3

LEMMA ScriptKeeps == ASSUME Inv, NEW e \in Entries, ScriptStep(e) PROVE Inv'
<1> USE DEF io
<1>1. Exited(e)
  BY DEF ScriptStep, PreinstallExits, ScriptExits, ScriptFails
<1>2. main \in Mains /\ main.pc \in Inner /\ place[e] # "queued" /\ ~Fresh(e) /\ ~Settled(e)
  BY <1>1 DEF Exited, Inv, Types, Fresh, Settled, Inner, Labels
<1>3. ASSUME UNCHANGED <<queue, waiters>> PROVE Taken(e, main)
  BY <1>2, <1>3, Unlisted
<1>4. CASE PreinstallExits(e)
  BY <1>2, <1>3, <1>4, StartKeeps DEF PreinstallExits, Steps
<1>5. CASE ScriptExits(e)
  <2>1. CASE script[e] < Scripts[e]
    BY <1>2, <1>5, <2>1, MainKeeps DEF ScriptExits, Inv, Types
  <2>2. CASE ~(script[e] < Scripts[e])
    BY <1>2, <1>3, <1>5, <2>2, SettleKeeps DEF ScriptExits
  <2>3. QED BY <2>1, <2>2
<1>6. CASE ScriptFails(e)
  BY <1>2, <1>3, <1>6, SettleKeeps, ExitKeeps DEF ScriptFails
<1>7. QED BY <1>4, <1>5, <1>6 DEF ScriptStep

LEMMA StepKeeps == Inv /\ [Next]_vars => Inv'
<1> SUFFICES ASSUME Inv, [Next]_vars PROVE Inv'
  OBVIOUS
<1>1. ASSUME WaitersServed \/ Tick PROVE Inv'
  <2>1. main \in Mains
    BY DEF Inv, Types
  <2>2. /\ main' \in Mains /\ main'.next = main.next /\ main'.batch = main.batch
        /\ main'.nets = main.nets /\ main'.todo = main.todo
    BY <1>1, <2>1 DEF WaitersServed, Tick, Goto, Mains, Labels, Inner
  <2>3. QED BY <1>1, <2>2, MainKeeps DEF WaitersServed, Tick, io, Inv, Types
<1>2. ASSUME DrainStep PROVE Inv'
  BY <1>1, <1>2, PopKeeps, FlushKeeps, NetworkKeeps, ReturnedKeeps, WaiterKeeps DEF DrainStep
<1>3. ASSUME MainStep PROVE Inv'
  BY <1>1, <1>2, <1>3, VisitKeeps, ResumeKeeps DEF MainStep
<1>4. ASSUME Wake \/ UNCHANGED vars PROVE Inv'
  BY <1>4, IdleKeeps DEF Wake, vars, tasks, io
<1>5. QED BY <1>3, <1>4, TaskKeeps, ScriptKeeps, DownloadKeeps DEF Next

LEMMA InvCorrect == Spec => []Inv
BY Initially, StepKeeps, PTL DEF Spec

(* The count of pending tasks is the number of entries that are not settled *)
(* plus the downloads and extractions under way, whatever fails or is       *)
(* retried: the install loop neither ends early nor waits for nothing.      *)
THEOREM CountIsExact == Spec => []PendingExact
<1>1. Inv => PendingExact
  BY DEF Inv
<1>2. QED BY <1>1, InvCorrect, PTL

(* What else a step of the main thread does: whose task it touches, and what *)
(* InstallPlan sees of it.                                                   *)

OneOwner ==
  main' # main => \A e \in Entries :
    /\ place[e] \in {"pool", "push"} => UNCHANGED <<step[e], result[e], place[e]>>
    /\ place'[e] = "pool" /\ place[e] # "pool" => result[e] \in {"None", "Blocked", "RunScripts"}

phases    == [e \in Entries |-> Phase(e)]
outcome   == CASE main.pc = "returned" -> "returned" [] main.pc = "exited" -> "aborted" [] OTHER -> "running"
PlanStep  == [Plan!Next]_<<phases, outcome>>

\* The step moves entry e at most, and the install goes on.
Moves(e) ==
  /\ Running /\ main'.pc \notin {"returned", "exited"}
  /\ \A f \in Entries \ {e} : step'[f] = step[f] /\ result'[f] = result[f] /\ place'[f] = place[f]

\* What e does then: it is settled, opens or stays in its phase.
Advances(e) ==
  \/ step'[e] = "Done"
  \/ Phase(e)' = Phase(e)
  \/ Phase(e) = "waiting" /\ Phase(e)' = "open" /\ ~IsBlocked(e)

LEMMA PlanMoves == ASSUME NEW e \in Entries, Moves(e), Advances(e) PROVE PlanStep
<1>1. outcome = "running" /\ outcome' = "running"
  BY DEF Moves, Running, outcome
<1>2. \A f \in Entries \ {e} : Phase(f)' = Phase(f)
  BY DEF Moves, Phase
<1>3. /\ phases' = [f \in Entries |-> Phase(f)'] /\ phases = [f \in Entries |-> Phase(f)]
      /\ phases' = [phases EXCEPT ![e] = Phase(e)']
  BY <1>2 DEF phases
<1>4. CASE Phase(e)' = Phase(e)
  <2>1. phases' = phases
    BY <1>2, <1>4 DEF phases
  <2>2. QED BY <1>1, <2>1 DEF PlanStep
<1>5. CASE step'[e] = "Done" /\ Phase(e)' # Phase(e)
  <2>1. Phase(e)' = "settled"
    BY <1>5 DEF Phase
  <2>2. Plan!Settle(e)
    BY <1>3, <1>5, <2>1 DEF Plan!Settle, phases
  <2>3. QED BY <1>1, <2>2 DEF PlanStep, Plan!Next, outcome
<1>6. CASE Phase(e) = "waiting" /\ Phase(e)' = "open" /\ ~IsBlocked(e)
  <2>1. Needs[e] \subseteq Entries
    BY InstallAssumption DEF Needs
  <2>2. \A d \in Needs[e] : phases[d] = "settled"
    BY <1>3, <1>6, <2>1 DEF IsBlocked, Phase
  <2>3. Plan!Open(e)
    BY <1>3, <1>6, <2>1, <2>2 DEF Plan!Open, phases
  <2>4. QED BY <1>1, <2>3 DEF PlanStep, Plan!Next, outcome
<1>7. QED BY <1>4, <1>5, <1>6 DEF Advances

LEMMA PlanIdles ==
  ASSUME UNCHANGED step, Running, main'.pc \notin {"returned", "exited"}
  PROVE  PlanStep
<1>1. outcome = "running" /\ outcome' = "running"
  BY DEF Running, outcome
<1>2. phases' = phases
  BY DEF phases, Phase
<1>3. QED BY <1>1, <1>2 DEF PlanStep

LEMMA OwnerMoves ==
  ASSUME NEW e \in Entries, Moves(e), place[e] \notin {"pool", "push"},
         place'[e] = "pool" => result[e] \in {"None", "Blocked", "RunScripts"}
  PROVE  OneOwner
BY DEF OneOwner, Moves

LEMMA OwnerIdles == ASSUME UNCHANGED tasks PROVE OneOwner
BY DEF OneOwner, tasks

LEMMA Exits == ASSUME Inv, Exit, Running PROVE OneOwner /\ PlanStep
<1>1. OneOwner
  BY OwnerIdles DEF Exit
<1>2. outcome = "running" /\ outcome' = "aborted" /\ phases' = phases
  BY DEF Exit, Goto, Running, outcome, phases, Phase, tasks, Inv, Types, Mains
<1>3. Plan!Abort
  BY <1>2 DEF Plan!Abort, outcome
<1>4. QED BY <1>1, <1>2, <1>3 DEF PlanStep, Plan!Next, outcome, phases

LEMMA Settles ==
  ASSUME Inv, Running, NEW e \in Entries, NEW m \in Mains, Settle(e, m), place[e] \notin {"pool", "push"}
  PROVE  OneOwner /\ PlanStep
<1>1. Moves(e) /\ step'[e] = "Done" /\ place'[e] = "main"
  BY DEF Settle, Moves, Inv, Types, Mains
<1>2. QED BY <1>1, OwnerMoves, PlanMoves DEF Advances

LEMMA Fails ==
  ASSUME Inv, Running, NEW e \in Entries, NEW m \in Mains, Fail(e, m), place[e] \notin {"pool", "push"}
  PROVE  OneOwner /\ PlanStep
BY Exits, Settles DEF Fail

LEMMA Starts ==
  ASSUME Inv, Running, main'.pc = main.pc, NEW e \in Entries, NEW s, Start(e, s), place[e] \notin {"pool", "push"},
         result[e] \in {"None", "Blocked", "RunScripts"},
         step'[e] = s => Advances(e)
  PROVE  OneOwner /\ PlanStep
<1>1. Moves(e) /\ step'[e] = s
  BY DEF Start, Moves, Running, Inv, Types
<1>2. QED BY <1>1, OwnerMoves, PlanMoves

\* The install returns when the count is zero, and then every entry is settled.
LEMMA Returns ==
  ASSUME Inv, PendingExact', pending' = 0, UNCHANGED tasks, Running, main'.pc = "returned"
  PROVE  PlanStep
<1>1. Cardinality(Unsettled') \in Nat /\ Cardinality(InFlight') \in Nat
  <2>1. Unsettled' \in SUBSET Entries /\ InFlight' \in SUBSET Packages
    BY DEF Unsettled, InFlight
  <2>2. QED BY <2>1, Counts
<1>2. Cardinality(Unsettled') = 0
  BY <1>1 DEF PendingExact, Unsettled
<1>3. Unsettled' = {}
  <2>1. Unsettled' \in SUBSET Entries
    BY DEF Unsettled
  <2>2. QED BY <1>2, <2>1, Counts, FS_EmptySet
<1>4. \A e \in Entries : step[e] = "Done"
  BY <1>3 DEF Unsettled, Settled, tasks
<1>5. phases' = phases /\ \A e \in Entries : phases[e] = "settled"
  BY <1>4 DEF phases, Phase, tasks
<1>6. outcome = "running" /\ outcome' = "returned"
  BY DEF outcome, Running
<1>7. Plan!Return
  BY <1>5, <1>6 DEF Plan!Return, phases, outcome
<1>8. QED BY <1>5, <1>6, <1>7 DEF PlanStep, Plan!Next, phases, outcome

LEMMA TaskActs == ASSUME Inv, NEW e \in Entries, TaskStep(e) PROVE OneOwner /\ PlanStep
<1> USE DEF Inv, Types
<1>1. main' = main /\ Running
  BY DEF TaskStep, LinkPackage, SymlinkDependencies, CheckIfBlocked, SymlinkDependencyBinaries, RunPreinstall,
         Binaries, RunPostInstallAndPrePostPrepare, RunScripts, StepFails, Finish, Push, Step, Yield
<1>2. OneOwner
  BY <1>1 DEF OneOwner
<1>3. ASSUME Push(e) \/ RunScripts(e) \/ Finish(e) \/ (CheckIfBlocked(e) /\ IsBlocked(e)) PROVE PlanStep
  <2>1. UNCHANGED step
    BY <1>3 DEF Push, RunScripts, Finish, CheckIfBlocked
  <2>2. QED BY <1>1, <2>1, PlanIdles DEF Running
<1>4. ASSUME StepFails(e) PROVE PlanStep
  <2>1. Moves(e) /\ step'[e] = "Done"
    BY <1>1, <1>4 DEF StepFails, Yield, Moves, Running
  <2>2. QED BY <2>1, PlanMoves DEF Advances
<1>5. ASSUME CheckIfBlocked(e), ~IsBlocked(e) PROVE PlanStep
  <2>1. Moves(e) /\ step[e] = "CheckIfBlocked" /\ step'[e] = "SymlinkDependencyBinaries"
    BY <1>1, <1>5 DEF CheckIfBlocked, Moves, Running
  <2>2. Phase(e) = "waiting" /\ Phase(e)' = "open"
    BY <2>1 DEF Phase
  <2>3. QED BY <1>5, <2>1, <2>2, PlanMoves DEF Advances
<1>6. ASSUME NEW from, NEW to, Step(e, from, to),
             \/ from \in {"LinkPackage", "SymlinkDependencies"} /\ to \in {"SymlinkDependencies", "CheckIfBlocked"}
             \/ /\ from \in {"SymlinkDependencyBinaries", "RunPreinstall", "Binaries"}
                /\ to \in {"RunPreinstall", "Binaries", "RunPostInstallAndPrePostPrepare"}
             \/ to = "Done"
      PROVE  PlanStep
  <2>1. Moves(e) /\ step[e] = from /\ step'[e] = to
    BY <1>1, <1>6 DEF Step, Moves, Running
  <2>2. to # "Done" => Phase(e)' = Phase(e)
    BY <1>6, <2>1 DEF Phase
  <2>3. QED BY <2>1, <2>2, PlanMoves DEF Advances
<1>7. QED
  BY <1>2, <1>3, <1>4, <1>5, <1>6
     DEF TaskStep, LinkPackage, SymlinkDependencies, SymlinkDependencyBinaries, RunPreinstall,
         Binaries, RunPostInstallAndPrePostPrepare

LEMMA VisitActs == ASSUME Inv, VisitStep PROVE OneOwner /\ PlanStep
<1>1. Running /\ main.pc = "entry" /\ main \in Mains
  BY DEF VisitStep, EntriesVisited, StartEntry, SkipEntry, EntryFails, EnqueueDownload, Visit, Running, Inv, Types
<1>2. ASSUME NEW e \in Entries, Visit(e) PROVE Fresh(e) /\ Visited \in Mains /\ Visited.pc = main.pc
  <2>1. e = main.next /\ main.next + 1 \in Nat
    BY <1>1, <1>2, Counts DEF Visit
  <2>2. Visited \in Mains /\ Visited.pc = main.pc
    BY <1>1, <2>1 DEF Visited, Mains
  <2>3. QED BY <2>1, <2>2, Counts DEF Inv, Stages
<1>3. ASSUME NEW e \in Entries, StartEntry(e) PROVE OneOwner /\ PlanStep
  <2>1. Visit(e) /\ main' = Visited
    BY <1>3 DEF StartEntry
  <2>2. PICK s \in {"SymlinkDependencies", "LinkPackage"} : Start(e, s)
    BY <1>3 DEF StartEntry
  <2>3. Fresh(e) /\ main'.pc = main.pc
    BY <1>2, <2>1
  <2>4. step'[e] = s => Advances(e)
    BY <2>3 DEF Advances, Phase, Fresh
  <2>5. QED BY <1>1, <2>2, <2>3, <2>4, Starts DEF Fresh
<1>4. ASSUME NEW e \in Entries, SkipEntry(e) \/ EntryFails(e) PROVE OneOwner /\ PlanStep
  <2>1. Visit(e) /\ (Settle(e, Visited) \/ Fail(e, Visited))
    BY <1>4 DEF SkipEntry, EntryFails
  <2>2. QED BY <1>1, <1>2, <2>1, Settles, Fails DEF Fresh
<1>5. ASSUME NEW e \in Entries, EnqueueDownload(e) PROVE OneOwner /\ PlanStep
  <2>1. Visit(e) /\ (Fail(e, Visited) \/ (main' = Visited /\ UNCHANGED tasks))
    BY <1>5 DEF EnqueueDownload
  <2>2. CASE Fail(e, Visited)
    BY <1>1, <1>2, <2>1, <2>2, Fails DEF Fresh
  <2>3. CASE main' = Visited /\ UNCHANGED tasks
    BY <1>1, <1>2, <2>1, <2>3, OwnerIdles, PlanIdles DEF tasks
  <2>4. QED BY <2>1, <2>2, <2>3
<1>6. ASSUME EntriesVisited PROVE OneOwner /\ PlanStep
  <2>1. UNCHANGED <<tasks, pending, dl>> /\ main'.pc = IF pending > 0 THEN "tick" ELSE "returned"
    BY <1>1, <1>6 DEF EntriesVisited, Goto, Mains, io
  <2>2. CASE pending > 0
    BY <1>1, <2>1, <2>2, OwnerIdles, PlanIdles DEF tasks
  <2>3. CASE ~(pending > 0)
    <3>1. pending = 0
      <4>1. Cardinality(Unsettled) \in Nat /\ Cardinality(InFlight) \in Nat
        <5>1. Unsettled \in SUBSET Entries /\ InFlight \in SUBSET Packages
          BY DEF Unsettled, InFlight
        <5>2. QED BY <5>1, Counts
      <4>2. QED BY <2>3, <4>1 DEF Inv, PendingExact, Unsettled
    <3>2. PendingExact'
      BY <2>1, EntryStays DEF Inv, Settled, InFlight, tasks
    <3>3. QED BY <1>1, <2>1, <2>3, <3>1, <3>2, OwnerIdles, Returns
  <2>4. QED BY <2>2, <2>3
<1>7. QED BY <1>3, <1>4, <1>5, <1>6 DEF VisitStep

LEMMA ReturnedActs ==
  ASSUME Inv, NEW e \in Entries, TaskDone(e) \/ TaskFailed(e) \/ TaskBlocked(e) \/ SpawnScript(e) \/ SpawnFails(e)
  PROVE  OneOwner /\ PlanStep
<1>1. PICK res \in Results : Returned(e, res)
  BY DEF TaskDone, TaskFailed, TaskBlocked, SpawnScript, SpawnFails, Results
<1>2. main \in Mains /\ main.batch \in Seq(Entries) /\ Running
  BY <1>1 DEF Inv, Types, Mains, Returned, Running
<1>3. place[e] = "queued" /\ Tail(main.batch) \in Seq(Entries)
  BY <1>1, <1>2, TailList DEF Returned, Inv, Lists
<1>4. Drained \in Mains /\ Drained.pc = main.pc
  BY <1>2, <1>3 DEF Drained, Mains
<1>5. CASE TaskDone(e) \/ TaskFailed(e) \/ SpawnFails(e)
  <2>1. Settle(e, Drained) \/ Fail(e, Drained) \/ Exit
    BY <1>5 DEF TaskDone, TaskFailed, SpawnFails
  <2>2. QED BY <1>2, <1>3, <1>4, <2>1, Settles, Fails, Exits
<1>6. CASE SpawnScript(e)
  <2>1. Moves(e) /\ place'[e] = "script" /\ step' = step
    BY <1>2, <1>4, <1>6 DEF SpawnScript, Moves, Running, Inv, Types
  <2>2. QED BY <1>2, <1>3, <2>1, OwnerMoves, PlanIdles DEF Moves
<1>7. CASE TaskBlocked(e)
  <2>1. step[e] = "CheckIfBlocked" /\ result[e] = "Blocked" /\ main' = Drained
    BY <1>3, <1>7 DEF TaskBlocked, Returned, Inv, Stages
  <2>2. CASE IsBlocked(e)
    <3>1. Moves(e) /\ place'[e] = "main" /\ step'[e] = "Blocked"
      BY <1>2, <1>4, <1>7, <2>2 DEF TaskBlocked, Moves, Running, Inv, Types
    <3>2. Advances(e)
      BY <2>1, <3>1 DEF Advances, Phase
    <3>3. QED BY <1>3, <3>1, <3>2, OwnerMoves, PlanMoves
  <2>3. CASE ~IsBlocked(e)
    <3>1. Start(e, "SymlinkDependencyBinaries")
      BY <1>7, <2>3 DEF TaskBlocked
    <3>2. step'[e] = "SymlinkDependencyBinaries" => Advances(e)
      BY <2>1, <2>3 DEF Advances, Phase
    <3>3. QED BY <1>2, <1>3, <1>4, <2>1, <3>1, <3>2, Starts
  <2>4. QED BY <2>2, <2>3
<1>8. QED BY <1>5, <1>6, <1>7

LEMMA WaiterActs == ASSUME Inv, NEW e \in Entries, StartWaiter(e) \/ FailWaiter(e) PROVE OneOwner /\ PlanStep
<1>1. Waiter(e) /\ main \in Mains /\ main.todo \in Seq(Entries) /\ Running
  BY DEF StartWaiter, FailWaiter, Waiter, Running, Inv, Types, Mains
<1>2. Tail(main.todo) \in Seq(Entries) /\ Fresh(e)
  BY <1>1, TailList DEF Waiter, Inv, Lists
<1>3. Served \in Mains /\ Served.pc = main.pc
  BY <1>1, <1>2 DEF Served, Mains
<1>4. CASE StartWaiter(e)
  <2>1. Start(e, step[e]) /\ main' = Served
    BY <1>4 DEF StartWaiter
  <2>2. step'[e] = step[e] => Advances(e)
    BY DEF Advances, Phase
  <2>3. QED BY <1>1, <1>2, <1>3, <2>1, <2>2, Starts DEF Fresh
<1>5. CASE FailWaiter(e)
  BY <1>1, <1>2, <1>3, <1>5, Fails DEF FailWaiter, Fresh
<1>6. QED BY <1>4, <1>5

LEMMA ResumeActs == ASSUME Inv, Resume PROVE OneOwner /\ PlanStep
<1>1. main.pc = "resume" /\ main \in Mains /\ Running
  BY DEF Resume, Running, Inv, Types
<1>2. CASE Blocked = {}
  <2>1. UNCHANGED tasks /\ main'.pc = main.ret /\ main.ret \in Inner
    BY <1>1, <1>2 DEF Resume, Goto, Mains
  <2>2. QED BY <1>1, <2>1, OwnerIdles, PlanIdles DEF tasks, Inner
<1>3. CASE Blocked # {}
  <2>1. PICK e \in Blocked : /\ main' = [main EXCEPT !.at = e + 1]
                             /\ IF IsBlocked(e) THEN UNCHANGED tasks ELSE Start(e, "SymlinkDependencyBinaries")
    BY <1>3 DEF Resume
  <2>2. e \in Entries /\ step[e] = "Blocked" /\ main'.pc = main.pc
    BY <1>1, <2>1 DEF Blocked, Mains
  <2>3. place[e] = "main" /\ result[e] = "Blocked"
    BY <2>2 DEF Inv, Stages
  <2>4. CASE IsBlocked(e)
    BY <1>1, <2>1, <2>2, <2>4, OwnerIdles, PlanIdles DEF tasks
  <2>5. CASE ~IsBlocked(e)
    <3>1. step'[e] = "SymlinkDependencyBinaries" => Advances(e)
      BY <2>2, <2>5 DEF Advances, Phase
    <3>2. QED BY <1>1, <2>1, <2>2, <2>3, <2>5, <3>1, Starts
  <2>6. QED BY <2>4, <2>5
<1>4. QED BY <1>2, <1>3

LEMMA ScriptActs == ASSUME Inv, NEW e \in Entries, ScriptStep(e) PROVE OneOwner /\ PlanStep
<1>1. place[e] = "script" /\ main \in Mains /\ main.pc = "sleep" /\ Running
  BY DEF ScriptStep, PreinstallExits, ScriptExits, ScriptFails, Exited, Running, Inv, Types
<1>2. CASE PreinstallExits(e)
  <2>1. step[e] = "RunPreinstall" /\ main' = main /\ Moves(e) /\ step'[e] = "Binaries"
    BY <1>1, <1>2 DEF PreinstallExits, Exited, Start, Moves, Running, Inv, Types
  <2>2. Advances(e)
    BY <2>1 DEF Advances, Phase
  <2>3. QED BY <2>1, <2>2, PlanMoves DEF OneOwner
<1>3. CASE ScriptExits(e) \/ ScriptFails(e)
  <2>1. Settle(e, main) \/ Exit \/ (UNCHANGED tasks /\ main' = main)
    BY <1>3 DEF ScriptExits, ScriptFails
  <2>2. QED BY <1>1, <2>1, Settles, Exits, OwnerIdles, PlanIdles DEF tasks
<1>4. QED BY <1>2, <1>3 DEF ScriptStep

LEMMA StepActs == Inv /\ [Next]_vars => [OneOwner]_vars /\ PlanStep
<1> SUFFICES ASSUME Inv, [Next]_vars PROVE [OneOwner]_vars /\ PlanStep
  OBVIOUS
<1>1. main \in Mains /\ Inv'
  BY StepKeeps DEF Inv, Types
<1>2. CASE UNCHANGED vars
  BY <1>2 DEF vars, PlanStep, phases, outcome, Phase
<1>3. ASSUME Wake \/ \E p \in Packages : DownloadStep(p) PROVE OneOwner /\ PlanStep
  <2>1. Running /\ UNCHANGED tasks /\ main' = main
    BY <1>3 DEF Wake, DownloadStep, Respond, Extract
  <2>2. QED BY <2>1, OwnerIdles, PlanIdles DEF tasks, Running
<1>4. ASSUME \/ PopBatch \/ PopAnswers \/ PopExtracted \/ WaitersServed \/ Tick
             \/ \E p \in Packages : Answer(p) \/ Extracted(p)
      PROVE  OneOwner /\ PlanStep
  <2>1. UNCHANGED tasks
    BY <1>4 DEF PopBatch, PopAnswers, PopExtracted, WaitersServed, Tick, Answer, Extracted
  <2>2. Running
    BY <1>4 DEF PopBatch, PopAnswers, PopExtracted, WaitersServed, Tick, Answer, Extracted, Running
  <2>3. main'.pc \in Inner
    <3>1. CASE PopBatch \/ PopAnswers \/ PopExtracted \/ Tick
      BY <1>1, <3>1 DEF PopBatch, PopAnswers, PopExtracted, Tick, Goto, Mains, Inner, Labels
    <3>2. CASE WaitersServed
      BY <1>1, <3>2 DEF WaitersServed, Goto, Mains
    <3>3. ASSUME NEW p \in Packages, Answer(p) \/ Extracted(p) PROVE main'.pc \in Inner
      BY ZenonT(60), <1>1, <3>3 DEF Answer, Extracted, Hand, Mains, Inner, Labels
    <3>4. QED BY <1>4, <3>1, <3>2, <3>3
  <2>4. QED BY <2>1, <2>2, <2>3, OwnerIdles, PlanIdles DEF tasks, Inner
<1>5. ASSUME Flush PROVE OneOwner /\ PlanStep
  <2>1. UNCHANGED tasks /\ Running /\ main'.pc = IF pending' = 0 THEN "returned" ELSE "sleep"
    BY <1>1, <1>5 DEF Flush, Goto, Running, Mains
  <2>2. QED BY <1>1, <2>1, OwnerIdles, PlanIdles, Returns DEF tasks, Inv
<1>6. ASSUME DrainStep PROVE OneOwner /\ PlanStep
  BY <1>4, <1>5, <1>6, ReturnedActs, WaiterActs DEF DrainStep
<1>7. ASSUME MainStep PROVE OneOwner /\ PlanStep
  BY <1>4, <1>6, <1>7, VisitActs, ResumeActs DEF MainStep
<1>8. QED BY <1>2, <1>3, <1>7, TaskActs, ScriptActs DEF Next

(* The task of an entry and the main thread never write its step at the     *)
(* same time, and the main thread only starts a task that waits to be       *)
(* started: it can leave out the synchronisation the code leaves out.       *)
THEOREM OwnersAlternate == Spec => TasksHaveOneOwner
<1>1. Inv /\ [Next]_vars => [OneOwner]_vars
  BY StepActs
<1>2. QED BY <1>1, InvCorrect, PTL DEF Spec, TasksHaveOneOwner, OneOwner

(* The installer implements InstallPlan: dependencies first, Done for good, *)
(* and no return before every entry is done.                                *)
THEOREM Refinement == Spec => ImplementsPlan
<1>1. Init => Plan!Init
  BY DEF Init, Plan!Init, Phase
<1>2. Inv /\ [Next]_vars => PlanStep
  BY StepActs
<1>3. QED
  BY <1>1, <1>2, InvCorrect, PTL DEF Spec, ImplementsPlan, Plan!Spec, PlanStep, phases, outcome

=============================================================================
