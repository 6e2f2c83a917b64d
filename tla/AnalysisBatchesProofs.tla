----------------------- MODULE AnalysisBatchesProofs -----------------------
(***************************************************************************)
(* Proofs about AnalysisBatches, for batches, pages and games without      *)
(* bound and for every setting of its switches.                            *)
(*                                                                         *)
(* The properties rest on one inductive invariant, Inv.  Each variable has *)
(* a lemma that says what a step does to it (ItemsStep, GamesStep,         *)
(* StatusStep, MailStep, PagesStep, CancellerStep); the parts of Inv       *)
(* follow from these, not from the actions.                                *)
(***************************************************************************)
EXTENDS AnalysisBatches, TLAPS, FiniteSetTheorems, SequenceTheorems,
        WellFoundedInduction

\* What a page knows of itself: the message it works for, that its loop has an
\* item, and that a continuation has one to begin with.
PageOK(p) ==
  /\ page[p].pc # "idle" => page[p].key \in Keys
  /\ page[p].pc \in {"enqueue", "fail"} => page[p].todo # {}
  /\ page[p].pc = "continue" => page[p].next \in Items

\* Once its first transaction cancelled what was left to plan, nothing is left;
\* once it refreshed the batch, the batch waits for runs or has ended.
CancellerOK ==
  /\ canceller.pc # "idle" => canceller.key \in Keys /\ Remaining = {}
  /\ canceller.pc = "drop" => status \in Terminal \cup {"QUEUED"}

\* The job of a game and its last run: while the job is active so is the run,
\* and no run is active behind its job but for the reasons that it records.
GameOK(i) ==
  LET last == runs[i][Len(runs[i])]
  IN  /\ job[i].status # "ABSENT" => runs[i] # <<>>
      /\ job[i].ahead => job[i].status = "RUNNING"
      /\ HasActive(i) => last.status \in Active
      /\ job[i].status = "QUEUED" => last.status = "QUEUED" \/ last.left # "no"
      /\ \A n \in 1..Len(runs[i]) : Left(i, n) => runs[i][n].left # "no"

\* Of a batch that has ended, no linked run is one that a job still works on.
SettledOK ==
  status \in Terminal =>
    \A i \in Items : item[i].status \in Linked =>
      item[i].run < Len(runs[i]) \/ ~HasActive(i)

\* A linked item names a run.
LinksOK == \A i \in Items : item[i].status \in Linked => item[i].run # 0

\* Before its creation nothing of a batch exists.
AbsentOK ==
  status = "ABSENT" =>
    /\ \A i \in Items : item[i].status = "ABSENT"
    /\ \A k \in Keys : mail[k] = "none" /\ queue[k] = "unsent"
    /\ \A p \in Pages : page[p].pc = "idle"
    /\ canceller.pc = "idle"

Inv == /\ TypeOK /\ RunsMatchItems /\ EndIsTrue /\ GivenUpIsTold
       /\ \A p \in Pages : PageOK(p)
       /\ \A i \in Items : GameOK(i)
       /\ CancellerOK /\ LinksOK /\ AbsentOK /\ SettledOK

USE DEF games

-----------------------------------------------------------------------------
(* The operators of the model.                                             *)

\* The first of some items is one of them.
LEMMA FirstIn ==
  ASSUME NEW S \in SUBSET Items, S # {}
  PROVE  First(S) \in S
<1>1. \E i \in S : \A j \in S : ~(<<j, i>> \in OpToRel(<, Nat))
  <2>1. S \subseteq Nat
    BY DEF Items
  <2> QED BY <2>1, NatLessThanWellFounded, WFMin
<1>2. PICK i \in S : \A j \in S : ~(<<j, i>> \in OpToRel(<, Nat))
  BY <1>1
<1>3. \A j \in S : j \in Nat /\ i \in Nat
  BY DEF Items
<1>4. \A j \in S : ~(j < i)
  BY <1>2, <1>3, Zenon DEF OpToRel
<1>5. \A j \in S : i <= j
  BY <1>3, <1>4
<1> QED BY <1>5, Zenon DEF First

\* There are finitely many keys, so that the plans can be counted.
LEMMA PlansAreCounted == Cardinality(Plans) \in Nat
<1> DEFINE Following == {"next"} \X Items \X {0}
           Places == Items \X (0..MaxPlans)
           Recovering == {"recovery"} \X Items \X (0..MaxPlans)
           next == [i \in Items |-> <<"next", i, 0>>]
           recovery == [x \in Places |-> <<"recovery", x[1], x[2]>>]
<1>1. IsFiniteSet(Items) /\ IsFiniteSet(0..MaxPlans)
  BY FS_Interval, BatchAssumption DEF Items
<1>2. IsFiniteSet({<<"initial", 0, 0>>})
  BY FS_Singleton
<1>3. IsFiniteSet(Following)
  <2>1. next \in Surjection(Items, Following)
    BY DEF Surjection
  <2> QED BY <1>1, <2>1, FS_Surjection
<1>4. IsFiniteSet(Recovering)
  <2>1. recovery \in Surjection(Places, Recovering)
    <3>1. recovery \in [Places -> Recovering]
      OBVIOUS
    <3>2. ASSUME NEW k \in Recovering
          PROVE  \E x \in Places : recovery[x] = k
      <4>1. PICK i \in Items, n \in 0..MaxPlans : k = <<"recovery", i, n>>
        OBVIOUS
      <4>2. <<i, n>> \in Places /\ recovery[<<i, n>>] = k
        BY <4>1
      <4> QED BY <4>2
    <3> HIDE DEF recovery
    <3> QED BY <3>1, <3>2 DEF Surjection
  <2>2. IsFiniteSet(Places)
    BY <1>1, FS_Product
  <2> QED BY <2>1, <2>2, FS_Surjection
<1>5. IsFiniteSet(Keys)
  BY <1>2, <1>3, <1>4, FS_Union DEF Keys
<1> QED BY <1>5, FS_Subset, FS_CardinalityType DEF Plans

\* A fresh item is an item, and so is one that names a run.
LEMMA FreshTypes ==
  ASSUME NEW state \in {"ABSENT", "PENDING", "SKIPPED", "FAILED", "CANCELLED",
                        "QUEUED", "ATTACHED"}
  PROVE  /\ Fresh(state) \in Item
         /\ Fresh(state).status = state /\ Fresh(state).token = None
         /\ Fresh(state).run = 0
         /\ \A n \in 0..MaxRuns :
              LET linked == [Fresh(state) EXCEPT !.run = n]
              IN  /\ linked \in Item
                  /\ linked.status = state /\ linked.token = None /\ linked.run = n
<1>1. MaxRuns \in Nat /\ 0 \in 0..MaxRuns
  BY BatchAssumption
<1>2. Fresh(state) \in Item
  BY <1>1, Zenon DEF Fresh, Item, Linked
<1>3. ASSUME NEW n \in 0..MaxRuns
      PROVE  [Fresh(state) EXCEPT !.run = n] \in Item
  BY <1>2, <1>3 DEF Item
<1> QED BY <1>2, <1>3 DEF Fresh

\* A game's last run takes another state: the others stay, and so does whose
\* run it is.
Moved(s, t) ==
  /\ Len(t) = Len(s)
  /\ \A n \in 1..Len(s) : t[n].ours = s[n].ours
  /\ \A n \in 1..Len(s) : n # Len(s) => t[n] = s[n]

LEMMA MovedRuns ==
  ASSUME NEW s \in Seq(Run), s # <<>>, NEW r \in Run, r.ours = s[Len(s)].ours
  PROVE  /\ [s EXCEPT ![Len(s)] = r] \in Seq(Run)
         /\ Moved(s, [s EXCEPT ![Len(s)] = r])
         /\ [s EXCEPT ![Len(s)] = r][Len(s)] = r
<1>1. Len(s) \in 1..Len(s)
  BY EmptySeq
<1>2. /\ [s EXCEPT ![Len(s)] = r] \in Seq(Run)
      /\ Len([s EXCEPT ![Len(s)] = r]) = Len(s)
      /\ \A j \in 1..Len(s) : [s EXCEPT ![Len(s)] = r][j] = IF j = Len(s) THEN r ELSE s[j]
  BY <1>1, ExceptSeq
<1> QED BY <1>1, <1>2 DEF Moved

\* One of a game's runs is put back to RUNNING by an invocation that is late.
Late(s, t) ==
  /\ Len(t) = Len(s)
  /\ \A n \in 1..Len(s) :
       /\ t[n].ours = s[n].ours
       /\ t[n] = s[n] \/ (t[n].status = "RUNNING" /\ t[n].left = "late")

LEMMA LateRuns ==
  ASSUME NEW s \in Seq(Run), NEW n \in 1..Len(s)
  PROVE  LET t == [s EXCEPT ![n].status = "RUNNING", ![n].left = "late"]
         IN  t \in Seq(Run) /\ Late(s, t)
<1> DEFINE r == [s[n] EXCEPT !.status = "RUNNING", !.left = "late"]
           t == [s EXCEPT ![n].status = "RUNNING", ![n].left = "late"]
<1>1. s[n] \in Run
  BY ElementOfSeq
<1>2. r \in Run /\ r.ours = s[n].ours /\ r.status = "RUNNING" /\ r.left = "late"
  BY <1>1 DEF Run, Active
<1>3. t = [s EXCEPT ![n] = r]
  <2>1. DOMAIN s = 1..Len(s) /\ s = [m \in 1..Len(s) |-> s[m]]
    BY LenProperties
  <2> QED BY <2>1
<1> HIDE DEF r, t
<1>4. /\ [s EXCEPT ![n] = r] \in Seq(Run)
      /\ Len([s EXCEPT ![n] = r]) = Len(s)
      /\ \A j \in 1..Len(s) : [s EXCEPT ![n] = r][j] = IF j = n THEN r ELSE s[j]
  BY <1>2, ExceptSeq
<1>5. t \in Seq(Run) /\ Late(s, t)
  BY <1>2, <1>3, <1>4 DEF Late
<1> QED BY <1>5 DEF t

\* A game gets another run: those before it stay.
Added(s, t, ours) ==
  /\ Len(t) = Len(s) + 1
  /\ t[Len(s) + 1].ours = ours /\ t[Len(s) + 1].status = "QUEUED"
  /\ \A n \in 1..Len(s) : t[n] = s[n]

LEMMA AddedRuns ==
  ASSUME NEW s \in Seq(Run), NEW ours \in BOOLEAN, NEW same \in BOOLEAN
  PROVE  LET t == Append(s, [status |-> "QUEUED", ours |-> ours, same |-> same,
                             left |-> "no"])
         IN  t \in Seq(Run) /\ Added(s, t, ours)
<1> DEFINE r == [status |-> "QUEUED", ours |-> ours, same |-> same, left |-> "no"]
<1>1. r \in Run /\ r.ours = ours /\ r.status = "QUEUED"
  BY DEF Run, Active
<1> HIDE DEF r
<1>2. Append(s, r) \in Seq(Run) /\ Added(s, Append(s, r), ours)
  BY <1>1, AppendProperties DEF Added
<1> QED BY <1>2 DEF r

-----------------------------------------------------------------------------
(* What a step does to one item and to the runs of its game.               *)

Kept(i) == item'[i] = item[i] /\ runs'[i] = runs[i] /\ job'[i].status = job[i].status

RunLate(i) ==
  /\ item'[i] = item[i] /\ job'[i].status = job[i].status
  /\ Late(runs[i], runs'[i])

RunMoved(i) ==
  /\ item'[i] = item[i]
  /\ HasActive(i) /\ Moved(runs[i], runs'[i])

RunAdded(i) ==
  /\ item'[i] = item[i]
  /\ Len(runs[i]) < MaxRuns /\ Added(runs[i], runs'[i], FALSE)

Replanned(i) ==
  /\ item[i].status \in {"PENDING", "PLANNING"}
  /\ item'[i].status \in {"PENDING", "PLANNING", "FAILED", "CANCELLED"}
  /\ item'[i].run \in {0, item[i].run}
  /\ runs'[i] = runs[i]

Found(i) ==
  /\ item[i].status = "PLANNING" /\ item'[i].status \in {"SKIPPED", "ATTACHED"}
  /\ runs[i] # <<>> /\ item'[i].run = Len(runs[i])
  /\ runs'[i] = runs[i]

Queued(i) ==
  /\ item[i].status = "PLANNING" /\ item'[i].status = "QUEUED"
  /\ Len(runs[i]) < MaxRuns /\ item'[i].run = Len(runs[i]) + 1
  /\ Added(runs[i], runs'[i], TRUE)

Deleted(i) == item'[i] = Fresh("ABSENT") /\ runs'[i] = <<>>

Created(i) ==
  /\ status = "ABSENT" /\ item'[i] = Fresh("PENDING") /\ runs'[i] = runs[i]

ItemStep(i) == \/ Kept(i) \/ RunMoved(i) \/ RunLate(i) \/ RunAdded(i) \/ Replanned(i)
               \/ Found(i) \/ Queued(i) \/ Deleted(i) \/ Created(i)

ItemsStep ==
  /\ item' \in [Items -> Item] /\ runs' \in [Items -> Seq(Run)]
  /\ \A i \in Items : item'[i].token # None <=> item'[i].status = "PLANNING"
  /\ \A i \in Items : ItemStep(i)

\* The item that a page is at.
LEMMA ItemOfPage ==
  ASSUME TypeOK, NEW p \in Pages, PageOK(p), page[p].pc \in {"enqueue", "fail"}
  PROVE  First(page[p].todo) \in Items
<1>1. page[p].todo \in SUBSET Items
  BY DEF TypeOK, Page
<1>2. page[p].todo # {}
  BY DEF PageOK
<1> QED BY <1>1, <1>2, FirstIn

LEMMA ClaimItems ==
  ASSUME TypeOK, NEW p \in Pages, ClaimPage(p)
  PROVE  ItemsStep
<1> USE DEF TypeOK
<1>1. p # None /\ runs' = runs /\ job' = job
  BY BatchAssumption DEF ClaimPage
<1> DEFINE S == Front(Claimable)
<1>2. item' = [i \in Items |->
                 IF i \in S
                 THEN [item[i] EXCEPT !.status = "PLANNING", !.token = p, !.live = TRUE]
                 ELSE IF i \in Claimable THEN Fresh("PENDING") ELSE item[i]]
  BY DEF ClaimPage
<1>3. S \subseteq Claimable
  BY DEF Front
<1> HIDE DEF S
<1>4. ASSUME NEW i \in Items
      PROVE  /\ item'[i] \in Item
             /\ item'[i].token # None <=> item'[i].status = "PLANNING"
             /\ ItemStep(i)
  <2>1. item[i] \in Item
    OBVIOUS
  <2>2. CASE i \in S
    <3> DEFINE it == [item[i] EXCEPT !.status = "PLANNING", !.token = p, !.live = TRUE]
    <3>1. item'[i] = it
      BY <1>2, <2>2
    <3>2. it \in Item /\ it.status = "PLANNING" /\ it.token = p /\ it.run = item[i].run
      BY <2>1 DEF Item
    <3>3. item[i].status \in {"PENDING", "PLANNING"}
      BY <1>3, <2>2 DEF Claimable, LeaseOver
    <3> HIDE DEF it
    <3> QED BY <1>1, <3>1, <3>2, <3>3 DEF ItemStep, Replanned
  <2>3. CASE i \in Claimable /\ i \notin S
    <3>1. item'[i] = Fresh("PENDING")
      BY <1>2, <2>3
    <3>2. item[i].status = "PENDING" \/ LeaseOver(i)
      BY <2>3 DEF Claimable
    <3> QED BY <1>1, <3>1, <3>2, FreshTypes DEF ItemStep, Replanned, LeaseOver
  <2>4. CASE i \notin Claimable
    <3>1. item'[i] = item[i]
      BY <1>2, <1>3, <2>4
    <3> QED BY <1>1, <3>1 DEF ItemStep, Kept
  <2> QED BY <2>2, <2>3, <2>4
<1> QED BY <1>1, <1>2, <1>4 DEF ItemsStep

\* An item that is linked or refused, alone.
LEMMA LinkedItem ==
  ASSUME TypeOK, NEW i \in Items, NEW it \in Item, item' = [item EXCEPT ![i] = it],
         runs' \in [Items -> Seq(Run)],
         it.token # None <=> it.status = "PLANNING",
         \A j \in Items : j # i => runs'[j] = runs[j] /\ job'[j].status = job[j].status,
         item'[i] = it => ItemStep(i)
  PROVE  ItemsStep
<1> USE DEF TypeOK
<1>1. item' \in [Items -> Item] /\ item'[i] = it
  OBVIOUS
<1>2. \A j \in Items : j # i => item'[j] = item[j]
  OBVIOUS
<1>3. \A j \in Items : j # i => Kept(j)
  BY <1>2 DEF Kept
<1>4. \A j \in Items : ItemStep(j)
  BY <1>1, <1>3 DEF ItemStep
<1>5. \A j \in Items : item'[j].token # None <=> item'[j].status = "PLANNING"
  BY <1>1, <1>2
<1> QED BY <1>1, <1>4, <1>5 DEF ItemsStep

\* A game's runs change, alone.
LEMMA ChangedRuns ==
  ASSUME TypeOK, NEW i \in Items, NEW t \in Seq(Run), runs' = [runs EXCEPT ![i] = t],
         item' = item, \A j \in Items : j # i => job'[j].status = job[j].status,
         runs'[i] = t => ItemStep(i)
  PROVE  ItemsStep
<1> USE DEF TypeOK
<1>1. runs' \in [Items -> Seq(Run)] /\ runs'[i] = t
  OBVIOUS
<1>2. \A j \in Items : j # i => Kept(j)
  BY DEF Kept
<1>3. \A j \in Items : ItemStep(j)
  BY <1>1, <1>2 DEF ItemStep
<1> QED BY <1>1, <1>3 DEF ItemsStep

LEMMA EnqueueItems ==
  ASSUME TypeOK, \A i \in Items : GameOK(i), NEW p \in Pages, PageOK(p), Enqueue(p)
  PROVE  ItemsStep
<1> DEFINE i == First(page[p].todo)
           n == Len(runs[i])
           r == [status |-> "QUEUED", ours |-> TRUE, same |-> TRUE, left |-> "no"]
<1>1. i \in Items
  BY ItemOfPage DEF Enqueue
<1>2. item[i].status = "PLANNING"
  BY DEF Enqueue, Holds
<1>3. \/ Skips(i) /\ Link(i, "SKIPPED", n) /\ UNCHANGED games
      \/ Attaches(i) /\ Link(i, "ATTACHED", n) /\ UNCHANGED games
      \/ /\ n < MaxRuns /\ Link(i, "QUEUED", n + 1)
         /\ runs' = [runs EXCEPT ![i] = Append(@, r)]
         /\ job' = [job EXCEPT ![i].status = "QUEUED"]
  BY DEF Enqueue, NewRun
<1> HIDE DEF i
<1>4. runs[i] \in Seq(Run) /\ n \in 0..MaxRuns /\ n \in Nat
  BY <1>1, BatchAssumption, LenProperties DEF TypeOK
<1> HIDE DEF n
<1>5. ASSUME NEW state \in {"SKIPPED", "ATTACHED"}, runs[i] # <<>>,
             Link(i, state, n), UNCHANGED games
      PROVE  ItemsStep
  <2> DEFINE it == [Fresh(state) EXCEPT !.run = n]
  <2>1. it \in Item /\ it.status = state /\ it.token = None /\ it.run = n
    BY <1>4, FreshTypes
  <2>2. item' = [item EXCEPT ![i] = it]
    BY <1>5 DEF Link
  <2> HIDE DEF it
  <2>3. item'[i] = it => ItemStep(i)
    BY <1>2, <1>5, <2>1 DEF ItemStep, Found, n
  <2>4. runs' \in [Items -> Seq(Run)]
    BY <1>5 DEF TypeOK
  <2> QED BY <1>1, <1>5, <2>1, <2>2, <2>3, <2>4, LinkedItem
<1>6. CASE /\ n < MaxRuns /\ Link(i, "QUEUED", n + 1)
           /\ runs' = [runs EXCEPT ![i] = Append(@, r)]
           /\ job' = [job EXCEPT ![i].status = "QUEUED"]
  <2> DEFINE it == [Fresh("QUEUED") EXCEPT !.run = n + 1]
  <2>1. n + 1 \in 0..MaxRuns
    BY <1>4, <1>6, BatchAssumption
  <2>2. it \in Item /\ it.status = "QUEUED" /\ it.token = None /\ it.run = n + 1
    BY <2>1, FreshTypes
  <2>3. item' = [item EXCEPT ![i] = it]
    BY <1>6 DEF Link
  <2>4. Append(runs[i], r) \in Seq(Run) /\ Added(runs[i], Append(runs[i], r), TRUE)
    BY <1>4, AddedRuns
  <2>5. /\ runs' \in [Items -> Seq(Run)] /\ runs'[i] = Append(runs[i], r)
        /\ \A j \in Items : j # i => runs'[j] = runs[j] /\ job'[j].status = job[j].status
    BY <1>1, <1>6, <2>4 DEF TypeOK
  <2> HIDE DEF it, r
  <2>6. item'[i] = it => ItemStep(i)
    BY <1>2, <1>6, <2>2, <2>4, <2>5 DEF ItemStep, Queued, n
  <2> QED BY <1>1, <2>2, <2>3, <2>5, <2>6, LinkedItem
<1>7. Skips(i) \/ Attaches(i) => runs[i] # <<>>
  BY <1>1 DEF Skips, Attaches, HasActive, GameOK, Active
<1> QED BY <1>3, <1>5, <1>6, <1>7

\* Of several items at once: each is left, or planned again.
LEMMA ReplannedItems ==
  ASSUME TypeOK, NEW state \in {"PENDING", "FAILED", "CANCELLED"}, NEW S \in SUBSET Items,
         \A i \in S : item[i].status \in {"PENDING", "PLANNING"},
         item' = [i \in Items |-> IF i \in S THEN Fresh(state) ELSE item[i]],
         UNCHANGED games
  PROVE  ItemsStep
<1> USE DEF TypeOK
<1>1. ASSUME NEW i \in Items
      PROVE  /\ item'[i] \in Item
             /\ item'[i].token # None <=> item'[i].status = "PLANNING"
             /\ ItemStep(i)
  <2>1. CASE i \in S
    <3>1. item'[i] = Fresh(state)
      BY <2>1
    <3> QED BY <2>1, <3>1, FreshTypes DEF ItemStep, Replanned
  <2>2. CASE i \notin S
    <3>1. item'[i] = item[i]
      BY <2>2
    <3> QED BY <3>1 DEF ItemStep, Kept
  <2> QED BY <2>1, <2>2
<1> QED BY <1>1 DEF ItemsStep

LEMMA FailItems ==
  ASSUME TypeOK, NEW p \in Pages, PageOK(p), FailItem(p)
  PROVE  ItemsStep
<1> DEFINE i == First(page[p].todo)
<1>1. i \in Items
  BY ItemOfPage DEF FailItem
<1>2. runs' = runs /\ job' = job
  BY DEF FailItem
<1>3. CASE Holds(p, i)
  <2>1. item' = [item EXCEPT ![i] = Fresh("FAILED")]
    BY <1>3 DEF FailItem
  <2>2. item[i].status = "PLANNING"
    BY <1>3 DEF Holds
  <2> HIDE DEF i
  <2>3. item'[i] = Fresh("FAILED") => ItemStep(i)
    BY <1>2, <2>2, FreshTypes DEF ItemStep, Replanned
  <2>4. runs' \in [Items -> Seq(Run)]
    BY <1>2 DEF TypeOK
  <2>5. /\ Fresh("FAILED") \in Item
        /\ Fresh("FAILED").token # None <=> Fresh("FAILED").status = "PLANNING"
    BY FreshTypes
  <2> QED BY <1>1, <1>2, <2>1, <2>3, <2>4, <2>5, LinkedItem
<1>4. CASE ~Holds(p, i)
  BY <1>2, <1>4 DEF FailItem, ItemsStep, ItemStep, Kept, TypeOK
<1> QED BY <1>3, <1>4

\* A page that gives its items back, or is killed with them.
LEMMA LostItems ==
  ASSUME TypeOK, NEW p \in Pages, GiveBack(p) \/ CrashPage(p)
  PROVE  ItemsStep
<1> DEFINE S == {i \in Items : Holds(p, i)}
<1>1. CASE GiveBack(p)
  <2>1. item' = [i \in Items |-> IF i \in S THEN Fresh("PENDING") ELSE item[i]]
    BY <1>1 DEF GiveBack
  <2>2. S \in SUBSET Items /\ \A i \in S : item[i].status \in {"PENDING", "PLANNING"}
    BY DEF Holds
  <2> HIDE DEF S
  <2> QED BY <1>1, <2>1, <2>2, ReplannedItems DEF GiveBack
<1>2. CASE CrashPage(p)
  <2> USE DEF TypeOK
  <2>1. runs' = runs /\ job' = job /\ None # "gone"
    BY <1>2, BatchAssumption DEF CrashPage
  <2>2. item' = [i \in Items |-> IF Holds(p, i) THEN [item[i] EXCEPT !.token = "gone"]
                                 ELSE item[i]]
    BY <1>2 DEF CrashPage
  <2>3. ASSUME NEW i \in Items
        PROVE  /\ item'[i] \in Item
               /\ item'[i].token # None <=> item'[i].status = "PLANNING"
               /\ ItemStep(i)
    <3>1. CASE Holds(p, i)
      <4> DEFINE it == [item[i] EXCEPT !.token = "gone"]
      <4>1. item'[i] = it
        BY <2>2, <3>1
      <4>2. it \in Item /\ it.token = "gone" /\ it.status = item[i].status
            /\ it.run = item[i].run
        BY DEF Item
      <4> HIDE DEF it
      <4> QED BY <2>1, <3>1, <4>1, <4>2 DEF ItemStep, Replanned, Holds
    <3>2. CASE ~Holds(p, i)
      <4>1. item'[i] = item[i]
        BY <2>2, <3>2
      <4> QED BY <2>1, <4>1 DEF ItemStep, Kept
    <3> QED BY <3>1, <3>2
  <2> QED BY <2>1, <2>2, <2>3 DEF ItemsStep
<1> QED BY <1>1, <1>2

LEMMA LeaseItems ==
  ASSUME TypeOK, NEW i \in Items, LeaseExpires(i)
  PROVE  ItemsStep
<1> DEFINE it == [item[i] EXCEPT !.live = FALSE]
<1>1. item[i] \in Item
  BY DEF TypeOK
<1>2. /\ it \in Item /\ it.status = item[i].status /\ it.token = item[i].token
      /\ it.run = item[i].run
  BY <1>1 DEF Item
<1>3. item' = [item EXCEPT ![i] = it] /\ UNCHANGED games /\ item[i].status = "PLANNING"
  BY DEF LeaseExpires
<1> HIDE DEF it
<1>4. item'[i] = it => ItemStep(i)
  BY <1>2, <1>3 DEF ItemStep, Replanned
<1> QED BY <1>2, <1>3, <1>4, LinkedItem DEF TypeOK

LEMMA CancelledItems ==
  ASSUME TypeOK, NEW k \in Keys, CancelItems(k)
  PROVE  ItemsStep
<1>1. Remaining \in SUBSET Items
      /\ \A i \in Remaining : item[i].status \in {"PENDING", "PLANNING"}
  BY DEF Remaining, With
<1> QED BY <1>1, ReplannedItems DEF CancelItems

\* What a step does to the jobs.
GamesStep == job' \in [Items -> Job] /\ \A i \in Items : GameOK(i)'

LEMMA KeptGames ==
  ASSUME TypeOK, \A i \in Items : GameOK(i), UNCHANGED games
  PROVE  GamesStep
BY DEF TypeOK, GamesStep, GameOK, HasActive, Left

\* One game's job changes, and perhaps its runs.
LEMMA ChangedGame ==
  ASSUME TypeOK, \A j \in Items : GameOK(j), NEW i \in Items,
         NEW t \in Seq(Run), runs' = [runs EXCEPT ![i] = t],
         NEW jb \in Job, job' = [job EXCEPT ![i] = jb],
         jb.status # "ABSENT" => t # <<>>,
         jb.ahead => jb.status = "RUNNING",
         jb.status \in Active => t[Len(t)].status \in Active,
         jb.status = "QUEUED" => t[Len(t)].status = "QUEUED" \/ t[Len(t)].left # "no",
         \A n \in 1..Len(t) :
           t[n].status \in Active /\ (n < Len(t) \/ jb.status \notin Active)
             => t[n].left # "no"
  PROVE  GamesStep
<1>1. /\ job' \in [Items -> Job] /\ job'[i] = jb /\ runs'[i] = t
      /\ \A j \in Items : j # i => job'[j] = job[j] /\ runs'[j] = runs[j]
  BY DEF TypeOK
<1>2. GameOK(i)'
  BY <1>1 DEF GameOK, HasActive, Left
<1>3. ASSUME NEW j \in Items, j # i
      PROVE  GameOK(j)'
  <2>1. GameOK(j) /\ job'[j] = job[j] /\ runs'[j] = runs[j]
    BY <1>1, <1>3
  <2> QED BY <2>1 DEF GameOK, HasActive, Left
<1> QED BY <1>1, <1>2, <1>3 DEF GamesStep

\* An active job moves, and its run with it.
LEMMA JobMoves ==
  ASSUME TypeOK, \A j \in Items : GameOK(j), NEW i \in Items, HasActive(i), item' = item,
         NEW t \in Seq(Run), Moved(runs[i], t), runs' = [runs EXCEPT ![i] = t],
         NEW jb \in Job, job' = [job EXCEPT ![i] = jb],
         jb.ahead => jb.status = "RUNNING",
         jb.status \in Active => t[Len(t)].status \in Active,
         jb.status = "QUEUED" => t[Len(t)].status = "QUEUED" \/ t[Len(t)].left # "no",
         jb.status \notin Active /\ t[Len(t)].status \in Active => t[Len(t)].left # "no"
  PROVE  ItemsStep /\ GamesStep
<1>1. runs[i] \in Seq(Run) /\ runs[i] # <<>> /\ GameOK(i)
  BY DEF TypeOK, HasActive, GameOK, Active
<1>2. Len(t) = Len(runs[i]) /\ Len(t) \in Nat /\ Len(t) # 0 /\ t # <<>>
  BY <1>1, EmptySeq, LenProperties DEF Moved
<1>3. \A n \in 1..Len(t) :
        t[n].status \in Active /\ (n < Len(t) \/ jb.status \notin Active)
          => t[n].left # "no"
  <2>1. \A n \in 1..Len(t) : n # Len(t) => t[n] = runs[i][n]
    BY <1>2 DEF Moved
  <2>2. \A n \in 1..Len(t) : n < Len(t) /\ t[n].status \in Active => t[n].left # "no"
    BY <1>1, <1>2, <2>1 DEF GameOK, Left
  <2> QED BY <1>2, <2>2
<1>4. runs'[i] = t => ItemStep(i)
  BY DEF ItemStep, RunMoved
<1>5. \A j \in Items : j # i => job'[j].status = job[j].status
  BY DEF TypeOK
<1> QED BY <1>2, <1>3, <1>4, <1>5, ChangedGame, ChangedRuns

\* The last run of a game after RunMoves.
LEMMA RunMovesTo ==
  ASSUME TypeOK, NEW i \in Items, runs[i] # <<>>, NEW from, NEW to \in Active \cup Ended,
         RunMoves(i, from, to)
  PROVE  \E t \in Seq(Run) :
           /\ Moved(runs[i], t) /\ runs' = [runs EXCEPT ![i] = t]
           /\ t[Len(t)].status = IF runs[i][Len(runs[i])].status \in from THEN to
                                 ELSE runs[i][Len(runs[i])].status
           /\ runs[i][Len(runs[i])].status \notin from
                => t[Len(t)].left = runs[i][Len(runs[i])].left
<1> DEFINE s == runs[i]
           last == s[Len(s)]
           r == IF last.status \in from THEN [last EXCEPT !.status = to, !.left = "no"]
                ELSE last
           t == [s EXCEPT ![Len(s)] = r]
<1>1. s \in Seq(Run) /\ last \in Run
  <2>1. s \in Seq(Run) /\ Len(s) \in 1..Len(s)
    BY EmptySeq DEF TypeOK
  <2> QED BY <2>1, ElementOfSeq
<1>2. /\ r \in Run /\ r.ours = last.ours
      /\ r.status = IF last.status \in from THEN to ELSE last.status
      /\ last.status \notin from => r.left = last.left
  BY <1>1 DEF Run
<1>3. runs' = [runs EXCEPT ![i] = t]
  BY DEF RunMoves
<1> HIDE DEF r
<1>4. t \in Seq(Run) /\ Moved(s, t) /\ t[Len(s)] = r
  BY <1>1, <1>2, MovedRuns
<1> QED BY <1>2, <1>3, <1>4 DEF Moved

\* One more of a count, or one less of one that is not zero.
LEMMA Counts ==
  ASSUME NEW S, NEW f \in [S -> Nat], NEW n \in S
  PROVE  /\ [f EXCEPT ![n] = @ + 1] \in [S -> Nat]
         /\ f[n] > 0 => [f EXCEPT ![n] = @ - 1] \in [S -> Nat]
<1>1. f[n] \in Nat
  OBVIOUS
<1>2. f[n] + 1 \in Nat /\ (f[n] > 0 => f[n] - 1 \in Nat)
  BY <1>1
<1> QED BY <1>2

\* The status and the lead of a job that is another in its status.
LEMMA JobFields ==
  ASSUME NEW j \in Job, NEW x
  PROVE  /\ [j EXCEPT !.status = x].status = x
         /\ [j EXCEPT !.status = x].ahead = j.ahead
         /\ [j EXCEPT !.status = x, !.ahead = FALSE].status = x
         /\ ~[j EXCEPT !.status = x, !.ahead = FALSE].ahead
BY DEF Job

\* A job that is another in these fields is a job.
LEMMA JobTypes ==
  ASSUME TypeOK, NEW i \in Items, NEW x \in Active \cup Ended, NEW a \in BOOLEAN
  PROVE  /\ [job[i] EXCEPT !.status = x] \in Job
         /\ [job[i] EXCEPT !.ahead = a] \in Job
         /\ [job[i] EXCEPT !.status = x, !.ahead = a] \in Job
         /\ runs[i] # <<>> =>
              [job[i] EXCEPT !.status = x, !.ahead = FALSE,
                             !.behind[Len(runs[i])] = @ + 1] \in Job
<1>1. job[i] \in Job /\ runs[i] \in Seq(Run) /\ Len(runs[i]) <= MaxRuns /\ MaxRuns \in Nat
  BY BatchAssumption DEF TypeOK
<1>2. ASSUME runs[i] # <<>>
      PROVE  [job[i] EXCEPT !.status = x, !.ahead = FALSE,
                            !.behind[Len(runs[i])] = @ + 1] \in Job
  <2>1. Len(runs[i]) \in 1..MaxRuns
    BY <1>1, <1>2, EmptySeq, LenProperties
  <2>2. job[i].behind \in [1..MaxRuns -> Nat]
    BY <1>1 DEF Job
  <2>3. [job[i].behind EXCEPT ![Len(runs[i])] = @ + 1] \in [1..MaxRuns -> Nat]
    BY <2>1, <2>2, Counts
  <2> QED BY <1>1, <2>3 DEF Job
<1> QED BY <1>1, <1>2 DEF Job

\* An active job has a run, which is active.
LEMMA ActiveJob ==
  ASSUME TypeOK, NEW i \in Items, GameOK(i), HasActive(i)
  PROVE  /\ runs[i] \in Seq(Run) /\ runs[i] # <<>> /\ Moved(runs[i], runs[i])
         /\ runs[i][Len(runs[i])].status \in {"QUEUED", "RUNNING"}
         /\ runs = [runs EXCEPT ![i] = runs[i]]
         /\ job[i] \in Job
BY DEF TypeOK, GameOK, HasActive, Moved, Active

LEMMA StartsGame ==
  ASSUME TypeOK, \A j \in Items : GameOK(j), NEW i \in Items,
         JobStarts(i) \/ RunStarts(i)
  PROVE  ItemsStep /\ GamesStep
<1>1. HasActive(i) /\ GameOK(i)
  BY DEF JobStarts, RunStarts, GameOK, HasActive, Active
<1>2. CASE JobStarts(i)
  <2> DEFINE jb == [job[i] EXCEPT !.status = "RUNNING", !.ahead = TRUE]
  <2>1. jb \in Job
    BY JobTypes DEF Active
  <2>2. /\ job' = [job EXCEPT ![i] = jb] /\ jb.status = "RUNNING" /\ item' = item
        /\ runs' = [runs EXCEPT ![i] = runs[i]]
    BY <1>1, <1>2, ActiveJob DEF JobStarts, Unmoved, Job
  <2> HIDE DEF jb
  <2>3. runs[i][Len(runs[i])].status \in Active
    BY <1>1, ActiveJob DEF Active
  <2> QED BY <1>1, <2>1, <2>2, <2>3, ActiveJob, JobMoves DEF Active
<1>3. CASE RunStarts(i)
  <2> DEFINE jb == [job[i] EXCEPT !.ahead = FALSE]
  <2>1. jb \in Job
    BY JobTypes DEF Active
  <2>2. /\ job' = [job EXCEPT ![i] = jb] /\ item' = item
        /\ ~jb.ahead /\ jb.status = "RUNNING"
    BY <1>1, <1>3, <2>1, ActiveJob DEF RunStarts, Unmoved, Job, GameOK
  <2>3. PICK t \in Seq(Run) : /\ Moved(runs[i], t) /\ runs' = [runs EXCEPT ![i] = t]
                              /\ t[Len(t)].status = "RUNNING"
    <3>1. RunMoves(i, Active \cup Ended, "RUNNING") /\ "RUNNING" \in Active \cup Ended
      BY <1>3 DEF RunStarts, Active
    <3>2. runs[i][Len(runs[i])].status \in Active \cup Ended
      BY <1>1, ActiveJob DEF Active
    <3> QED BY <1>1, <3>1, <3>2, ActiveJob, RunMovesTo
  <2> HIDE DEF jb
  <2> QED BY <1>1, <2>1, <2>2, <2>3, JobMoves DEF Active
<1> QED BY <1>2, <1>3

\* A job that leaves RUNNING, and its run moves with it.
LEMMA LeavesGame ==
  ASSUME TypeOK, \A j \in Items : GameOK(j), NEW i \in Items, NEW from, NEW x,
         JobLeaves(i, x), RunMoves(i, from, x),
         <<from, x>> \in {<<Active, "FAILED">>, <<{"RUNNING"}, "QUEUED">>}
  PROVE  ItemsStep /\ GamesStep
<1>1. HasActive(i) /\ GameOK(i) /\ x \in Active \cup Ended /\ item' = item
  BY DEF JobLeaves, HasActive, Active, Ended, Unmoved
<1>2. PICK jb \in Job : /\ job' = [job EXCEPT ![i] = jb]
                        /\ jb.status = x /\ ~jb.ahead
  <2> DEFINE one == [job[i] EXCEPT !.status = x, !.ahead = FALSE]
             two == [job[i] EXCEPT !.status = x, !.ahead = FALSE,
                                   !.behind[Len(runs[i])] = @ + 1]
  <2>1. one \in Job /\ two \in Job
    BY <1>1, ActiveJob, JobTypes
  <2>2. one.status = x /\ ~one.ahead /\ two.status = x /\ ~two.ahead
    BY <1>1, ActiveJob DEF Job
  <2>3. job' = [job EXCEPT ![i] = one] \/ job' = [job EXCEPT ![i] = two]
    BY DEF JobLeaves
  <2> HIDE DEF one, two
  <2> QED BY <2>1, <2>2, <2>3
<1>3. PICK t \in Seq(Run) : /\ Moved(runs[i], t) /\ runs' = [runs EXCEPT ![i] = t]
                            /\ t[Len(t)].status = x
  <2>1. PICK t \in Seq(Run) :
          /\ Moved(runs[i], t) /\ runs' = [runs EXCEPT ![i] = t]
          /\ t[Len(t)].status = IF runs[i][Len(runs[i])].status \in from THEN x
                                ELSE runs[i][Len(runs[i])].status
    BY <1>1, ActiveJob, RunMovesTo
  <2>2. t[Len(t)].status = x
    BY <1>1, <2>1, ActiveJob DEF Active
  <2> QED BY <2>1, <2>2
<1> QED BY <1>1, <1>2, <1>3, JobMoves DEF Active

LEMMA EndsGame ==
  ASSUME TypeOK, \A j \in Items : GameOK(j), NEW i \in Items, JobEnds(i) \/ JobRetried(i)
  PROVE  ItemsStep /\ GamesStep
<1>1. CASE JobSucceeds(i)
  <2> DEFINE jb == [job[i] EXCEPT !.status = "SUCCEEDED"]
  <2>1. HasActive(i) /\ GameOK(i) /\ runs[i][Len(runs[i])].status = "RUNNING"
    BY <1>1 DEF JobSucceeds, HasActive, Active
  <2>2. /\ jb \in Job /\ job' = [job EXCEPT ![i] = jb] /\ item' = item
        /\ jb.status = "SUCCEEDED" /\ ~jb.ahead
    <3>1. jb \in Job
      BY JobTypes DEF Ended
    <3>2. jb.status = "SUCCEEDED" /\ jb.ahead = job[i].ahead
      BY <2>1, ActiveJob, JobFields
    <3>3. job' = [job EXCEPT ![i] = jb] /\ item' = item /\ ~job[i].ahead
      BY <1>1 DEF JobSucceeds, Unmoved, TypeOK
    <3> QED BY <3>1, <3>2, <3>3
  <2>3. PICK t \in Seq(Run) : /\ Moved(runs[i], t) /\ runs' = [runs EXCEPT ![i] = t]
                              /\ t[Len(t)].status = "SUCCEEDED"
    BY <1>1, <2>1, ActiveJob, RunMovesTo DEF JobSucceeds, Ended
  <2> HIDE DEF jb
  <2> QED BY <2>1, <2>2, <2>3, JobMoves DEF Active
<1>2. CASE JobFails(i)
  <2> DEFINE jb == [job[i] EXCEPT !.status = "FAILED", !.ahead = FALSE]
             last == runs[i][Len(runs[i])]
             r == IF last.status = "RUNNING"
                  THEN [last EXCEPT !.status = "FAILED", !.left = "no"]
                  ELSE [last EXCEPT !.left = "unbegun"]
             t == [runs[i] EXCEPT ![Len(runs[i])] = r]
  <2>1. HasActive(i) /\ GameOK(i)
    BY <1>2 DEF JobFails, HasActive, Active
  <2>2. /\ jb \in Job /\ job' = [job EXCEPT ![i] = jb] /\ item' = item
        /\ jb.status = "FAILED" /\ ~jb.ahead
    <3>1. jb \in Job
      BY JobTypes DEF Ended
    <3>2. jb.status = "FAILED" /\ ~jb.ahead
      BY <2>1, ActiveJob, JobFields
    <3>3. job' = [job EXCEPT ![i] = jb] /\ item' = item
      BY <1>2 DEF JobFails, Unmoved
    <3> QED BY <3>1, <3>2, <3>3
  <2>3. last \in Run
    BY <2>1, ActiveJob, EmptySeq, ElementOfSeq
  <2>4. /\ r \in Run /\ r.ours = last.ours
        /\ r.status \in Active => r.left = "unbegun"
    BY <2>3 DEF Run, Active, Ended
  <2>5. runs' = [runs EXCEPT ![i] = t]
    BY <1>2 DEF JobFails
  <2> HIDE DEF jb, r
  <2>6. t \in Seq(Run) /\ Moved(runs[i], t) /\ t[Len(runs[i])] = r
    BY <2>1, <2>4, ActiveJob, MovedRuns
  <2>7. t[Len(t)] = r
    BY <2>6 DEF Moved
  <2> HIDE DEF t
  <2> QED BY <2>1, <2>2, <2>4, <2>5, <2>6, <2>7, JobMoves DEF Active
<1>3. CASE JobExhausted(i)
  BY <1>3, LeavesGame DEF JobExhausted
<1>4. CASE JobRetried(i)
  BY <1>4, LeavesGame DEF JobRetried
<1> QED BY <1>1, <1>2, <1>3, <1>4 DEF JobEnds

\* The job of a game is cancelled, or is left.
LEMMA CancelsGame ==
  ASSUME TypeOK, \A j \in Items : GameOK(j), NEW i \in Items, CancelJob(i), item' = item
  PROVE  ItemsStep /\ GamesStep
<1>1. CASE job[i].status = "QUEUED"
  <2> DEFINE jb == [job[i] EXCEPT !.status = "CANCELLED"]
  <2>1. HasActive(i) /\ GameOK(i)
    BY <1>1 DEF HasActive, Active
  <2>2. /\ jb \in Job /\ job' = [job EXCEPT ![i] = jb]
        /\ jb.status = "CANCELLED" /\ ~jb.ahead
    <3>1. jb \in Job
      BY JobTypes DEF Ended
    <3>2. jb.status = "CANCELLED" /\ jb.ahead = job[i].ahead
      BY <2>1, ActiveJob, JobFields
    <3>3. job' = [job EXCEPT ![i] = jb] /\ ~job[i].ahead
      BY <1>1, <2>1 DEF CancelJob, GameOK, TypeOK
    <3> QED BY <3>1, <3>2, <3>3
  <2>3. PICK t \in Seq(Run) :
          /\ Moved(runs[i], t) /\ runs' = [runs EXCEPT ![i] = t]
          /\ t[Len(t)].status \in Active => t[Len(t)].left # "no"
    <3>1. RunMoves(i, {"QUEUED"}, "CANCELLED")
      BY <1>1 DEF CancelJob
    <3>2. PICK t \in Seq(Run) :
            /\ Moved(runs[i], t) /\ runs' = [runs EXCEPT ![i] = t]
            /\ t[Len(t)].status = IF runs[i][Len(runs[i])].status \in {"QUEUED"}
                                  THEN "CANCELLED" ELSE runs[i][Len(runs[i])].status
            /\ runs[i][Len(runs[i])].status \notin {"QUEUED"}
                 => t[Len(t)].left = runs[i][Len(runs[i])].left
      BY <2>1, <3>1, ActiveJob, RunMovesTo DEF Ended
    <3>3. runs[i][Len(runs[i])].status = "QUEUED" \/ runs[i][Len(runs[i])].left # "no"
      BY <1>1, <2>1 DEF GameOK
    <3> QED BY <3>2, <3>3 DEF Active
  <2> HIDE DEF jb
  <2> QED BY <2>1, <2>2, <2>3, JobMoves DEF Active
<1>2. CASE job[i].status # "QUEUED"
  <2>1. UNCHANGED games
    BY <1>2, Zenon DEF CancelJob
  <2> QED BY <2>1, KeptGames DEF ItemsStep, ItemStep, Kept, TypeOK
<1> QED BY <1>1, <1>2

\* An invocation that lost the job puts a run back to RUNNING.
LEMMA LateGame ==
  ASSUME TypeOK, \A j \in Items : GameOK(j), NEW i \in Items, NEW m \in 1..MaxRuns,
         LateRunStarts(i, m)
  PROVE  ItemsStep /\ GamesStep
<1>1. PICK n \in m..Len(runs[i]) :
        runs' = [runs EXCEPT ![i][n].status = "RUNNING", ![i][n].left = "late"]
  BY DEF LateRunStarts
<1> DEFINE t == [runs[i] EXCEPT ![n].status = "RUNNING", ![n].left = "late"]
           jb == [job[i] EXCEPT !.behind[m] = @ - 1]
<1>2. /\ runs[i] \in Seq(Run) /\ job[i] \in Job /\ GameOK(i) /\ item' = item
      /\ Len(runs[i]) \in Nat /\ MaxRuns \in Nat
  BY BatchAssumption, LenProperties DEF TypeOK, LateRunStarts, Unmoved
<1>3. n \in 1..Len(runs[i])
  BY <1>1, <1>2
<1>4. runs' = [runs EXCEPT ![i] = t]
  BY <1>1 DEF TypeOK
<1>5. t \in Seq(Run) /\ Late(runs[i], t)
  BY <1>2, <1>3, LateRuns
<1>6. jb \in Job /\ jb.status = job[i].status /\ jb.ahead = job[i].ahead
  <2>1. job[i].behind \in [1..MaxRuns -> Nat] /\ job[i].behind[m] > 0
    BY <1>2 DEF Job, LateRunStarts
  <2>2. [job[i].behind EXCEPT ![m] = @ - 1] \in [1..MaxRuns -> Nat]
    BY <2>1, Counts
  <2> QED BY <1>2, <2>2 DEF Job
<1>7. job' = [job EXCEPT ![i] = jb]
  BY DEF LateRunStarts, TypeOK
<1> HIDE DEF t, jb
<1>8. /\ Len(t) = Len(runs[i]) /\ Len(t) \in 1..Len(t)
      /\ \A k \in 1..Len(t) :
           t[k] = runs[i][k] \/ (t[k].status = "RUNNING" /\ t[k].left = "late")
  BY <1>2, <1>3, <1>5 DEF Late
<1>9. ItemsStep
  <2>1. runs'[i] = t => ItemStep(i)
    BY <1>2, <1>5, <1>6, <1>7 DEF ItemStep, RunLate, TypeOK
  <2>2. \A j \in Items : j # i => job'[j].status = job[j].status
    BY <1>7 DEF TypeOK
  <2> QED BY <1>2, <1>4, <1>5, <2>1, <2>2, ChangedRuns
<1>10. GamesStep
  <2>1. t # <<>> /\ (jb.ahead => jb.status = "RUNNING")
    BY <1>2, <1>5, <1>6, <1>8, EmptySeq DEF GameOK
  <2>2. /\ jb.status \in Active => t[Len(t)].status \in Active
        /\ jb.status = "QUEUED" => t[Len(t)].status = "QUEUED" \/ t[Len(t)].left # "no"
    BY <1>2, <1>6, <1>8 DEF GameOK, HasActive, Active
  <2>3. \A k \in 1..Len(t) :
          t[k].status \in Active /\ (k < Len(t) \/ jb.status \notin Active)
            => t[k].left # "no"
    BY <1>2, <1>6, <1>8 DEF GameOK, HasActive, Left
  <2> QED BY <1>4, <1>5, <1>6, <1>7, <2>1, <2>2, <2>3, ChangedGame
<1> QED BY <1>9, <1>10

\* A game whose job is not active is queued, with a run of its own.
LEMMA NewRunGame ==
  ASSUME TypeOK, \A j \in Items : GameOK(j), NEW i \in Items, ~HasActive(i),
         NEW ours \in BOOLEAN, NEW same \in BOOLEAN, NewRun(i, ours, same)
  PROVE  GamesStep
<1> DEFINE t == Append(runs[i], [status |-> "QUEUED", ours |-> ours, same |-> same,
                                 left |-> "no"])
           jb == [job[i] EXCEPT !.status = "QUEUED"]
<1>1. runs[i] \in Seq(Run) /\ job[i] \in Job /\ Len(runs[i]) \in Nat /\ GameOK(i)
  BY LenProperties DEF TypeOK
<1>2. t \in Seq(Run) /\ Added(runs[i], t, ours)
  BY <1>1, AddedRuns
<1>3. jb \in Job /\ jb.status = "QUEUED" /\ ~jb.ahead
  BY <1>1 DEF Job, Active, GameOK, HasActive
<1>4. runs' = [runs EXCEPT ![i] = t] /\ job' = [job EXCEPT ![i] = jb]
  BY DEF NewRun
<1> HIDE DEF t, jb
<1>5. /\ Len(t) = Len(runs[i]) + 1 /\ t # <<>> /\ t[Len(t)].status = "QUEUED"
      /\ \A n \in 1..Len(runs[i]) : t[n] = runs[i][n]
  BY <1>1, <1>2, EmptySeq DEF Added
<1>6. \A n \in 1..Len(t) : n < Len(t) /\ t[n].status \in Active => t[n].left # "no"
  BY <1>1, <1>5 DEF GameOK, Left
<1>7. /\ jb.status # "ABSENT" => t # <<>>
      /\ jb.ahead => jb.status = "RUNNING"
      /\ t[Len(t)].status \in Active /\ jb.status \in Active
  BY <1>3, <1>5 DEF Active
<1>8. \A n \in 1..Len(t) :
        t[n].status \in Active /\ (n < Len(t) \/ jb.status \notin Active)
          => t[n].left # "no"
  BY <1>6, <1>7
<1> QED BY <1>2, <1>3, <1>4, <1>5, <1>7, <1>8, ChangedGame

LEMMA RequestGame ==
  ASSUME TypeOK, \A j \in Items : GameOK(j), NEW i \in Items, NEW same \in BOOLEAN,
         OtherRequest(i, same)
  PROVE  ItemsStep /\ GamesStep
<1> DEFINE t == Append(runs[i], [status |-> "QUEUED", ours |-> FALSE, same |-> same,
                                 left |-> "no"])
<1>1. runs[i] \in Seq(Run)
  BY DEF TypeOK
<1>2. t \in Seq(Run) /\ Added(runs[i], t, FALSE)
  BY <1>1, AddedRuns
<1>3. /\ runs' = [runs EXCEPT ![i] = t] /\ item' = item /\ Len(runs[i]) < MaxRuns
      /\ \A j \in Items : j # i => job'[j].status = job[j].status
  BY DEF OtherRequest, NewRun, TypeOK
<1> HIDE DEF t
<1>4. runs'[i] = t => ItemStep(i)
  BY <1>2, <1>3 DEF ItemStep, RunAdded
<1>5. GamesStep
  BY NewRunGame DEF OtherRequest
<1> QED BY <1>2, <1>3, <1>4, <1>5, ChangedRuns

LEMMA DeletedGame ==
  ASSUME TypeOK, \A j \in Items : GameOK(j), NEW i \in Items, DeleteGame(i)
  PROVE  ItemsStep /\ GamesStep
<1>1. /\ item' = [item EXCEPT ![i] = Fresh("ABSENT")] /\ runs' = [runs EXCEPT ![i] = <<>>]
      /\ job' = [job EXCEPT ![i] = NoJob]
  BY DEF DeleteGame
<1>2. /\ Fresh("ABSENT") \in Item
      /\ Fresh("ABSENT").token # None <=> Fresh("ABSENT").status = "PLANNING"
  BY FreshTypes
<1>3. <<>> \in Seq(Run) /\ Len(<<>>) = 0
  BY EmptySeq
<1>4. /\ runs' \in [Items -> Seq(Run)] /\ runs'[i] = <<>>
      /\ \A j \in Items : j # i => runs'[j] = runs[j] /\ job'[j].status = job[j].status
  BY <1>1, <1>3 DEF TypeOK
<1>5. item'[i] = Fresh("ABSENT") => ItemStep(i)
  BY <1>4 DEF ItemStep, Deleted
<1>6. NoJob \in Job /\ NoJob.status = "ABSENT" /\ ~NoJob.ahead
  BY BatchAssumption DEF NoJob, Job
<1>7. GamesStep
  <2> DEFINE t == <<>>
             jb == NoJob
  <2>1. /\ t \in Seq(Run) /\ runs' = [runs EXCEPT ![i] = t]
        /\ jb \in Job /\ job' = [job EXCEPT ![i] = jb]
    BY <1>1, <1>3, <1>6
  <2>2. Len(t) = 0 /\ jb.status = "ABSENT" /\ ~jb.ahead
    BY <1>3, <1>6
  <2> HIDE DEF t, jb
  <2>3. jb.status \notin Active /\ jb.status # "QUEUED" /\ 1..Len(t) = {}
    BY <2>2 DEF Active
  <2> QED BY <2>1, <2>2, <2>3, ChangedGame
<1> QED BY <1>1, <1>2, <1>4, <1>5, <1>7, LinkedItem

LEMMA CreatedItems ==
  ASSUME TypeOK, Create
  PROVE  ItemsStep
<1>1. item' = [i \in Items |-> Fresh("PENDING")] /\ UNCHANGED games /\ status = "ABSENT"
  BY DEF Create
<1>2. \A i \in Items : item'[i] = Fresh("PENDING")
  BY <1>1
<1>3. /\ Fresh("PENDING") \in Item
      /\ Fresh("PENDING").token # None <=> Fresh("PENDING").status = "PLANNING"
  BY FreshTypes
<1>4. \A i \in Items : ItemStep(i)
  BY <1>1, <1>2 DEF ItemStep, Created
<1> QED BY <1>1, <1>2, <1>3, <1>4 DEF ItemsStep, TypeOK

LEMMA CancelJobItems ==
  ASSUME TypeOK, \A j \in Items : GameOK(j), CancelJobs
  PROVE  ItemsStep /\ GamesStep
<1>1. CASE UNCHANGED games
  BY <1>1, KeptGames DEF CancelJobs, ItemsStep, ItemStep, Kept, TypeOK
<1>2. CASE canceller.jobs # {}
  <2>1. canceller.jobs \in SUBSET Items
    BY DEF TypeOK, Canceller
  <2>2. First(canceller.jobs) \in Items
    BY <1>2, <2>1, FirstIn
  <2>3. CancelJob(First(canceller.jobs)) /\ item' = item
    BY <1>2 DEF CancelJobs
  <2> QED BY <2>2, <2>3, CancelsGame
<1> QED BY <1>1, <1>2 DEF CancelJobs

\* Of the other actions none changes an item, a job or a run.
LEMMA ItemsStepOfNext ==
  ASSUME TypeOK, \A i \in Items : GameOK(i), \A p \in Pages : PageOK(p), [Next]_vars
  PROVE  ItemsStep /\ GamesStep
<1>1. CASE UNCHANGED <<item, games>>
  BY <1>1, KeptGames DEF ItemsStep, ItemStep, Kept, TypeOK
<1>2. ASSUME NEW p \in Pages, Planning(p) \/ CrashPage(p)
      PROVE  ItemsStep /\ GamesStep
  <2>1. PageOK(p)
    OBVIOUS
  <2>2. CASE Enqueue(p)
    <3>1. ItemsStep
      BY <2>1, <2>2, EnqueueItems
    <3>2. First(page[p].todo) \in Items
      BY <2>1, <2>2, ItemOfPage DEF Enqueue
    <3>3. \/ UNCHANGED games
          \/ ~HasActive(First(page[p].todo)) /\ NewRun(First(page[p].todo), TRUE, TRUE)
      BY <2>2 DEF Enqueue
    <3> QED BY <3>1, <3>2, <3>3, KeptGames, NewRunGame
  <2>3. CASE ClaimPage(p)
    BY <2>3, ClaimItems, KeptGames DEF ClaimPage
  <2>4. CASE FailItem(p)
    BY <2>1, <2>4, FailItems, KeptGames DEF FailItem
  <2>5. CASE GiveBack(p) \/ CrashPage(p)
    BY <2>5, LostItems, KeptGames DEF GiveBack, CrashPage
  <2> QED BY <1>1, <1>2, <2>2, <2>3, <2>4, <2>5
          DEF Planning, OpenBatch, EnqueueRefused, EnqueueThrows, Refresh, ContinuePlan
<1>3. CASE Cancelling
  <2>1. ASSUME NEW k \in Keys, CancelItems(k)
        PROVE  ItemsStep /\ GamesStep
    BY <2>1, CancelledItems, KeptGames DEF CancelItems
  <2> QED BY <1>1, <1>3, <2>1, CancelJobItems
          DEF Cancelling, CancelRefresh, CancelDrop, CancelFails
<1>4. CASE Jobs
  <2>1. ASSUME NEW i \in Items, JobCancelled(i)
        PROVE  ItemsStep /\ GamesStep
    BY <2>1, CancelsGame DEF JobCancelled
  <2> QED BY <1>4, <2>1, StartsGame, EndsGame, LateGame, RequestGame, DeletedGame DEF Jobs
<1>5. ASSUME NEW k \in Keys, \/ Flush(k) \/ MessageExpires(k)
                             \/ \E p \in Pages : Deliver(p, k)
      PROVE  UNCHANGED <<item, games>>
  BY <1>5 DEF Flush, MessageExpires, Deliver
<1>6. CASE Disable \/ RecoverPlan \/ Reconcile \/ UNCHANGED vars
  BY <1>1, <1>6 DEF Disable, RecoverPlan, Reconcile, vars
<1>7. CASE Create
  BY <1>7, CreatedItems, KeptGames DEF Create
<1>8. ASSUME NEW i \in Items, LeaseExpires(i)
      PROVE  ItemsStep /\ GamesStep
  BY <1>8, LeaseItems, KeptGames DEF LeaseExpires
<1> QED BY <1>1, <1>2, <1>3, <1>4, <1>5, <1>6, <1>7, <1>8 DEF Next

\* What the steps of jobs leave alone.
LEMMA JobsAside ==
  ASSUME Jobs
  PROVE  /\ UNCHANGED <<status, page, mail, queue, canceller, queueOn>>
         /\ UNCHANGED item \/ \E i \in Items : DeleteGame(i)
         /\ UNCHANGED faults \/ Fault
         /\ UNCHANGED requests \/ Request
BY DEF Jobs, JobStarts, RunStarts, LateRunStarts, JobEnds, JobSucceeds, JobFails,
       JobExhausted, JobLeaves, JobRetried, JobCancelled, Unmoved, OtherRequest,
       DeleteGame, plan, rest

-----------------------------------------------------------------------------
(* What a step does to the status of the batch.                            *)

StatusStep ==
  \/ status' = status
  \/ status # "ABSENT" /\ status' = Aggregate /\ UNCHANGED <<item, games>>
  \/ status = "ABSENT" /\ status' = "PENDING"
  \/ status \in {"PENDING", "PLANNING"} /\ status' = "PLANNING"

LEMMA StatusStepOfNext ==
  ASSUME AbsentOK, [Next]_vars
  PROVE  StatusStep
<1> USE DEF StatusStep
<1>1. CASE Create
  BY <1>1 DEF Create
<1>2. ASSUME NEW p \in Pages, Planning(p) \/ CrashPage(p)
      PROVE  StatusStep
  <2>1. CASE ClaimPage(p)
    BY <2>1 DEF ClaimPage
  <2>2. CASE Refresh(p)
    BY <2>2 DEF Refresh, AbsentOK
  <2> QED BY <1>2, <2>1, <2>2
          DEF Planning, OpenBatch, Enqueue, EnqueueRefused, FailItem, EnqueueThrows,
              GiveBack, ContinuePlan, CrashPage
<1>3. CASE Cancelling
  <2>1. CASE CancelRefresh
    BY <2>1 DEF CancelRefresh, AbsentOK
  <2> QED BY <1>3, <2>1 DEF Cancelling, CancelItems, CancelJobs, CancelDrop, CancelFails
<1>4. CASE Reconcile
  BY <1>4 DEF Reconcile, Open
<1>5. CASE Jobs
  BY <1>5, JobsAside
<1>6. CASE RecoverPlan \/ Disable \/ UNCHANGED vars
  BY <1>6 DEF RecoverPlan, Disable, vars
<1>7. ASSUME NEW k \in Keys, \/ Flush(k) \/ MessageExpires(k)
                             \/ \E p \in Pages : Deliver(p, k)
      PROVE  StatusStep
  BY <1>7 DEF Flush, MessageExpires, Deliver
<1>8. ASSUME NEW i \in Items, LeaseExpires(i)
      PROVE  StatusStep
  BY <1>8 DEF LeaseExpires
<1> QED BY <1>1, <1>2, <1>3, <1>4, <1>5, <1>6, <1>7, <1>8 DEF Next

-----------------------------------------------------------------------------
(* What a step does to the plan messages.                                  *)

Rows == [Keys -> {"none", "waiting", "closed", "dropped"}]
Messages == [Keys -> {"unsent", "queued", "taken"}]

MailStep ==
  /\ mail' \in Rows /\ queue' \in Messages
  /\ \A k \in Keys : mail'[k] = "dropped" =>
       \/ mail[k] = "dropped"
       \/ canceller.pc = "drop" /\ UNCHANGED <<status, item, games>>

LEMMA MailUpdates ==
  \A k :
    /\ \A m \in Rows : \A x \in {"waiting", "closed", "dropped"} :
         /\ [m EXCEPT ![k] = x] \in Rows
         /\ \A j \in Keys : j # k => [m EXCEPT ![k] = x][j] = m[j]
         /\ k \in Keys => [m EXCEPT ![k] = x][k] = x
    /\ \A q \in Messages : \A x \in {"queued", "taken"} :
         [q EXCEPT ![k] = x] \in Messages
<1>1. ASSUME NEW k, NEW m \in Rows, NEW x \in {"waiting", "closed", "dropped"}
      PROVE  /\ [m EXCEPT ![k] = x] \in Rows
             /\ \A j \in Keys : j # k => [m EXCEPT ![k] = x][j] = m[j]
             /\ k \in Keys => [m EXCEPT ![k] = x][k] = x
  BY DEF Rows
<1>2. ASSUME NEW k, NEW q \in Messages, NEW x \in {"queued", "taken"}
      PROVE  [q EXCEPT ![k] = x] \in Messages
  BY DEF Messages
<1> QED BY <1>1, <1>2, Zenon

\* A row is staged, sent or closed; a message is taken.
LEMMA SentMail ==
  ASSUME TypeOK, NEW k, Box!Stage(k) \/ Box!Send(k) \/ Box!Close(k) \/ Box!Take(k)
  PROVE  MailStep
<1>1. mail \in Rows /\ queue \in Messages
  BY DEF TypeOK, Rows, Messages
<1>2. CASE Box!Stage(k) \/ Box!Close(k)
  <2>1. PICK x \in {"waiting", "closed"} : mail' = [mail EXCEPT ![k] = x] /\ queue' = queue
    BY <1>2 DEF Box!Stage, Box!Close, Box!Turn
  <2>2. \A j \in Keys : mail'[j] \in {mail[j], x}
    BY <1>1, <2>1, MailUpdates
  <2> QED BY <1>1, <2>1, <2>2, MailUpdates DEF MailStep
<1>3. CASE Box!Send(k) \/ Box!Take(k)
  <2>1. PICK x \in {"queued", "taken"} : queue' = [queue EXCEPT ![k] = x] /\ mail' = mail
    BY <1>3 DEF Box!Send, Box!Take
  <2> QED BY <1>1, <2>1, MailUpdates DEF MailStep
<1> QED BY <1>2, <1>3

LEMMA DoneMail ==
  ASSUME TypeOK, NEW p \in Pages, Done(p), mail' = mail
  PROVE  MailStep
BY MailUpdates DEF TypeOK, Done, MailStep, Rows, Messages

LEMMA KeptMail ==
  ASSUME TypeOK, UNCHANGED <<mail, queue>>
  PROVE  MailStep
BY DEF TypeOK, MailStep, Rows, Messages

LEMMA MailStepOfNext ==
  ASSUME TypeOK, CancellerOK, [Next]_vars
  PROVE  MailStep
<1>1. CASE Create \/ RecoverPlan
  BY <1>1, SentMail DEF Create, RecoverPlan
<1>2. ASSUME NEW p \in Pages, Planning(p) \/ CrashPage(p)
      PROVE  MailStep
  <2>1. CASE OpenBatch(p)
    BY <2>1, DoneMail, KeptMail DEF OpenBatch
  <2>2. CASE Refresh(p)
    BY <2>2, DoneMail, KeptMail DEF Refresh
  <2>3. CASE ContinuePlan(p)
    <3> DEFINE k == <<"next", page[p].next, 0>>
    <3>1. mail' = IF mail[k] = "none" THEN [mail EXCEPT ![k] = "waiting"] ELSE mail
      BY <2>3 DEF ContinuePlan
    <3>2. queue' = [queue EXCEPT ![page[p].key] = "taken"]
      BY <2>3 DEF ContinuePlan, Done
    <3>3. mail \in Rows /\ queue \in Messages
      BY DEF TypeOK, Rows, Messages
    <3> HIDE DEF k
    <3>4. mail' \in Rows /\ \A j \in Keys : mail'[j] \in {mail[j], "waiting"}
      <4>1. CASE mail[k] = "none"
        <5>1. mail' = [mail EXCEPT ![k] = "waiting"]
          BY <3>1, <4>1
        <5>2. mail' \in Rows
          BY <3>3, <5>1, MailUpdates
        <5>3. ASSUME NEW j \in Keys
              PROVE  mail'[j] \in {mail[j], "waiting"}
          BY <3>3, <5>1, MailUpdates
        <5> QED BY <5>2, <5>3
      <4>2. CASE mail[k] # "none"
        BY <3>1, <3>3, <4>2
      <4> QED BY <4>1, <4>2
    <3>5. queue' \in Messages
      BY <3>2, <3>3, MailUpdates
    <3> QED BY <3>4, <3>5 DEF MailStep
  <2> QED BY <1>2, <2>1, <2>2, <2>3, KeptMail
          DEF Planning, ClaimPage, Enqueue, EnqueueRefused, FailItem, EnqueueThrows,
              GiveBack, CrashPage
<1>3. CASE Cancelling
  <2>1. CASE CancelDrop
    <3> DEFINE k == canceller.key
    <3>1. mail' = [mail EXCEPT ![k] = "dropped"] /\ queue' = queue
      BY <2>1 DEF CancelDrop, Box!Drop, Box!Turn
    <3>2. mail \in Rows /\ queue \in Messages
      BY DEF TypeOK, Rows, Messages
    <3>3. canceller.pc = "drop" /\ UNCHANGED <<status, item, games>>
      BY <2>1 DEF CancelDrop
    <3> HIDE DEF k
    <3>4. mail' \in Rows
      BY <3>1, <3>2, MailUpdates
    <3> QED BY <3>1, <3>2, <3>3, <3>4 DEF MailStep
  <2> QED BY <1>3, <2>1, KeptMail
          DEF Cancelling, CancelItems, CancelJobs, CancelRefresh, CancelFails, plan
<1>4. CASE Jobs
  BY <1>4, JobsAside, KeptMail
<1>5. CASE Disable \/ Reconcile \/ UNCHANGED vars
  BY <1>5, KeptMail DEF Disable, Reconcile, vars, plan
<1>6. ASSUME NEW k \in Keys, \/ Flush(k) \/ MessageExpires(k)
                             \/ \E p \in Pages : Deliver(p, k)
      PROVE  MailStep
  BY <1>6, SentMail, KeptMail DEF Flush, MessageExpires, Deliver
<1>7. ASSUME NEW i \in Items, LeaseExpires(i)
      PROVE  MailStep
  BY <1>7, KeptMail DEF LeaseExpires, plan
<1> QED BY <1>1, <1>2, <1>3, <1>4, <1>5, <1>6, <1>7 DEF Next

-----------------------------------------------------------------------------
(* What a step does to the pages.                                          *)

PagesStep == page' \in [Pages -> Page] /\ \A p \in Pages : PageOK(p)'

\* One page turns; what it knows of itself is true.
LEMMA TurnedPage ==
  ASSUME TypeOK, \A q \in Pages : PageOK(q),
         NEW p \in Pages, NEW pg \in Page, page' = [page EXCEPT ![p] = pg],
         pg.pc # "idle" => pg.key \in Keys,
         pg.pc \in {"enqueue", "fail"} => pg.todo # {},
         pg.pc = "continue" => pg.next \in Items
  PROVE  PagesStep
<1>1. page' \in [Pages -> Page] /\ page'[p] = pg
  BY DEF TypeOK
<1>2. PageOK(p)'
  BY <1>1 DEF PageOK
<1>3. ASSUME NEW q \in Pages, q # p
      PROVE  PageOK(q)'
  <2>1. page'[q] = page[q] /\ PageOK(q)
    BY <1>3 DEF TypeOK
  <2> QED BY <2>1 DEF PageOK
<1> QED BY <1>1, <1>2, <1>3 DEF PagesStep

\* Fields of a page take values of their types.
LEMMA PageTypes ==
  /\ IdlePage \in Page
  /\ \A k \in Keys : [IdlePage EXCEPT !.pc = "open", !.key = k] \in Page
  /\ \A pg \in Page :
       /\ \A pc \in {"claim", "fail", "giveback", "refresh", "enqueue"} :
            /\ [pg EXCEPT !.pc = pc] \in Page
            /\ \A S \in SUBSET Items : [pg EXCEPT !.todo = S, !.pc = pc] \in Page
       /\ \A i \in Items : [pg EXCEPT !.pc = "continue", !.next = i] \in Page
<1>1. IdlePage \in Page
  BY Zenon DEF IdlePage, Page
<1>2. ASSUME NEW k \in Keys
      PROVE  [IdlePage EXCEPT !.pc = "open", !.key = k] \in Page
  BY DEF IdlePage, Page
<1>3. ASSUME NEW pg \in Page, NEW pc \in {"claim", "fail", "giveback", "refresh", "enqueue"}
      PROVE  /\ [pg EXCEPT !.pc = pc] \in Page
             /\ \A S \in SUBSET Items : [pg EXCEPT !.todo = S, !.pc = pc] \in Page
  BY DEF Page
<1>4. ASSUME NEW pg \in Page, NEW i \in Items
      PROVE  [pg EXCEPT !.pc = "continue", !.next = i] \in Page
  BY DEF Page
<1> QED BY <1>1, <1>2, <1>3, <1>4

LEMMA IdlePages ==
  ASSUME TypeOK, \A q \in Pages : PageOK(q), NEW p \in Pages,
         page' = [page EXCEPT ![p] = IdlePage]
  PROVE  PagesStep
<1>1. IdlePage \in Page /\ IdlePage.pc = "idle"
  BY PageTypes DEF IdlePage
<1> HIDE DEF IdlePage
<1> QED BY <1>1, TurnedPage

\* A page goes to another statement, with the same item or without one.
LEMMA GonePages ==
  ASSUME TypeOK, \A q \in Pages : PageOK(q), NEW p \in Pages,
         NEW pc \in {"claim", "fail", "giveback", "refresh", "enqueue"}, Go(p, pc),
         page[p].pc # "idle",
         pc \in {"fail", "enqueue"} => page[p].todo # {}
  PROVE  PagesStep
<1> DEFINE pg == [page[p] EXCEPT !.pc = pc]
<1>1. page[p] \in Page /\ page[p].key \in Keys
  BY DEF TypeOK, PageOK
<1>2. pg.pc = pc /\ pg.todo = page[p].todo /\ pg.key = page[p].key
  BY <1>1 DEF Page
<1>4. pg \in Page
  BY <1>1, PageTypes
<1>3. page' = [page EXCEPT ![p] = pg]
  BY DEF Go
<1> HIDE DEF pg
<1> QED BY <1>1, <1>2, <1>3, <1>4, TurnedPage

\* A page has these items to go on with, or none and refreshes.
LEMMA LoopPages ==
  ASSUME TypeOK, \A q \in Pages : PageOK(q), NEW p \in Pages, NEW S \in SUBSET Items,
         page[p].pc # "idle",
         page' = [page EXCEPT ![p].todo = S,
                              ![p].pc = IF S = {} THEN "refresh" ELSE "enqueue"]
  PROVE  PagesStep
<1> DEFINE pc == IF S = {} THEN "refresh" ELSE "enqueue"
           pg == [page[p] EXCEPT !.todo = S, !.pc = pc]
<1>1. page[p] \in Page /\ page[p].key \in Keys
  BY DEF TypeOK, PageOK
<1>2. pc \in {"claim", "fail", "giveback", "refresh", "enqueue"}
  OBVIOUS
<1>3. pg \in Page /\ pg.pc = pc /\ pg.todo = S /\ pg.key = page[p].key
  <2> HIDE DEF pc
  <2>1. pg \in Page
    BY <1>1, <1>2, PageTypes
  <2> QED BY <1>1, <2>1 DEF Page
<1>4. page' = [page EXCEPT ![p] = pg]
  BY DEF TypeOK
<1>5. pc \in {"enqueue", "fail"} => S # {}
  OBVIOUS
<1>6. pc # "continue" /\ pc # "idle"
  OBVIOUS
<1> HIDE DEF pg, pc
<1> QED BY <1>1, <1>3, <1>4, <1>5, <1>6, TurnedPage

LEMMA AfterPages ==
  ASSUME TypeOK, \A q \in Pages : PageOK(q), NEW p \in Pages, page[p].pc # "idle",
         After(p)
  PROVE  PagesStep
<1> DEFINE S == page[p].todo \ {First(page[p].todo)}
<1>1. S \in SUBSET Items
  BY DEF TypeOK, Page
<1>2. page' = [page EXCEPT ![p].todo = S,
                           ![p].pc = IF S = {} THEN "refresh" ELSE "enqueue"]
  BY DEF After
<1> HIDE DEF S
<1> QED BY <1>1, <1>2, LoopPages

LEMMA PlanningPages ==
  ASSUME TypeOK, \A q \in Pages : PageOK(q), NEW p \in Pages, Planning(p) \/ CrashPage(p)
  PROVE  PagesStep
<1>1. ASSUME Done(p) \/ GiveBack(p) \/ CrashPage(p)
      PROVE  PagesStep
  BY <1>1, IdlePages DEF Done, GiveBack, CrashPage
<1>2. CASE OpenBatch(p)
  BY <1>1, <1>2, GonePages DEF OpenBatch
<1>3. CASE ClaimPage(p)
  <2>1. Front(Claimable) \in SUBSET Items
    BY DEF Front, Claimable
  <2> QED BY <1>3, <2>1, LoopPages DEF ClaimPage
<1>4. CASE Enqueue(p) \/ FailItem(p)
  BY <1>4, AfterPages DEF Enqueue, FailItem
<1>5. CASE EnqueueRefused(p)
  BY <1>5, GonePages DEF EnqueueRefused, PageOK
<1>6. CASE EnqueueThrows(p)
  BY <1>6, GonePages DEF EnqueueThrows
<1>7. CASE Refresh(p)
  <2>1. CASE With("PENDING") # {}
    <3> DEFINE i == First(With("PENDING"))
               pg == [page[p] EXCEPT !.pc = "continue", !.next = i]
    <3>1. With("PENDING") \in SUBSET Items
      BY DEF With
    <3>2. i \in Items
      BY <2>1, <3>1, FirstIn
    <3>3. page' = [page EXCEPT ![p].pc = "continue", ![p].next = i]
      BY <1>7, <2>1 DEF Refresh
    <3> HIDE DEF i
    <3>4. page[p] \in Page /\ page[p].key \in Keys
      BY <1>7 DEF Refresh, TypeOK, PageOK
    <3>5. pg \in Page
      BY <3>2, <3>4, PageTypes
    <3>7. pg.pc = "continue" /\ pg.next = i /\ pg.key = page[p].key
      BY <3>4 DEF Page
    <3>6. page' = [page EXCEPT ![p] = pg]
      BY <3>3 DEF TypeOK
    <3> HIDE DEF pg
    <3> QED BY <3>2, <3>4, <3>5, <3>6, <3>7, TurnedPage
  <2> QED BY <1>1, <1>7, <2>1 DEF Refresh
<1>8. CASE ContinuePlan(p)
  BY <1>1, <1>8 DEF ContinuePlan
<1> QED BY <1>1, <1>2, <1>3, <1>4, <1>5, <1>6, <1>7, <1>8 DEF Planning

LEMMA KeptPages ==
  ASSUME TypeOK, \A q \in Pages : PageOK(q), page' = page
  PROVE  PagesStep
BY DEF TypeOK, PagesStep, PageOK

LEMMA PagesStepOfNext ==
  ASSUME TypeOK, \A q \in Pages : PageOK(q), [Next]_vars
  PROVE  PagesStep
<1>1. ASSUME NEW k \in Keys, NEW p \in Pages, Deliver(p, k)
      PROVE  PagesStep
  <2> DEFINE pg == [IdlePage EXCEPT !.pc = "open", !.key = k]
  <2>1. pg \in Page /\ pg.pc = "open" /\ pg.key = k
    BY PageTypes DEF IdlePage
  <2>2. page' = [page EXCEPT ![p] = pg]
    BY <1>1 DEF Deliver
  <2> HIDE DEF pg
  <2> QED BY <2>1, <2>2, TurnedPage
<1>2. ASSUME NEW k \in Keys, Flush(k) \/ MessageExpires(k)
      PROVE  PagesStep
  BY <1>2, KeptPages DEF Flush, MessageExpires
<1>3. CASE Cancelling
  BY <1>3, KeptPages DEF Cancelling, CancelItems, CancelJobs, CancelRefresh, CancelDrop,
                         CancelFails, plan
<1>4. CASE Jobs
  BY <1>4, JobsAside, KeptPages
<1>5. CASE Disable \/ Reconcile \/ RecoverPlan \/ UNCHANGED vars
  BY <1>5, KeptPages DEF Disable, Reconcile, RecoverPlan, vars, plan
<1>6. CASE Create
  BY <1>6, KeptPages DEF Create
<1>7. ASSUME NEW i \in Items, LeaseExpires(i)
      PROVE  PagesStep
  BY <1>7, KeptPages DEF LeaseExpires, plan
<1> QED BY <1>1, <1>2, <1>3, <1>4, <1>5, <1>6, <1>7, PlanningPages DEF Next

-----------------------------------------------------------------------------
(* What a step does to the canceller, and before the batch exists.         *)

CancellerStep ==
  /\ canceller' \in Canceller
  /\ canceller'.pc # "idle" =>
       canceller'.key \in Keys /\ (canceller.pc # "idle" \/ Remaining' = {})
  /\ canceller'.pc = "drop" =>
       canceller.pc = "drop" \/ (canceller.pc = "refresh" /\ status' = Aggregate)

LEMMA KeptCanceller ==
  ASSUME TypeOK, CancellerOK, UNCHANGED canceller
  PROVE  CancellerStep
BY DEF TypeOK, CancellerOK, CancellerStep

\* With its first transaction nothing is left to plan.
LEMMA CancelItemsEmpties ==
  ASSUME TypeOK, NEW k \in Keys, CancelItems(k)
  PROVE  Remaining' = {}
<1>1. item' = [i \in Items |-> IF i \in Remaining THEN Fresh("CANCELLED") ELSE item[i]]
  BY DEF CancelItems
<1>2. ASSUME NEW i \in Items
      PROVE  item'[i].status \notin {"PENDING", "PLANNING"}
  <2>1. CASE i \in Remaining
    <3>1. item'[i].status = "CANCELLED"
      BY <1>1, <2>1, FreshTypes
    <3> QED BY <3>1
  <2>2. CASE i \notin Remaining
    <3>1. item'[i] = item[i]
      BY <1>1, <2>2
    <3> QED BY <2>2, <3>1 DEF Remaining, With
  <2> QED BY <2>1, <2>2
<1> QED BY <1>2 DEF Remaining, With

LEMMA CancellerStepOfNext ==
  ASSUME TypeOK, CancellerOK, [Next]_vars
  PROVE  CancellerStep
<1>1. IdleCanceller \in Canceller /\ IdleCanceller.pc = "idle"
  BY DEF IdleCanceller, Canceller
<1>2. canceller \in Canceller
  BY DEF TypeOK
<1>3. CASE Cancelling
  <2>1. ASSUME NEW k \in Keys, CancelItems(k)
        PROVE  CancellerStep
    <3>1. canceller' = [pc |-> "jobs", key |-> k, jobs |-> With("QUEUED")]
      BY <2>1 DEF CancelItems
    <3>2. canceller' \in Canceller
      BY <3>1 DEF Canceller, With
    <3> QED BY <2>1, <3>1, <3>2, CancelItemsEmpties DEF CancellerStep
  <2>2. CASE CancelJobs
    <3>1. \/ canceller' = [canceller EXCEPT !.pc = "refresh"]
          \/ canceller' = [canceller EXCEPT !.jobs = @ \ {First(canceller.jobs)}]
      BY <2>2 DEF CancelJobs
    <3>2. canceller' \in Canceller /\ canceller'.key = canceller.key
          /\ canceller'.pc \in {"refresh", canceller.pc} /\ canceller.pc = "jobs"
      BY <1>2, <2>2, <3>1 DEF CancelJobs, Canceller
    <3> QED BY <3>2 DEF CancellerStep, CancellerOK
  <2>3. CASE CancelRefresh
    <3>1. canceller' = [canceller EXCEPT !.pc = "drop"] /\ status' = Aggregate
          /\ canceller.pc = "refresh"
      BY <2>3 DEF CancelRefresh
    <3>2. canceller' \in Canceller /\ canceller'.key = canceller.key
      BY <1>2, <3>1 DEF Canceller
    <3> QED BY <3>1, <3>2 DEF CancellerStep, CancellerOK
  <2>4. CASE CancelDrop \/ CancelFails
    BY <1>1, <2>4 DEF CancelDrop, CancelFails, CancellerStep
  <2> QED BY <1>3, <2>1, <2>2, <2>3, <2>4 DEF Cancelling
<1>4. ASSUME NEW p \in Pages, Planning(p) \/ CrashPage(p)
      PROVE  UNCHANGED canceller
  BY <1>4 DEF Planning, OpenBatch, ClaimPage, Enqueue, EnqueueRefused, FailItem,
              EnqueueThrows, GiveBack, Refresh, ContinuePlan, CrashPage, rest
<1>5. CASE Jobs
  <2>1. UNCHANGED canceller
    BY <1>5, JobsAside
  <2> QED BY <2>1, KeptCanceller
<1>6. CASE Create \/ Disable \/ Reconcile \/ RecoverPlan \/ UNCHANGED vars
  BY <1>6, KeptCanceller DEF Create, Disable, Reconcile, RecoverPlan, vars, rest
<1>7. ASSUME NEW k \in Keys, \/ Flush(k) \/ MessageExpires(k)
                             \/ \E p \in Pages : Deliver(p, k)
      PROVE  UNCHANGED canceller
  BY <1>7 DEF Flush, MessageExpires, Deliver, rest
<1>8. ASSUME NEW i \in Items, LeaseExpires(i)
      PROVE  UNCHANGED canceller
  BY <1>8 DEF LeaseExpires, rest
<1> QED BY <1>3, <1>4, <1>5, <1>6, <1>7, <1>8, KeptCanceller DEF Next

\* Until the batch is created, nothing of it changes.
LEMMA AbsentStep ==
  ASSUME AbsentOK, [Next]_vars, status' = "ABSENT"
  PROVE  status = "ABSENT" /\ UNCHANGED <<item, page, canceller, mail, queue>>
<1>1. status = "ABSENT" /\ ~Create
  <2>1. StatusStep
    BY StatusStepOfNext
  <2>2. Aggregate # "ABSENT"
    BY DEF Aggregate
  <2> QED BY <2>1, <2>2 DEF StatusStep, Create
<1>2. /\ \A i \in Items : item[i].status = "ABSENT"
      /\ \A k \in Keys : mail[k] = "none" /\ queue[k] = "unsent"
      /\ \A p \in Pages : page[p].pc = "idle"
      /\ canceller.pc = "idle"
  BY <1>1 DEF AbsentOK
<1>3. ASSUME NEW p \in Pages, Planning(p) \/ CrashPage(p)
      PROVE  FALSE
  BY <1>2, <1>3 DEF Planning, OpenBatch, ClaimPage, Enqueue, EnqueueRefused, FailItem,
                    EnqueueThrows, GiveBack, Refresh, ContinuePlan, CrashPage
<1>4. ASSUME NEW k \in Keys, \/ Flush(k) \/ MessageExpires(k)
                             \/ \E p \in Pages : Deliver(p, k)
      PROVE  FALSE
  BY <1>2, <1>4 DEF Flush, MessageExpires, Deliver, Box!Send, Box!Close, Box!Take, Box!Turn
<1>5. ~Cancelling
  BY <1>2 DEF Cancelling, CancelItems, CancelJobs, CancelRefresh, CancelDrop, CancelFails
<1>6. ~RecoverPlan /\ ~Reconcile
  BY <1>1 DEF RecoverPlan, Reconcile, Open
<1>7. ASSUME NEW i \in Items, LeaseExpires(i)
      PROVE  FALSE
  BY <1>2, <1>7 DEF LeaseExpires
<1>8. CASE Jobs
  BY <1>2, <1>8, JobsAside DEF DeleteGame
<1>9. CASE Disable \/ UNCHANGED vars
  BY <1>9 DEF Disable, plan, rest, vars
<1> QED BY <1>1, <1>3, <1>4, <1>5, <1>6, <1>7, <1>8, <1>9 DEF Next

-----------------------------------------------------------------------------
(* The invariant.                                                          *)

\* The counters and the switch keep their types.
LEMMA CountersStep ==
  ASSUME TypeOK, [Next]_vars
  PROVE  queueOn' \in BOOLEAN /\ requests' \in 0..MaxRequests /\ faults' \in 0..MaxFaults
<1>1. MaxRequests \in Nat /\ MaxFaults \in Nat
  BY BatchAssumption
<1>2. queueOn \in BOOLEAN /\ requests \in 0..MaxRequests /\ faults \in 0..MaxFaults
  BY DEF TypeOK
<1>3. UNCHANGED faults \/ Fault
  BY JobsAside DEF Next, Create, Disable, Cancelling, CancelItems, CancelJobs, CancelRefresh,
         CancelDrop, CancelFails, RecoverPlan, Reconcile, Flush, MessageExpires, Deliver,
         Planning, OpenBatch, ClaimPage, Enqueue, EnqueueRefused, FailItem, EnqueueThrows,
         GiveBack, Refresh, ContinuePlan, CrashPage, LeaseExpires, vars
<1>4. UNCHANGED requests \/ Request
  BY JobsAside DEF Next, Create, Disable, Cancelling, CancelItems, CancelJobs, CancelRefresh,
         CancelDrop, CancelFails, RecoverPlan, Reconcile, Flush, MessageExpires, Deliver,
         Planning, OpenBatch, ClaimPage, Enqueue, EnqueueRefused, FailItem, EnqueueThrows,
         GiveBack, Refresh, ContinuePlan, CrashPage, LeaseExpires, vars, rest
<1>5. UNCHANGED queueOn \/ queueOn' = FALSE
  BY JobsAside DEF Next, Create, Disable, Cancelling, CancelItems, CancelJobs, CancelRefresh,
         CancelDrop, CancelFails, RecoverPlan, Reconcile, Flush, MessageExpires, Deliver,
         Planning, OpenBatch, ClaimPage, Enqueue, EnqueueRefused, FailItem, EnqueueThrows,
         GiveBack, Refresh, ContinuePlan, CrashPage, LeaseExpires, vars, rest
<1>6. faults' \in 0..MaxFaults
  BY <1>1, <1>2, <1>3 DEF Fault
<1>7. requests' \in 0..MaxRequests
  BY <1>1, <1>2, <1>4 DEF Request
<1> QED BY <1>2, <1>5, <1>6, <1>7

\* The parts of TypeOK that the lemmas about single variables add up to.
LEMMA TypeKept ==
  ASSUME Inv, [Next]_vars
  PROVE  TypeOK'
<1>1. ItemsStep /\ GamesStep /\ StatusStep /\ MailStep /\ PagesStep /\ CancellerStep
  BY ItemsStepOfNext, StatusStepOfNext, MailStepOfNext, PagesStepOfNext,
     CancellerStepOfNext DEF Inv
<1>2. status' \in {"ABSENT"} \cup Open \cup Terminal
  <2>1. Aggregate \in Open \cup Terminal
    BY DEF Aggregate, Open, Terminal
  <2> QED BY <1>1, <2>1 DEF StatusStep, Inv, TypeOK, Open
<1>3. ASSUME NEW i \in Items
      PROVE  Len(runs'[i]) <= MaxRuns /\ item'[i].run <= Len(runs'[i])
  <2>1. /\ Len(runs[i]) <= MaxRuns /\ item[i].run <= Len(runs[i])
        /\ Len(runs[i]) \in Nat /\ item[i].run \in Nat /\ MaxRuns \in Nat
    <3>1. item[i] \in Item /\ runs[i] \in Seq(Run)
      BY DEF Inv, TypeOK
    <3> QED BY <3>1, LenProperties, BatchAssumption DEF Inv, TypeOK, Item
  <2>2. Fresh("ABSENT").run = 0 /\ Fresh("PENDING").run = 0
    BY DEF Fresh
  <2>3. CASE Deleted(i)
    BY <2>1, <2>2, <2>3 DEF Deleted
  <2>4. CASE Created(i) \/ Kept(i) \/ Replanned(i) \/ Found(i)
    BY <2>1, <2>2, <2>4 DEF Created, Kept, Replanned, Found
  <2>5. CASE RunMoved(i) \/ RunLate(i)
    BY <2>1, <2>5 DEF RunMoved, Moved, RunLate, Late
  <2>6. CASE RunAdded(i) \/ Queued(i)
    BY <2>1, <2>6 DEF RunAdded, Queued, Added
  <2> QED BY <1>1, <2>3, <2>4, <2>5, <2>6 DEF ItemsStep, ItemStep
<1>4. queueOn' \in BOOLEAN /\ requests' \in 0..MaxRequests /\ faults' \in 0..MaxFaults
  BY CountersStep DEF Inv
<1> QED BY <1>1, <1>2, <1>3, <1>4
        DEF TypeOK, ItemsStep, GamesStep, MailStep, PagesStep, CancellerStep, Rows, Messages

\* No step pays for an item again, nor leaves it unpaid.
LEMMA RunsKept ==
  ASSUME Inv, ItemsStep
  PROVE  RunsMatchItems'
<1> DEFINE Ours(s) == {n \in 1..Len(s) : s[n].ours}
           Named(it) == IF it.status = "QUEUED" THEN {it.run} ELSE {}
<1>1. ASSUME NEW i \in Items
      PROVE  Ours(runs'[i]) = Named(item'[i])
  <2>1. Ours(runs[i]) = Named(item[i])
    BY DEF Inv, RunsMatchItems
  <2>2. Len(runs[i]) \in Nat
    BY LenProperties DEF Inv, TypeOK
  <2>3. CASE Kept(i)
    BY <2>1, <2>3 DEF Kept
  <2>4. CASE RunMoved(i) \/ RunLate(i)
    <3>1. Ours(runs'[i]) = Ours(runs[i])
      BY <2>4 DEF RunMoved, Moved, RunLate, Late
    <3> QED BY <2>1, <2>4, <3>1 DEF RunMoved, RunLate
  <2>5. CASE RunAdded(i)
    <3>1. Ours(runs'[i]) = Ours(runs[i])
      BY <2>2, <2>5 DEF RunAdded, Added
    <3> QED BY <2>1, <2>5, <3>1 DEF RunAdded
  <2>6. CASE Replanned(i) \/ Found(i)
    <3>1. item[i].status # "QUEUED" /\ item'[i].status # "QUEUED" /\ runs'[i] = runs[i]
      BY <2>6 DEF Replanned, Found
    <3> QED BY <2>1, <3>1
  <2>7. CASE Queued(i)
    <3>1. Ours(runs[i]) = {}
      BY <2>1, <2>7 DEF Queued
    <3>2. Ours(runs'[i]) = {Len(runs[i]) + 1}
      BY <2>2, <2>7, <3>1 DEF Queued, Added
    <3> QED BY <2>7, <3>2 DEF Queued
  <2>8. CASE Deleted(i)
    <3>1. runs'[i] = <<>> /\ item'[i].status = "ABSENT"
      BY <2>8 DEF Deleted, Fresh
    <3>2. Ours(runs'[i]) = {}
      BY <3>1
    <3> QED BY <3>1, <3>2
  <2>9. CASE Created(i)
    <3>1. item[i].status = "ABSENT" /\ item'[i].status = "PENDING" /\ runs'[i] = runs[i]
      BY <2>9 DEF Created, Inv, AbsentOK, Fresh
    <3> QED BY <2>1, <3>1
  <2> QED BY <2>3, <2>4, <2>5, <2>6, <2>7, <2>8, <2>9 DEF ItemsStep, ItemStep
<1> QED BY <1>1 DEF RunsMatchItems

\* What was decided of an item stays decided.  Once no job works on its run, none
\* does any more, and the run stays what it is or is put back by one who is late.
SameOrLate(i) ==
  LET n == item[i].run
  IN  \/ runs'[i][n] = runs[i][n]
      \/ runs'[i][n].status = "RUNNING" /\ runs'[i][n].left = "late"

Aside(i) == item[i].run < Len(runs[i]) \/ ~HasActive(i)

LEMMA SettledItem ==
  ASSUME Inv, ItemsStep, status # "ABSENT", NEW i \in Items,
         item[i].status \notin {"PENDING", "PLANNING"}
  PROVE  /\ item'[i] \in {item[i], Fresh("ABSENT")}
         /\ item'[i].status \in Linked /\ Aside(i) => SameOrLate(i) /\ Aside(i)'
<1>1. Kept(i) \/ RunMoved(i) \/ RunLate(i) \/ RunAdded(i) \/ Deleted(i)
  BY DEF ItemsStep, ItemStep, Replanned, Found, Queued, Created
<1>2. CASE Kept(i)
  BY <1>2 DEF Kept, SameOrLate, Aside, HasActive
<1>3. CASE Deleted(i)
  BY <1>3 DEF Deleted, Fresh, Linked
<1>4. CASE RunMoved(i) \/ RunLate(i) \/ RunAdded(i)
  <2>1. item'[i] = item[i]
    BY <1>4 DEF RunMoved, RunLate, RunAdded
  <2> SUFFICES ASSUME item[i].status \in Linked, Aside(i)
               PROVE  SameOrLate(i) /\ Aside(i)'
    BY <2>1
  <2>2. item[i].run \in 1..Len(runs[i]) /\ Len(runs[i]) \in Nat
    <3>1. item[i] \in Item /\ runs[i] \in Seq(Run)
      BY DEF Inv, TypeOK
    <3>2. item[i].run \in Nat /\ item[i].run # 0
      BY <3>1, BatchAssumption DEF Item, Inv, LinksOK
    <3> QED BY <3>1, <3>2, LenProperties DEF Inv, TypeOK
  <2>3. CASE RunMoved(i)
    <3>1. item[i].run < Len(runs[i])
      BY <2>3 DEF RunMoved, Aside
    <3> QED BY <2>1, <2>2, <2>3, <3>1 DEF RunMoved, Moved, SameOrLate, Aside
  <2>4. CASE RunLate(i)
    BY <2>1, <2>2, <2>4 DEF RunLate, Late, SameOrLate, Aside, HasActive
  <2>5. CASE RunAdded(i)
    BY <2>1, <2>2, <2>5 DEF RunAdded, Added, SameOrLate, Aside
  <2> QED BY <1>4, <2>3, <2>4, <2>5
<1> QED BY <1>1, <1>2, <1>3, <1>4

\* When nothing is left to plan, nothing ever is.
LEMMA NothingLeft ==
  ASSUME Inv, ItemsStep, status # "ABSENT", Remaining = {}
  PROVE  Remaining' = {}
<1>1. ASSUME NEW i \in Items
      PROVE  item'[i].status \notin {"PENDING", "PLANNING"}
  <2>1. item[i].status \notin {"PENDING", "PLANNING"}
    BY DEF Remaining, With
  <2>2. item'[i] \in {item[i], Fresh("ABSENT")}
    BY <2>1, SettledItem
  <2> QED BY <2>1, <2>2 DEF Fresh
<1> QED BY <1>1 DEF Remaining, With

\* A run that is not active is not its job's any more.
LEMMA EndedIsAside ==
  ASSUME Inv, NEW i \in Items, item[i].status \in Linked,
         runs[i][item[i].run].status \notin Active
  PROVE  Aside(i)
<1>1. item[i].run <= Len(runs[i]) /\ item[i].run \in Nat /\ Len(runs[i]) \in Nat
  <2>1. item[i] \in Item /\ runs[i] \in Seq(Run) /\ MaxRuns \in Nat
    BY BatchAssumption DEF Inv, TypeOK
  <2> QED BY <2>1, LenProperties DEF Item, Inv, TypeOK
<1>2. HasActive(i) => runs[i][Len(runs[i])].status \in Active
  BY DEF Inv, GameOK
<1> QED BY <1>1, <1>2 DEF Aside

\* A batch that ends with this step ends truly.
LEMMA EndsNow ==
  ASSUME Inv, status' = Aggregate, UNCHANGED <<item, games>>
  PROVE  EndIsTrue' /\ SettledOK'
<1>1. /\ Remaining' = Remaining /\ LinkedWith(Active)' = LinkedWith(Active)
      /\ Unsuccessful' = Unsuccessful
  BY DEF Remaining, With, LinkedWith, Unsuccessful
<1>2. /\ Aggregate \in Terminal => Remaining = {} /\ LinkedWith(Active) = {}
      /\ Aggregate = "COMPLETED" => Unsuccessful = {}
  BY DEF Aggregate, Terminal
<1>3. EndIsTrue'
  BY <1>1, <1>2 DEF EndIsTrue
<1>4. ASSUME Aggregate \in Terminal, NEW i \in Items, item[i].status \in Linked
      PROVE  Aside(i)
  <2>1. runs[i][item[i].run].status \notin Active
    BY <1>2, <1>4 DEF LinkedWith
  <2> QED BY <1>4, <2>1, EndedIsAside
<1>5. SettledOK'
  BY <1>4 DEF SettledOK, Aside, HasActive
<1> QED BY <1>3, <1>5

LEMMA EndKept ==
  ASSUME Inv, ItemsStep, StatusStep
  PROVE  EndIsTrue' /\ SettledOK'
<1>1. CASE status' = Aggregate /\ UNCHANGED <<item, games>>
  BY <1>1, EndsNow
<1>2. CASE status' = status
  <2>1. CASE status \in Terminal
    <3>1. /\ status # "ABSENT" /\ Remaining = {}
          /\ \A i \in LinkedWith(Active) : runs[i][item[i].run].left = "late"
          /\ status = "COMPLETED" => Unsuccessful = {}
          /\ \A i \in Items : item[i].status \in Linked => Aside(i)
      BY <2>1 DEF Inv, EndIsTrue, Terminal, SettledOK, Aside
    <3>2. Remaining' = {}
      BY <3>1, NothingLeft
    <3>3. ASSUME NEW i \in Items
          PROVE  /\ item'[i] \in {item[i], Fresh("ABSENT")}
                 /\ item'[i].status \in Linked =>
                      item'[i] = item[i] /\ SameOrLate(i) /\ Aside(i)'
      <4>1. item[i].status \notin {"PENDING", "PLANNING"}
        BY <3>1 DEF Remaining, With
      <4>2. item'[i] \in {item[i], Fresh("ABSENT")}
        BY <3>1, <4>1, SettledItem
      <4>3. item'[i].status \in Linked => item'[i] = item[i]
        BY <4>2 DEF Fresh, Linked
      <4> QED BY <3>1, <4>1, <4>2, <4>3, SettledItem
    <3>4. ASSUME NEW i \in LinkedWith(Active)'
          PROVE  runs'[i][item'[i].run].left = "late"
      <4>1. i \in Items /\ item'[i].status \in Linked
            /\ runs'[i][item'[i].run].status \in Active
        BY <3>4 DEF LinkedWith
      <4>2. item'[i] = item[i] /\ SameOrLate(i)
        BY <3>3, <4>1
      <4>3. CASE runs'[i][item[i].run] = runs[i][item[i].run]
        BY <3>1, <4>1, <4>2, <4>3 DEF LinkedWith
      <4> QED BY <4>2, <4>3 DEF SameOrLate
    <3>5. status = "COMPLETED" => Unsuccessful' = {}
      <4> SUFFICES ASSUME Unsuccessful = {}
                   PROVE  Unsuccessful' = {}
        BY <3>1
      <4>1. ASSUME NEW i \in Items
            PROVE  /\ item'[i].status \notin {"FAILED", "CANCELLED"}
                   /\ item'[i].status \in Linked =>
                        runs'[i][item'[i].run].status \notin {"FAILED", "CANCELLED"}
        <5>1. /\ item[i].status \notin {"FAILED", "CANCELLED"}
              /\ item[i].status \in Linked =>
                   runs[i][item[i].run].status \notin {"FAILED", "CANCELLED"}
          BY DEF Unsuccessful, With, LinkedWith
        <5>2. Fresh("ABSENT").status = "ABSENT"
          BY DEF Fresh
        <5> QED BY <3>3, <5>1, <5>2 DEF SameOrLate
      <4> QED BY <4>1 DEF Unsuccessful, With, LinkedWith
    <3>6. SettledOK'
      BY <3>3 DEF SettledOK, Aside
    <3> QED BY <1>2, <3>2, <3>4, <3>5, <3>6 DEF EndIsTrue
  <2>2. CASE status \notin Terminal
    BY <1>2, <2>2 DEF EndIsTrue, SettledOK, Terminal
  <2> QED BY <2>1, <2>2
<1> QED BY <1>1, <1>2 DEF StatusStep, EndIsTrue, SettledOK, Terminal

\* A batch with nothing left to plan that has ended or waits for runs does so
\* from then on.
LEMMA ToldKept ==
  ASSUME Inv, ItemsStep, StatusStep,
         Remaining = {}, status \in Terminal \cup {"QUEUED"}
  PROVE  Remaining' = {} /\ status' \in Terminal \cup {"QUEUED"}
<1>1. status # "ABSENT" /\ status \notin {"PENDING", "PLANNING"}
  BY DEF Terminal
<1>2. Remaining' = {}
  BY <1>1, NothingLeft
<1>3. Aggregate \in Terminal \cup {"QUEUED"}
  BY DEF Aggregate, Terminal
<1> QED BY <1>1, <1>2, <1>3 DEF StatusStep

LEMMA GivenUpKept ==
  ASSUME Inv, ItemsStep, StatusStep, MailStep
  PROVE  GivenUpIsTold'
<1> SUFFICES ASSUME NEW k \in Keys, mail'[k] = "dropped"
             PROVE  Remaining' = {} /\ status' \in Terminal \cup {"QUEUED"}
  BY DEF GivenUpIsTold
<1>1. Remaining = {} /\ status \in Terminal \cup {"QUEUED"}
  BY DEF MailStep, Inv, GivenUpIsTold, CancellerOK
<1> QED BY <1>1, ToldKept

LEMMA CancellerKept ==
  ASSUME Inv, ItemsStep, StatusStep, CancellerStep
  PROVE  CancellerOK'
<1>1. ASSUME canceller'.pc # "idle"
      PROVE  canceller'.key \in Keys /\ Remaining' = {}
  <2>1. CASE canceller.pc # "idle"
    <3>1. status # "ABSENT" /\ Remaining = {}
      BY <2>1 DEF Inv, AbsentOK, CancellerOK
    <3> QED BY <1>1, <3>1, NothingLeft DEF CancellerStep
  <2> QED BY <1>1, <2>1 DEF CancellerStep
<1>2. ASSUME canceller'.pc = "drop"
      PROVE  status' \in Terminal \cup {"QUEUED"}
  <2>1. CASE canceller.pc = "drop"
    BY <2>1, ToldKept DEF Inv, CancellerOK
  <2>2. CASE canceller.pc = "refresh" /\ status' = Aggregate
    <3>1. Remaining = {}
      BY <2>2 DEF Inv, CancellerOK
    <3> QED BY <2>2, <3>1 DEF Aggregate, Terminal
  <2> QED BY <1>2, <2>1, <2>2 DEF CancellerStep
<1> QED BY <1>1, <1>2 DEF CancellerOK

LEMMA LinksKept ==
  ASSUME Inv, ItemsStep
  PROVE  LinksOK'
<1>1. ASSUME NEW i \in Items, item'[i].status \in Linked
      PROVE  item'[i].run # 0
  <2>1. item[i].status \in Linked => item[i].run # 0
    BY DEF Inv, LinksOK
  <2>2. Len(runs[i]) \in Nat /\ (runs[i] # <<>> => Len(runs[i]) # 0)
    BY EmptySeq, LenProperties DEF Inv, TypeOK
  <2>3. CASE Kept(i) \/ RunMoved(i) \/ RunLate(i) \/ RunAdded(i)
    BY <1>1, <2>1, <2>3 DEF Kept, RunMoved, RunLate, RunAdded
  <2>4. CASE Found(i)
    BY <2>2, <2>4 DEF Found
  <2>6. CASE Queued(i)
    BY <2>2, <2>6 DEF Queued
  <2>5. CASE Replanned(i) \/ Deleted(i) \/ Created(i)
    BY <1>1, <2>5 DEF Replanned, Deleted, Created, Fresh, Linked
  <2> QED BY <2>3, <2>4, <2>5, <2>6 DEF ItemsStep, ItemStep
<1> QED BY <1>1 DEF LinksOK

LEMMA AbsentKept ==
  ASSUME Inv, [Next]_vars
  PROVE  AbsentOK'
BY AbsentStep DEF Inv, AbsentOK

LEMMA InvInit == Init => Inv
<1> SUFFICES ASSUME Init PROVE Inv
  OBVIOUS
<1>1. /\ status = "ABSENT" /\ queueOn = TRUE /\ requests = 0 /\ faults = 0
      /\ item = [i \in Items |-> Fresh("ABSENT")] /\ runs = [i \in Items |-> <<>>]
      /\ job = [i \in Items |-> NoJob]
      /\ page = [p \in Pages |-> IdlePage] /\ canceller = IdleCanceller
      /\ mail = [k \in Keys |-> "none"] /\ queue = [k \in Keys |-> "unsent"]
  BY DEF Init, Box!Init
<1>2. \A i \in Items : /\ item[i] = Fresh("ABSENT") /\ item[i] \in Item
                       /\ item[i].status = "ABSENT" /\ item[i].token = None
                       /\ item[i].run = 0
                       /\ runs[i] = <<>> /\ runs[i] \in Seq(Run) /\ Len(runs[i]) = 0
  BY <1>1, FreshTypes, EmptySeq
<1>3. \A p \in Pages : page[p] = IdlePage /\ page[p] \in Page /\ page[p].pc = "idle"
  <2>1. IdlePage \in Page /\ IdlePage.pc = "idle"
    BY PageTypes DEF IdlePage
  <2> QED BY <1>1, <2>1
<1>4. canceller \in Canceller /\ canceller.pc = "idle"
  BY <1>1 DEF IdleCanceller, Canceller
<1>9. NoJob \in Job /\ NoJob.status = "ABSENT" /\ ~NoJob.ahead
  BY BatchAssumption DEF NoJob, Job
<1>5. TypeOK
  <2>4. job \in [Items -> Job]
    BY <1>1, <1>9
  <2>1. item \in [Items -> Item] /\ runs \in [Items -> Seq(Run)] /\ page \in [Pages -> Page]
    BY <1>1, <1>2, <1>3
  <2>2. mail \in [Keys -> {"none", "waiting", "closed", "dropped"}]
        /\ queue \in [Keys -> {"unsent", "queued", "taken"}]
    BY <1>1
  <2>3. requests \in 0..MaxRequests /\ faults \in 0..MaxFaults /\ MaxRuns \in Nat
    BY <1>1, BatchAssumption
  <2> QED BY <1>1, <1>2, <1>4, <2>1, <2>2, <2>3, <2>4 DEF TypeOK
<1>6. RunsMatchItems
  BY <1>2 DEF RunsMatchItems
<1>7. EndIsTrue /\ GivenUpIsTold /\ LinksOK /\ SettledOK
  BY <1>1, <1>2 DEF EndIsTrue, GivenUpIsTold, LinksOK, SettledOK, Terminal, Linked
<1>10. \A i \in Items : GameOK(i)
  <2>1. \A i \in Items : job[i] = NoJob
    BY <1>1
  <2> HIDE DEF NoJob
  <2> QED BY <1>2, <1>9, <2>1 DEF GameOK, HasActive, Active, Left
<1>8. (\A p \in Pages : PageOK(p)) /\ CancellerOK /\ AbsentOK
  BY <1>1, <1>2, <1>3, <1>4 DEF PageOK, CancellerOK, AbsentOK
<1> QED BY <1>5, <1>6, <1>7, <1>8, <1>10 DEF Inv

LEMMA InvNext == Inv /\ [Next]_vars => Inv'
<1> SUFFICES ASSUME Inv, [Next]_vars PROVE Inv'
  OBVIOUS
<1>1. ItemsStep /\ GamesStep /\ StatusStep /\ MailStep /\ PagesStep /\ CancellerStep
  BY ItemsStepOfNext, StatusStepOfNext, MailStepOfNext, PagesStepOfNext,
     CancellerStepOfNext DEF Inv
<1>2. TypeOK'
  BY TypeKept
<1>3. RunsMatchItems' /\ EndIsTrue' /\ SettledOK' /\ GivenUpIsTold'
  BY <1>1, RunsKept, EndKept, GivenUpKept
<1>4. (\A p \in Pages : PageOK(p))' /\ (\A i \in Items : GameOK(i))'
  BY <1>1 DEF PagesStep, GamesStep
<1>5. CancellerOK' /\ LinksOK' /\ AbsentOK'
  BY <1>1, CancellerKept, LinksKept, AbsentKept
<1> QED BY <1>2, <1>3, <1>4, <1>5 DEF Inv

\* Inv is an invariant of every behaviour.
THEOREM Invariance == Spec => []Inv
BY InvInit, InvNext, PTL DEF Spec

-----------------------------------------------------------------------------
\* The variables keep their types; runs and rows stay within their bounds.
THEOREM TypeCorrect == Spec => []TypeOK
<1>1. Inv => TypeOK
  BY DEF Inv
<1> QED BY <1>1, Invariance, PTL

\* Every item is paid for at most once, whatever pages overlap, leases expire
\* and messages are delivered again.
THEOREM PaidOnce == Spec => []RunsMatchItems
<1>1. Inv => RunsMatchItems
  BY DEF Inv
<1> QED BY <1>1, Invariance, PTL

\* The end of a batch is true.
THEOREM EndsAreTrue == Spec => []EndIsTrue
<1>1. Inv => EndIsTrue
  BY DEF Inv
<1> QED BY <1>1, Invariance, PTL

\* No run is left active behind its job but by a last attempt that failed before
\* the run had begun, or by one that had lost the job.
THEOREM RunsEnd == Spec => []RunsEndWithJobs
<1>1. Inv => RunsEndWithJobs
  BY DEF Inv, GameOK, RunsEndWithJobs
<1> QED BY <1>1, Invariance, PTL

\* A plan row is given up only after its batch was told.
THEOREM GivenUpAfterTold == Spec => []GivenUpIsTold
<1>1. Inv => GivenUpIsTold
  BY DEF Inv
<1> QED BY <1>1, Invariance, PTL

\* What was decided of an item is not decided again: by a step from Inv.
LEMMA DecidedStep ==
  ASSUME Inv, [Next]_vars
  PROVE  \A i \in Items :
           item[i].status \in {"SKIPPED", "FAILED", "CANCELLED"} \cup Linked
           => item'[i] \in {item[i], Fresh("ABSENT")}
<1>1. ItemsStep
  BY ItemsStepOfNext DEF Inv
<1> SUFFICES ASSUME NEW i \in Items,
                    item[i].status \in {"SKIPPED", "FAILED", "CANCELLED"} \cup Linked
             PROVE  item'[i] \in {item[i], Fresh("ABSENT")}
  OBVIOUS
<1>2. item[i].status \notin {"ABSENT", "PENDING", "PLANNING"}
  BY DEF Linked
<1>3. status # "ABSENT"
  BY <1>2 DEF Inv, AbsentOK
<1> QED BY <1>1, <1>2, <1>3, SettledItem

\* What was decided of an item is not decided again.
THEOREM DecisionsStay == Spec => DecidedOnce
<1> DEFINE Stay == \A i \in Items :
                     item[i].status \in {"SKIPPED", "FAILED", "CANCELLED"} \cup Linked
                     => item'[i] \in {item[i], Fresh("ABSENT")}
<1>1. Inv /\ [Next]_vars => [Stay]_vars
  BY DecidedStep
<1>2. DecidedOnce <=> [][Stay]_vars
  BY DEF DecidedOnce
<1> HIDE DEF Stay
<1> QED BY <1>1, <1>2, Invariance, PTL DEF Spec

\* What pages that overlap keep of a batch, whatever its size, the number of
\* pages and the bounds of the model.
THEOREM BatchKept == Spec => BatchHolds
<1> DEFINE State == TypeOK /\ RunsMatchItems /\ EndIsTrue /\ RunsEndWithJobs
<1>1. Inv => State
  BY DEF Inv, GameOK, RunsEndWithJobs
<1>2. BatchHolds <=> []State /\ DecidedOnce
  BY DEF BatchHolds
<1> HIDE DEF State
<1>3. Spec => []State
  BY <1>1, Invariance, PTL
<1> QED BY <1>2, <1>3, DecisionsStay
=============================================================================
