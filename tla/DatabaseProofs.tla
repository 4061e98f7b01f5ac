--------------------------- MODULE DatabaseProofs ---------------------------
(***************************************************************************)
(* What the tables keep true under concurrent requests and processes, for  *)
(* any number of them: rows and the masters they refer to, migrations and  *)
(* number series, the lists and their totals, notes with their mentions in *)
(* the inboxes of colleagues, and companies that are set up row by row.    *)
(***************************************************************************)
EXTENDS Masters, Replicas, Lists, TeamNotes, CompanySetup, Sums, SequenceTheorems

\* Masters: rows keep what their masters meant.  A request relies, between its two steps, on
\* what it read under a row lock.

MasterRecord == [structure : Structures, disabled : BOOLEAN]
Edit == [at : {"idle", "saving", "altering", "deleting"}, row : Referrers \cup {NoMaster},
         name : MasterNames \cup {NoMaster}, structure : Structures \cup {NoMaster}]

MastersTypeOK ==
    /\ master \in [MasterNames -> MasterRecord \cup {NoMaster}]
    /\ refersTo \in [Referrers -> MasterNames \cup {NoMaster}]
    /\ basis \in [Referrers -> Structures \cup {NoMaster}]
    /\ editor \in [Editors -> Edit]
    /\ deleted \subseteq MasterNames

\* What a request relies on between its two steps.
WhatItRead(e) ==
    LET m == editor[e].name
    IN  /\ Saving(e) =>
              /\ editor[e].row \in Referrers /\ m \in MasterNames
              /\ editor[e].structure \in Structures
              /\ m \notin deleted =>
                     master[m] # NoMaster /\ editor[e].structure = master[m].structure
        /\ Altering(e) =>
              /\ m \in MasterNames /\ editor[e].structure \in Structures
              /\ \A f \in Editors : ~Saving(f)
        /\ editor[e].at = "deleting" => m \in MasterNames

MastersInv ==
    /\ MastersTypeOK
    /\ MastersKeepTheirMeaning
    /\ \A e \in Editors : WhatItRead(e)

\* Before any master exists no row refers to one and no request is under way.
LEMMA InitialMasters == MastersInit => MastersInv
BY MasterAssumption
   DEF MastersInit, MastersInv, MastersTypeOK, MastersKeepTheirMeaning, WhatItRead, Unoccupied,
       Saving, Altering, Edit

\* A request that is given up.
LEMMA UnoccupiedIsFine == Unoccupied \in Edit /\ Unoccupied.at = "idle"
BY DEF Unoccupied, Edit

\* A new master has a name that was free, so no row that counts refers to it yet.
LEMMA CreateMasterPreserves ==
    ASSUME MastersInv, NEW m \in MasterNames, NEW structure \in Structures,
           CreateMaster(m, structure)
    PROVE  MastersInv'
<1> USE DEF MastersInv
<1>1. /\ master' \in [MasterNames -> MasterRecord \cup {NoMaster}]
      /\ \A n \in MasterNames : n # m => master'[n] = master[n]
      /\ master'[m] = [structure |-> structure, disabled |-> FALSE]
      /\ master[m] = NoMaster /\ m \in MasterNames
  BY DEF CreateMaster, MastersTypeOK, MasterRecord
<1>2. UNCHANGED <<refersTo, editor, basis, deleted>>
  BY DEF CreateMaster
<1>3. MastersTypeOK'
  BY <1>1, <1>2 DEF MastersTypeOK
<1>4. MastersKeepTheirMeaning'
  BY <1>1, <1>2, MasterAssumption DEF MastersKeepTheirMeaning, MastersTypeOK
<1>5. ASSUME NEW e \in Editors PROVE WhatItRead(e)'
  BY <1>1, <1>2 DEF WhatItRead, Saving, Altering, MastersTypeOK
<1> QED BY <1>3, <1>4, <1>5

\* Disabling or enabling a master changes nothing that a row relies on.
LEMMA DisabledIsHarmless ==
    ASSUME MastersInv, NEW m \in MasterNames, NEW flag \in BOOLEAN, master[m] # NoMaster,
           master' = [master EXCEPT ![m].disabled = flag],
           UNCHANGED <<refersTo, editor, basis, deleted>>
    PROVE  MastersInv'
<1> USE DEF MastersInv
<1>1. master[m] \in MasterRecord
  BY DEF MastersTypeOK
<1>2. /\ master' \in [MasterNames -> MasterRecord \cup {NoMaster}]
      /\ \A n \in MasterNames : n # m => master'[n] = master[n]
      /\ master'[m] \in MasterRecord /\ master'[m].structure = master[m].structure
  BY <1>1 DEF MastersTypeOK, MasterRecord
<1>3. \A n \in MasterNames : master[n] # NoMaster =>
          master'[n] # NoMaster /\ master'[n].structure = master[n].structure
  BY <1>2, MasterAssumption DEF MasterRecord
<1>4. MastersTypeOK'
  BY <1>2 DEF MastersTypeOK
<1>5. MastersKeepTheirMeaning'
  BY <1>3, MasterAssumption DEF MastersKeepTheirMeaning, MastersTypeOK
<1>6. ASSUME NEW e \in Editors PROVE WhatItRead(e)'
  BY <1>3 DEF WhatItRead, Saving, Altering, MastersTypeOK
<1> QED BY <1>4, <1>5, <1>6

\* Switching a master on or off is such a change.
LEMMA SetDisabledPreserves ==
    ASSUME MastersInv, NEW m \in MasterNames, NEW flag \in BOOLEAN, SetDisabled(m, flag)
    PROVE  MastersInv'
BY DisabledIsHarmless DEF SetDisabled

\* What a request of its own may do: the books stay, its new state relies on what is so.
LEMMA OneEditor ==
    ASSUME MastersInv, NEW e \in Editors, NEW to \in Edit,
           editor' = [editor EXCEPT ![e] = to],
           UNCHANGED <<master, refersTo, basis, deleted>>,
           to.at = "saving" =>
              /\ to.row \in Referrers /\ to.name \in MasterNames /\ to.structure \in Structures
              /\ to.name \notin deleted =>
                     master[to.name] # NoMaster /\ to.structure = master[to.name].structure
              /\ \A f \in Editors : ~Altering(f),
           to.at = "altering" =>
              /\ to.name \in MasterNames /\ to.structure \in Structures
              /\ \A f \in Editors : ~Saving(f),
           to.at = "deleting" => to.name \in MasterNames
    PROVE  MastersInv'
<1> USE DEF MastersInv
<1>1. /\ editor' \in [Editors -> Edit] /\ editor'[e] = to
      /\ \A f \in Editors : f # e => editor'[f] = editor[f]
  BY DEF MastersTypeOK
<1>2. MastersTypeOK'
  BY <1>1 DEF MastersTypeOK
<1>3. MastersKeepTheirMeaning'
  BY DEF MastersKeepTheirMeaning
<1>4. ASSUME NEW f \in Editors PROVE WhatItRead(f)'
  <2>1. CASE f = e
    BY <1>1, <2>1 DEF WhatItRead, Saving, Altering
  <2>2. CASE f # e
    BY <1>1, <2>2 DEF WhatItRead, Saving, Altering
  <2> QED BY <2>1, <2>2
<1> QED BY <1>2, <1>3, <1>4

\* An edit starts when no save is between its check and its write: the lock is exclusive.
LEMMA LockMastersPreserves ==
    ASSUME MastersInv, NEW e \in Editors, NEW m \in MasterNames, NEW structure \in Structures,
           LockMasters(e, m, structure)
    PROVE  MastersInv'
<1> DEFINE to == [Unoccupied EXCEPT !.at = "altering", !.name = m, !.structure = structure]
<1>1. to \in Edit /\ to.at = "altering" /\ to.name = m /\ to.structure = structure
  BY DEF Edit, Unoccupied
<1>2. /\ editor' = [editor EXCEPT ![e] = to] /\ UNCHANGED <<master, refersTo, basis, deleted>>
      /\ \A f \in Editors : ~Saving(f)
  BY DEF LockMasters
<1> HIDE DEF to
<1> QED BY <1>1, <1>2, OneEditor

\* An edit changes the structure only of a master that no row refers to.
LEMMA AlterMasterPreserves ==
    ASSUME MastersInv, NEW e \in Editors, AlterMaster(e)
    PROVE  MastersInv'
<1> USE DEF MastersInv
<1> DEFINE m == editor[e].name
           to == editor[e].structure
<1>1. /\ m \in MasterNames /\ to \in Structures /\ \A f \in Editors : ~Saving(f)
      /\ master[m] \in MasterRecord
  BY DEF AlterMaster, WhatItRead, MastersTypeOK
<1>2. to # master[m].structure => \A d \in Referrers : refersTo[d] # m
  BY DEF AlterMaster, Referenced
<1>3. /\ master' = [master EXCEPT ![m].structure = to]
      /\ editor' = [editor EXCEPT ![e] = Unoccupied]
      /\ UNCHANGED <<refersTo, basis, deleted>>
  BY DEF AlterMaster
<1> HIDE DEF m, to
<1>4. /\ master' \in [MasterNames -> MasterRecord \cup {NoMaster}]
      /\ \A n \in MasterNames : n # m => master'[n] = master[n]
      /\ master'[m] \in MasterRecord /\ master'[m].structure = to
  BY <1>1, <1>3 DEF MastersTypeOK, MasterRecord
<1>5. /\ editor' \in [Editors -> Edit] /\ editor'[e].at = "idle"
      /\ \A f \in Editors : f # e => editor'[f] = editor[f]
  BY <1>3, UnoccupiedIsFine DEF MastersTypeOK
<1>6. MastersTypeOK'
  BY <1>3, <1>4, <1>5 DEF MastersTypeOK
<1>7. ASSUME NEW d \in Referrers, refersTo[d] # NoMaster, refersTo[d] \notin deleted
      PROVE  master'[refersTo[d]] # NoMaster /\ basis[d] = master'[refersTo[d]].structure
  <2>1. /\ refersTo[d] \in MasterNames /\ master[refersTo[d]] # NoMaster
        /\ basis[d] = master[refersTo[d]].structure
    BY <1>7 DEF MastersKeepTheirMeaning, MastersTypeOK
  <2>2. CASE refersTo[d] = m
    BY <1>2, <1>4, <2>1, <2>2, MasterAssumption DEF MasterRecord
  <2>3. CASE refersTo[d] # m
    BY <1>4, <2>1, <2>3
  <2> QED BY <2>2, <2>3
<1>8. MastersKeepTheirMeaning'
  BY <1>3, <1>7 DEF MastersKeepTheirMeaning
<1>9. ASSUME NEW f \in Editors PROVE WhatItRead(f)'
  BY <1>1, <1>3, <1>5 DEF WhatItRead, Saving, Altering
<1> QED BY <1>6, <1>8, <1>9

\* A delete that finds rows disables the master; otherwise it goes on to the delete.
LEMMA AskDeletePreserves ==
    ASSUME MastersInv, NEW e \in Editors, NEW m \in MasterNames, AskDelete(e, m)
    PROVE  MastersInv'
<1>1. CASE Referenced(m)
  <2>1. /\ master' = [master EXCEPT ![m].disabled = TRUE] /\ master[m] # NoMaster
        /\ UNCHANGED <<refersTo, editor, basis, deleted>>
    BY <1>1 DEF AskDelete
  <2> QED BY <2>1, DisabledIsHarmless
<1>2. CASE ~Referenced(m)
  <2> DEFINE to == [Unoccupied EXCEPT !.at = "deleting", !.name = m]
  <2>1. to \in Edit /\ to.at = "deleting" /\ to.name = m
    BY DEF Edit, Unoccupied
  <2>2. editor' = [editor EXCEPT ![e] = to] /\ UNCHANGED <<master, refersTo, basis, deleted>>
    BY <1>2 DEF AskDelete
  <2> HIDE DEF to
  <2> QED BY <2>1, <2>2, OneEditor
<1> QED BY <1>1, <1>2

\* A deleted name is remembered, and no edit of its structure is under way.
LEMMA DeleteMasterPreserves ==
    ASSUME MastersInv, NEW e \in Editors, DeleteMaster(e)
    PROVE  MastersInv'
<1> USE DEF MastersInv
<1> DEFINE m == editor[e].name
<1>1. m \in MasterNames /\ \A f \in Editors : ~Altering(f)
  BY DEF DeleteMaster, WhatItRead
<1>2. /\ master' = [master EXCEPT ![m] = NoMaster]
      /\ deleted' = deleted \cup {m}
      /\ editor' = [editor EXCEPT ![e] = Unoccupied]
      /\ UNCHANGED <<refersTo, basis>>
  BY DEF DeleteMaster
<1> HIDE DEF m
<1>3. /\ master' \in [MasterNames -> MasterRecord \cup {NoMaster}]
      /\ \A n \in MasterNames : n \notin deleted' => master'[n] = master[n] /\ n \notin deleted
  BY <1>1, <1>2 DEF MastersTypeOK
<1>4. /\ editor' \in [Editors -> Edit] /\ editor'[e].at = "idle"
      /\ \A f \in Editors : f # e => editor'[f] = editor[f]
  BY <1>2, UnoccupiedIsFine DEF MastersTypeOK
<1>5. MastersTypeOK'
  BY <1>1, <1>2, <1>3, <1>4 DEF MastersTypeOK
<1>6. MastersKeepTheirMeaning'
  BY <1>2, <1>3 DEF MastersKeepTheirMeaning, MastersTypeOK
<1>7. ASSUME NEW f \in Editors PROVE WhatItRead(f)'
  BY <1>1, <1>3, <1>4 DEF WhatItRead, Saving, Altering
<1> QED BY <1>5, <1>6, <1>7

\* A save reads the structure under the shared lock, which keeps edits out.
LEMMA ValidateLinkPreserves ==
    ASSUME MastersInv, NEW e \in Editors, NEW m \in MasterNames, NEW d \in Referrers,
           ValidateLink(e, d, m)
    PROVE  MastersInv'
<1> DEFINE to == [at |-> "saving", row |-> d, name |-> m, structure |-> master[m].structure]
<1>1. master[m] \in MasterRecord /\ master[m] # NoMaster
  BY DEF ValidateLink, MastersInv, MastersTypeOK
<1>2. /\ to \in Edit /\ to.at = "saving" /\ to.row = d /\ to.name = m
      /\ to.structure = master[m].structure /\ to.structure \in Structures
  BY <1>1 DEF Edit, MasterRecord
<1>3. /\ editor' = [editor EXCEPT ![e] = to] /\ UNCHANGED <<master, refersTo, basis, deleted>>
      /\ \A f \in Editors : ~Altering(f)
  BY DEF ValidateLink
<1> HIDE DEF to
<1> QED BY <1>1, <1>2, <1>3, OneEditor

\* A save stores the structure it read, which still is that of the master.
LEMMA StoreLinkPreserves ==
    ASSUME MastersInv, NEW e \in Editors, StoreLink(e)
    PROVE  MastersInv'
<1> USE DEF MastersInv
<1> DEFINE d == editor[e].row
           m == editor[e].name
           structure == editor[e].structure
<1>1. /\ d \in Referrers /\ m \in MasterNames /\ structure \in Structures
      /\ m \notin deleted => master[m] # NoMaster /\ structure = master[m].structure
  BY DEF StoreLink, WhatItRead
<1>2. /\ refersTo' = [refersTo EXCEPT ![d] = m]
      /\ basis' = [basis EXCEPT ![d] = structure]
      /\ editor' = [editor EXCEPT ![e] = Unoccupied]
      /\ UNCHANGED <<master, deleted>>
  BY DEF StoreLink
<1> HIDE DEF d, m, structure
<1>3. /\ editor' \in [Editors -> Edit] /\ editor'[e].at = "idle"
      /\ \A f \in Editors : f # e => editor'[f] = editor[f]
  BY <1>2, UnoccupiedIsFine DEF MastersTypeOK
<1>4. MastersTypeOK'
  BY <1>1, <1>2, <1>3 DEF MastersTypeOK
<1>5. MastersKeepTheirMeaning'
  BY <1>1, <1>2 DEF MastersKeepTheirMeaning, MastersTypeOK
<1>6. ASSUME NEW f \in Editors PROVE WhatItRead(f)'
  BY <1>2, <1>3 DEF WhatItRead, Saving, Altering
<1> QED BY <1>4, <1>5, <1>6

\* A row that lets go of its master relies on nothing.
LEMMA ClearLinkPreserves ==
    ASSUME MastersInv, NEW d \in Referrers, ClearLink(d)
    PROVE  MastersInv'
<1> USE DEF MastersInv
<1>1. MastersTypeOK'
  BY DEF ClearLink, MastersTypeOK
<1>2. MastersKeepTheirMeaning'
  BY DEF ClearLink, MastersKeepTheirMeaning, MastersTypeOK
<1>3. \A e \in Editors : WhatItRead(e)'
  BY DEF ClearLink, WhatItRead, Saving, Altering
<1> QED BY <1>1, <1>2, <1>3

\* A request that is given up relies on nothing.
LEMMA LeaveMastersPreserves ==
    ASSUME MastersInv, NEW e \in Editors, LeaveMasters(e)
    PROVE  MastersInv'
BY OneEditor, UnoccupiedIsFine DEF LeaveMasters

\* Every state: the tables are typed, rows keep what their master means, and a request that
\* has checked or read a master still finds what it read (the row locks of api/services.py
\* and lambda_erp/validation.py).
THEOREM MastersInvariant == MastersSpec => []MastersInv
<1>1. MastersInv /\ [MastersNext]_masterVars => MastersInv'
  <2> SUFFICES ASSUME MastersInv, [MastersNext]_masterVars PROVE MastersInv'
    OBVIOUS
  <2>1. CASE UNCHANGED masterVars
    BY <2>1 DEF masterVars, MastersInv, MastersTypeOK, MastersKeepTheirMeaning, WhatItRead,
                Saving, Altering
  <2>2. CASE MastersNext
    BY <2>2, CreateMasterPreserves, SetDisabledPreserves, LockMastersPreserves,
       AskDeletePreserves, ValidateLinkPreserves, AlterMasterPreserves, DeleteMasterPreserves,
       StoreLinkPreserves, LeaveMastersPreserves, ClearLinkPreserves
       DEF MastersNext
  <2> QED BY <2>1, <2>2
<1> QED BY InitialMasters, <1>1, PTL DEF MastersSpec

\* A stored row keeps the structure its master had when it was saved, unless the master was
\* deleted, for any names, rows and requests: an edit of structural fields and a save that
\* links the master keep each other out (api/services.py, lambda_erp/validation.py).
THEOREM MeaningIsKept == MastersSpec => []MastersKeepTheirMeaning
<1>1. MastersInv => MastersKeepTheirMeaning
  BY DEF MastersInv
<1> QED BY MastersInvariant, <1>1, PTL

-----------------------------------------------------------------------------
\* Replicas: migrations run once, and numbers are never handed out again.

\* A set of numbers has a least one, and below a bound a greatest.
LEMMA LeastNumber ==
    ASSUME NEW S \in SUBSET Nat, S # {}
    PROVE  Min(S) \in S /\ \A n \in S : Min(S) <= n
<1>1. PICK x \in S : \A n \in S : ~(<<n, x>> \in OpToRel(<, Nat))
  BY NatLessThanWellFounded, WFMin
<1>2. \A n \in S : ~(n < x)
  BY <1>1 DEF OpToRel
<1>3. \A n \in S : x <= n
  BY <1>2
<1> QED BY <1>3 DEF Min

\* The greatest is the least distance from the bound.
LEMMA GreatestNumber ==
    ASSUME NEW bound \in Nat, NEW S \in SUBSET (0..bound), S # {}
    PROVE  Max(S) \in S /\ \A n \in S : n <= Max(S)
<1> DEFINE T == {bound - n : n \in S}
<1>1. T \in SUBSET Nat /\ T # {}
  <2>1. PICK n \in S : TRUE
    OBVIOUS
  <2>2. bound - n \in T
    OBVIOUS
  <2> QED BY <2>2
<1>2. PICK x \in T : \A n \in T : ~(<<n, x>> \in OpToRel(<, Nat))
  BY <1>1, NatLessThanWellFounded, WFMin
<1>3. PICK y \in S : x = bound - y
  OBVIOUS
<1>4. ASSUME NEW n \in S PROVE n <= y
  <2>1. bound - n \in T /\ bound - n \in Nat /\ bound - y \in Nat
    BY <1>1
  <2>2. ~(bound - n < bound - y)
    BY <1>2, <1>3, <2>1 DEF OpToRel
  <2> QED BY <2>2
<1> QED BY <1>4 DEF Max

\* The greater of two numbers, as the upsert of the series takes it.
LEMMA GreaterOf ==
    ASSUME NEW a \in Int, NEW b \in Int
    PROVE  Max({a, b}) = IF a >= b THEN a ELSE b
<1>1. \E x \in {a, b} : \A y \in {a, b} : x >= y
  OBVIOUS
<1>2. Max({a, b}) \in {a, b} /\ \A y \in {a, b} : Max({a, b}) >= y
  BY <1>1 DEF Max
<1> QED BY <1>2

Migrating == {"migrate", "mark"}
InService == {"serving", "seeding", "seeded", "named"}
Standing == [at : {"down"} \cup Migrating \cup InService, seen : SUBSET Versions,
             number : 0..MaxNumber]

ReplicasTypeOK ==
    /\ markers \subseteq Versions
    /\ work \in [Versions -> 0..2]
    /\ startup \in Processes \cup {Nobody}
    /\ proc \in [Processes -> Standing]
    /\ current \in -1..MaxNumber
    /\ stored \subseteq 0..MaxNumber

\* Who migrates has the lock, and so has seen every marker there is; what it passed
\* over was not required.
KeepsTrack(p) ==
    proc[p].at \in Migrating =>
        /\ startup = p
        /\ markers \subseteq proc[p].seen
        /\ Required \cap proc[p].seen \subseteq markers

UpToDate(p) == proc[p].at \in InService => Required \cap Knows[p] \subseteq markers

\* Once there is a row it is ahead of every number stored or in use; until then who
\* seeds it has read them all.
SeriesAhead ==
    /\ current >= 0 => \A n \in stored : n <= current
    /\ \A p \in Processes : proc[p].at = "named" => proc[p].number \in 1..current
    /\ \A p \in Processes : proc[p].at = "seeding" /\ current = -1 =>
          \A n \in stored : n <= proc[p].number

ReplicasInv ==
    /\ ReplicasTypeOK
    /\ \A p \in Processes : KeepsTrack(p) /\ UpToDate(p)
    /\ SeriesAhead
    /\ NumbersAreFresh

NoMigration == UNCHANGED <<markers, work, startup>>
NoNaming == UNCHANGED <<current, stored>>

\* At first every process is down and nothing is stored beyond the given numbers.
LEMMA InitialReplicas == ReplicaInit => ReplicasInv
BY ReplicaAssumption
   DEF ReplicaInit, ReplicasInv, ReplicasTypeOK, KeepsTrack, UpToDate, SeriesAhead,
       NumbersAreFresh, Down, Standing, Migrating, InService

\* What one process does to itself.
LEMMA OneProcess ==
    ASSUME ReplicasInv, NEW p \in Processes, NEW to \in Standing,
           proc' = [proc EXCEPT ![p] = to]
    PROVE  /\ proc' \in [Processes -> Standing] /\ proc'[p] = to
           /\ \A q \in Processes : q # p => proc'[q] = proc[q]
BY DEF ReplicasInv, ReplicasTypeOK

\* A step of a boot: no numbers are in use by the process, and no lock is lost.
LEMMA BootPreserves ==
    ASSUME ReplicasInv, NEW p \in Processes, NEW to \in Standing,
           proc' = [proc EXCEPT ![p] = to], NoNaming,
           markers \subseteq markers', markers' \subseteq Versions,
           work' \in [Versions -> 0..2],
           startup' \in Processes \cup {Nobody},
           to.at \notin {"seeding", "named"},
           KeepsTrack(p)', UpToDate(p)',
           startup' # startup => startup \notin Processes \/ startup = p,
           markers' # markers => startup = p
    PROVE  ReplicasInv'
<1> USE DEF ReplicasInv
<1>1. /\ proc' \in [Processes -> Standing] /\ proc'[p] = to
      /\ \A q \in Processes : q # p => proc'[q] = proc[q]
  BY OneProcess
<1>2. ReplicasTypeOK'
  BY <1>1 DEF ReplicasTypeOK, NoNaming
<1>3. ASSUME NEW q \in Processes PROVE KeepsTrack(q)' /\ UpToDate(q)'
  <2>1. CASE q = p
    BY <2>1
  <2>2. CASE q # p
    <3>1. proc'[q] = proc[q] /\ KeepsTrack(q) /\ UpToDate(q)
      BY <1>1, <2>2
    <3>2. proc[q].at \in Migrating => startup = q /\ startup' = q /\ markers' = markers
      BY <2>2, <3>1 DEF KeepsTrack
    <3> QED BY <3>1, <3>2 DEF KeepsTrack, UpToDate
  <2> QED BY <2>1, <2>2
<1>4. SeriesAhead'
  BY <1>1 DEF SeriesAhead, NoNaming
<1>5. NumbersAreFresh'
  BY <1>1 DEF NumbersAreFresh, NoNaming
<1> QED BY <1>2, <1>3, <1>4, <1>5

\* The least pending migration is pending.
LEMMA NextIsPending ==
    ASSUME ReplicasInv, NEW p \in Processes, Pending(p) # {}
    PROVE  /\ Min(Pending(p)) \in Versions /\ Min(Pending(p)) \in Knows[p]
           /\ Min(Pending(p)) \notin proc[p].seen
<1>1. Knows[p] \subseteq Nat /\ Knows[p] \subseteq Versions
  BY ReplicaAssumption DEF Versions
<1>2. Pending(p) \in SUBSET Nat
  BY <1>1 DEF Pending
<1>3. Min(Pending(p)) \in Pending(p)
  BY <1>2, LeastNumber
<1> QED BY <1>1, <1>3 DEF Pending

\* Runs of a migration are counted up to two.
LEMMA Counted == ASSUME NEW n \in 0..2 PROVE Count(n) \in 0..2
BY DEF Count

\* Under the startup lock a process reads every marker there is.
LEMMA StartupLockPreserves ==
    ASSUME ReplicasInv, NEW p \in Processes, StartupLock(p)
    PROVE  ReplicasInv'
<1> DEFINE to == [proc[p] EXCEPT !.at = "migrate", !.seen = markers]
<1>1. proc[p] \in Standing /\ markers \in SUBSET Versions
  BY DEF ReplicasInv, ReplicasTypeOK
<1>2. to \in Standing /\ to.at = "migrate" /\ to.seen = markers
  BY <1>1 DEF Standing, Migrating
<1>3. proc' = [proc EXCEPT ![p] = to] /\ startup' = p /\ startup = Nobody
      /\ UNCHANGED <<markers, work, current, stored>>
  BY DEF StartupLock
<1> HIDE DEF to
<1>4. proc'[p] = to
  BY <1>2, <1>3, OneProcess
<1>5. KeepsTrack(p)' /\ UpToDate(p)'
  BY <1>2, <1>3, <1>4 DEF KeepsTrack, UpToDate, InService
<1> QED BY <1>2, <1>3, <1>5, BootPreserves, ReplicaAssumption
        DEF NoNaming, ReplicasInv, ReplicasTypeOK

\* A part of a migration is committed before its marker, and only where no marker is.
LEMMA CommitPartPreserves ==
    ASSUME ReplicasInv, NEW p \in Processes, CommitPart(p)
    PROVE  ReplicasInv' /\ \A v \in markers : work'[v] = work[v]
<1> DEFINE v == Min(Pending(p))
           to == [proc[p] EXCEPT !.at = "mark"]
<1>1. v \in Versions /\ v \notin proc[p].seen
  BY NextIsPending DEF CommitPart
<1>2. /\ work' = [work EXCEPT ![v] = Count(@)] /\ proc' = [proc EXCEPT ![p] = to]
      /\ proc[p].at = "migrate" /\ UNCHANGED <<markers, startup, current, stored>>
  BY DEF CommitPart, Goto
<1>3. proc[p] \in Standing /\ KeepsTrack(p) /\ UpToDate(p) /\ work \in [Versions -> 0..2]
  BY DEF ReplicasInv, ReplicasTypeOK
<1>4. to \in Standing /\ to.at = "mark" /\ to.seen = proc[p].seen
  BY <1>3 DEF Standing, Migrating
<1> HIDE DEF v, to
<1>5. work' \in [Versions -> 0..2]
  <2>1. Count(work[v]) \in 0..2
    BY <1>1, <1>3, Counted
  <2> QED BY <1>2, <1>3, <2>1
<1>6. \A w \in markers : work'[w] = work[w]
  BY <1>1, <1>2, <1>3 DEF KeepsTrack, Migrating, ReplicasInv, ReplicasTypeOK
<1>7. proc'[p] = to
  BY <1>2, <1>4, OneProcess
<1>8. KeepsTrack(p)' /\ UpToDate(p)'
  BY <1>2, <1>3, <1>4, <1>7 DEF KeepsTrack, UpToDate, InService, Migrating
<1>9. ReplicasInv'
  BY <1>2, <1>4, <1>5, <1>8, BootPreserves DEF NoNaming, ReplicasInv, ReplicasTypeOK
<1> QED BY <1>6, <1>9

\* A marker is written by the process that has the lock, after its work.
LEMMA MarkPreserves ==
    ASSUME ReplicasInv, NEW p \in Processes, Mark(p)
    PROVE  ReplicasInv' /\ \A v \in markers : work'[v] = work[v]
<1> DEFINE v == Min(Pending(p))
           to == [proc[p] EXCEPT !.at = "migrate", !.seen = @ \cup {v}]
<1>1. v \in Versions /\ v \in Knows[p]
  BY NextIsPending DEF Mark
<1>2. /\ work' = work \/ work' = [work EXCEPT ![v] = Count(@)]
      /\ proc' = [proc EXCEPT ![p] = to] /\ markers' = markers \cup {v} /\ v \notin markers
      /\ proc[p].at \in Migrating /\ UNCHANGED <<startup, current, stored>>
  BY DEF Mark, Migrating
<1>3. proc[p] \in Standing /\ KeepsTrack(p) /\ UpToDate(p) /\ work \in [Versions -> 0..2]
      /\ markers \subseteq Versions
  BY DEF ReplicasInv, ReplicasTypeOK
<1>4. to \in Standing /\ to.at = "migrate" /\ to.seen = proc[p].seen \cup {v}
  BY <1>1, <1>3 DEF Standing, Migrating
<1> HIDE DEF v, to
<1>5. work' \in [Versions -> 0..2]
  <2>1. Count(work[v]) \in 0..2
    BY <1>1, <1>3, Counted
  <2> QED BY <1>2, <1>3, <2>1
<1>6. \A w \in markers : work'[w] = work[w]
  BY <1>1, <1>2, <1>3
<1>7. proc'[p] = to
  BY <1>2, <1>4, OneProcess
<1>8. KeepsTrack(p)' /\ UpToDate(p)'
  BY <1>2, <1>3, <1>4, <1>7 DEF KeepsTrack, UpToDate, InService, Migrating
<1>9. startup = p
  BY <1>2, <1>3 DEF KeepsTrack
<1>10. ReplicasInv'
  BY <1>1, <1>2, <1>3, <1>4, <1>5, <1>8, <1>9, BootPreserves
     DEF NoNaming, ReplicasInv, ReplicasTypeOK
<1> QED BY <1>6, <1>10

\* Stopping gives the lock back, if the process has it.
LEMMA GoneDown ==
    ASSUME ReplicasInv, NEW p \in Processes, proc' = [proc EXCEPT ![p] = Down],
           startup' = IF startup = p THEN Nobody ELSE startup,
           UNCHANGED <<markers, work, current, stored>>
    PROVE  ReplicasInv'
<1>1. Down \in Standing /\ Down.at = "down"
  BY ReplicaAssumption DEF Down, Standing
<1>2. proc'[p] = Down
  BY <1>1, OneProcess
<1>3. KeepsTrack(p)' /\ UpToDate(p)'
  BY <1>1, <1>2 DEF KeepsTrack, UpToDate, Migrating, InService
<1> QED BY <1>1, <1>3, BootPreserves DEF NoNaming, ReplicasInv, ReplicasTypeOK

\* A failed migration is passed over unless it is required; then the process stops.
LEMMA MigrationFailsPreserves ==
    ASSUME ReplicasInv, NEW p \in Processes, MigrationFails(p)
    PROVE  ReplicasInv'
<1> DEFINE v == Min(Pending(p))
           to == [proc[p] EXCEPT !.at = "migrate", !.seen = @ \cup {v}]
<1>1. v \in Versions
  BY NextIsPending DEF MigrationFails
<1>2. proc[p].at \in Migrating /\ UNCHANGED <<markers, work, current, stored>>
  BY DEF MigrationFails, Migrating
<1>3. CASE v \in Required
  BY <1>3, GoneDown DEF MigrationFails
<1>4. CASE v \notin Required
  <2>1. proc' = [proc EXCEPT ![p] = to] /\ startup' = startup
    BY <1>4 DEF MigrationFails
  <2>2. proc[p] \in Standing /\ KeepsTrack(p)
    BY DEF ReplicasInv, ReplicasTypeOK
  <2>3. to \in Standing /\ to.at = "migrate" /\ to.seen = proc[p].seen \cup {v}
    BY <1>1, <2>2 DEF Standing, Migrating
  <2> HIDE DEF v, to
  <2>4. proc'[p] = to
    BY <2>1, <2>3, OneProcess
  <2>5. KeepsTrack(p)' /\ UpToDate(p)'
    BY <1>2, <1>4, <2>1, <2>2, <2>3, <2>4 DEF KeepsTrack, UpToDate, InService
  <2> QED BY <1>2, <2>1, <2>3, <2>5, BootPreserves DEF NoNaming, ReplicasInv, ReplicasTypeOK
<1> QED BY <1>3, <1>4

\* A process serves when nothing is pending: what it requires is marked.
LEMMA ServePreserves ==
    ASSUME ReplicasInv, NEW p \in Processes, Serve(p)
    PROVE  ReplicasInv'
<1> DEFINE to == [proc[p] EXCEPT !.at = "serving"]
<1>1. /\ proc' = [proc EXCEPT ![p] = to] /\ startup' = IF startup = p THEN Nobody ELSE startup
      /\ proc[p].at = "migrate" /\ Pending(p) = {} /\ UNCHANGED <<markers, work, current, stored>>
  BY DEF Serve, Goto
<1>2. proc[p] \in Standing /\ KeepsTrack(p)
  BY DEF ReplicasInv, ReplicasTypeOK
<1>3. to \in Standing /\ to.at = "serving"
  BY <1>2 DEF Standing, InService
<1> HIDE DEF to
<1>4. proc'[p] = to
  BY <1>1, <1>3, OneProcess
<1>5. Required \cap Knows[p] \subseteq markers
  BY <1>1, <1>2 DEF KeepsTrack, Migrating, Pending
<1>6. KeepsTrack(p)' /\ UpToDate(p)'
  BY <1>1, <1>3, <1>4, <1>5 DEF KeepsTrack, UpToDate, Migrating
<1> QED BY <1>1, <1>3, <1>6, BootPreserves DEF NoNaming, ReplicasInv, ReplicasTypeOK

\* A process that dies lets go of the lock with its session.
LEMMA DiePreserves ==
    ASSUME ReplicasInv, NEW p \in Processes, Die(p)
    PROVE  ReplicasInv'
BY GoneDown DEF Die

\* A step of a process that serves leaves the migrations as they are.
LEMMA NamingPreserves ==
    ASSUME ReplicasInv, NEW p \in Processes, proc[p].at \in InService, NEW to \in Standing,
           to.at \in InService, proc' = [proc EXCEPT ![p] = to], NoMigration,
           current' \in -1..MaxNumber, stored' \subseteq 0..MaxNumber,
           SeriesAhead', NumbersAreFresh'
    PROVE  ReplicasInv'
<1> USE DEF ReplicasInv, NoMigration
<1>1. /\ proc' \in [Processes -> Standing] /\ proc'[p] = to
      /\ \A q \in Processes : q # p => proc'[q] = proc[q]
  BY OneProcess
<1>2. ReplicasTypeOK'
  BY <1>1 DEF ReplicasTypeOK
<1>3. ASSUME NEW q \in Processes PROVE KeepsTrack(q)' /\ UpToDate(q)'
  BY <1>1 DEF KeepsTrack, UpToDate, Migrating, InService
<1> QED BY <1>2, <1>3

\* The next number is above all that are stored or in use.
LEMMA TakeNumberPreserves ==
    ASSUME ReplicasInv, NEW p \in Processes, TakeNumber(p)
    PROVE  ReplicasInv'
<1> DEFINE n == current + 1
           to == [proc[p] EXCEPT !.at = "named", !.number = n]
<1>1. /\ proc' = [proc EXCEPT ![p] = to] /\ current' = current + 1 /\ stored' = stored
      /\ current >= 0 /\ current < MaxNumber /\ proc[p].at \in InService /\ NoMigration
  BY DEF TakeNumber, InService, NoMigration
<1>2. /\ proc[p] \in Standing /\ current \in Int /\ current' \in -1..MaxNumber
      /\ stored \subseteq 0..MaxNumber
  BY <1>1, ReplicaAssumption DEF ReplicasInv, ReplicasTypeOK
<1>3. to \in Standing /\ to.at = "named" /\ to.number = n
  <2>1. n \in 0..MaxNumber
    BY <1>1, <1>2
  <2> HIDE DEF n
  <2> QED BY <1>2, <2>1 DEF Standing, InService
<1> HIDE DEF to
<1>4. proc'[p] = to /\ \A q \in Processes : q # p => proc'[q] = proc[q]
  BY <1>1, <1>3, OneProcess
<1>5. SeriesAhead'
  BY <1>1, <1>2, <1>3, <1>4 DEF SeriesAhead, ReplicasInv
<1>6. NumbersAreFresh'
  BY <1>1, <1>2, <1>3, <1>4 DEF NumbersAreFresh, SeriesAhead, ReplicasInv
<1>7. to.at \in InService
  BY <1>3 DEF InService
<1> QED BY <1>1, <1>2, <1>3, <1>5, <1>6, <1>7, NamingPreserves

\* Who finds no series row reads the greatest number stored.
LEMMA ReadFloorPreserves ==
    ASSUME ReplicasInv, NEW p \in Processes, ReadFloor(p)
    PROVE  ReplicasInv'
<1> DEFINE floor == Max(stored \cup {0})
           to == [proc[p] EXCEPT !.at = "seeding", !.number = floor]
<1>1. /\ proc' = [proc EXCEPT ![p] = to] /\ current' = current /\ stored' = stored
      /\ current = -1 /\ proc[p].at \in InService /\ NoMigration
  BY DEF ReadFloor, InService, NoMigration
<1>2. /\ proc[p] \in Standing /\ current \in -1..MaxNumber /\ stored \subseteq 0..MaxNumber
  BY DEF ReplicasInv, ReplicasTypeOK
<1>3. floor \in 0..MaxNumber /\ \A n \in stored : n <= floor
  <2>1. stored \cup {0} \in SUBSET (0..MaxNumber) /\ MaxNumber \in Nat
    BY <1>2, ReplicaAssumption
  <2> QED BY <2>1, GreatestNumber
<1> HIDE DEF floor
<1>4. to \in Standing /\ to.at = "seeding" /\ to.number = floor
  BY <1>2, <1>3 DEF Standing, InService
<1> HIDE DEF to
<1>5. proc'[p] = to /\ \A q \in Processes : q # p => proc'[q] = proc[q]
  BY <1>1, <1>4, OneProcess
<1>6. SeriesAhead' /\ NumbersAreFresh'
  BY <1>1, <1>3, <1>4, <1>5 DEF SeriesAhead, NumbersAreFresh, ReplicasInv
<1>7. to.at \in InService
  BY <1>4 DEF InService
<1> QED BY <1>1, <1>2, <1>4, <1>6, <1>7, NamingPreserves

\* Seeding never takes the series back: the upsert keeps the greater number.
LEMMA SeedSeriesPreserves ==
    ASSUME ReplicasInv, NEW p \in Processes, SeedSeries(p)
    PROVE  ReplicasInv'
<1> DEFINE to == [proc[p] EXCEPT !.at = "seeded"]
           n == proc[p].number
<1>1. /\ proc' = [proc EXCEPT ![p] = to] /\ current' = Max({current, n}) /\ stored' = stored
      /\ proc[p].at = "seeding" /\ NoMigration
  BY DEF SeedSeries, Goto, NoMigration
<1>2. /\ proc[p] \in Standing /\ n \in 0..MaxNumber /\ current \in -1..MaxNumber
      /\ stored \subseteq 0..MaxNumber
  BY DEF ReplicasInv, ReplicasTypeOK, Standing
<1>3. current' = IF current >= n THEN current ELSE n
  BY <1>1, <1>2, GreaterOf
<1>4. to \in Standing /\ to.at = "seeded"
  BY <1>2 DEF Standing, InService
<1>5. current = -1 => \A m \in stored : m <= n
  BY <1>1 DEF SeriesAhead, ReplicasInv
<1> HIDE DEF to, n
<1>6. proc'[p] = to /\ \A q \in Processes : q # p => proc'[q] = proc[q]
  BY <1>1, <1>4, OneProcess
<1>7. SeriesAhead'
  <2>1. current' >= 0 /\ current' >= current
    BY <1>2, <1>3
  <2>2. \A m \in stored' : m <= current'
    BY <1>1, <1>2, <1>3, <1>5 DEF SeriesAhead, ReplicasInv
  <2>3. ASSUME NEW q \in Processes, proc'[q].at = "named" PROVE proc'[q].number \in 1..current'
    BY <1>2, <1>3, <1>4, <1>6, <2>3 DEF SeriesAhead, ReplicasInv
  <2> QED BY <2>1, <2>2, <2>3 DEF SeriesAhead
<1>8. NumbersAreFresh'
  BY <1>1, <1>4, <1>6 DEF NumbersAreFresh, ReplicasInv
<1>9. to.at \in InService /\ proc[p].at \in InService /\ current' \in -1..MaxNumber
  BY <1>1, <1>2, <1>3, <1>4 DEF InService
<1> QED BY <1>1, <1>2, <1>4, <1>7, <1>8, <1>9, NamingPreserves

\* A request that starts again gives up the number it had.
LEMMA ReconnectPreserves ==
    ASSUME ReplicasInv, NEW p \in Processes, Reconnect(p)
    PROVE  ReplicasInv'
<1> DEFINE to == [proc[p] EXCEPT !.at = "serving"]
<1>1. /\ proc' = [proc EXCEPT ![p] = to] /\ current' = current /\ stored' = stored
      /\ proc[p].at \in InService /\ NoMigration
  BY DEF Reconnect, Goto, InService, NoMigration
<1>2. /\ proc[p] \in Standing /\ current \in -1..MaxNumber /\ stored \subseteq 0..MaxNumber
  BY DEF ReplicasInv, ReplicasTypeOK
<1>3. to \in Standing /\ to.at = "serving"
  BY <1>2 DEF Standing, InService
<1> HIDE DEF to
<1>4. proc'[p] = to /\ \A q \in Processes : q # p => proc'[q] = proc[q]
  BY <1>1, <1>3, OneProcess
<1>5. SeriesAhead' /\ NumbersAreFresh'
  BY <1>1, <1>3, <1>4 DEF SeriesAhead, NumbersAreFresh, ReplicasInv
<1>6. to.at \in InService
  BY <1>3 DEF InService
<1> QED BY <1>1, <1>2, <1>3, <1>5, <1>6, NamingPreserves

\* The number that is stored was nobody else's.
LEMMA StoreRecordPreserves ==
    ASSUME ReplicasInv, NEW p \in Processes, StoreRecord(p)
    PROVE  ReplicasInv'
<1> DEFINE to == [proc[p] EXCEPT !.at = "serving"]
           n == proc[p].number
<1>1. /\ proc' = [proc EXCEPT ![p] = to] /\ current' = current /\ stored' = stored \cup {n}
      /\ proc[p].at = "named" /\ NoMigration
  BY DEF StoreRecord, Goto, NoMigration
<1>2. /\ proc[p] \in Standing /\ current \in -1..MaxNumber /\ stored \subseteq 0..MaxNumber
      /\ n \in 0..MaxNumber
  BY DEF ReplicasInv, ReplicasTypeOK, Standing
<1>3. to \in Standing /\ to.at = "serving"
  BY <1>2 DEF Standing, InService
<1>4. /\ n \in 1..current
      /\ \A q \in Processes : q # p /\ proc[q].at = "named" => proc[q].number # n
  BY <1>1 DEF SeriesAhead, NumbersAreFresh, ReplicasInv
<1> HIDE DEF to, n
<1>5. proc'[p] = to /\ \A q \in Processes : q # p => proc'[q] = proc[q]
  BY <1>1, <1>3, OneProcess
<1>6. SeriesAhead'
  BY <1>1, <1>2, <1>3, <1>4, <1>5 DEF SeriesAhead, ReplicasInv
<1>7. NumbersAreFresh'
  BY <1>1, <1>3, <1>4, <1>5 DEF NumbersAreFresh, ReplicasInv
<1>8. to.at \in InService /\ proc[p].at \in InService /\ stored' \subseteq 0..MaxNumber
  BY <1>1, <1>2, <1>3 DEF InService
<1> QED BY <1>1, <1>2, <1>3, <1>6, <1>7, <1>8, NamingPreserves

\* One step, and what it does to work that was marked.
LEMMA ReplicasStep ==
    ASSUME ReplicasInv, [ReplicaNext]_replicaVars
    PROVE  ReplicasInv' /\ \A v \in markers : work'[v] = work[v]
<1>1. CASE UNCHANGED replicaVars
  BY <1>1 DEF replicaVars, ReplicasInv, ReplicasTypeOK, KeepsTrack, UpToDate, SeriesAhead,
              NumbersAreFresh
<1>2. ASSUME NEW p \in Processes, CommitPart(p) \/ Mark(p)
      PROVE  ReplicasInv' /\ \A v \in markers : work'[v] = work[v]
  BY <1>2, CommitPartPreserves, MarkPreserves
<1>3. ASSUME NEW p \in Processes, StartupLock(p) \/ MigrationFails(p) \/ Serve(p) \/ Die(p)
      PROVE  ReplicasInv' /\ work' = work
  BY <1>3, StartupLockPreserves, MigrationFailsPreserves, ServePreserves, DiePreserves
     DEF StartupLock, MigrationFails, Serve, Die
<1>4. ASSUME NEW p \in Processes,
             TakeNumber(p) \/ ReadFloor(p) \/ SeedSeries(p) \/ Reconnect(p) \/ StoreRecord(p)
      PROVE  ReplicasInv' /\ work' = work
  BY <1>4, TakeNumberPreserves, ReadFloorPreserves, SeedSeriesPreserves, ReconnectPreserves,
     StoreRecordPreserves
     DEF TakeNumber, ReadFloor, SeedSeries, Reconnect, StoreRecord
<1> QED BY <1>1, <1>2, <1>3, <1>4 DEF ReplicaNext

\* Every state: who migrates holds the startup lock and knows every marker, a process in
\* service has what it requires, and the series is ahead of every number stored or in use
\* (lambda_erp/database.py, startup and naming).
THEOREM ReplicasInvariant == ReplicaSpec => []ReplicasInv
<1>1. ReplicasInv /\ [ReplicaNext]_replicaVars => ReplicasInv'
  BY ReplicasStep
<1> QED BY InitialReplicas, <1>1, PTL DEF ReplicaSpec

\* A number in use belongs to no stored record and to no other request, for any processes,
\* migrations and numbers stored before the series was first used (get_next_series).
THEOREM NumbersStayFresh == ReplicaSpec => []NumbersAreFresh
<1>1. ReplicasInv => NumbersAreFresh
  BY DEF ReplicasInv
<1> QED BY ReplicasInvariant, <1>1, PTL

\* Work that is marked is never done again, and no process serves before the migrations
\* it requires are marked, whoever dies between the work and its marker.
THEOREM MigratedOnce == ReplicaSpec => MigratedOnceThenServed
<1> DEFINE Once == /\ \A v \in markers : work'[v] = work[v]
                   /\ \A p \in Processes : proc'[p].at \notin {"down", "migrate", "mark"} =>
                          Required \cap Knows[p] \subseteq markers'
<1>1. ReplicasInv /\ ReplicasInv' /\ [ReplicaNext]_replicaVars => [Once]_replicaVars
  <2> SUFFICES ASSUME ReplicasInv, ReplicasInv', [ReplicaNext]_replicaVars PROVE Once
    OBVIOUS
  <2>1. \A v \in markers : work'[v] = work[v]
    BY ReplicasStep
  <2>2. ASSUME NEW p \in Processes, proc'[p].at \notin {"down", "migrate", "mark"}
        PROVE  Required \cap Knows[p] \subseteq markers'
    <3>1. proc'[p].at \in InService
      BY <2>2 DEF ReplicasInv, ReplicasTypeOK, Standing, Migrating
    <3> QED BY <3>1 DEF ReplicasInv, UpToDate
  <2> QED BY <2>1, <2>2
<1> QED BY <1>1, ReplicasInvariant, PTL DEF ReplicaSpec, MigratedOnceThenServed

-----------------------------------------------------------------------------
\* Lists: a total was true of a version of the table that was current recently.

ListPhases == {"idle", "rows", "count", "counting", "storing", "done"}
RowsThere == {Row0[n] : n \in Names} \cup {c.row : c \in Changes}
Version == [rows : [Names -> RowsThere], since : Nat]

IsPage(g) ==
    /\ g.pc \in ListPhases
    /\ DOMAIN g = {"pc", "query", "window", "offset", "rows", "from", "generation",
                   "stamp", "total"}

ListsTypeOK ==
    /\ versions \in Seq(Version) /\ versions # <<>>
    /\ ticks \in Nat
    /\ pending \in [ListWriters -> Changes \cup {All}]
    /\ counts = [p \in AppProcesses |-> counts[p]]
    /\ \A p \in AppProcesses : \A c \in counts[p] : c.stamp \in Nat
    /\ page = [r \in ListReaders |-> page[r]]
    /\ \A r \in ListReaders : IsPage(page[r]) /\ page[r].stamp \in Nat

\* A total that was counted in a version that was current at a time or later.
Known(q, w, total, since) ==
    \E i \in DOMAIN versions :
        total = Cardinality(Matching(q, w, versions[i].rows)) /\ EndOf(i) >= since

\* What is cached was true when it was stamped, or later, of every list with its key.
CacheKnown ==
    \A p \in AppProcesses : \A c \in counts[p] : \A q \in Queries :
        CountKey(q) = c.key => Known(q, All, c.total, c.stamp)

\* A page that is being counted has no total yet; one that is to be stored was
\* counted after its stamp; and every total is recent.
PageKnown(r) ==
    LET g == page[r]
    IN  /\ g.pc # "idle" => g.query \in Queries
        /\ g.pc \in {"count", "counting"} \/ (g.pc = "rows" /\ g.query.kind = "document") =>
              g.total = All
        /\ g.pc = "counting" => g.stamp <= ticks
        /\ g.pc = "storing" => Known(g.query, g.window, g.total, g.stamp)
        /\ g.total # All =>
              \E i \in DOMAIN versions : TrueIn(r, i) /\ EndOf(i) > g.stamp - CacheTTL

ListsInv ==
    /\ ListsTypeOK
    /\ CacheKnown
    /\ \A r \in ListReaders : PageKnown(r)

\* At first there is one version of the table and no page.
LEMMA InitialLists == ListsInit => ListsInv
<1> SUFFICES ASSUME ListsInit PROVE ListsInv
  OBVIOUS
<1> DEFINE first == [rows |-> Row0, since |-> 0]
<1>1. Row0 \in [Names -> RowsThere]
  BY ListsAssumption DEF RowsThere
<1>2. first \in Version
  BY <1>1 DEF Version
<1> HIDE DEF first
<1>3. versions = <<first>>
  BY DEF ListsInit, first
<1>4. versions \in Seq(Version) /\ versions # <<>>
  BY <1>2, <1>3
<1>5. /\ \A r \in ListReaders : page[r] = NoPage
      /\ page = [r \in ListReaders |-> NoPage] /\ counts = [p \in AppProcesses |-> {}]
      /\ ticks = 0 /\ pending = [w \in ListWriters |-> All]
  BY DEF ListsInit
<1>6. IsPage(NoPage) /\ NoPage.stamp = 0 /\ NoPage.pc = "idle" /\ NoPage.total = All
  BY DEF IsPage, NoPage, ListPhases
<1>7. ListsTypeOK
  BY <1>4, <1>5, <1>6 DEF ListsTypeOK
<1>8. CacheKnown
  BY <1>5 DEF CacheKnown
<1>9. \A r \in ListReaders : PageKnown(r)
  BY <1>5, <1>6 DEF PageKnown
<1> QED BY <1>7, <1>8, <1>9 DEF ListsInv

\* The last version.
LEMMA LastVersion ==
    ASSUME ListsTypeOK
    PROVE  /\ Len(versions) \in Nat \ {0} /\ DOMAIN versions = 1..Len(versions)
           /\ \A i \in 1..Len(versions) : versions[i] \in Version /\ versions[i].since \in Nat
           /\ TableNow = versions[Len(versions)].rows
           /\ \A i \in 1..Len(versions) : EndOf(i) \in Nat
<1>1. Len(versions) \in Nat \ {0} /\ DOMAIN versions = 1..Len(versions)
      /\ \A i \in 1..Len(versions) : versions[i] \in Version
  BY DEF ListsTypeOK
<1>2. \A i \in 1..Len(versions) : versions[i].since \in Nat
  BY <1>1 DEF Version
<1>3. \A i \in 1..Len(versions) : EndOf(i) \in Nat
  BY <1>1, <1>2 DEF EndOf, ListsTypeOK
<1>4. TableNow = versions[Len(versions)].rows
  BY DEF TableNow, Last
<1> QED BY <1>1, <1>2, <1>3, <1>4

\* The history goes on: no version is lost and none ends earlier.
GoesOn ==
    /\ \A i \in DOMAIN versions :
          i \in DOMAIN versions' /\ versions'[i] = versions[i] /\ EndOf(i)' >= EndOf(i)
    /\ \A i \in DOMAIN versions : EndOf(i) \in Nat
    /\ \A i \in DOMAIN versions' : EndOf(i)' \in Nat
    /\ ticks' >= ticks /\ ticks \in Nat /\ ticks' \in Nat

\* A step that writes no version keeps the history; time may pass.
LEMMA SameVersions ==
    ASSUME ListsTypeOK, UNCHANGED versions, ticks' \in Nat, ticks' >= ticks
    PROVE  GoesOn
<1>1. \A i \in DOMAIN versions : EndOf(i)' >= EndOf(i) /\ EndOf(i) \in Nat /\ EndOf(i)' \in Nat
  BY LastVersion DEF EndOf, ListsTypeOK
<1> QED BY <1>1 DEF GoesOn, ListsTypeOK

\* What was true of a version stays true of it.
LEMMA StillKnown ==
    ASSUME GoesOn, NEW q, NEW w, NEW total, NEW since \in Nat, Known(q, w, total, since)
    PROVE  Known(q, w, total, since)'
BY DEF GoesOn, Known

\* So the cache keeps what it has.
LEMMA StillCached ==
    ASSUME GoesOn, ListsTypeOK, CacheKnown, UNCHANGED counts
    PROVE  CacheKnown'
<1> SUFFICES ASSUME NEW p \in AppProcesses, NEW c \in counts[p], NEW q \in Queries,
                    CountKey(q) = c.key
             PROVE  Known(q, All, c.total, c.stamp)'
  BY DEF CacheKnown
<1>1. Known(q, All, c.total, c.stamp) /\ c.stamp \in Nat
  BY DEF CacheKnown, ListsTypeOK
<1> QED BY <1>1, StillKnown

\* And so does a page that takes no step.
LEMMA StillPage ==
    ASSUME GoesOn, ListsTypeOK, NEW r \in ListReaders, PageKnown(r), page'[r] = page[r]
    PROVE  PageKnown(r)'
<1>1. PICK g : g = page[r]
  OBVIOUS
<1>2. /\ g.pc # "idle" => g.query \in Queries
      /\ g.pc \in {"count", "counting"} \/ (g.pc = "rows" /\ g.query.kind = "document") =>
            g.total = All
      /\ g.pc = "counting" => g.stamp <= ticks
      /\ g.pc = "storing" => Known(g.query, g.window, g.total, g.stamp)
      /\ g.total # All => \E i \in DOMAIN versions :
            /\ g.total = Cardinality(Matching(g.query, g.window, versions[i].rows))
            /\ EndOf(i) > g.stamp - CacheTTL
  BY <1>1 DEF PageKnown, TrueIn
<1>3. g.stamp \in Nat /\ page'[r] = g
  BY <1>1 DEF ListsTypeOK
<1>4. g.pc = "counting" => g.stamp <= ticks'
  BY <1>2, <1>3 DEF GoesOn
<1>5. g.pc = "storing" => Known(g.query, g.window, g.total, g.stamp)'
  BY <1>2, <1>3, StillKnown
<1>6. g.total # All => \E i \in DOMAIN versions' :
            /\ g.total = Cardinality(Matching(g.query, g.window, versions'[i].rows))
            /\ EndOf(i)' > g.stamp - CacheTTL
  BY <1>2, <1>3, ListsAssumption DEF GoesOn
<1> QED BY <1>2, <1>3, <1>4, <1>5, <1>6 DEF PageKnown, TrueIn

\* A step of the writers or of time.
LEMMA WritersPreserve ==
    ASSUME ListsInv, GoesOn, UNCHANGED <<counts, page>>,
           versions' \in Seq(Version), versions' # <<>>,
           pending' \in [ListWriters -> Changes \cup {All}]
    PROVE  ListsInv'
<1> USE DEF ListsInv
<1>1. ListsTypeOK'
  BY DEF ListsTypeOK, GoesOn
<1>2. CacheKnown'
  BY StillCached
<1>3. \A r \in ListReaders : PageKnown(r)'
  BY StillPage
<1> QED BY <1>1, <1>2, <1>3

\* A commit ends the current version now and starts the next.
LEMMA CommitChangePreserves ==
    ASSUME ListsInv, NEW w \in ListWriters, CommitChange(w)
    PROVE  ListsInv'
<1> DEFINE table == [TableNow EXCEPT ![pending[w].name] = pending[w].row]
           version == [rows |-> table, since |-> ticks]
<1> PICK n : n = Len(versions)
  OBVIOUS
<1>1. ListsTypeOK /\ pending[w] \in Changes /\ pending' = [pending EXCEPT ![w] = All]
      /\ UNCHANGED <<generation, counts, page, ticks>> /\ versions' = Append(versions, version)
  BY DEF CommitChange, ListsInv, ListsTypeOK
<1>2. TableNow \in [Names -> RowsThere]
  BY <1>1, LastVersion DEF Version
<1>3. table \in [Names -> RowsThere]
  BY <1>1, <1>2 DEF RowsThere
<1> HIDE DEF table
<1>4. version \in Version /\ version.since = ticks
  BY <1>1, <1>3 DEF Version, ListsTypeOK
<1> HIDE DEF version
<1>5. /\ versions' \in Seq(Version) /\ Len(versions') = n + 1 /\ versions'[n + 1] = version
      /\ \A i \in 1..n : versions'[i] = versions[i]
  BY <1>1, <1>4, AppendProperties DEF ListsTypeOK
<1>6. /\ n \in Nat \ {0} /\ DOMAIN versions = 1..n
      /\ \A i \in 1..n : EndOf(i) \in Nat /\ versions[i].since \in Nat
  BY <1>1, LastVersion
<1>7. versions' # <<>> /\ DOMAIN versions' = 1..(n + 1)
  BY <1>5, <1>6
<1>8. ticks \in Nat /\ ticks' = ticks
  BY <1>1 DEF ListsTypeOK
<1>9. \A i \in 1..(n + 1) : EndOf(i)' = IF i = n + 1 THEN ticks ELSE versions'[i + 1].since
  BY <1>5, <1>8 DEF EndOf
<1>10. \A i \in 1..n : EndOf(i)' = EndOf(i)
  <2> SUFFICES ASSUME NEW i \in 1..n PROVE EndOf(i)' = EndOf(i)
    OBVIOUS
  <2>1. CASE i = n
    BY <1>4, <1>5, <1>6, <1>9, <2>1 DEF EndOf
  <2>2. CASE i # n
    <3>1. i + 1 \in 1..n /\ i \in 1..(n + 1) /\ i # n + 1
      BY <1>6, <2>2
    <3>2. EndOf(i) = versions[i + 1].since
      BY <2>2 DEF EndOf
    <3>3. EndOf(i)' = versions'[i + 1].since
      BY <1>9, <3>1
    <3> QED BY <1>5, <3>1, <3>2, <3>3
  <2> QED BY <2>1, <2>2
<1>11. GoesOn
  <2>1. EndOf(n + 1)' = ticks
    BY <1>6, <1>9
  <2>2. \A i \in 1..(n + 1) : EndOf(i)' \in Nat
    BY <1>6, <1>8, <1>10, <2>1
  <2> QED BY <1>5, <1>6, <1>7, <1>8, <1>10, <2>2 DEF GoesOn
<1>12. pending' \in [ListWriters -> Changes \cup {All}]
  BY <1>1 DEF ListsTypeOK
<1> QED BY <1>1, <1>5, <1>7, <1>11, <1>12, WritersPreserve

\* Executing, rolling back and the clock write no version.
LEMMA OtherWritesPreserve ==
    ASSUME ListsInv
    PROVE  /\ \A w \in ListWriters, c \in Changes : Execute(w, c) => ListsInv'
           /\ \A w \in ListWriters : RollbackChange(w) => ListsInv'
           /\ Tick => ListsInv'
<1>1. /\ ListsTypeOK /\ ticks \in Nat /\ versions \in Seq(Version) /\ versions # <<>>
      /\ pending \in [ListWriters -> Changes \cup {All}]
  BY DEF ListsInv, ListsTypeOK
<1>2. ASSUME NEW w \in ListWriters, NEW c \in Changes, Execute(w, c) PROVE ListsInv'
  <2>1. UNCHANGED <<versions, counts, page, ticks>> /\ pending' = [pending EXCEPT ![w] = c]
    BY <1>2 DEF Execute
  <2> QED BY <1>1, <2>1, SameVersions, WritersPreserve
<1>3. ASSUME NEW w \in ListWriters, RollbackChange(w) PROVE ListsInv'
  <2>1. UNCHANGED <<versions, counts, page, ticks>> /\ pending' = [pending EXCEPT ![w] = All]
    BY <1>3 DEF RollbackChange
  <2> QED BY <1>1, <2>1, SameVersions, WritersPreserve
<1>4. ASSUME Tick PROVE ListsInv'
  <2>1. UNCHANGED <<versions, pending, counts, page>> /\ ticks' = ticks + 1
    BY <1>4 DEF Tick
  <2> QED BY <1>1, <2>1, SameVersions, WritersPreserve
<1> QED BY <1>2, <1>3, <1>4

\* A step of one reader that leaves the cache alone.
LEMMA ReaderPreserves ==
    ASSUME ListsInv, NEW r \in ListReaders, NEW to, IsPage(to), to.stamp \in Nat,
           page' = [page EXCEPT ![r] = to], UNCHANGED <<versions, pending, ticks>>,
           counts' = [p \in AppProcesses |-> counts'[p]],
           \A p \in AppProcesses : \A c \in counts'[p] :
               /\ c.stamp \in Nat
               /\ \/ c \in counts[p]
                  \/ \A q \in Queries : CountKey(q) = c.key => Known(q, All, c.total, c.stamp),
           PageKnown(r)'
    PROVE  ListsInv'
<1> USE DEF ListsInv
<1>1. /\ page' = [s \in ListReaders |-> page'[s]] /\ page'[r] = to
      /\ \A s \in ListReaders : s # r => page'[s] = page[s]
  BY DEF ListsTypeOK
<1>2. ListsTypeOK'
  BY <1>1 DEF ListsTypeOK
<1>3. \A q, w, total, since : Known(q, w, total, since)' <=> Known(q, w, total, since)
  BY DEF Known, EndOf
<1>4. CacheKnown'
  BY <1>3 DEF CacheKnown
<1>5. GoesOn
  BY SameVersions DEF ListsTypeOK
<1>6. \A s \in ListReaders : PageKnown(s)'
  BY <1>1, <1>5, StillPage
<1> QED BY <1>2, <1>4, <1>6

\* A page that is opened has no total.
LEMMA OpenPreserves ==
    ASSUME ListsInv, NEW r \in ListReaders, NEW q \in Queries, NEW o \in Offsets,
           OpenDocuments(r, q, o) \/ OpenMasters(r, q, o)
    PROVE  ListsInv'
<1>1. PICK first \in {"rows", "count"} :
          /\ page' = [page EXCEPT ![r] = Asked(first, q, o)]
          /\ UNCHANGED <<versions, pending, counts, ticks>>
  BY DEF OpenDocuments, OpenMasters
<1> DEFINE to == Asked(first, q, o)
<1>2. /\ IsPage(to) /\ to.stamp = 0 /\ to.pc = first /\ to.total = All /\ to.query = q
  BY DEF Asked, NoPage, IsPage, ListPhases
<1> HIDE DEF to
<1>3. page'[r] = to /\ page' = [page EXCEPT ![r] = to]
  BY <1>1 DEF ListsInv, ListsTypeOK, to
<1>4. PageKnown(r)'
  BY <1>2, <1>3 DEF PageKnown
<1> QED BY <1>1, <1>2, <1>3, <1>4, ReaderPreserves DEF ListsInv, ListsTypeOK

\* A page that is closed claims nothing.
LEMMA CloseListPreserves ==
    ASSUME ListsInv, NEW r \in ListReaders, CloseList(r)
    PROVE  ListsInv'
<1>1. /\ page' = [page EXCEPT ![r] = NoPage] /\ UNCHANGED <<versions, pending, counts, ticks>>
      /\ page'[r] = NoPage
  BY DEF CloseList, ListsInv, ListsTypeOK
<1>2. IsPage(NoPage) /\ NoPage.stamp = 0 /\ NoPage.pc = "idle" /\ NoPage.total = All
  BY DEF IsPage, NoPage, ListPhases
<1>3. PageKnown(r)'
  BY <1>1, <1>2 DEF PageKnown
<1> QED BY <1>1, <1>2, <1>3, ReaderPreserves DEF ListsInv, ListsTypeOK

\* Fetching the rows leaves the total alone.
LEMMA FetchRowsPreserves ==
    ASSUME ListsInv, NEW r \in ListReaders, FetchRows(r)
    PROVE  ListsInv'
<1> DEFINE g == page[r]
           next == IF g.query.kind = "document" THEN "count" ELSE "done"
           shown == PageOf(g.query, g.window, TableNow, g.offset)
           to == [g EXCEPT !.pc = next, !.rows = shown]
<1>1. /\ page' = [page EXCEPT ![r] = to] /\ UNCHANGED <<versions, pending, counts, ticks>>
      /\ g.pc = "rows" /\ page'[r] = to
  BY DEF FetchRows, ListsInv, ListsTypeOK
<1>2. IsPage(g) /\ g.stamp \in Nat /\ PageKnown(r)
  BY DEF ListsInv, ListsTypeOK
<1> HIDE DEF shown, g
<1>3. /\ IsPage(to) /\ to.pc = next /\ to.query = g.query /\ to.window = g.window
      /\ to.total = g.total /\ to.stamp = g.stamp
  BY <1>2 DEF IsPage, ListPhases
<1> HIDE DEF to
<1>4. PageKnown(r)'
  BY <1>1, <1>2, <1>3 DEF PageKnown, TrueIn, EndOf, g
<1> QED BY <1>1, <1>2, <1>3, <1>4, ReaderPreserves DEF ListsInv, ListsTypeOK

\* Counting the rows that are there.
LEMMA CountRowsPreserves ==
    ASSUME ListsInv, NEW r \in ListReaders, CountRows(r)
    PROVE  ListsInv'
<1>1. PICK g, i, n : /\ g = page[r] /\ i = Len(versions)
                     /\ n = Cardinality(Matching(g.query, g.window, TableNow))
  OBVIOUS
<1>2. PICK to : to = [g EXCEPT !.pc = "storing", !.total = n]
  OBVIOUS
<1>3. /\ page' = [page EXCEPT ![r] = to] /\ UNCHANGED <<versions, pending, counts, ticks>>
      /\ g.pc = "counting" /\ page'[r] = to
  BY <1>1, <1>2 DEF CountRows, ListsInv, ListsTypeOK
<1>4. IsPage(g) /\ g.stamp \in Nat /\ g.stamp <= ticks /\ g.query \in Queries /\ ticks \in Nat
  BY <1>1, <1>3 DEF ListsInv, ListsTypeOK, PageKnown
<1>5. /\ i \in DOMAIN versions /\ n = Cardinality(Matching(g.query, g.window, versions[i].rows))
      /\ EndOf(i) = ticks
  BY <1>1, LastVersion DEF ListsInv, EndOf
<1>6. /\ IsPage(to) /\ to.pc = "storing" /\ to.query = g.query /\ to.window = g.window
      /\ to.total = n /\ to.stamp = g.stamp
  BY <1>2, <1>4 DEF IsPage, ListPhases
<1>7. i \in DOMAIN versions' /\ versions' = versions /\ EndOf(i)' = ticks
  BY <1>3, <1>5 DEF EndOf
<1>8. Known(to.query, to.window, to.total, to.stamp)'
  BY <1>3, <1>4, <1>5, <1>6, <1>7 DEF Known
<1>9. TrueIn(r, i)' /\ EndOf(i)' > to.stamp - CacheTTL
  BY <1>3, <1>4, <1>5, <1>6, <1>7, ListsAssumption DEF TrueIn
<1>10. PageKnown(r)'
  BY <1>3, <1>4, <1>6, <1>7, <1>8, <1>9 DEF PageKnown
<1> QED BY <1>3, <1>4, <1>6, <1>10, ReaderPreserves DEF ListsInv, ListsTypeOK

\* The key of a count decides which rows an unmoving window lists.
LEMMA KeyDecides ==
    ASSUME NEW p, NEW q, CountKey(p) = CountKey(q), NEW rows
    PROVE  Matching(p, All, rows) = Matching(q, All, rows)
<1>1. p.kind = q.kind /\ p.status = q.status /\ p.hidden = q.hidden /\ p.search = q.search
  BY DEF CountKey
<1> QED BY <1>1 DEF Matching, HasField, Listed, Found, InWindow

\* A total taken from the cache was true after its stamp, which is within the time to live.
LEMMA LookUpPreserves ==
    ASSUME ListsInv, NEW r \in ListReaders, LookUp(r)
    PROVE  ListsInv'
<1> DEFINE g == page[r]
           p == ProcessAt[r]
           hits == {c \in counts[p] : g.window = All /\ Reusable(c, CountKey(g.query), p)}
           asked == [g EXCEPT !.from = Len(versions), !.generation = generation[p], !.stamp = ticks]
           next == IF g.query.kind = "document" THEN "done" ELSE "rows"
           hit == CHOOSE c \in hits : TRUE
           to == IF hits = {} THEN [asked EXCEPT !.pc = "counting"]
                 ELSE [asked EXCEPT !.pc = next, !.total = hit.total]
<1>1. /\ page' = [page EXCEPT ![r] = to] /\ UNCHANGED <<versions, pending, counts, ticks>>
      /\ g.pc = "count" /\ page'[r] = to
  BY DEF LookUp, ListsInv, ListsTypeOK
<1>2. IsPage(g) /\ g.query \in Queries /\ g.total = All /\ ticks \in Nat
  BY <1>1 DEF ListsInv, ListsTypeOK, PageKnown
<1>3. p \in AppProcesses
  BY DEF AppProcesses
<1>4. hits # {} => hit \in hits
  OBVIOUS
<1> HIDE DEF g, p, hit
<1>5. /\ IsPage(asked) /\ asked.query = g.query /\ asked.window = g.window /\ asked.stamp = ticks
      /\ asked.total = All
  BY <1>2 DEF IsPage
<1> HIDE DEF asked
<1>6. /\ IsPage(to) /\ to.query = g.query /\ to.window = g.window /\ to.stamp = ticks
      /\ hits = {} => to.pc = "counting" /\ to.total = All
      /\ hits # {} => to.pc = next /\ to.total = hit.total
  BY <1>5 DEF IsPage, ListPhases
<1>7. CASE hits = {}
  <2> HIDE DEF to, hits
  <2>1. to.pc = "counting" /\ to.total = All /\ to.stamp = ticks /\ to.query \in Queries
    BY <1>2, <1>6, <1>7
  <2>2. page'[r] = to /\ ticks' = ticks /\ to.stamp <= ticks
    BY <1>1, <1>2, <2>1
  <2>3. PageKnown(r)'
    BY <2>1, <2>2 DEF PageKnown
  <2> QED BY <1>1, <1>2, <1>6, <2>1, <2>3, ReaderPreserves DEF ListsInv, ListsTypeOK
<1>8. CASE hits # {}
  <2>1. /\ hit \in counts[p] /\ g.window = All /\ hit.key = CountKey(g.query)
        /\ ticks - hit.stamp < CacheTTL
    BY <1>4, <1>8 DEF Reusable
  <2>2. Known(g.query, All, hit.total, hit.stamp) /\ hit.stamp \in Nat
    BY <1>2, <1>3, <2>1 DEF ListsInv, ListsTypeOK, CacheKnown
  <2>3. PICK i \in DOMAIN versions :
            /\ hit.total = Cardinality(Matching(g.query, All, versions[i].rows))
            /\ EndOf(i) >= hit.stamp
    BY <2>2 DEF Known
  <2>4. EndOf(i) \in Nat /\ EndOf(i)' = EndOf(i) /\ i \in DOMAIN versions'
    BY <1>1, LastVersion DEF ListsInv, EndOf
  <2> HIDE DEF to, hits
  <2>5. TrueIn(r, i)' /\ EndOf(i)' > to.stamp - CacheTTL
    BY <1>1, <1>2, <1>6, <1>8, <2>1, <2>2, <2>3, <2>4, ListsAssumption DEF TrueIn
  <2>6. PageKnown(r)'
    BY <1>1, <1>2, <1>6, <1>8, <2>4, <2>5 DEF PageKnown
  <2> QED BY <1>1, <1>2, <1>6, <2>6, ReaderPreserves DEF ListsInv, ListsTypeOK
<1> QED BY <1>7, <1>8

\* What is stored was counted no earlier than its stamp.
LEMMA StoreCountPreserves ==
    ASSUME ListsInv, NEW r \in ListReaders, StoreCount(r)
    PROVE  ListsInv'
<1> DEFINE g == page[r]
           p == ProcessAt[r]
           kept == [key |-> CountKey(g.query), generation |-> g.generation,
                    stamp |-> g.stamp, total |-> g.total]
           next == IF g.query.kind = "document" THEN "done" ELSE "rows"
           to == [g EXCEPT !.pc = next]
<1>1. /\ counts' = IF g.window # All THEN counts ELSE [counts EXCEPT ![p] = WithEntry(p, kept)]
      /\ page' = [page EXCEPT ![r] = to] /\ UNCHANGED <<versions, pending, ticks>>
      /\ g.pc = "storing" /\ page'[r] = to
  BY DEF StoreCount, ListsInv, ListsTypeOK
<1>2. /\ IsPage(g) /\ g.stamp \in Nat /\ PageKnown(r)
      /\ g.query \in Queries /\ Known(g.query, g.window, g.total, g.stamp)
  BY <1>1 DEF ListsInv, ListsTypeOK, PageKnown
<1>3. kept.key = CountKey(g.query) /\ kept.stamp = g.stamp /\ kept.total = g.total
  OBVIOUS
<1> HIDE DEF p, kept
<1>4. /\ counts' = [o \in AppProcesses |-> counts'[o]]
      /\ \A o \in AppProcesses : \A c \in counts'[o] :
            c \in counts[o] \/ (c = kept /\ g.window = All)
  <2>1. \A c \in WithEntry(p, kept) : c \in counts[p] \/ c = kept
    BY DEF WithEntry
  <2> QED BY <1>1, <2>1 DEF ListsInv, ListsTypeOK
<1>5. ASSUME g.window = All, NEW q \in Queries, CountKey(q) = kept.key
      PROVE  Known(q, All, kept.total, kept.stamp)
  <2>1. \A rows : Matching(q, All, rows) = Matching(g.query, All, rows)
    BY <1>3, <1>5, KeyDecides
  <2> QED BY <1>2, <1>3, <1>5, <2>1 DEF Known
<1> HIDE DEF g
<1>6. /\ IsPage(to) /\ to.pc = next /\ to.query = g.query /\ to.window = g.window
      /\ to.total = g.total /\ to.stamp = g.stamp
  BY <1>2 DEF IsPage, ListPhases
<1> HIDE DEF to
<1>7. PageKnown(r)'
  BY <1>1, <1>2, <1>6 DEF PageKnown, TrueIn, EndOf, g
<1>8. \A o \in AppProcesses : \A c \in counts'[o] :
          /\ c.stamp \in Nat
          /\ \/ c \in counts[o]
             \/ \A q \in Queries : CountKey(q) = c.key => Known(q, All, c.total, c.stamp)
  BY <1>2, <1>3, <1>4, <1>5 DEF ListsInv, ListsTypeOK
<1> QED BY <1>1, <1>2, <1>4, <1>6, <1>7, <1>8, ReaderPreserves

\* Every state: every cached total was true of the table at its stamp or later, and a page
\* that is being counted knows from when (api/services.py, the count cache).
THEOREM ListsInvariant == ListsSpec => []ListsInv
<1>1. ListsInv /\ [ListsNext]_listVars => ListsInv'
  <2> SUFFICES ASSUME ListsInv, [ListsNext]_listVars PROVE ListsInv'
    OBVIOUS
  <2>1. CASE UNCHANGED listVars
    <3>1. UNCHANGED <<versions, pending, counts, page, ticks>>
      BY <2>1 DEF listVars
    <3>2. GoesOn /\ versions \in Seq(Version) /\ versions # <<>>
          /\ pending \in [ListWriters -> Changes \cup {All}]
      BY <3>1, SameVersions DEF ListsInv, ListsTypeOK
    <3> QED BY <3>1, <3>2, WritersPreserve
  <2>2. CASE ListsNext
    BY <2>2, CommitChangePreserves, OtherWritesPreserve, OpenPreserves, FetchRowsPreserves,
       LookUpPreserves, CountRowsPreserves, StoreCountPreserves, CloseListPreserves
       DEF ListsNext
  <2> QED BY <2>1, <2>2
<1> QED BY InitialLists, <1>1, PTL DEF ListsSpec

\* The total a page shows was true of the table less than the time to live before it was
\* looked up, for any writers, readers, processes and queries.
THEOREM CountsStayRecent == ListsSpec => []CountsAreRecent
<1>1. ListsInv => CountsAreRecent
  BY DEF ListsInv, PageKnown, CountsAreRecent, HasTotal
<1> QED BY ListsInvariant, <1>1, PTL

\* The one at a place, by name.
Placed(S, R, i) == CHOOSE n \in S : Cardinality(Ahead(S, R, n)) = i - 1
Later(S, R, n) == {m \in S : <<n, m>> \in R}

\* Nobody is between the places i and i + 1.
LEMMA NextPlace ==
    ASSUME NEW S, NEW R, IsOrder(S, R), NEW i \in 1..(Cardinality(S) - 1)
    PROVE  /\ Placed(S, R, i) \in S /\ Placed(S, R, i + 1) \in S
           /\ <<Placed(S, R, i), Placed(S, R, i + 1)>> \in R
           /\ \A m \in S : \/ m = Placed(S, R, i) \/ m = Placed(S, R, i + 1)
                           \/ <<m, Placed(S, R, i)>> \in R
                           \/ <<Placed(S, R, i + 1), m>> \in R
<1> DEFINE rank(n) == Cardinality(Ahead(S, R, n))
<1>1. Cardinality(S) \in Nat
  BY FS_CardinalityType DEF IsOrder
<1>2. i \in 1..Cardinality(S) /\ i + 1 \in 1..Cardinality(S) /\ (i + 1) - 1 = i
  BY <1>1
<1>3. PICK a, b : a = Placed(S, R, i) /\ b = Placed(S, R, i + 1)
  OBVIOUS
<1>4. a \in S /\ rank(a) = i - 1
  BY <1>2, <1>3, PlacesAreTaken DEF Placed
<1>5. b \in S /\ rank(b) = i
  BY <1>2, <1>3, PlacesAreTaken DEF Placed
<1>6. \A n \in S : rank(n) \in Nat
  BY <1>1, RanksGrow
<1>7. \A m, n \in S : <<m, n>> \in R => rank(m) < rank(n)
  BY RanksGrow
<1>8. \A m, n \in S : m # n => <<m, n>> \in R \/ <<n, m>> \in R
  BY DEF IsOrder
<1> HIDE DEF rank
<1>9. <<a, b>> \in R
  <2>1. i \in Nat /\ a # b
    BY <1>2, <1>4, <1>5
  <2>2. <<b, a>> \in R => rank(b) < rank(a)
    BY <1>4, <1>5, <1>7
  <2>3. <<b, a>> \notin R
    BY <1>4, <1>5, <2>1, <2>2
  <2> QED BY <1>4, <1>5, <1>8, <2>1, <2>3
<1>10. ASSUME NEW m \in S PROVE m = a \/ m = b \/ <<m, a>> \in R \/ <<b, m>> \in R
  <2>1. SUFFICES ASSUME m # a, m # b, <<a, m>> \in R, <<m, b>> \in R PROVE FALSE
    BY <1>4, <1>5, <1>8
  <2>2. i - 1 < rank(m) /\ rank(m) < i
    BY <1>4, <1>5, <1>7, <2>1
  <2> QED BY <1>2, <1>6, <2>2
<1> QED BY <1>3, <1>4, <1>5, <1>9, <1>10

\* Nobody is before the first or after the last.
LEMMA EndPlaces ==
    ASSUME NEW S, NEW R, IsOrder(S, R), S # {}
    PROVE  /\ Placed(S, R, 1) \in S /\ Ahead(S, R, Placed(S, R, 1)) = {}
           /\ Placed(S, R, Cardinality(S)) \in S
           /\ Later(S, R, Placed(S, R, Cardinality(S))) = {}
<1> DEFINE rank(n) == Cardinality(Ahead(S, R, n))
<1>1. IsFiniteSet(S) /\ Cardinality(S) \in Nat \ {0}
  BY FS_CardinalityType, FS_EmptySet DEF IsOrder
<1>2. PICK a, b : a = Placed(S, R, 1) /\ b = Placed(S, R, Cardinality(S))
  OBVIOUS
<1>3. a \in S /\ rank(a) = 0
  BY <1>1, <1>2, PlacesAreTaken DEF Placed
<1>4. b \in S /\ rank(b) = Cardinality(S) - 1
  BY <1>1, <1>2, PlacesAreTaken DEF Placed
<1>5. Ahead(S, R, a) = {}
  <2>1. Ahead(S, R, a) \in SUBSET S
    BY DEF Ahead
  <2> QED BY <1>1, <1>3, <2>1, FS_Subset, FS_EmptySet
<1>6. ASSUME NEW m \in Later(S, R, b) PROVE FALSE
  <2>1. m \in S /\ <<b, m>> \in R
    BY DEF Later
  <2>2. rank(b) < rank(m) /\ rank(m) \in 0..(Cardinality(S) - 1)
    BY <1>4, <2>1, RanksGrow
  <2> QED BY <1>1, <1>4, <2>2
<1> QED BY <1>2, <1>3, <1>4, <1>5, <1>6

\* The rows that one walks through from record to record, and the order of a list as pairs.
Walked(q, w, rows) ==
    {n \in Matching(q, w, rows) : q.kind = "document" => SortKey(q, rows, n) # Null}
Sorting(q, rows, S) == {p \in S \X S : SortsBefore(q, rows, p[1], p[2])}
SortValues(q, rows, S) == \A n \in S : SortKey(q, rows, n) \in Int \cup {Null}
Around(q, w, rows, n, toward) ==
    {m \in Walked(q, w, rows) :
        IF toward = "next" THEN SortsBefore(q, rows, n, m) ELSE SortsBefore(q, rows, m, n)}

\* The ORDER BY of a list leaves no two rows undecided, for the name decides between equals.
LEMMA SortingDecides ==
    ASSUME NEW q, q.order \in {"asc", "desc"}, NEW rows, NEW S \in SUBSET Names,
           SortValues(q, rows, S)
    PROVE  IsOrder(S, Sorting(q, rows, S))
<1>1. IsFiniteSet(S) /\ S \subseteq Int /\ Null \notin Int
  BY FS_Subset, ListsAssumption
<1>2. \A a, b \in S : <<a, b>> \in Sorting(q, rows, S) <=> SortsBefore(q, rows, a, b)
  BY DEF Sorting
<1>3. PICK first : first = NullsFirst(q) /\ first \in BOOLEAN
  BY DEF NullsFirst
<1>4. PICK key : key = [n \in S |-> SortKey(q, rows, n)]
  OBVIOUS
<1>5. \A n \in S : key[n] = SortKey(q, rows, n) /\ (key[n] \in Int \/ key[n] = Null)
  BY <1>4 DEF SortValues
<1>6. \A a, b \in S : SortsBefore(q, rows, a, b) <=>
          \/ (key[a] = Null) # (key[b] = Null) /\ (key[a] = Null) = first
          \/ (key[a] = Null) = (key[b] = Null) /\ key[a] # key[b] /\ Above(q, key[a], key[b])
          \/ key[a] = key[b] /\ Above(q, a, b)
  BY <1>3, <1>5 DEF SortsBefore
<1>7. \A a, b \in Int : Above(q, a, b) <=> IF q.order = "asc" THEN a < b ELSE a > b
  BY DEF Above
<1>8. ASSUME NEW a \in S PROVE ~SortsBefore(q, rows, a, a)
  BY <1>1, <1>6, <1>7
<1>9. ASSUME NEW a \in S, NEW b \in S, a # b
      PROVE  SortsBefore(q, rows, a, b) \/ SortsBefore(q, rows, b, a)
  <2>1. CASE key[a] = Null /\ key[b] = Null
    BY <1>1, <1>6, <1>7, <1>9, <2>1
  <2>2. CASE (key[a] = Null) # (key[b] = Null)
    BY <1>3, <1>6, <2>2
  <2>3. CASE key[a] \in Int /\ key[b] \in Int
    <3>1. CASE key[a] = key[b]
      BY <1>1, <1>6, <1>7, <1>9, <3>1
    <3>2. CASE key[a] # key[b]
      BY <1>1, <1>6, <1>7, <2>3, <3>2
    <3> QED BY <3>1, <3>2
  <2> QED BY <1>5, <2>1, <2>2, <2>3
<1>10. ASSUME NEW a \in S, NEW b \in S, NEW c \in S,
              SortsBefore(q, rows, a, b), SortsBefore(q, rows, b, c)
       PROVE  SortsBefore(q, rows, a, c)
  <2>1. CASE key[a] = Null
    BY <1>1, <1>3, <1>5, <1>6, <1>7, <1>10, <2>1
  <2>2. CASE key[a] \in Int
    <3>1. CASE key[b] = Null
      BY <1>1, <1>3, <1>5, <1>6, <1>7, <1>10, <2>2, <3>1
    <3>2. CASE key[b] \in Int /\ key[c] = Null
      BY <1>1, <1>3, <1>5, <1>6, <1>7, <1>10, <2>2, <3>2
    <3>3. CASE key[b] \in Int /\ key[c] \in Int
      BY <1>1, <1>5, <1>6, <1>7, <1>10, <2>2, <3>3
    <3> QED BY <1>5, <3>1, <3>2, <3>3
  <2> QED BY <1>5, <2>1, <2>2
<1> QED BY <1>1, <1>2, <1>8, <1>9, <1>10 DEF IsOrder

\* What the two keyset conditions select is what comes after a row in the list, or before it.
LEMMA KeysetFollowsTheOrder ==
    ASSUME NEW q, q.order \in {"asc", "desc"}, NEW w, NEW rows,
           SortValues(q, rows, Matching(q, w, rows)),
           NEW n \in Walked(q, w, rows), NEW toward \in {"next", "prev"}
    PROVE  Adjacent(q, w, rows, n, toward) = Closest(q, rows, Around(q, w, rows, n, toward), toward)
<1> DEFINE live == {m \in Names : rows[m] # NoRow}
           found == Matching(q, w, rows)
<1>1. found \subseteq live /\ found \subseteq Names /\ n \in found
  BY DEF Matching, Walked
<1>2. Null \notin Int /\ \A m \in found : SortKey(q, rows, m) \in Int \/ SortKey(q, rows, m) = Null
  BY ListsAssumption DEF SortValues
<1>3. CASE q.kind = "document"
  <2>1. ASSUME NEW m \in found
        PROVE  m \in Keyset(q, rows, n, toward) <=> m \in Around(q, w, rows, n, toward)
    <3>1. m \in Walked(q, w, rows) <=> SortKey(q, rows, m) # Null
      BY <1>3 DEF Walked
    <3>2. SortKey(q, rows, n) # Null
      BY <1>3 DEF Walked
    <3>3. SortKey(q, rows, m) # Null =>
              /\ SortsBefore(q, rows, n, m) <=>
                    \/ SortKey(q, rows, n) # SortKey(q, rows, m)
                          /\ Above(q, SortKey(q, rows, n), SortKey(q, rows, m))
                    \/ SortKey(q, rows, n) = SortKey(q, rows, m) /\ Above(q, n, m)
              /\ SortsBefore(q, rows, m, n) <=>
                    \/ SortKey(q, rows, n) # SortKey(q, rows, m)
                          /\ Above(q, SortKey(q, rows, m), SortKey(q, rows, n))
                    \/ SortKey(q, rows, n) = SortKey(q, rows, m) /\ Above(q, m, n)
      BY <3>2 DEF SortsBefore
    <3>4. m \in Names
      BY <1>1
    <3> QED BY <3>1, <3>2, <3>3, <3>4 DEF Keyset, Around
  <2>2. Around(q, w, rows, n, toward) \subseteq found
    BY DEF Around, Walked
  <2>3. found \cap {m \in live : m \in Keyset(q, rows, n, toward)} = Around(q, w, rows, n, toward)
    BY <1>1, <2>1, <2>2
  <2> QED BY <1>1, <1>3, <2>3 DEF Adjacent, AdjacentDocument
<1>4. CASE q.kind # "document"
  <2>1. ASSUME NEW m \in found
        PROVE  m \in MasterKeyset(q, rows, n, toward) <=> m \in Around(q, w, rows, n, toward)
    <3>1. m \in Walked(q, w, rows) /\ m \in Names
      BY <1>1, <1>4 DEF Walked
    <3>2. NullsFirst(q) = FALSE
      BY <1>4 DEF NullsFirst
    <3>3. PICK a, b : a = SortKey(q, rows, n) /\ b = SortKey(q, rows, m)
      OBVIOUS
    <3>4. /\ SortsBefore(q, rows, n, m) <=>
                \/ a # Null /\ b = Null
                \/ (a = Null <=> b = Null) /\ a # b /\ Above(q, a, b)
                \/ a = b /\ Above(q, n, m)
          /\ SortsBefore(q, rows, m, n) <=>
                \/ a = Null /\ b # Null
                \/ (a = Null <=> b = Null) /\ a # b /\ Above(q, b, a)
                \/ a = b /\ Above(q, m, n)
      BY <3>2, <3>3 DEF SortsBefore
    <3>5. m \in MasterKeyset(q, rows, n, "next") <=>
                \/ a = Null /\ b = Null /\ Above(q, n, m)
                \/ a # Null /\ b # Null /\ ((a # b /\ Above(q, a, b)) \/ (a = b /\ Above(q, n, m)))
                \/ a # Null /\ b = Null
      <4>1. CASE a = Null
        BY <3>1, <3>3, <4>1 DEF MasterKeyset
      <4>2. CASE a # Null
        <5>1. SortKey(q, rows, n) # Null
          BY <3>3, <4>2
        <5>2. m \in MasterKeyset(q, rows, n, "next") <=>
                  \/ /\ SortKey(q, rows, m) # Null
                     /\ \/ /\ SortKey(q, rows, m) # SortKey(q, rows, n)
                           /\ Above(q, SortKey(q, rows, n), SortKey(q, rows, m))
                        \/ SortKey(q, rows, m) = SortKey(q, rows, n) /\ Above(q, n, m)
                  \/ SortKey(q, rows, m) = Null
          BY <3>1, <5>1 DEF MasterKeyset
        <5> QED BY <3>3, <4>2, <5>2
      <4> QED BY <4>1, <4>2
    <3>6. m \in MasterKeyset(q, rows, n, "prev") <=>
                \/ a = Null /\ b = Null /\ Above(q, m, n)
                \/ a = Null /\ b # Null
                \/ a # Null /\ b # Null /\ ((a # b /\ Above(q, b, a)) \/ (a = b /\ Above(q, m, n)))
      <4>1. CASE a = Null
        BY <3>1, <3>3, <4>1 DEF MasterKeyset
      <4>2. CASE a # Null
        <5>1. SortKey(q, rows, n) # Null
          BY <3>3, <4>2
        <5>2. m \in MasterKeyset(q, rows, n, "prev") <=>
                  \/ /\ SortKey(q, rows, m) # Null
                     /\ \/ /\ SortKey(q, rows, m) # SortKey(q, rows, n)
                           /\ Above(q, SortKey(q, rows, m), SortKey(q, rows, n))
                        \/ SortKey(q, rows, m) = SortKey(q, rows, n) /\ Above(q, m, n)
          BY <3>1, <5>1 DEF MasterKeyset
        <5> QED BY <3>3, <4>2, <5>2
      <4> QED BY <4>1, <4>2
    <3>7. m \in Around(q, w, rows, n, toward) <=>
              IF toward = "next" THEN SortsBefore(q, rows, n, m) ELSE SortsBefore(q, rows, m, n)
      BY <3>1 DEF Around
    <3>8. CASE toward = "next"
      BY <3>4, <3>5, <3>7, <3>8
    <3>9. CASE toward = "prev"
      BY <3>4, <3>6, <3>7, <3>9
    <3> QED BY <3>8, <3>9
  <2>2. Around(q, w, rows, n, toward) \subseteq found
    BY DEF Around, Walked
  <2>3. found \cap {m \in live : m \in MasterKeyset(q, rows, n, toward)} = Around(q, w, rows, n, toward)
    BY <1>1, <2>1, <2>2
  <2> QED BY <1>1, <1>4, <2>3 DEF Adjacent, AdjacentMaster
<1> QED BY <1>3, <1>4

\* The closest of some rows is the one that the others are beyond.
LEMMA ClosestIs ==
    ASSUME NEW q, NEW rows, NEW S, NEW R, R = Sorting(q, rows, S), IsOrder(S, R),
           NEW A \in SUBSET S, NEW b \in A
    PROVE  /\ (\A n \in A \ {b} : <<b, n>> \in R) => Closest(q, rows, A, "next") = b
           /\ (\A n \in A \ {b} : <<n, b>> \in R) => Closest(q, rows, A, "prev") = b
<1>1. \A m, n \in A : SortsBefore(q, rows, m, n) <=> <<m, n>> \in R
  BY DEF Sorting
<1>2. \A m, n \in A : ~(<<m, n>> \in R /\ <<n, m>> \in R)
  BY DEF IsOrder
<1>3. ASSUME \A n \in A \ {b} : <<b, n>> \in R PROVE Closest(q, rows, A, "next") = b
  <2>1. \A n \in A \ {b} : SortsBefore(q, rows, b, n)
    BY <1>1, <1>3
  <2>2. ASSUME NEW c \in A, \A n \in A \ {c} : SortsBefore(q, rows, c, n) PROVE c = b
    BY <1>1, <1>2, <1>3, <2>2
  <2> QED BY <2>1, <2>2 DEF Closest
<1>4. ASSUME \A n \in A \ {b} : <<n, b>> \in R PROVE Closest(q, rows, A, "prev") = b
  <2>1. \A n \in A \ {b} : SortsBefore(q, rows, n, b)
    BY <1>1, <1>4
  <2>2. ASSUME NEW c \in A, \A n \in A \ {c} : SortsBefore(q, rows, n, c) PROVE c = b
    BY <1>1, <1>2, <1>4, <2>2
  <2> QED BY <2>1, <2>2 DEF Closest
<1> QED BY <1>3, <1>4

\* From record to record one sees the list, in both directions.
LEMMA WalkIsTheList ==
    ASSUME NEW q, q.order \in {"asc", "desc"}, NEW w, NEW rows,
           SortValues(q, rows, Matching(q, w, rows)),
           NEW list, list = InOrder(q, rows, Walked(q, w, rows))
    PROVE  /\ \A i \in 1..(Len(list) - 1) :
                 /\ Adjacent(q, w, rows, list[i], "next") = list[i + 1]
                 /\ Adjacent(q, w, rows, list[i + 1], "prev") = list[i]
           /\ list # <<>> => /\ Adjacent(q, w, rows, list[1], "prev") = All
                             /\ Adjacent(q, w, rows, Last(list), "next") = All
<1>1. PICK S, R, k : S = Walked(q, w, rows) /\ R = Sorting(q, rows, S) /\ k = Cardinality(S)
  OBVIOUS
<1>2. S \in SUBSET Names /\ SortValues(q, rows, S)
  BY <1>1 DEF Walked, Matching, SortValues
<1>3. IsOrder(S, R)
  BY <1>1, <1>2, SortingDecides
<1>4. k \in Nat /\ IsFiniteSet(S)
  BY <1>1, <1>3, FS_CardinalityType DEF IsOrder
<1>5. \A m, n \in S : <<m, n>> \in R <=> SortsBefore(q, rows, m, n)
  BY <1>1 DEF Sorting
<1>6. \A n \in S : Ahead(S, R, n) = {m \in S : SortsBefore(q, rows, m, n)}
  BY <1>5 DEF Ahead
<1>7. \A i : Placed(S, R, i) =
          CHOOSE n \in S : Cardinality({m \in S : SortsBefore(q, rows, m, n)}) = i - 1
  BY <1>6 DEF Placed
<1>8. list = [i \in 1..k |-> Placed(S, R, i)]
  BY <1>1, <1>7 DEF InOrder
<1>9. list \in Seq(S) /\ Len(list) = k
  <2>1. \A i \in 1..k : Placed(S, R, i) \in S
    BY <1>1, <1>3, PlacesAreTaken DEF Placed
  <2> QED BY <1>4, <1>8, <2>1
<1>10. \A n \in S : /\ Around(q, w, rows, n, "next") = Later(S, R, n)
                    /\ Around(q, w, rows, n, "prev") = Ahead(S, R, n)
  BY <1>1, <1>5 DEF Around, Later, Ahead
<1>11. \A n \in S : /\ Adjacent(q, w, rows, n, "next") = Closest(q, rows, Later(S, R, n), "next")
                    /\ Adjacent(q, w, rows, n, "prev") = Closest(q, rows, Ahead(S, R, n), "prev")
  BY <1>1, <1>10, KeysetFollowsTheOrder
<1>12. ASSUME NEW i \in 1..(k - 1)
       PROVE  /\ Adjacent(q, w, rows, list[i], "next") = list[i + 1]
              /\ Adjacent(q, w, rows, list[i + 1], "prev") = list[i]
  <2>1. PICK a, b : a = Placed(S, R, i) /\ b = Placed(S, R, i + 1)
    OBVIOUS
  <2>2. a \in S /\ b \in S /\ <<a, b>> \in R
        /\ \A m \in S : m = a \/ m = b \/ <<m, a>> \in R \/ <<b, m>> \in R
    BY <1>1, <1>3, <2>1, NextPlace
  <2>3. list[i] = a /\ list[i + 1] = b
    BY <1>4, <1>8, <2>1
  <2>4. \A m, n \in S : ~(<<m, n>> \in R /\ <<n, m>> \in R)
    BY <1>3 DEF IsOrder
  <2>5. /\ Later(S, R, a) \in SUBSET S /\ b \in Later(S, R, a)
        /\ \A n \in Later(S, R, a) \ {b} : <<b, n>> \in R
    BY <2>2, <2>4 DEF Later
  <2>6. /\ Ahead(S, R, b) \in SUBSET S /\ a \in Ahead(S, R, b)
        /\ \A n \in Ahead(S, R, b) \ {a} : <<n, a>> \in R
    BY <2>2, <2>4 DEF Ahead
  <2>7. Closest(q, rows, Later(S, R, a), "next") = b
    BY <1>1, <1>3, <2>5, ClosestIs
  <2>8. Closest(q, rows, Ahead(S, R, b), "prev") = a
    BY <1>1, <1>3, <2>6, ClosestIs
  <2> QED BY <1>11, <2>2, <2>3, <2>7, <2>8
<1>13. ASSUME list # <<>>
       PROVE  /\ Adjacent(q, w, rows, list[1], "prev") = All
              /\ Adjacent(q, w, rows, Last(list), "next") = All
  <2>1. k \in Nat \ {0} /\ S # {}
    BY <1>1, <1>4, <1>9, <1>13, FS_EmptySet
  <2>2. /\ Placed(S, R, 1) \in S /\ Ahead(S, R, Placed(S, R, 1)) = {}
        /\ Placed(S, R, k) \in S /\ Later(S, R, Placed(S, R, k)) = {}
    BY <1>1, <1>3, <2>1, EndPlaces
  <2>3. list[1] = Placed(S, R, 1) /\ Last(list) = Placed(S, R, k)
    BY <1>8, <1>9, <2>1 DEF Last
  <2> QED BY <1>11, <2>2, <2>3 DEF Closest
<1> QED BY <1>9, <1>12, <1>13

\* Walking by prev and next visits the rows in the order they are shown, for any rows and
\* queries: the keyset conditions and the ORDER BY of a list are the same order.
THEOREM NeighboursInOrder == ListsSpec => []NeighboursFollowTheList
<1>1. ListsInv => NeighboursFollowTheList
  <2> SUFFICES ASSUME ListsInv, NEW r \in ListReaders, NEW o \in {"asc", "desc"}, page[r].pc = "done"
               PROVE  LET q == [page[r].query EXCEPT !.order = o]
                          w == page[r].window
                          walked(n) == q.kind = "document" => SortKey(q, TableNow, n) # Null
                          list == InOrder(q, TableNow, {n \in Matching(q, w, TableNow) : walked(n)})
                      IN  /\ \A i \in 1..(Len(list) - 1) :
                                /\ Adjacent(q, w, TableNow, list[i], "next") = list[i + 1]
                                /\ Adjacent(q, w, TableNow, list[i + 1], "prev") = list[i]
                          /\ list # <<>> => /\ Adjacent(q, w, TableNow, list[1], "prev") = All
                                            /\ Adjacent(q, w, TableNow, Last(list), "next") = All
    BY DEF NeighboursFollowTheList
  <2> DEFINE q == [page[r].query EXCEPT !.order = o]
             w == page[r].window
             walked(n) == q.kind = "document" => SortKey(q, TableNow, n) # Null
             list == InOrder(q, TableNow, {n \in Matching(q, w, TableNow) : walked(n)})
  <2>1. q.order = o
    BY ListsAssumption DEF ListsInv, PageKnown
  <2>2. TableNow \in [Names -> RowsThere]
    BY LastVersion DEF ListsInv, Version
  <2>3. Walked(q, w, TableNow) = {n \in Matching(q, w, TableNow) : walked(n)}
    BY DEF Walked
  <2> HIDE DEF q, w, walked
  <2>4. SortValues(q, TableNow, Matching(q, w, TableNow))
    <3>1. ASSUME NEW n \in Matching(q, w, TableNow) PROVE SortKey(q, TableNow, n) \in Int \cup {Null}
      <4>1. n \in Names /\ TableNow[n] # NoRow /\ TableNow[n] \in RowsThere
        BY <2>2 DEF Matching
      <4>2. n \in Int /\ TableNow[n].value \in Int \cup {Null}
        BY <4>1, ListsAssumption DEF RowsThere
      <4> QED BY <4>2 DEF SortKey
    <3> QED BY <3>1 DEF SortValues
  <2>5. q.order \in {"asc", "desc"} /\ list = InOrder(q, TableNow, Walked(q, w, TableNow))
    BY <2>1, <2>3
  <2> HIDE DEF list
  <2>6. /\ \A i \in 1..(Len(list) - 1) :
              /\ Adjacent(q, w, TableNow, list[i], "next") = list[i + 1]
              /\ Adjacent(q, w, TableNow, list[i + 1], "prev") = list[i]
        /\ list # <<>> => /\ Adjacent(q, w, TableNow, list[1], "prev") = All
                          /\ Adjacent(q, w, TableNow, Last(list), "next") = All
    BY ONLY <2>4, <2>5, WalkIsTheList
  <2> QED BY <2>6 DEF q, w, walked, list
<1> QED BY ListsInvariant, <1>1, PTL
\* TeamNotes: the inbox follows the notes.  The row lock of a note carries the argument: while
\* a transaction holds it nobody else changes the text or the mentions, so what it found when
\* it compared them still holds when it commits.

Kept(n) == teamNote[n] # NoNote
Unended(n) == \E v \in NoteWorkers : task[v].at = "resolve" /\ task[v].note = n

\* A note id that was drawn by a transaction that has ended.
Old(n) == n \in 1..drawn /\ ~Unended(n)

SavedNotes == [about : Annotated, author : Team, text : SUBSET Team]
MentionRows == [note : NoteIds, user : Team, read : BOOLEAN, done : BOOLEAN]
Requested == [who : Team, ticket : Tickets, about : Annotated, text : SUBSET Team, note : NoteIds]
TaskFields == {"at", "kind", "who", "about", "text", "ticket", "note", "notes", "plus", "minus", "rows"}

\* What a transaction is, at each of its statements.
IsTask(t) ==
    /\ DOMAIN t = TaskFields
    /\ t.at \in {"idle", "claim", "write", "resolve", "edit", "sync", "unnotify", "unnote", "commit"}
    /\ t.at = "idle" => t.rows = {}
    /\ t.at \in {"claim", "write", "resolve"} =>
          /\ t.kind = "add" /\ t.who \in Team /\ t.ticket \in Tickets
          /\ t.about \in Annotated /\ t.text \subseteq Team
    /\ t.at \in {"edit", "sync"} => t.kind = "edit"
    /\ t.at \in {"unnotify", "unnote"} => t.kind \in {"delete", "retire"}
    /\ t.at = "commit" => t.kind \in {"edit", "delete", "retire"}
    /\ t.kind = "edit" => t.note \in NoteIds /\ t.text \subseteq Team

NotesTyped ==
    /\ teamNote \in [NoteIds -> SavedNotes \cup {NoNote}]
    /\ inbox \subseteq MentionRows
    /\ ticketed \subseteq Requested
    /\ drawn \in 0..MaxNotes
    /\ DOMAIN task = NoteWorkers
    /\ \A w \in NoteWorkers : IsTask(task[w])

\* A request that is being saved has not been saved, and nobody else saves it.
Claiming(w) == task[w].at \in {"write", "resolve"}
TicketsOnce ==
    /\ \A d, e \in ticketed : d.who = e.who /\ d.ticket = e.ticket => d = e
    /\ \A w \in NoteWorkers : Claiming(w) => Earlier(w) = {}
    /\ \A v, w \in NoteWorkers :
          Claiming(v) /\ Claiming(w) /\ task[v].who = task[w].who /\ task[v].ticket = task[w].ticket => v = w

\* A note that is not committed is not there, and nobody has a mention of it.
NotThere(n) == teamNote[n] = NoNote /\ \A m \in inbox : m.note # n
FreshNotes == \A n \in NoteIds : ~Old(n) => NotThere(n)

\* A row is locked by one transaction, and exists.
OneHolder ==
    \A n \in NoteIds : \A v, w \in NoteWorkers : NoteRow(n) \in Rows(v) \cap Rows(w) => v = w
RowsDrawn == \A w \in NoteWorkers, n \in NoteIds : NoteRow(n) \in Rows(w) => n \in 1..drawn

\* Who is mentioned is who has a mention.
TextsMatch == \A n \in NoteIds : Kept(n) => NotedUsers(n) = teamNote[n].text

\* A transaction of its own note; of a change; of a deletion.
AddGood(t) ==
    t.at = "resolve" =>
        /\ t.note \in NoteIds /\ t.note \in 1..drawn /\ NoteRow(t.note) \in t.rows
        /\ t.plus = {t.note} \X t.text
EditGood(t) ==
    t.at \in {"edit", "sync", "commit"} /\ t.kind = "edit" =>
        /\ Old(t.note)
        /\ t.at # "edit" /\ Kept(t.note) => NoteRow(t.note) \in t.rows
        /\ t.at = "commit" => t.plus \cup t.minus \subseteq {t.note} \X Team
        /\ t.at = "commit" /\ Kept(t.note) =>
              t.plus = Added(t.note, t.text) /\ t.minus = Dropped(t.note, t.text)
Covered(t, n) ==
    IF t.at = "commit" \/ t.kind = "delete" THEN n \in t.notes ELSE teamNote[n].about = t.about
DeleteGood(t) ==
    t.at \in {"unnotify", "unnote", "commit"} /\ t.kind # "edit" =>
        /\ t.plus = {} /\ t.notes \subseteq NoteIds /\ \A n \in t.notes : Old(n)
        /\ t.at = "unnotify" => \A n \in t.notes : Kept(n) => Covered(t, n)
        /\ t.at # "unnotify" =>
              /\ t.minus \subseteq NoteIds \X Team
              /\ \A p \in t.minus : Old(p[1]) /\ (Kept(p[1]) => Covered(t, p[1]))
        /\ t.at = "commit" => \A n \in t.notes : NoteRow(n) \in t.rows
TaskGood(t) == AddGood(t) /\ EditGood(t) /\ DeleteGood(t)

NotesInv ==
    /\ NotesTyped /\ TicketsOnce /\ FreshNotes /\ OneHolder /\ RowsDrawn /\ TextsMatch
    /\ \A w \in NoteWorkers : TaskGood(task[w])

\* Rows, users and transactions

\* A row that is locked is one note or one mention.
LEMMA RowNames ==
    /\ \A n, k : NoteRow(n) = NoteRow(k) => n = k
    /\ \A n, k, u : NoteRow(n) # MentionRow(k, u)
<1>1. \A n, k : NoteRow(n) = NoteRow(k) => n = k
  BY DEF NoteRow
<1>2. ASSUME NEW n, NEW k, NEW u, NoteRow(n) = MentionRow(k, u) PROVE FALSE
  <2>1. NoteRow(n)[1] = "note" /\ MentionRow(k, u)[1] = "mention"
    BY DEF NoteRow, MentionRow
  <2> QED BY <1>2, <2>1
<1> QED BY <1>1, <1>2

\* Who has a mention of a note once mentions are delivered.
LEMMA DeliveredUsers ==
    ASSUME inbox \subseteq MentionRows, NEW plus, plus \subseteq NoteIds \X Team, NEW minus,
           inbox' = Delivered(plus, minus)
    PROVE  /\ inbox' \subseteq MentionRows
           /\ \A n \in NoteIds :
                NotedUsers(n)' = (NotedUsers(n) \ {u \in Team : <<n, u>> \in minus})
                                 \cup {u \in Team : <<n, u>> \in plus}
           /\ \A m \in inbox' : (\E e \in inbox : e.note = m.note) \/ (\E u \in Team : <<m.note, u>> \in plus)
<1>1. \A p \in plus : p = <<p[1], p[2]>> /\ p[1] \in NoteIds /\ p[2] \in Team
  OBVIOUS
<1> DEFINE new(p) == [note |-> p[1], user |-> p[2], read |-> FALSE, done |-> FALSE]
<1>2. \A p \in plus : new(p) \in MentionRows /\ new(p).note = p[1] /\ new(p).user = p[2]
  BY <1>1 DEF MentionRows
<1> HIDE DEF new
<1>3. \A m : m \in inbox' <=> \/ m \in inbox /\ <<m.note, m.user>> \notin minus
                              \/ \E p \in plus : m = new(p)
  BY DEF Delivered, new
<1>4. inbox' \subseteq MentionRows
  BY <1>2, <1>3
<1>5. \A m \in inbox : m.note \in NoteIds /\ m.user \in Team
  BY DEF MentionRows
<1>6. ASSUME NEW n \in NoteIds
      PROVE  NotedUsers(n)' = (NotedUsers(n) \ {u \in Team : <<n, u>> \in minus})
                               \cup {u \in Team : <<n, u>> \in plus}
  <2>1. ASSUME NEW u \in NotedUsers(n)'
        PROVE  u \in (NotedUsers(n) \ {x \in Team : <<n, x>> \in minus})
                     \cup {x \in Team : <<n, x>> \in plus}
    <3>1. PICK m \in inbox' : m.note = n /\ m.user = u
      BY <2>1 DEF NotedUsers
    <3>2. CASE m \in inbox /\ <<m.note, m.user>> \notin minus
      BY <3>1, <3>2 DEF NotedUsers
    <3>3. CASE \E p \in plus : m = new(p)
      <4>1. PICK p \in plus : m = new(p)
        BY <3>3
      <4>2. p = <<n, u>> /\ u \in Team
        BY <1>1, <1>2, <3>1, <4>1
      <4> QED BY <4>1, <4>2
    <3> QED BY <1>3, <3>1, <3>2, <3>3
  <2>2. ASSUME NEW u \in NotedUsers(n), ~(u \in Team /\ <<n, u>> \in minus)
        PROVE  u \in NotedUsers(n)'
    <3>1. PICK m \in inbox : m.note = n /\ m.user = u
      BY DEF NotedUsers
    <3>2. m \in inbox'
      BY <1>3, <1>5, <2>2, <3>1
    <3> QED BY <3>1, <3>2 DEF NotedUsers
  <2>3. ASSUME NEW u \in Team, <<n, u>> \in plus
        PROVE  u \in NotedUsers(n)'
    <3>1. PICK p \in plus : p = <<n, u>>
      BY <2>3
    <3>2. p[1] = n /\ p[2] = u
      BY <3>1
    <3>3. new(p).note = n /\ new(p).user = u /\ new(p) \in inbox'
      BY <1>2, <1>3, <3>2
    <3> QED BY <3>3 DEF NotedUsers
  <2> QED BY <2>1, <2>2, <2>3
<1>7. ASSUME NEW m \in inbox'
      PROVE  (\E e \in inbox : e.note = m.note) \/ (\E u \in Team : <<m.note, u>> \in plus)
  <2>1. CASE m \in inbox
    BY <2>1
  <2>2. CASE \E p \in plus : m = new(p)
    <3>1. PICK p \in plus : m = new(p)
      BY <2>2
    <3>2. m.note = p[1] /\ p = <<p[1], p[2]>> /\ p[2] \in Team
      BY <1>1, <1>2, <3>1
    <3> QED BY <3>2
  <2> QED BY <1>3, <2>1, <2>2
<1> QED BY <1>4, <1>6, <1>7

\* A worker without a transaction.
LEMMA IdleTask == IsTask(NoTask) /\ NoTask.at = "idle" /\ NoTask.rows = {}
BY DEF IsTask, NoTask, TaskFields

\* Nothing is asked of it.
LEMMA IdleGood == TaskGood(NoTask)
BY DEF NoTask, TaskGood, AddGood, EditGood, DeleteGood

\* Who is mentioned in a note that there is, is a colleague.
LEMMA UsersAreTeam == ASSUME NotesTyped, NEW n PROVE NotedUsers(n) \subseteq Team
BY DEF NotesTyped, NotedUsers, MentionRows

\* A transaction stands as well as before, when others change notes that are not its own.
LEMMA StaysGood ==
    ASSUME NEW v \in NoteWorkers, TaskGood(task[v]), IsTask(task[v]), task'[v] = task[v],
           drawn \in Int, drawn' \in Int, drawn <= drawn',
           \A n \in NoteIds : Old(n) => Old(n)',
           1..drawn \subseteq NoteIds,
           \A n \in NoteIds : Old(n) /\ Kept(n)' =>
               /\ Kept(n) /\ teamNote'[n].about = teamNote[n].about
               /\ NoteRow(n) \in Rows(v) => NotedUsers(n)' = NotedUsers(n)
    PROVE  TaskGood(task[v])'
<1>1. PICK t : t = task[v]
  OBVIOUS
<1>2. task'[v] = t
  BY <1>1
<1>3. AddGood(t)'
  BY <1>1 DEF TaskGood, AddGood
<1>4. \A n : Old(n) => n \in NoteIds
  BY DEF Old
<1>5. EditGood(t)'
  <2> SUFFICES ASSUME t.at \in {"edit", "sync", "commit"}, t.kind = "edit" PROVE EditGood(t)'
    BY DEF EditGood
  <2>1. EditGood(t) /\ Old(t.note) /\ t.note \in NoteIds /\ Old(t.note)'
    BY <1>1, <1>4 DEF TaskGood, EditGood
  <2>2. t.at # "edit" /\ Kept(t.note)' => NoteRow(t.note) \in t.rows /\ Kept(t.note)
    BY <2>1 DEF EditGood
  <2>3. t.at # "edit" /\ Kept(t.note)' => NotedUsers(t.note)' = NotedUsers(t.note)
    BY <1>1, <2>1, <2>2 DEF Rows
  <2>4. t.at = "commit" /\ Kept(t.note)' =>
            t.plus = Added(t.note, t.text)' /\ t.minus = Dropped(t.note, t.text)'
    BY <2>1, <2>2, <2>3 DEF EditGood, Added, Dropped
  <2> QED BY <2>1, <2>2, <2>4 DEF EditGood
<1>6. DeleteGood(t)'
  <2> SUFFICES ASSUME t.at \in {"unnotify", "unnote", "commit"}, t.kind # "edit" PROVE DeleteGood(t)'
    BY DEF DeleteGood
  <2>1. DeleteGood(t) /\ t.plus = {} /\ t.notes \subseteq NoteIds /\ \A n \in t.notes : Old(n) /\ Old(n)'
    BY <1>1 DEF TaskGood, DeleteGood
  <2>2. \A n \in NoteIds : Old(n) /\ Kept(n)' /\ Covered(t, n) => Covered(t, n)' /\ Kept(n)
    BY DEF Covered
  <2>3. t.at = "unnotify" => \A n \in t.notes : Kept(n)' => Covered(t, n)'
    <3> SUFFICES ASSUME t.at = "unnotify", NEW n \in t.notes, Kept(n)' PROVE Covered(t, n)'
      OBVIOUS
    <3>1. n \in NoteIds /\ Old(n) /\ Kept(n)
      BY <2>1
    <3>2. Covered(t, n)
      BY <2>1, <3>1 DEF DeleteGood
    <3> QED BY <2>2, <3>1, <3>2
  <2>4. t.at # "unnotify" =>
              /\ t.minus \subseteq NoteIds \X Team
              /\ \A p \in t.minus : Old(p[1])' /\ (Kept(p[1])' => Covered(t, p[1])')
    <3> SUFFICES ASSUME t.at # "unnotify"
                 PROVE  /\ t.minus \subseteq NoteIds \X Team
                        /\ \A p \in t.minus : Old(p[1])' /\ (Kept(p[1])' => Covered(t, p[1])')
      OBVIOUS
    <3>1. t.minus \subseteq NoteIds \X Team
      BY <2>1 DEF DeleteGood
    <3>2. ASSUME NEW p \in t.minus PROVE Old(p[1])' /\ (Kept(p[1])' => Covered(t, p[1])')
      <4>1. Old(p[1]) /\ (Kept(p[1]) => Covered(t, p[1]))
        BY <2>1 DEF DeleteGood
      <4>2. PICK n \in NoteIds : n = p[1]
        BY <1>4, <4>1
      <4>3. Old(n)' /\ (Kept(n)' => Covered(t, n)')
        BY <2>2, <4>1, <4>2
      <4> QED BY <4>2, <4>3
    <3> QED BY <3>1, <3>2
  <2>5. t.at = "commit" => \A n \in t.notes : NoteRow(n) \in t.rows
    BY <2>1 DEF DeleteGood
  <2> QED BY <2>1, <2>3, <2>4, <2>5 DEF DeleteGood
<1> QED BY <1>2, <1>3, <1>5, <1>6 DEF TaskGood

\* A statement that changes nothing but its own transaction

\* The locks and the ticket that it may have.
LocksFree(w, t) ==
    \A n \in NoteIds : NoteRow(n) \in t.rows =>
        n \in 1..drawn /\ \A v \in NoteWorkers \ {w} : NoteRow(n) \notin Rows(v)
TicketFree(w, t) ==
    t.at = "write" =>
        /\ \A e \in ticketed : ~(e.who = t.who /\ e.ticket = t.ticket)
        /\ \A v \in NoteWorkers \ {w} : Claiming(v) => ~(task[v].who = t.who /\ task[v].ticket = t.ticket)

\* Note ids are handed out in order.
LEMMA NumbersOfNotes == NotesTyped => 1..drawn \subseteq NoteIds /\ drawn \in Int
BY NotesAssumption DEF NotesTyped, NoteIds

\* A statement that fits what is there, and takes only free locks, keeps the invariant.
LEMMA StatementPreserves ==
    ASSUME NotesInv, NEW w \in NoteWorkers, NEW t, task' = [task EXCEPT ![w] = t],
           UNCHANGED <<teamNote, inbox, ticketed, drawn>>,
           IsTask(t), TaskGood(t), t.at # "resolve", LocksFree(w, t), TicketFree(w, t)
    PROVE  NotesInv'
<1> USE DEF NotesInv
<1>1. DOMAIN task' = NoteWorkers /\ task'[w] = t /\ \A v \in NoteWorkers \ {w} : task'[v] = task[v]
  BY DEF NotesTyped
<1>2. \A n : Old(n) => Old(n)'
  <2>1. \A n : Unended(n)' => Unended(n)
    BY <1>1 DEF Unended
  <2> QED BY <2>1 DEF Old
<1>3. NotesTyped'
  BY <1>1 DEF NotesTyped
<1>4. TicketsOnce'
  <2>1. \A d, e \in ticketed' : d.who = e.who /\ d.ticket = e.ticket => d = e
    BY DEF TicketsOnce
  <2>2. \A v \in NoteWorkers \ {w} : (Claiming(v)' <=> Claiming(v)) /\ Earlier(v)' = Earlier(v)
    BY <1>1 DEF Claiming, Earlier
  <2>3. Claiming(w)' => t.at = "write"
    BY <1>1 DEF Claiming
  <2>4. Claiming(w)' => Earlier(w)' = {}
    BY <1>1, <2>3 DEF Earlier, TicketFree
  <2>5. \A v \in NoteWorkers : Claiming(v)' => Earlier(v)' = {}
    BY <2>2, <2>4 DEF TicketsOnce
  <2>6. \A v \in NoteWorkers \ {w} : Claiming(w)' /\ Claiming(v)' =>
            ~(task'[v].who = task'[w].who /\ task'[v].ticket = task'[w].ticket)
    BY <1>1, <2>2, <2>3 DEF TicketFree
  <2>7. \A v, x \in NoteWorkers :
          Claiming(v)' /\ Claiming(x)' /\ task'[v].who = task'[x].who /\ task'[v].ticket = task'[x].ticket
          => v = x
    <3> SUFFICES ASSUME NEW v \in NoteWorkers, NEW x \in NoteWorkers, Claiming(v)', Claiming(x)',
                        task'[v].who = task'[x].who, task'[v].ticket = task'[x].ticket
                 PROVE  v = x
      OBVIOUS
    <3>1. CASE v = w \/ x = w
      BY <2>6, <3>1
    <3>2. CASE v # w /\ x # w
      BY <1>1, <2>2, <3>2 DEF TicketsOnce
    <3> QED BY <3>1, <3>2
  <2> QED BY <2>1, <2>5, <2>7 DEF TicketsOnce
<1>5. FreshNotes'
  BY <1>2 DEF FreshNotes, NotThere
<1>6. OneHolder'
  BY <1>1 DEF OneHolder, LocksFree, Rows
<1>7. RowsDrawn'
  BY <1>1 DEF RowsDrawn, LocksFree, Rows
<1>8. TextsMatch'
  BY DEF TextsMatch, Kept, NotedUsers
<1>9. \A v \in NoteWorkers \ {w} : TaskGood(task[v])'
  <2> SUFFICES ASSUME NEW v \in NoteWorkers \ {w} PROVE TaskGood(task[v])'
    OBVIOUS
  <2>1. TaskGood(task[v]) /\ IsTask(task[v]) /\ task'[v] = task[v]
    BY <1>1 DEF NotesTyped
  <2>2. 1..drawn \subseteq NoteIds /\ drawn \in Int /\ drawn' \in Int /\ drawn <= drawn'
    BY NumbersOfNotes
  <2>3. \A n \in NoteIds : Old(n) /\ Kept(n)' =>
               /\ Kept(n) /\ teamNote'[n].about = teamNote[n].about
               /\ NoteRow(n) \in Rows(v) => NotedUsers(n)' = NotedUsers(n)
    BY DEF Kept, NotedUsers
  <2> QED BY <1>2, <2>1, <2>2, <2>3, StaysGood
<1>10. TaskGood(t)'
  <2>1. AddGood(t)'
    BY DEF AddGood
  <2>2. EditGood(t)'
    BY <1>2 DEF TaskGood, EditGood, Kept, Added, Dropped, NotedUsers
  <2>3. DeleteGood(t)'
    BY <1>2 DEF TaskGood, DeleteGood, Kept, Covered
  <2> QED BY <2>1, <2>2, <2>3 DEF TaskGood
<1>11. \A v \in NoteWorkers : TaskGood(task[v])'
  <2>1. TaskGood(task[w])'
    BY <1>1, <1>10
  <2> QED BY <1>9, <2>1
<1> QED BY <1>3, <1>4, <1>5, <1>6, <1>7, <1>8, <1>11

\* The statements

\* What a transaction is before its statement.
LEMMA TaskBefore ==
    ASSUME NotesInv, NEW w \in NoteWorkers
    PROVE  /\ IsTask(task[w]) /\ TaskGood(task[w])
           /\ \A n \in NoteIds : NoteRow(n) \in task[w].rows =>
                n \in 1..drawn /\ \A v \in NoteWorkers \ {w} : NoteRow(n) \notin Rows(v)
BY DEF NotesInv, NotesTyped, OneHolder, RowsDrawn, Rows

\* A note that there is was drawn by a transaction that has ended.
LEMMA KeptIsOld == ASSUME NotesInv, NEW n \in NoteIds, Kept(n) PROVE Old(n) /\ teamNote[n] \in SavedNotes
BY DEF NotesInv, NotesTyped, FreshNotes, NotThere, Kept

\* A transaction starts to add a note,
LEMMA BeginNotePreserves ==
    ASSUME NotesInv, NEW w \in NoteWorkers, NEW who \in Team, NEW about \in Annotated,
           NEW text \in Texts, NEW k \in Tickets, BeginNote(w, who, about, text, k)
    PROVE  NotesInv'
<1>1. PICK t : t = [NoTask EXCEPT !.at = "claim", !.kind = "add", !.who = who, !.about = about,
                                  !.text = text, !.ticket = k]
  OBVIOUS
<1>2. task' = [task EXCEPT ![w] = t] /\ UNCHANGED <<teamNote, inbox, ticketed, drawn>>
  BY <1>1 DEF BeginNote, Begins
<1>3. /\ DOMAIN t = TaskFields /\ t.at = "claim" /\ t.kind = "add" /\ t.who = who
      /\ t.about = about /\ t.text = text /\ t.ticket = k /\ t.rows = {}
  BY <1>1 DEF NoTask, TaskFields
<1>4. IsTask(t) /\ TaskGood(t)
  BY <1>3, NotesAssumption DEF IsTask, TaskGood, AddGood, EditGood, DeleteGood
<1>5. LocksFree(w, t) /\ TicketFree(w, t)
  BY <1>3 DEF LocksFree, TicketFree
<1> QED BY <1>2, <1>3, <1>4, <1>5, StatementPreserves

\* to change one,
LEMMA BeginEditPreserves ==
    ASSUME NotesInv, NEW w \in NoteWorkers, NEW who \in Team, NEW n \in NoteIds,
           NEW text \in Texts, BeginEdit(w, who, n, text)
    PROVE  NotesInv'
<1>1. PICK t : t = [NoTask EXCEPT !.at = "edit", !.kind = "edit", !.note = n,
                                  !.about = teamNote[n].about, !.text = text]
  OBVIOUS
<1>2. task' = [task EXCEPT ![w] = t] /\ UNCHANGED <<teamNote, inbox, ticketed, drawn>> /\ Kept(n)
  BY <1>1 DEF BeginEdit, Begins, NoteShown, Kept
<1>3. /\ DOMAIN t = TaskFields /\ t.at = "edit" /\ t.kind = "edit" /\ t.note = n
      /\ t.text = text /\ t.rows = {}
  BY <1>1 DEF NoTask, TaskFields
<1>4. Old(n)
  BY <1>2, KeptIsOld
<1>5. IsTask(t) /\ TaskGood(t)
  BY <1>3, <1>4, NotesAssumption DEF IsTask, TaskGood, AddGood, EditGood, DeleteGood
<1>6. LocksFree(w, t) /\ TicketFree(w, t)
  BY <1>3 DEF LocksFree, TicketFree
<1> QED BY <1>2, <1>3, <1>5, <1>6, StatementPreserves

\* to delete one,
LEMMA BeginDeletePreserves ==
    ASSUME NotesInv, NEW w \in NoteWorkers, NEW who \in Team, NEW n \in NoteIds,
           BeginDelete(w, who, n)
    PROVE  NotesInv'
<1>1. PICK t : t = [NoTask EXCEPT !.at = "unnotify", !.kind = "delete", !.notes = {n}]
  OBVIOUS
<1>2. task' = [task EXCEPT ![w] = t] /\ UNCHANGED <<teamNote, inbox, ticketed, drawn>> /\ Kept(n)
  BY <1>1 DEF BeginDelete, Begins, NoteShown, Kept
<1>3. /\ DOMAIN t = TaskFields /\ t.at = "unnotify" /\ t.kind = "delete" /\ t.notes = {n}
      /\ t.plus = {} /\ t.rows = {}
  BY <1>1 DEF NoTask, TaskFields
<1>4. Old(n)
  BY <1>2, KeptIsOld
<1>5. IsTask(t) /\ TaskGood(t)
  BY <1>3, <1>4 DEF IsTask, TaskGood, AddGood, EditGood, DeleteGood, Covered
<1>6. LocksFree(w, t) /\ TicketFree(w, t)
  BY <1>3 DEF LocksFree, TicketFree
<1> QED BY <1>2, <1>3, <1>5, <1>6, StatementPreserves

\* or to delete all the notes of a document.
LEMMA BeginRetirePreserves ==
    ASSUME NotesInv, NEW w \in NoteWorkers, NEW about \in Annotated, BeginRetire(w, about)
    PROVE  NotesInv'
<1>1. PICK t : t = [NoTask EXCEPT !.at = "unnotify", !.kind = "retire", !.about = about,
                                  !.notes = NotesOn(about)]
  OBVIOUS
<1>2. task' = [task EXCEPT ![w] = t] /\ UNCHANGED <<teamNote, inbox, ticketed, drawn>>
  BY <1>1 DEF BeginRetire, Begins
<1>3. /\ DOMAIN t = TaskFields /\ t.at = "unnotify" /\ t.kind = "retire" /\ t.notes = NotesOn(about)
      /\ t.plus = {} /\ t.rows = {} /\ t.about = about
  BY <1>1 DEF NoTask, TaskFields
<1>4. \A n \in NotesOn(about) : n \in NoteIds /\ Old(n) /\ teamNote[n].about = about
  BY KeptIsOld DEF NotesOn, Kept
<1>5. IsTask(t) /\ TaskGood(t)
  BY <1>3, <1>4 DEF IsTask, TaskGood, AddGood, EditGood, DeleteGood, Covered
<1>6. LocksFree(w, t) /\ TicketFree(w, t)
  BY <1>3 DEF LocksFree, TicketFree
<1> QED BY <1>2, <1>3, <1>5, <1>6, StatementPreserves

\* A transaction that fails leaves everything to the others.
LEMMA FailsPreserves == ASSUME NotesInv, NEW w \in NoteWorkers, Fails(w) PROVE NotesInv'
<1>1. PICK t : t = NoTask
  OBVIOUS
<1>2. task' = [task EXCEPT ![w] = t] /\ UNCHANGED <<teamNote, inbox, ticketed, drawn>>
  BY <1>1 DEF Fails
<1>3. IsTask(t) /\ TaskGood(t) /\ t.at = "idle" /\ t.rows = {}
  BY <1>1, IdleTask, IdleGood
<1>4. LocksFree(w, t) /\ TicketFree(w, t)
  BY <1>3 DEF LocksFree, TicketFree
<1> QED BY <1>2, <1>3, <1>4, StatementPreserves

\* Whoever claims a ticket finds that nobody has saved it and nobody else is about to.
LEMMA ClaimTicketPreserves ==
    ASSUME NotesInv, NEW w \in NoteWorkers, ClaimTicket(w)
    PROVE  NotesInv'
<1>1. CASE Earlier(w) # {}
  BY <1>1, FailsPreserves DEF ClaimTicket
<1>2. CASE Earlier(w) = {}
  <2>1. PICK b : b = task[w]
    OBVIOUS
  <2>2. PICK t : t = [b EXCEPT !.at = "write"]
    OBVIOUS
  <2>3. /\ task' = [task EXCEPT ![w] = t] /\ UNCHANGED <<teamNote, inbox, ticketed, drawn>>
        /\ b.at = "claim" /\ ~TicketHeld(w)
    BY <1>2, <2>1, <2>2 DEF ClaimTicket, Goes
  <2>4. IsTask(b) /\ DOMAIN b = TaskFields
    BY <2>1, TaskBefore DEF IsTask
  <2>5. /\ DOMAIN t = TaskFields /\ t.at = "write" /\ t.kind = b.kind /\ t.who = b.who
        /\ t.about = b.about /\ t.text = b.text /\ t.ticket = b.ticket /\ t.rows = b.rows
    BY <2>2, <2>4 DEF TaskFields
  <2>6. IsTask(t) /\ TaskGood(t)
    BY <2>3, <2>4, <2>5 DEF IsTask, TaskGood, AddGood, EditGood, DeleteGood
  <2>7. LocksFree(w, t)
    BY <2>1, <2>5, TaskBefore DEF LocksFree
  <2>8. TicketFree(w, t)
    BY <1>2, <2>1, <2>3, <2>5 DEF TicketFree, Earlier, TicketHeld, Claiming
  <2> QED BY <2>3, <2>5, <2>6, <2>7, <2>8, StatementPreserves
<1> QED BY <1>1, <1>2

\* The row of the note is locked before its text changes.
LEMMA EditTextPreserves ==
    ASSUME NotesInv, NEW w \in NoteWorkers, EditText(w)
    PROVE  NotesInv'
<1>1. PICK b, n : b = task[w] /\ n = b.note
  OBVIOUS
<1>2. PICK rows : rows = IF teamNote[n] = NoNote THEN {} ELSE {NoteRow(n)}
  OBVIOUS
<1>3. PICK t : t = [b EXCEPT !.at = "sync", !.rows = rows]
  OBVIOUS
<1>4. /\ task' = [task EXCEPT ![w] = t] /\ UNCHANGED <<teamNote, inbox, ticketed, drawn>>
      /\ b.at = "edit" /\ Unlocked(w, {NoteRow(n)})
  BY <1>1, <1>2, <1>3 DEF EditText, Goes
<1>5. IsTask(b) /\ DOMAIN b = TaskFields /\ EditGood(b) /\ b.kind = "edit"
  BY <1>1, <1>4, TaskBefore DEF IsTask, TaskGood
<1>6. /\ DOMAIN t = TaskFields /\ t.at = "sync" /\ t.kind = "edit" /\ t.note = n
      /\ t.text = b.text /\ t.rows = rows
  BY <1>1, <1>3, <1>5 DEF TaskFields
<1>7. n \in NoteIds /\ Old(n) /\ n \in 1..drawn
  BY <1>1, <1>4, <1>5 DEF IsTask, EditGood, Old
<1>8. IsTask(t) /\ TaskGood(t)
  BY <1>2, <1>5, <1>6, <1>7 DEF IsTask, TaskGood, AddGood, EditGood, DeleteGood, Kept
<1>9. LocksFree(w, t)
  BY <1>2, <1>4, <1>6, <1>7, RowNames DEF LocksFree, Unlocked
<1>10. TicketFree(w, t)
  BY <1>6 DEF TicketFree
<1> QED BY <1>4, <1>6, <1>8, <1>9, <1>10, StatementPreserves

\* Mentions are compared with the text under that lock.
LEMMA SyncMentionsPreserves ==
    ASSUME NotesInv, NEW w \in NoteWorkers, SyncMentions(w)
    PROVE  NotesInv'
<1>1. PICK b, n : b = task[w] /\ n = b.note
  OBVIOUS
<1>2. PICK plus, minus : plus = Added(n, b.text) /\ minus = Dropped(n, b.text)
  OBVIOUS
<1>3. PICK rows : rows = {MentionRow(p[1], p[2]) : p \in plus \cup minus}
  OBVIOUS
<1>4. PICK t : t = [b EXCEPT !.at = "commit", !.plus = plus, !.minus = minus, !.rows = b.rows \cup rows]
  OBVIOUS
<1>5. CASE Fails(w)
  BY <1>5, FailsPreserves
<1>6. CASE ~Fails(w)
  <2>1. /\ task' = [task EXCEPT ![w] = t] /\ UNCHANGED <<teamNote, inbox, ticketed, drawn>>
        /\ b.at = "sync"
    BY <1>1, <1>2, <1>3, <1>4, <1>6 DEF SyncMentions, Goes
  <2>2. IsTask(b) /\ DOMAIN b = TaskFields /\ EditGood(b) /\ b.kind = "edit" /\ b.text \subseteq Team
    BY <1>1, <2>1, TaskBefore DEF IsTask, TaskGood
  <2>3. /\ DOMAIN t = TaskFields /\ t.at = "commit" /\ t.kind = "edit" /\ t.note = n
        /\ t.text = b.text /\ t.rows = b.rows \cup rows /\ t.plus = plus /\ t.minus = minus
    BY <1>1, <1>4, <2>2 DEF TaskFields
  <2>4. n \in NoteIds /\ Old(n)
    BY <1>1, <2>1, <2>2 DEF IsTask, EditGood
  <2>5. plus \cup minus \subseteq {n} \X Team
    BY <1>2, <2>2, UsersAreTeam DEF NotesInv, Added, Dropped
  <2>6. Kept(n) => NoteRow(n) \in t.rows
    BY <1>1, <2>1, <2>2, <2>3 DEF EditGood
  <2>7. IsTask(t)
    BY <2>2, <2>3, <2>4 DEF IsTask
  <2>8. AddGood(t) /\ DeleteGood(t)
    BY <2>3 DEF AddGood, DeleteGood
  <2>9. EditGood(t)
    BY <1>2, <2>3, <2>4, <2>5, <2>6 DEF EditGood
  <2>10. \A k \in NoteIds : NoteRow(k) \in t.rows => NoteRow(k) \in b.rows
    BY <1>3, <2>3, RowNames
  <2>11. LocksFree(w, t)
    BY <1>1, <2>10, TaskBefore DEF LocksFree
  <2>12. TicketFree(w, t)
    BY <2>3 DEF TicketFree
  <2> QED BY <2>1, <2>3, <2>7, <2>8, <2>9, <2>11, <2>12, StatementPreserves DEF TaskGood
<1> QED BY <1>5, <1>6

\* The mentions of notes that go, go first.
LEMMA UnnotifyPreserves ==
    ASSUME NotesInv, NEW w \in NoteWorkers, Unnotify(w)
    PROVE  NotesInv'
<1>1. PICK b : b = task[w]
  OBVIOUS
<1>2. PICK gone : gone = UNION {{n} \X NotedUsers(n) : n \in b.notes}
  OBVIOUS
<1>3. PICK rows : rows = {MentionRow(p[1], p[2]) : p \in gone}
  OBVIOUS
<1>4. PICK t : t = [b EXCEPT !.at = "unnote", !.minus = gone, !.rows = rows]
  OBVIOUS
<1>5. /\ task' = [task EXCEPT ![w] = t] /\ UNCHANGED <<teamNote, inbox, ticketed, drawn>>
      /\ b.at = "unnotify"
  BY <1>1, <1>2, <1>3, <1>4 DEF Unnotify, Goes
<1>6. IsTask(b) /\ DOMAIN b = TaskFields /\ DeleteGood(b) /\ b.kind \in {"delete", "retire"}
  BY <1>1, <1>5, TaskBefore DEF IsTask, TaskGood
<1>7. /\ DOMAIN t = TaskFields /\ t.at = "unnote" /\ t.kind = b.kind /\ t.notes = b.notes
      /\ t.about = b.about /\ t.rows = rows /\ t.plus = b.plus /\ t.minus = gone
  BY <1>4, <1>6 DEF TaskFields
<1>8. b.notes \subseteq NoteIds /\ b.plus = {}
      /\ \A n \in b.notes : Old(n) /\ (Kept(n) => Covered(b, n))
  BY <1>5, <1>6 DEF DeleteGood
<1>9. gone \subseteq NoteIds \X Team /\ \A p \in gone : p[1] \in b.notes
  <2>1. \A n : NotedUsers(n) \subseteq Team
    BY UsersAreTeam DEF NotesInv
  <2> QED BY <1>2, <1>8, <2>1
<1>10. \A n \in b.notes : Kept(n) => Covered(t, n)
  BY <1>5, <1>6, <1>7, <1>8 DEF Covered
<1>11. IsTask(t)
  BY <1>6, <1>7 DEF IsTask
<1>12. TaskGood(t)
  BY <1>6, <1>7, <1>8, <1>9, <1>10 DEF TaskGood, AddGood, EditGood, DeleteGood
<1>13. LocksFree(w, t) /\ TicketFree(w, t)
  BY <1>3, <1>7, RowNames DEF LocksFree, TicketFree
<1> QED BY <1>5, <1>7, <1>11, <1>12, <1>13, StatementPreserves

\* Then the notes themselves are locked.
LEMMA UnnotePreserves ==
    ASSUME NotesInv, NEW w \in NoteWorkers, Unnote(w)
    PROVE  NotesInv'
<1>1. PICK b : b = task[w]
  OBVIOUS
<1>2. PICK gone : gone = IF b.kind = "retire" THEN NotesOn(b.about)
                         ELSE {n \in b.notes : teamNote[n] # NoNote}
  OBVIOUS
<1>3. PICK rows : rows = {NoteRow(n) : n \in gone}
  OBVIOUS
<1>4. PICK t : t = [b EXCEPT !.at = "commit", !.notes = gone, !.rows = b.rows \cup rows]
  OBVIOUS
<1>5. /\ task' = [task EXCEPT ![w] = t] /\ UNCHANGED <<teamNote, inbox, ticketed, drawn>>
      /\ b.at = "unnote" /\ Unlocked(w, rows)
  BY <1>1, <1>2, <1>3, <1>4 DEF Unnote, Goes
<1>6. IsTask(b) /\ DOMAIN b = TaskFields /\ DeleteGood(b) /\ b.kind \in {"delete", "retire"}
  BY <1>1, <1>5, TaskBefore DEF IsTask, TaskGood
<1>7. /\ DOMAIN t = TaskFields /\ t.at = "commit" /\ t.kind = b.kind /\ t.notes = gone
      /\ t.rows = b.rows \cup rows /\ t.plus = b.plus /\ t.minus = b.minus
  BY <1>4, <1>6 DEF TaskFields
<1>8. b.notes \subseteq NoteIds /\ b.plus = {} /\ b.minus \subseteq NoteIds \X Team
      /\ \A p \in b.minus : Old(p[1]) /\ (Kept(p[1]) => Covered(b, p[1]))
  BY <1>5, <1>6 DEF DeleteGood
<1>9. \A n \in gone : n \in NoteIds /\ Kept(n) /\ Old(n)
  BY <1>2, <1>8, KeptIsOld DEF NotesOn, Kept
<1>10. \A n \in NoteIds : Kept(n) /\ Covered(b, n) => n \in gone
  BY <1>2, <1>5, <1>6 DEF Covered, Kept, NotesOn
<1>11. \A p \in b.minus : p[1] \in NoteIds
  BY <1>8
<1>12. IsTask(t)
  BY <1>6, <1>7 DEF IsTask
<1>13. DeleteGood(t)
  <2>1. \A p \in t.minus : Old(p[1]) /\ (Kept(p[1]) => Covered(t, p[1]))
    BY <1>7, <1>8, <1>10, <1>11 DEF Covered
  <2>2. \A n \in t.notes : NoteRow(n) \in t.rows
    BY <1>3, <1>7
  <2> QED BY <1>6, <1>7, <1>8, <1>9, <2>1, <2>2 DEF DeleteGood
<1>14. AddGood(t) /\ EditGood(t)
  BY <1>6, <1>7 DEF AddGood, EditGood
<1>15. LocksFree(w, t)
  <2> SUFFICES ASSUME NEW n \in NoteIds, NoteRow(n) \in t.rows
               PROVE  n \in 1..drawn /\ \A v \in NoteWorkers \ {w} : NoteRow(n) \notin Rows(v)
    BY DEF LocksFree
  <2>1. CASE NoteRow(n) \in b.rows
    BY <1>1, <2>1, TaskBefore
  <2>2. CASE NoteRow(n) \in rows
    <3>1. Old(n)
      BY <1>3, <1>9, <2>2, RowNames
    <3> QED BY <1>5, <2>2, <3>1 DEF Unlocked, Old
  <2> QED BY <1>7, <2>1, <2>2
<1>16. TicketFree(w, t)
  BY <1>7 DEF TicketFree
<1> QED BY <1>5, <1>7, <1>12, <1>13, <1>14, <1>15, <1>16, StatementPreserves DEF TaskGood

\* A note that is written takes an id that nobody had.
LEMMA WriteNotePreserves ==
    ASSUME NotesInv, NEW w \in NoteWorkers, WriteNote(w)
    PROVE  NotesInv'
<1> USE DEF NotesInv
<1>1. PICK b, n : b = task[w] /\ n = drawn + 1
  OBVIOUS
<1>2. PICK plus : plus = {n} \X b.text
  OBVIOUS
<1>3. PICK rows : rows = {NoteRow(n)} \cup {MentionRow(p[1], p[2]) : p \in plus}
  OBVIOUS
<1>4. PICK t : t = [b EXCEPT !.at = "resolve", !.note = n, !.plus = plus, !.rows = rows]
  OBVIOUS
<1>5. CASE Fails(w)
  BY <1>5, FailsPreserves
<1>6. CASE ~Fails(w)
  <2>1. /\ task' = [task EXCEPT ![w] = t] /\ drawn' = n
        /\ UNCHANGED <<teamNote, inbox, ticketed>> /\ b.at = "write" /\ drawn < MaxNotes
    BY <1>1, <1>2, <1>3, <1>4, <1>6 DEF WriteNote
  <2>2. IsTask(b) /\ DOMAIN b = TaskFields
    BY <1>1, TaskBefore DEF IsTask
  <2>3. /\ DOMAIN t = TaskFields /\ t.at = "resolve" /\ t.kind = b.kind /\ t.note = n
        /\ t.who = b.who /\ t.ticket = b.ticket /\ t.about = b.about
        /\ t.text = b.text /\ t.rows = rows /\ t.plus = plus
    BY <1>4, <2>2 DEF TaskFields
  <2>4. drawn \in 0..MaxNotes /\ MaxNotes \in Nat
    BY NotesAssumption DEF NotesTyped
  <2>5. /\ n \in 1..MaxNotes /\ n \notin 1..drawn /\ n \in Int /\ drawn \in Int /\ drawn <= n
        /\ 1..n = 1..drawn \cup {n} /\ n \in 1..n /\ n \in 0..MaxNotes
    BY <1>1, <2>1, <2>4
  <2>6. n \in NoteIds /\ drawn' \in 0..MaxNotes /\ 1..drawn \subseteq NoteIds
    BY <2>1, <2>4, <2>5 DEF NoteIds
  <2>7. DOMAIN task' = NoteWorkers /\ task'[w] = t /\ \A v \in NoteWorkers \ {w} : task'[v] = task[v]
    BY <2>1 DEF NotesTyped
  <2>8. \A k : Old(k) => Old(k)'
    <3>1. \A k : Unended(k)' => Unended(k) \/ k = n
      BY <2>3, <2>7 DEF Unended
    <3> QED BY <2>1, <2>5, <3>1 DEF Old
  <2>9. IsTask(t)
    BY <2>1, <2>2, <2>3 DEF IsTask
  <2>10. NotesTyped'
    BY <2>1, <2>6, <2>7, <2>9 DEF NotesTyped
  <2>11. TicketsOnce'
    <3>1. \A v \in NoteWorkers :
              /\ Claiming(v)' <=> Claiming(v)
              /\ Claiming(v) => task'[v].who = task[v].who /\ task'[v].ticket = task[v].ticket
      BY <1>1, <2>1, <2>3, <2>7 DEF Claiming
    <3>2. \A v \in NoteWorkers : Claiming(v) => Earlier(v)' = Earlier(v)
      BY <2>1, <3>1 DEF Earlier
    <3>3. \A d, e \in ticketed' : d.who = e.who /\ d.ticket = e.ticket => d = e
      BY <2>1 DEF TicketsOnce
    <3>4. \A v \in NoteWorkers : Claiming(v)' => Earlier(v)' = {}
      BY <3>1, <3>2 DEF TicketsOnce
    <3>5. \A v, x \in NoteWorkers :
            Claiming(v)' /\ Claiming(x)' /\ task'[v].who = task'[x].who /\ task'[v].ticket = task'[x].ticket
            => v = x
      BY <3>1 DEF TicketsOnce
    <3> QED BY <3>3, <3>4, <3>5 DEF TicketsOnce
  <2>12. FreshNotes'
    BY <2>1, <2>8 DEF FreshNotes, NotThere
  <2>13. \A k \in NoteIds : NoteRow(k) \in t.rows => k = n
    BY <1>3, <2>3, RowNames
  <2>14. RowsDrawn'
    <3> SUFFICES ASSUME NEW v \in NoteWorkers, NEW k \in NoteIds, NoteRow(k) \in Rows(v)'
                 PROVE  k \in 1..n
      BY <2>1 DEF RowsDrawn
    <3>1. CASE v = w
      BY <2>5, <2>7, <2>13, <3>1 DEF Rows
    <3>2. CASE v # w
      BY <2>5, <2>7, <3>2 DEF Rows, RowsDrawn
    <3> QED BY <3>1, <3>2
  <2>15. OneHolder'
    <3>1. \A v \in NoteWorkers \ {w} : NoteRow(n) \notin Rows(v)'
      BY <2>5, <2>6, <2>7 DEF Rows, RowsDrawn
    <3>2. \A v \in NoteWorkers \ {w} : Rows(v)' = Rows(v)
      BY <2>7 DEF Rows
    <3>3. \A k \in NoteIds : NoteRow(k) \in Rows(w)' => k = n
      BY <2>7, <2>13 DEF Rows
    <3> QED BY <3>1, <3>2, <3>3 DEF OneHolder
  <2>16. TextsMatch'
    BY <2>1 DEF TextsMatch, Kept, NotedUsers
  <2>17. TaskGood(t)'
    <3>1. AddGood(t)'
      BY <1>2, <1>3, <2>1, <2>3, <2>5, <2>6 DEF AddGood
    <3>2. EditGood(t)' /\ DeleteGood(t)'
      BY <2>3 DEF EditGood, DeleteGood
    <3> QED BY <3>1, <3>2 DEF TaskGood
  <2>18. \A v \in NoteWorkers \ {w} : TaskGood(task[v])'
    <3> SUFFICES ASSUME NEW v \in NoteWorkers \ {w} PROVE TaskGood(task[v])'
      OBVIOUS
    <3>1. TaskGood(task[v]) /\ IsTask(task[v]) /\ task'[v] = task[v]
      BY <2>7 DEF NotesTyped
    <3>2. drawn \in Int /\ drawn' \in Int /\ drawn <= drawn'
      BY <2>1, <2>5
    <3>3. \A k \in NoteIds : Old(k) /\ Kept(k)' =>
                 /\ Kept(k) /\ teamNote'[k].about = teamNote[k].about
                 /\ NoteRow(k) \in Rows(v) => NotedUsers(k)' = NotedUsers(k)
      BY <2>1 DEF Kept, NotedUsers
    <3> QED BY <2>6, <2>8, <3>1, <3>2, <3>3, StaysGood
  <2>19. \A v \in NoteWorkers : TaskGood(task[v])'
    <3>1. TaskGood(task[w])'
      BY <2>7, <2>17
    <3> QED BY <2>18, <3>1
  <2> QED BY <2>10, <2>11, <2>12, <2>14, <2>15, <2>16, <2>19
<1> QED BY <1>5, <1>6

\* A transaction that ends keeps the tickets and the locks of the others apart.
LEMMA EndsWell ==
    ASSUME NotesInv, NEW w \in NoteWorkers, task' = [task EXCEPT ![w] = NoTask], drawn' = drawn
    PROVE  /\ DOMAIN task' = NoteWorkers /\ task'[w] = NoTask
           /\ \A v \in NoteWorkers \ {w} : task'[v] = task[v]
           /\ \A v \in NoteWorkers : IsTask(task'[v])
           /\ \A n : Old(n) => Old(n)'
           /\ \A n : Old(n)' => Old(n) \/ (task[w].at = "resolve" /\ n = task[w].note)
           /\ OneHolder' /\ RowsDrawn'
           /\ TaskGood(task[w])'
<1> USE DEF NotesInv
<1>1. DOMAIN task' = NoteWorkers /\ task'[w] = NoTask
      /\ \A v \in NoteWorkers \ {w} : task'[v] = task[v]
  BY DEF NotesTyped
<1>2. \A v \in NoteWorkers : IsTask(task'[v])
  BY <1>1, IdleTask DEF NotesTyped
<1>3. \A n : Unended(n)' => Unended(n)
  BY <1>1, IdleTask DEF Unended
<1>4. \A n : Unended(n) => Unended(n)' \/ (task[w].at = "resolve" /\ n = task[w].note)
  BY <1>1 DEF Unended
<1>5. OneHolder' /\ RowsDrawn'
  BY <1>1, IdleTask DEF OneHolder, RowsDrawn, Rows
<1>6. PICK t : t = NoTask
  OBVIOUS
<1>7. TaskGood(t)'
  BY <1>6 DEF NoTask, TaskGood, AddGood, EditGood, DeleteGood
<1> QED BY <1>1, <1>2, <1>3, <1>4, <1>5, <1>6, <1>7 DEF Old

\* A new note and its mentions appear together.
LEMMA CommitNotePreserves ==
    ASSUME NotesInv, NEW w \in NoteWorkers, CommitNote(w)
    PROVE  NotesInv'
<1> USE DEF NotesInv
<1>1. PICK b, n : b = task[w] /\ n = b.note
  OBVIOUS
<1>2. PICK row : row = [about |-> b.about, author |-> b.who, text |-> b.text]
  OBVIOUS
<1>3. PICK d : d = [who |-> b.who, ticket |-> b.ticket, about |-> b.about, text |-> b.text, note |-> n]
  OBVIOUS
<1>4. CASE Fails(w)
  BY <1>4, FailsPreserves
<1>5. CASE ~Fails(w)
  <2>1. /\ task' = [task EXCEPT ![w] = NoTask] /\ teamNote' = [teamNote EXCEPT ![n] = row]
        /\ inbox' = Delivered(b.plus, {}) /\ ticketed' = ticketed \cup {d}
        /\ drawn' = drawn /\ b.at = "resolve"
    BY <1>1, <1>2, <1>3, <1>5 DEF CommitNote
  <2>2. /\ IsTask(b) /\ b.kind = "add" /\ b.who \in Team /\ b.ticket \in Tickets
        /\ b.about \in Annotated /\ b.text \subseteq Team
        /\ n \in NoteIds /\ n \in 1..drawn /\ NoteRow(n) \in b.rows /\ b.plus = {n} \X b.text
    BY <1>1, <2>1, TaskBefore DEF IsTask, TaskGood, AddGood
  <2>3. /\ DOMAIN task' = NoteWorkers /\ task'[w] = NoTask
        /\ \A v \in NoteWorkers \ {w} : task'[v] = task[v]
        /\ \A v \in NoteWorkers : IsTask(task'[v])
        /\ \A k : Old(k) => Old(k)'
        /\ \A k : Old(k)' => Old(k) \/ k = n
        /\ OneHolder' /\ RowsDrawn' /\ TaskGood(task[w])'
    BY <1>1, <2>1, EndsWell
  <2>4. ~Old(n) /\ NotThere(n)
    BY <1>1, <2>1, <2>2 DEF Old, Unended, FreshNotes
  <2>5. \A v \in NoteWorkers \ {w} : ~(task[v].at = "resolve" /\ task[v].note = n)
    <3> SUFFICES ASSUME NEW v \in NoteWorkers \ {w}, task[v].at = "resolve", task[v].note = n PROVE FALSE
      OBVIOUS
    <3>1. NoteRow(n) \in Rows(v)
      BY TaskBefore DEF TaskGood, AddGood, Rows
    <3> QED BY <1>1, <2>2, <3>1 DEF OneHolder, Rows
  <2>6. Old(n)'
    BY <2>1, <2>2, <2>3, <2>5, IdleTask DEF Old, Unended
  <2>7. b.plus \subseteq NoteIds \X Team /\ inbox \subseteq MentionRows
    BY <2>2 DEF NotesTyped
  <2>8. /\ inbox' \subseteq MentionRows
        /\ \A k \in NoteIds :
             NotedUsers(k)' = (NotedUsers(k) \ {u \in Team : <<k, u>> \in {}})
                              \cup {u \in Team : <<k, u>> \in b.plus}
        /\ \A m \in inbox' : (\E e \in inbox : e.note = m.note) \/ (\E u \in Team : <<m.note, u>> \in b.plus)
    BY <2>1, <2>7, DeliveredUsers
  <2>9. \A k \in NoteIds : k # n => NotedUsers(k)' = NotedUsers(k)
    <3> SUFFICES ASSUME NEW k \in NoteIds, k # n PROVE NotedUsers(k)' = NotedUsers(k)
      OBVIOUS
    <3>1. {u \in Team : <<k, u>> \in {}} = {} /\ {u \in Team : <<k, u>> \in b.plus} = {}
      BY <2>2
    <3>2. NotedUsers(k)' = (NotedUsers(k) \ {u \in Team : <<k, u>> \in {}})
                           \cup {u \in Team : <<k, u>> \in b.plus}
      BY <2>8
    <3> QED BY <3>1, <3>2, Zenon
  <2>10. NotedUsers(n)' = b.text
    <3>1. NotedUsers(n) = {}
      BY <2>4 DEF NotThere, NotedUsers
    <3>2. {u \in Team : <<n, u>> \in b.plus} = b.text
      <4>1. b.text \subseteq Team /\ b.plus = {n} \X b.text
        BY <2>2
      <4>2. \A u : <<n, u>> \in b.plus <=> u \in b.text
        BY <4>1
      <4> QED BY <4>1, <4>2
    <3>3. NotedUsers(n)' = (NotedUsers(n) \ {u \in Team : <<n, u>> \in {}})
                           \cup {u \in Team : <<n, u>> \in b.plus}
      BY <2>2, <2>8
    <3> QED BY <3>1, <3>2, <3>3
  <2>11. row \in SavedNotes /\ d \in Requested /\ row.text = b.text
    BY <1>2, <1>3, <2>2 DEF SavedNotes, Requested
  <2>12. teamNote' \in [NoteIds -> SavedNotes \cup {NoNote}] /\ teamNote'[n] = row
         /\ \A k \in NoteIds \ {n} : teamNote'[k] = teamNote[k]
    BY <2>1, <2>2, <2>11 DEF NotesTyped
  <2>13. NotesTyped'
    BY <2>1, <2>3, <2>8, <2>11, <2>12 DEF NotesTyped
  <2>14. TicketsOnce'
    <3>1. Claiming(w) /\ Earlier(w) = {} /\ d.who = b.who /\ d.ticket = b.ticket
      BY <1>1, <1>3, <2>1 DEF Claiming, TicketsOnce
    <3>2. \A e \in ticketed : ~(e.who = d.who /\ e.ticket = d.ticket)
      BY <1>1, <3>1 DEF Earlier
    <3>3. \A e, f \in ticketed' : e.who = f.who /\ e.ticket = f.ticket => e = f
      BY <2>1, <3>2 DEF TicketsOnce
    <3>4. \A v \in NoteWorkers : Claiming(v)' => v # w /\ Claiming(v)
      BY <2>3, IdleTask DEF Claiming
    <3>5. ASSUME NEW v \in NoteWorkers, Claiming(v)' PROVE Earlier(v)' = {}
      <4>1. v # w /\ Claiming(v) /\ Earlier(v) = {} /\ task'[v] = task[v]
        BY <2>3, <3>4, <3>5 DEF TicketsOnce
      <4>2. ~(task[v].who = d.who /\ task[v].ticket = d.ticket)
        BY <1>1, <3>1, <4>1 DEF TicketsOnce
      <4> QED BY <2>1, <4>1, <4>2 DEF Earlier
    <3>6. \A v, x \in NoteWorkers :
            Claiming(v)' /\ Claiming(x)' /\ task'[v].who = task'[x].who /\ task'[v].ticket = task'[x].ticket
            => v = x
      BY <2>3, <3>4 DEF TicketsOnce
    <3> QED BY <3>3, <3>5, <3>6 DEF TicketsOnce
  <2>15. FreshNotes'
    <3> SUFFICES ASSUME NEW k \in NoteIds, ~Old(k)' PROVE NotThere(k)'
      BY DEF FreshNotes
    <3>1. k # n /\ NotThere(k)
      BY <2>3, <2>6 DEF FreshNotes
    <3>2. \A m \in inbox' : m.note # k
      BY <2>2, <2>8, <3>1 DEF NotThere
    <3> QED BY <2>12, <3>1, <3>2 DEF NotThere
  <2>16. TextsMatch'
    <3> SUFFICES ASSUME NEW k \in NoteIds, Kept(k)' PROVE NotedUsers(k)' = teamNote'[k].text
      BY DEF TextsMatch
    <3>1. CASE k = n
      BY <2>10, <2>11, <2>12, <3>1
    <3>2. CASE k # n
      BY <2>9, <2>12, <3>2 DEF Kept, TextsMatch
    <3> QED BY <3>1, <3>2
  <2>17. \A v \in NoteWorkers \ {w} : TaskGood(task[v])'
    <3> SUFFICES ASSUME NEW v \in NoteWorkers \ {w} PROVE TaskGood(task[v])'
      OBVIOUS
    <3>1. TaskGood(task[v]) /\ IsTask(task[v]) /\ task'[v] = task[v]
      BY <2>3 DEF NotesTyped
    <3>2. 1..drawn \subseteq NoteIds /\ drawn \in Int /\ drawn' \in Int /\ drawn <= drawn'
      BY <2>1, NumbersOfNotes
    <3>3. \A k \in NoteIds : Old(k) /\ Kept(k)' =>
                 /\ Kept(k) /\ teamNote'[k].about = teamNote[k].about
                 /\ NoteRow(k) \in Rows(v) => NotedUsers(k)' = NotedUsers(k)
      BY <2>4, <2>9, <2>12 DEF Kept
    <3> QED BY <2>3, <3>1, <3>2, <3>3, StaysGood
  <2>18. \A v \in NoteWorkers : TaskGood(task[v])'
    BY <2>3, <2>17
  <2> QED BY <2>3, <2>13, <2>14, <2>15, <2>16, <2>18
<1> QED BY <1>4, <1>5

\* A change or a deletion appears together with its mentions.
LEMMA CommitTaskPreserves ==
    ASSUME NotesInv, NEW w \in NoteWorkers, CommitTask(w)
    PROVE  NotesInv'
<1> USE DEF NotesInv
<1>1. PICK b : b = task[w]
  OBVIOUS
<1> DEFINE gone(n) == b.kind # "edit" /\ n \in b.notes
           changed(n) == b.kind = "edit" /\ n = b.note /\ teamNote[n] # NoNote
<1>2. /\ task' = [task EXCEPT ![w] = NoTask] /\ inbox' = Delivered(b.plus, b.minus)
      /\ ticketed' = ticketed /\ drawn' = drawn /\ b.at = "commit"
      /\ teamNote' = [n \in NoteIds |-> IF gone(n) THEN NoNote
                                        ELSE IF changed(n) THEN [teamNote[n] EXCEPT !.text = b.text]
                                        ELSE teamNote[n]]
  BY <1>1 DEF CommitTask
<1>3. IsTask(b) /\ TaskGood(b) /\ b.kind \in {"edit", "delete", "retire"}
      /\ (b.kind = "edit" => b.note \in NoteIds /\ b.text \subseteq Team)
  BY <1>1, <1>2, TaskBefore DEF IsTask
<1>4. /\ DOMAIN task' = NoteWorkers /\ task'[w] = NoTask
      /\ \A v \in NoteWorkers \ {w} : task'[v] = task[v]
      /\ \A v \in NoteWorkers : IsTask(task'[v])
      /\ \A k : Old(k) => Old(k)'
      /\ \A k : Old(k)' => Old(k)
      /\ OneHolder' /\ RowsDrawn' /\ TaskGood(task[w])'
  BY <1>1, <1>2, EndsWell
<1>5. /\ \A n \in NoteIds : gone(n) => teamNote'[n] = NoNote
      /\ \A n \in NoteIds : ~gone(n) /\ ~changed(n) => teamNote'[n] = teamNote[n]
      /\ \A n \in NoteIds : changed(n) => /\ teamNote'[n] \in SavedNotes /\ teamNote'[n].text = b.text
                                          /\ teamNote'[n].about = teamNote[n].about /\ Kept(n)
  <2>1. ASSUME NEW n \in NoteIds, changed(n)
        PROVE  /\ teamNote'[n] \in SavedNotes /\ teamNote'[n].text = b.text
               /\ teamNote'[n].about = teamNote[n].about /\ Kept(n)
    <3>1. teamNote[n] \in SavedNotes /\ Kept(n) /\ b.text \subseteq Team
      BY <1>3, <2>1 DEF NotesTyped, Kept
    <3>2. teamNote'[n] = [teamNote[n] EXCEPT !.text = b.text]
      BY <1>2, <2>1
    <3> QED BY <3>1, <3>2 DEF SavedNotes
  <2> QED BY <1>2, <2>1
<1>6. \A n \in NoteIds : changed(n) <=> b.kind = "edit" /\ n = b.note /\ Kept(n)
  BY DEF Kept
<1>7. \A n : gone(n) <=> b.kind # "edit" /\ n \in b.notes
  OBVIOUS
<1>8. DOMAIN teamNote' = NoteIds
  BY <1>2
<1>9. teamNote' = [n \in NoteIds |-> teamNote'[n]]
  BY <1>2
<1> HIDE DEF gone, changed
<1>10. \A n \in NoteIds : Kept(n)' => Kept(n) /\ ~gone(n) /\ teamNote'[n].about = teamNote[n].about
  BY <1>5 DEF Kept
<1>11. teamNote' \in [NoteIds -> SavedNotes \cup {NoNote}]
  <2>1. \A n \in NoteIds : teamNote'[n] \in SavedNotes \cup {NoNote}
    BY <1>5 DEF NotesTyped
  <2> QED BY <1>9, <2>1
<1>12. b.plus \subseteq NoteIds \X Team /\ (\A p \in b.plus : Old(p[1])) /\ inbox \subseteq MentionRows
  <2>1. CASE b.kind = "edit"
    BY <1>2, <1>3, <2>1 DEF TaskGood, EditGood, NotesTyped
  <2>2. CASE b.kind # "edit"
    BY <1>2, <1>3, <2>2 DEF TaskGood, DeleteGood, NotesTyped
  <2> QED BY <2>1, <2>2
<1>13. /\ inbox' \subseteq MentionRows
       /\ \A n \in NoteIds :
            NotedUsers(n)' = (NotedUsers(n) \ {u \in Team : <<n, u>> \in b.minus})
                             \cup {u \in Team : <<n, u>> \in b.plus}
       /\ \A m \in inbox' : (\E e \in inbox : e.note = m.note) \/ (\E u \in Team : <<m.note, u>> \in b.plus)
  BY <1>2, <1>12, DeliveredUsers
<1>14. ASSUME NEW n \in NoteIds, Kept(n)', ~changed(n)
       PROVE  NotedUsers(n)' = NotedUsers(n) /\ teamNote'[n] = teamNote[n] /\ Kept(n)
  <2>1. Kept(n) /\ ~gone(n) /\ teamNote'[n] = teamNote[n]
    BY <1>5, <1>10, <1>14
  <2>2. \A u : <<n, u>> \notin b.plus /\ <<n, u>> \notin b.minus
    <3>1. CASE b.kind = "edit"
      <4>1. b.plus \cup b.minus \subseteq {b.note} \X Team /\ n # b.note
        BY <1>2, <1>3, <1>6, <1>14, <2>1, <3>1 DEF TaskGood, EditGood
      <4> QED BY <4>1
    <3>2. CASE b.kind # "edit"
      <4>1. b.plus = {} /\ \A p \in b.minus : Kept(p[1]) => p[1] \in b.notes
        BY <1>2, <1>3, <3>2 DEF TaskGood, DeleteGood, Covered
      <4>2. n \notin b.notes
        BY <1>7, <2>1, <3>2
      <4>3. ASSUME NEW u, <<n, u>> \in b.minus PROVE FALSE
        <5>1. PICK p \in b.minus : p = <<n, u>>
          BY <4>3
        <5>2. p[1] = n
          BY <5>1
        <5> QED BY <2>1, <4>1, <4>2, <5>2
      <4> QED BY <4>1, <4>3
    <3> QED BY <3>1, <3>2
  <2> QED BY <1>13, <2>1, <2>2
<1>15. ASSUME NEW n \in NoteIds, changed(n)
       PROVE  NotedUsers(n)' = b.text /\ NoteRow(n) \in b.rows
  <2>1. b.kind = "edit" /\ n = b.note /\ Kept(n)
    BY <1>6, <1>15
  <2>2. /\ b.plus = {n} \X (b.text \ NotedUsers(n)) /\ b.minus = {n} \X (NotedUsers(n) \ b.text)
        /\ NoteRow(n) \in b.rows
    BY <1>2, <1>3, <2>1 DEF TaskGood, EditGood, Added, Dropped
  <2>3. NotedUsers(n) \subseteq Team /\ b.text \subseteq Team
    BY <1>3, <2>1, UsersAreTeam
  <2>4. /\ {u \in Team : <<n, u>> \in b.minus} = NotedUsers(n) \ b.text
        /\ {u \in Team : <<n, u>> \in b.plus} = b.text \ NotedUsers(n)
    BY <2>2, <2>3
  <2>5. NotedUsers(n)' = (NotedUsers(n) \ (NotedUsers(n) \ b.text)) \cup (b.text \ NotedUsers(n))
    BY <1>13, <2>4
  <2> QED BY <2>2, <2>5
<1>16. NotesTyped'
  BY <1>2, <1>4, <1>11, <1>13 DEF NotesTyped
<1>17. TicketsOnce'
  <2>1. \A v \in NoteWorkers : Claiming(v)' => v # w /\ Claiming(v) /\ task'[v] = task[v]
    BY <1>4, IdleTask DEF Claiming
  <2>2. \A v \in NoteWorkers : Claiming(v)' => Earlier(v)' = {}
    BY <1>2, <2>1 DEF TicketsOnce, Earlier
  <2>3. \A v, x \in NoteWorkers :
          Claiming(v)' /\ Claiming(x)' /\ task'[v].who = task'[x].who /\ task'[v].ticket = task'[x].ticket
          => v = x
    BY <2>1 DEF TicketsOnce
  <2> QED BY <1>2, <2>2, <2>3 DEF TicketsOnce
<1>18. FreshNotes'
  <2> SUFFICES ASSUME NEW n \in NoteIds, ~Old(n)' PROVE NotThere(n)'
    BY DEF FreshNotes
  <2>1. ~Old(n) /\ NotThere(n)
    BY <1>4 DEF FreshNotes
  <2>2. teamNote'[n] = NoNote
    BY <1>5, <1>6, <2>1 DEF NotThere, Kept
  <2>3. \A u : <<n, u>> \notin b.plus
    <3>1. ASSUME NEW u, <<n, u>> \in b.plus PROVE FALSE
      <4>1. PICK p \in b.plus : p = <<n, u>>
        BY <3>1
      <4>2. p[1] = n
        BY <4>1
      <4> QED BY <1>12, <2>1, <4>2
    <3> QED BY <3>1
  <2>4. \A m \in inbox' : m.note # n
    BY <1>13, <2>1, <2>3 DEF NotThere
  <2> QED BY <2>2, <2>4 DEF NotThere
<1>19. TextsMatch'
  <2> SUFFICES ASSUME NEW n \in NoteIds, Kept(n)' PROVE NotedUsers(n)' = teamNote'[n].text
    BY DEF TextsMatch
  <2>1. CASE changed(n)
    BY <1>5, <1>15, <2>1
  <2>2. CASE ~changed(n)
    BY <1>14, <2>2 DEF TextsMatch
  <2> QED BY <2>1, <2>2
<1>20. \A v \in NoteWorkers \ {w} : TaskGood(task[v])'
  <2> SUFFICES ASSUME NEW v \in NoteWorkers \ {w} PROVE TaskGood(task[v])'
    OBVIOUS
  <2>1. TaskGood(task[v]) /\ IsTask(task[v]) /\ task'[v] = task[v]
    BY <1>4 DEF NotesTyped
  <2>2. 1..drawn \subseteq NoteIds /\ drawn \in Int /\ drawn' \in Int /\ drawn <= drawn'
    BY <1>2, NumbersOfNotes
  <2>3. ASSUME NEW n \in NoteIds, Kept(n)', NoteRow(n) \in Rows(v) PROVE NotedUsers(n)' = NotedUsers(n)
    <3>1. ~changed(n)
      BY <1>1, <1>15, <2>3 DEF OneHolder, Rows
    <3> QED BY <1>14, <2>3, <3>1
  <2>4. \A n \in NoteIds : Old(n) /\ Kept(n)' =>
               /\ Kept(n) /\ teamNote'[n].about = teamNote[n].about
               /\ NoteRow(n) \in Rows(v) => NotedUsers(n)' = NotedUsers(n)
    BY <1>10, <2>3
  <2> QED BY <1>4, <2>1, <2>2, <2>4, StaysGood
<1>21. \A v \in NoteWorkers : TaskGood(task[v])'
  BY <1>4, <1>20
<1> QED BY <1>4, <1>16, <1>17, <1>18, <1>19, <1>21

\* A mention that is marked stays a mention of the same note and colleague.
LEMMA MarkedSame ==
    ASSUME NEW m \in MentionRows, NEW state \in {"read", "unread", "done", "reopen"}
    PROVE  Marked(m, state) \in MentionRows /\ Marked(m, state).note = m.note
           /\ Marked(m, state).user = m.user
<1>1. CASE state = "read"
  BY <1>1 DEF Marked, MentionRows
<1>2. CASE state = "unread"
  BY <1>2 DEF Marked, MentionRows
<1>3. CASE state = "done"
  BY <1>3 DEF Marked, MentionRows
<1>4. CASE state = "reopen"
  BY <1>4 DEF Marked, MentionRows
<1> QED BY <1>1, <1>2, <1>3, <1>4

\* What neither a note nor a transaction is about.
LEMMA NotesStay ==
    ASSUME NotesInv, UNCHANGED <<teamNote, ticketed, task, drawn>>, inbox' \subseteq MentionRows,
           \A n : NotedUsers(n)' = NotedUsers(n)
    PROVE  NotesInv'
<1> USE DEF NotesInv
<1>1. \A n : Old(n)' <=> Old(n)
  BY DEF Old, Unended
<1>2. NotesTyped' /\ TicketsOnce'
  BY DEF NotesTyped, TicketsOnce, Claiming, Earlier
<1>3. OneHolder' /\ RowsDrawn' /\ TextsMatch'
  BY DEF OneHolder, RowsDrawn, Rows, TextsMatch, Kept
<1>4. FreshNotes'
  <2> SUFFICES ASSUME NEW n \in NoteIds, ~Old(n)' PROVE NotThere(n)'
    BY DEF FreshNotes
  <2>1. NotThere(n)
    BY <1>1 DEF FreshNotes
  <2>2. NotedUsers(n) = {}
    BY <2>1 DEF NotThere, NotedUsers
  <2>3. NotedUsers(n)' = {}
    BY <2>2
  <2>4. \A m \in inbox' : m.note # n
    BY <2>3 DEF NotedUsers
  <2> QED BY <2>1, <2>4 DEF NotThere
<1>5. \A v \in NoteWorkers : TaskGood(task[v])'
  <2> SUFFICES ASSUME NEW v \in NoteWorkers PROVE TaskGood(task[v])'
    OBVIOUS
  <2>1. TaskGood(task[v]) /\ IsTask(task[v]) /\ task'[v] = task[v]
    BY DEF NotesTyped
  <2>2. 1..drawn \subseteq NoteIds /\ drawn \in Int /\ drawn' \in Int /\ drawn <= drawn'
    BY NumbersOfNotes
  <2>3. \A n \in NoteIds : Old(n) /\ Kept(n)' =>
               /\ Kept(n) /\ teamNote'[n].about = teamNote[n].about
               /\ NoteRow(n) \in Rows(v) => NotedUsers(n)' = NotedUsers(n)
    BY DEF Kept
  <2> QED BY <1>1, <2>1, <2>2, <2>3, StaysGood
<1> QED BY <1>2, <1>3, <1>4, <1>5

\* Reading and finishing a mention.
LEMMA MarkingPreserves ==
    ASSUME NotesInv, NEW m \in inbox, NEW state \in {"read", "unread", "done", "reopen"},
           SetMentionState(m, state)
    PROVE  NotesInv'
<1>1. PICK x : x = Marked(m, state)
  OBVIOUS
<1>2. inbox' = (inbox \ {m}) \cup {x} /\ UNCHANGED <<teamNote, ticketed, task, drawn>>
  BY <1>1 DEF SetMentionState
<1>3. inbox \subseteq MentionRows /\ m \in MentionRows
  BY DEF NotesInv, NotesTyped
<1>4. x \in MentionRows /\ x.note = m.note /\ x.user = m.user
  BY <1>1, <1>3, MarkedSame
<1>5. inbox' \subseteq MentionRows
  BY <1>2, <1>3, <1>4
<1>6. \A n : NotedUsers(n)' = NotedUsers(n)
  <2> SUFFICES ASSUME NEW n PROVE NotedUsers(n)' = NotedUsers(n)
    OBVIOUS
  <2>1. \A u : u \in NotedUsers(n) <=> \E e \in inbox : e.note = n /\ e.user = u
    BY DEF NotedUsers
  <2>2. \A u : u \in NotedUsers(n)' <=> \E e \in inbox' : e.note = n /\ e.user = u
    BY DEF NotedUsers
  <2>3. \A u : (\E e \in inbox' : e.note = n /\ e.user = u) <=> (\E e \in inbox : e.note = n /\ e.user = u)
    BY <1>2, <1>4
  <2> QED BY <2>1, <2>2, <2>3
<1> QED BY <1>2, <1>5, <1>6, NotesStay

\* The result

\* Nobody has written a note.
LEMMA NotesStart == NotesInit => NotesInv
<1> SUFFICES ASSUME NotesInit PROVE NotesInv
  OBVIOUS
<1>1. NotesTyped
  BY NotesAssumption, IdleTask DEF NotesInit, NotesTyped
<1>2. \A w \in NoteWorkers : task[w] = NoTask
  BY DEF NotesInit
<1>3. TicketsOnce /\ OneHolder /\ RowsDrawn
  BY <1>2, IdleTask DEF NotesInit, TicketsOnce, Claiming, OneHolder, RowsDrawn, Rows
<1>4. FreshNotes /\ TextsMatch
  BY DEF NotesInit, FreshNotes, NotThere, TextsMatch, Kept
<1>5. \A w \in NoteWorkers : TaskGood(task[w])
  BY <1>2, IdleGood
<1> QED BY <1>1, <1>3, <1>4, <1>5 DEF NotesInv

\* One step of one worker.
LEMMA NotesStep == ASSUME NotesInv, [NotesNext]_noteVars PROVE NotesInv'
<1>1. ASSUME NEW w \in NoteWorkers, RollBackTask(w) PROVE NotesInv'
  BY <1>1, FailsPreserves DEF RollBackTask
<1>2. ASSUME NEW about \in Annotated, CreateSubject(about) PROVE NotesInv'
  <2>1. UNCHANGED <<teamNote, inbox, ticketed, task, drawn>>
    BY <1>2 DEF CreateSubject
  <2>2. inbox' \subseteq MentionRows /\ \A n : NotedUsers(n)' = NotedUsers(n)
    BY <2>1 DEF NotesInv, NotesTyped, NotedUsers
  <2> QED BY <2>1, <2>2, NotesStay
<1>3. CASE UNCHANGED noteVars
  <2>1. UNCHANGED <<teamNote, inbox, ticketed, task, drawn>>
    BY <1>3 DEF noteVars
  <2>2. inbox' \subseteq MentionRows /\ \A n : NotedUsers(n)' = NotedUsers(n)
    BY <2>1 DEF NotesInv, NotesTyped, NotedUsers
  <2> QED BY <2>1, <2>2, NotesStay
<1> QED
  BY <1>1, <1>2, <1>3, BeginNotePreserves, BeginEditPreserves, BeginDeletePreserves, BeginRetirePreserves,
     ClaimTicketPreserves, WriteNotePreserves, CommitNotePreserves, EditTextPreserves,
     SyncMentionsPreserves, UnnotifyPreserves, UnnotePreserves, CommitTaskPreserves, MarkingPreserves
     DEF NotesNext

\* Every state: a saved request is saved once, a row is held by one transaction, and who is
\* mentioned in a note is who has a mention (api/record_notes.py, api/mentions.py).
THEOREM NotesInvariant == NotesSpec => []NotesInv
<1>1. NotesInv /\ [NotesNext]_noteVars => NotesInv'
  BY NotesStep
<1> QED BY <1>1, NotesStart, PTL DEF NotesSpec

\* An inbox shows the notes that mention its user and no others, and a request that is sent
\* again adds no second note, for any workers, colleagues, notes and retries.
THEOREM MentionsFollowNotes == NotesSpec => []InboxFollowsNotes
<1>1. NotesInv => InboxFollowsNotes
  <2> SUFFICES ASSUME NotesInv PROVE InboxFollowsNotes
    OBVIOUS
  <2>1. \A d, e \in ticketed : d.who = e.who /\ d.ticket = e.ticket => d = e
    BY DEF NotesInv, TicketsOnce
  <2>2. ASSUME NEW n \in NoteIds, NoteShown(n)
        PROVE  {u \in Team : \E m \in MyMentions(u) : m.note = n} = teamNote[n].text
    <3>1. NotedUsers(n) = teamNote[n].text /\ NotedUsers(n) \subseteq Team
      BY <2>2, UsersAreTeam DEF NotesInv, TextsMatch, NoteShown, Kept
    <3>2. \A u : (\E m \in MyMentions(u) : m.note = n) <=> u \in NotedUsers(n)
      BY <2>2 DEF MyMentions, NotedUsers
    <3> QED BY <3>1, <3>2
  <2> QED BY <2>1, <2>2 DEF InboxFollowsNotes
<1> QED BY <1>1, NotesInvariant, PTL

-----------------------------------------------------------------------------
\* CompanySetup: what a setup has promised so far, and that nothing takes it back.  Accounts
\* and cost centers are only ever added, and a field of a company is never emptied.

RequestFields == {"at", "how", "want", "tree", "alone", "before", "back", "next", "toSet"}
TaxStages == {"taxes", "template", "rate", "salesTax"}
Planned(g) == PlannedDefaults(g.want)
Own(g) == g.want.firm

\* How far a request has come.
Begun(g) == g.at # "idle"
Under(g) == g.at \notin {"idle", "answered"}
Done(g) == g.at = "answered" /\ g.how = "ok"
InChart(g) == g.at \in {"accounts", "account"}
PastDefaults(g) ==
    \/ g.at \in TaxStages \cup {"center", "newCenter", "centerDefault", "roundOff"}
    \/ Done(g)
PastChart(g) == g.at = "defaults" \/ PastDefaults(g)
PastCenter(g) == g.at \in {"centerDefault", "roundOff"} \/ Done(g)
CenterFilled(g) == g.at = "roundOff" \/ Done(g)

IsSetup(g) ==
    /\ DOMAIN g = RequestFields
    /\ Begun(g) => /\ g.want \in Wanted /\ g.tree = PlannedChart(g.want)
                   /\ g.before \in [Fields -> DefaultAccounts \cup {Empty}]
    /\ g.at = "insert" => g.back \in {"state", "accounts"}
    /\ InChart(g) => g.next \in 1..Len(g.tree)
    /\ g.at = "defaults" =>
          g.next \in 1..(Len(Planned(g)) + 1) /\ g.toSet \in Seq(ToSet(Planned(g)))

SetupTypeOK ==
    /\ firm \in [Firms -> Configurations \cup {Empty}]
    /\ founder = [r \in Founders |-> founder[r]]
    /\ \A r \in Founders : IsSetup(founder[r])

\* Every account was planned by someone, and hangs under one that is there.
ChartIsPlanned ==
    \A a \in chartOf :
        /\ \E w \in Wanted : \E i \in DOMAIN PlannedChart(w) : a = NewAccount(w, PlannedChart(w), i)
        /\ a.parent # Empty => AccountThere(a.parent)

\* A default names an account, and so with the cost centers.
FirmsAreSound ==
    \A c \in Firms : firm[c] # Empty =>
        /\ \A f \in Fields : firm[c].defaults[f] # Empty => AccountThere(firm[c].defaults[f])
        /\ {firm[c].center, firm[c].roundOff} \subseteq mainCenters \cup {Empty}

\* The default of a planned account is set, or about to be set with these.
Provided(g, d, others) ==
    (\E i \in DOMAIN g.tree : g.tree[i].leaf = d.leaf) =>
        firm[Own(g)].defaults[d.field] # Empty \/ \E e \in others : e.field = d.field

\* What a request has brought about, at each of its stages.
Promised(g) ==
    /\ InChart(g) \/ PastChart(g) => firm[Own(g)] # Empty
    /\ InChart(g) => \A j \in 1..(g.next - 1) : AccountThere(Named(Own(g), g.tree[j].leaf))
    /\ PastChart(g) => \A j \in DOMAIN g.tree : AccountThere(Named(Own(g), g.tree[j].leaf))
    /\ g.at = "defaults" =>
          /\ \A d \in ToSet(g.toSet) : AccountThere(Named(Own(g), d.leaf))
          /\ \A k \in 1..(g.next - 1) : Provided(g, Planned(g)[k], ToSet(g.toSet))
    /\ PastDefaults(g) => \A k \in 1..Len(Planned(g)) : Provided(g, Planned(g)[k], {})
    /\ PastCenter(g) => Prefix[Own(g)] \in mainCenters
    /\ CenterFilled(g) => firm[Own(g)].center # Empty
    /\ Done(g) => firm[Own(g)].roundOff # Empty

\* One that is alone runs alone; what it found is there, and nobody is about to replace it.
ToReplace(g, c, f) == g.at = "defaults" /\ Own(g) = c /\ \E d \in ToSet(g.toSet) : d.field = f
Undisturbed(g, r) ==
    Begun(g) /\ g.alone =>
        /\ Under(g) => \A q \in Founders \ {r} : ~Under(founder[q])
        /\ \A f \in Fields : g.before[f] # Empty =>
              /\ firm[Own(g)] # Empty /\ firm[Own(g)].defaults[f] = g.before[f]
              /\ \A q \in Founders : ~ToReplace(founder[q], Own(g), f)

SetupInv ==
    /\ SetupTypeOK
    /\ ChartIsPlanned
    /\ FirmsAreSound
    /\ \A r \in Founders : Promised(founder[r]) /\ Undisturbed(founder[r], r)

\* Nothing is taken back.
OnlyMore ==
    /\ chartOf \subseteq chartOf' /\ mainCenters \subseteq mainCenters'
    /\ \A c \in Firms : firm[c] # Empty =>
          /\ firm'[c] # Empty
          /\ \A f \in Fields : firm[c].defaults[f] # Empty => firm'[c].defaults[f] # Empty
          /\ firm[c].center # Empty => firm'[c].center # Empty
          /\ firm[c].roundOff # Empty => firm'[c].roundOff # Empty

\* What one step of a request leaves of the defaults that are set.
Spared(r, to) ==
    \A c \in Firms, f \in Fields :
        firm[c] # Empty /\ firm[c].defaults[f] # Empty /\ ~ToReplace(founder[r], c, f) =>
            firm'[c].defaults[f] = firm[c].defaults[f] /\ ~ToReplace(to, c, f)

\* The plans.
LEMMA Plans ==
    ASSUME NEW w \in Wanted
    PROVE  /\ w.firm \in Firms
           /\ Len(PlannedChart(w)) \in Nat \ {0} /\ DOMAIN PlannedChart(w) = 1..Len(PlannedChart(w))
           /\ Len(PlannedDefaults(w)) \in Nat
           /\ DOMAIN PlannedDefaults(w) = 1..Len(PlannedDefaults(w))
           /\ \A k \in 1..Len(PlannedDefaults(w)) :
                 /\ PlannedDefaults(w)[k] \in ToSet(PlannedDefaults(w))
           /\ \A d \in ToSet(PlannedDefaults(w)) :
                 /\ d.field \in Fields /\ Named(w.firm, d.leaf) \in DefaultAccounts
                 /\ \E k \in 1..Len(PlannedDefaults(w)) : d = PlannedDefaults(w)[k]
<1>1. PICK tree, planned : tree = PlannedChart(w) /\ planned = PlannedDefaults(w)
  OBVIOUS
<1>2. /\ w.firm \in Firms /\ tree \in Seq(ToSet(tree)) /\ tree # <<>>
      /\ planned \in Seq(ToSet(planned))
  BY <1>1, SetupAssumption
<1>3. Len(tree) \in Nat \ {0} /\ DOMAIN tree = 1..Len(tree)
  BY <1>2, EmptySeq, LenProperties
<1>4. Len(planned) \in Nat /\ DOMAIN planned = 1..Len(planned)
  BY <1>2
<1>5. \A d \in ToSet(planned) : \E k \in 1..Len(planned) : d = planned[k]
  BY <1>4 DEF ToSet
<1>6. \A k \in 1..Len(planned) : planned[k] \in ToSet(planned)
  BY <1>4 DEF ToSet
<1>7. \A d \in ToSet(planned) : d.field \in Fields /\ Named(w.firm, d.leaf) \in DefaultAccounts
  BY <1>1 DEF Fields, DefaultAccounts
<1> QED BY <1>1, <1>2, <1>3, <1>4, <1>5, <1>6, <1>7

\* An account that is there stays there.
LEMMA StillThere ==
    ASSUME OnlyMore
    PROVE  \A name : AccountThere(name) => AccountThere(name)'
BY DEF OnlyMore, AccountThere

\* A promise is kept whatever anyone adds.
LEMMA PromiseIsKept ==
    ASSUME NEW g, IsSetup(g), Promised(g), OnlyMore
    PROVE  Promised(g)'
<1>1. CASE g.at = "idle"
  BY <1>1 DEF Promised, InChart, PastChart, PastDefaults, PastCenter, CenterFilled, Done, TaxStages
<1>2. CASE g.at # "idle"
  <2>1. /\ g.want \in Wanted /\ Own(g) \in Firms
        /\ \A k \in 1..Len(Planned(g)) : Planned(g)[k].field \in Fields
    BY <1>2, Plans DEF IsSetup, Begun, Own, Planned
  <2>2. \A name : AccountThere(name) => AccountThere(name)'
    BY StillThere
  <2>3. ASSUME firm[Own(g)] # Empty, NEW k \in 1..Len(Planned(g)), NEW S, Provided(g, Planned(g)[k], S)
        PROVE  Provided(g, Planned(g)[k], S)'
    BY <2>1, <2>3 DEF Provided, OnlyMore
  <2>4. g.at = "defaults" => g.next - 1 \in Int /\ g.next - 1 <= Len(Planned(g)) /\ Len(Planned(g)) \in Nat
    BY <2>1, Plans DEF IsSetup, Planned
  <2>5. /\ InChart(g) \/ PastChart(g) => firm'[Own(g)] # Empty
        /\ CenterFilled(g) => firm'[Own(g)].center # Empty
        /\ Done(g) => firm'[Own(g)].roundOff # Empty
        /\ PastCenter(g) => Prefix[Own(g)] \in mainCenters'
    BY <2>1 DEF Promised, OnlyMore, CenterFilled, PastChart, PastDefaults
  <2>6. /\ InChart(g) => \A j \in 1..(g.next - 1) : AccountThere(Named(Own(g), g.tree[j].leaf))'
        /\ PastChart(g) => \A j \in DOMAIN g.tree : AccountThere(Named(Own(g), g.tree[j].leaf))'
        /\ g.at = "defaults" => \A d \in ToSet(g.toSet) : AccountThere(Named(Own(g), d.leaf))'
    BY <2>2 DEF Promised
  <2>7. g.at = "defaults" => \A k \in 1..(g.next - 1) : Provided(g, Planned(g)[k], ToSet(g.toSet))'
    <3> SUFFICES ASSUME g.at = "defaults", NEW k \in 1..(g.next - 1)
                 PROVE  Provided(g, Planned(g)[k], ToSet(g.toSet))'
      OBVIOUS
    <3>1. k \in 1..Len(Planned(g))
      BY <2>4
    <3>2. firm[Own(g)] # Empty /\ Provided(g, Planned(g)[k], ToSet(g.toSet))
      BY DEF Promised, PastChart
    <3> QED BY <2>3, <3>1, <3>2
  <2>8. PastDefaults(g) => \A k \in 1..Len(Planned(g)) : Provided(g, Planned(g)[k], {})'
    BY <2>3 DEF Promised, PastChart
  <2> QED BY <2>5, <2>6, <2>7, <2>8 DEF Promised
<1> QED BY <1>1, <1>2

\* A step of one request keeps the invariant when it adds to what is there, keeps its own
\* promise, and replaces no default but those it meant to.
LEMMA RequestSteps ==
    ASSUME SetupInv, NEW r \in Founders, Under(founder[r]), NEW to, IsSetup(to),
           founder' = [founder EXCEPT ![r] = to],
           firm' \in [Firms -> Configurations \cup {Empty}],
           OnlyMore, ChartIsPlanned', FirmsAreSound', Spared(r, to), Promised(to)',
           Begun(to) => /\ to.want = founder[r].want /\ to.alone = founder[r].alone
                        /\ to.before = founder[r].before
    PROVE  SetupInv'
<1>1. /\ founder'[r] = to /\ \A q \in Founders \ {r} : founder'[q] = founder[q]
      /\ founder' = [q \in Founders |-> founder'[q]]
  BY DEF SetupInv, SetupTypeOK
<1>2. SetupTypeOK'
  BY <1>1 DEF SetupInv, SetupTypeOK, IsSetup
<1>3. ASSUME NEW q \in Founders PROVE Promised(founder[q])'
  <2>1. CASE q = r
    BY <1>1, <2>1 DEF Promised
  <2>2. CASE q # r
    <3>1. PICK g : g = founder[q]
      OBVIOUS
    <3>2. IsSetup(g) /\ Promised(g)
      BY <3>1 DEF SetupInv, SetupTypeOK
    <3>3. Promised(g)'
      BY <3>2, PromiseIsKept
    <3>4. founder'[q] = g
      BY <1>1, <2>2, <3>1
    <3> QED BY <3>3, <3>4 DEF Promised
  <2> QED BY <2>1, <2>2
<1>4. ASSUME NEW q \in Founders PROVE Undisturbed(founder[q], q)'
  <2>1. PICK g : g = founder'[q]
    OBVIOUS
  <2> SUFFICES ASSUME Begun(g), g.alone
               PROVE  /\ Under(g) => \A s \in Founders \ {q} : ~Under(founder'[s])
                      /\ \A f \in Fields : g.before[f] # Empty =>
                            /\ firm'[Own(g)] # Empty /\ firm'[Own(g)].defaults[f] = g.before[f]
                            /\ \A s \in Founders : ~ToReplace(founder'[s], Own(g), f)
    BY <2>1 DEF Undisturbed
  <2>2. /\ Begun(founder[q]) /\ founder[q].alone /\ founder[q].before = g.before
        /\ founder[q].want = g.want /\ Own(founder[q]) = Own(g)
        /\ Under(g) => Under(founder[q])
    BY <1>1, <2>1 DEF Begun, Under, Own
  <2>3. /\ Under(founder[q]) => \A s \in Founders \ {q} : ~Under(founder[s])
        /\ \A f \in Fields : g.before[f] # Empty =>
              /\ firm[Own(g)] # Empty /\ firm[Own(g)].defaults[f] = g.before[f]
              /\ \A s \in Founders : ~ToReplace(founder[s], Own(g), f)
    BY <2>2 DEF SetupInv, Undisturbed
  <2>4. Own(g) \in Firms
    BY <2>2, Plans DEF SetupInv, SetupTypeOK, IsSetup, Own
  <2>5. Under(g) => \A s \in Founders \ {q} : ~Under(founder'[s])
    <3>1. CASE q = r
      BY <1>1, <2>2, <2>3, <3>1
    <3>2. CASE q # r
      BY <2>2, <2>3, <3>2
    <3> QED BY <3>1, <3>2
  <2>6. ASSUME NEW f \in Fields, g.before[f] # Empty
        PROVE  /\ firm'[Own(g)] # Empty /\ firm'[Own(g)].defaults[f] = g.before[f]
               /\ \A s \in Founders : ~ToReplace(founder'[s], Own(g), f)
    <3>1. /\ firm[Own(g)] # Empty /\ firm[Own(g)].defaults[f] # Empty
          /\ firm[Own(g)].defaults[f] = g.before[f]
          /\ \A s \in Founders : ~ToReplace(founder[s], Own(g), f)
      BY <2>3, <2>6
    <3>2. firm'[Own(g)].defaults[f] = g.before[f] /\ ~ToReplace(to, Own(g), f)
      BY <2>4, <3>1 DEF Spared
    <3>3. firm'[Own(g)] # Empty
      BY <2>4, <3>1 DEF OnlyMore
    <3> QED BY <1>1, <3>1, <3>2, <3>3
  <2> QED BY <2>5, <2>6
<1> QED BY <1>2, <1>3, <1>4 DEF SetupInv

\* A step that only moves the request on.
LEMMA MovesOn ==
    ASSUME SetupInv, NEW r \in Founders, Under(founder[r]), NEW to, IsSetup(to),
           founder' = [founder EXCEPT ![r] = to],
           UNCHANGED <<firm, chartOf, mainCenters>>, Promised(to),
           \A c \in Firms, f \in Fields :
               firm[c] # Empty /\ firm[c].defaults[f] # Empty /\ ~ToReplace(founder[r], c, f) =>
                   ~ToReplace(to, c, f),
           Begun(to) => /\ to.want = founder[r].want /\ to.alone = founder[r].alone
                        /\ to.before = founder[r].before
    PROVE  SetupInv'
<1>1. OnlyMore
  BY DEF OnlyMore
<1>2. ChartIsPlanned' /\ FirmsAreSound'
  BY DEF SetupInv, ChartIsPlanned, FirmsAreSound, AccountThere
<1>3. Spared(r, to)
  BY DEF Spared
<1>4. Promised(to)'
  BY <1>1, PromiseIsKept
<1>5. firm' \in [Firms -> Configurations \cup {Empty}]
  BY DEF SetupInv, SetupTypeOK
<1> QED BY <1>1, <1>2, <1>3, <1>4, <1>5, RequestSteps

\* At first there is nothing.
LEMMA InitialSetup == SetupInit => SetupInv
<1> SUFFICES ASSUME SetupInit PROVE SetupInv
  OBVIOUS
<1>1. /\ firm = [c \in Firms |-> Empty] /\ chartOf = {}
      /\ founder = [r \in Founders |-> NoRequest] /\ \A r \in Founders : founder[r] = NoRequest
  BY DEF SetupInit
<1>2. NoRequest.at = "idle" /\ DOMAIN NoRequest = RequestFields
  BY DEF NoRequest, RequestFields
<1>3. IsSetup(NoRequest)
  BY <1>2 DEF IsSetup, Begun, InChart
<1>4. SetupTypeOK
  BY <1>1, <1>3 DEF SetupTypeOK
<1>5. ChartIsPlanned /\ FirmsAreSound
  BY <1>1 DEF ChartIsPlanned, FirmsAreSound
<1>6. Promised(NoRequest)
  BY <1>2 DEF Promised, InChart, PastChart, PastDefaults, PastCenter, CenterFilled, Done, TaxStages
<1>7. \A r \in Founders : Undisturbed(founder[r], r)
  BY <1>1, <1>2 DEF Undisturbed, Begun
<1> QED BY <1>1, <1>4, <1>5, <1>6, <1>7 DEF SetupInv

\* A request that gives up has promised nothing.
LEMMA GivesUp ==
    ASSUME SetupInv, NEW r \in Founders, Under(founder[r]), NEW how \in {"refused", "failed"},
           Conclude(r, how), UNCHANGED <<firm, chartOf, mainCenters>>
    PROVE  SetupInv'
<1>1. PICK g, to : g = founder[r] /\ to = [g EXCEPT !.at = "answered", !.how = how]
  OBVIOUS
<1>2. IsSetup(g) /\ Begun(g)
  BY <1>1 DEF SetupInv, SetupTypeOK, Under, Begun
<1>3. /\ DOMAIN to = RequestFields /\ to.at = "answered" /\ to.how = how /\ to.want = g.want
      /\ to.tree = g.tree /\ to.alone = g.alone /\ to.before = g.before
  BY <1>1, <1>2 DEF IsSetup, RequestFields
<1>4. IsSetup(to)
  BY <1>2, <1>3 DEF IsSetup, Begun, InChart
<1>5. Promised(to)
  BY <1>3 DEF Promised, InChart, PastChart, PastDefaults, PastCenter, CenterFilled, Done, TaxStages
<1>6. \A c, f : ~ToReplace(to, c, f)
  BY <1>3 DEF ToReplace
<1>7. founder' = [founder EXCEPT ![r] = to]
  BY <1>1 DEF Conclude, Turned, Now
<1> QED BY <1>1, <1>3, <1>4, <1>5, <1>6, <1>7, MovesOn

\* The process of a request dies.
LEMMA DieInSetupPreserves ==
    ASSUME SetupInv, NEW r \in Founders, DieInSetup(r)
    PROVE  SetupInv'
<1>1. NoRequest.at = "idle" /\ DOMAIN NoRequest = RequestFields
  BY DEF NoRequest, RequestFields
<1>2. IsSetup(NoRequest) /\ ~Begun(NoRequest)
  BY <1>1 DEF IsSetup, Begun, InChart
<1>3. Promised(NoRequest)
  BY <1>1 DEF Promised, InChart, PastChart, PastDefaults, PastCenter, CenterFilled, Done, TaxStages
<1>4. \A c, f : ~ToReplace(NoRequest, c, f)
  BY <1>1 DEF ToReplace
<1>5. /\ founder' = [founder EXCEPT ![r] = NoRequest] /\ UNCHANGED <<firm, chartOf, mainCenters>>
      /\ Under(founder[r])
  BY DEF DieInSetup, Under
<1> QED BY <1>2, <1>3, <1>4, <1>5, MovesOn

\* A new request has promised nothing; the others are no longer alone.
LEMMA BeginSetupPreserves ==
    ASSUME SetupInv, NEW r \in Founders, NEW w \in Wanted, BeginSetup(r, w)
    PROVE  SetupInv'
<1>1. PICK others : others = {q \in Founders \ {r} : founder[q].at \notin {"idle", "answered"}}
  OBVIOUS
<1>2. PICK found : found = IF firm[w.firm] = Empty THEN [f \in Fields |-> Empty]
                           ELSE firm[w.firm].defaults
  OBVIOUS
<1>3. PICK request : request = [NoRequest EXCEPT !.at = IF w.door = "form" THEN "new" ELSE "state",
                                                 !.want = w, !.tree = Plan(w).chart,
                                                 !.alone = (others = {}), !.before = found]
  OBVIOUS
<1>4. /\ founder' = [q \in Founders |->
            IF q = r THEN request
            ELSE IF q \in others THEN [founder[q] EXCEPT !.alone = FALSE] ELSE founder[q]]
      /\ UNCHANGED <<firm, chartOf, mainCenters>> /\ ~Under(founder[r])
  BY <1>1, <1>2, <1>3 DEF BeginSetup, Under
<1>5. /\ DOMAIN request = RequestFields /\ request.at \in {"new", "state"} /\ request.want = w
      /\ request.tree = PlannedChart(w) /\ request.alone = (others = {}) /\ request.before = found
  BY <1>3 DEF NoRequest, RequestFields, Plan
<1>6. found \in [Fields -> DefaultAccounts \cup {Empty}]
  BY <1>2, Plans DEF SetupInv, SetupTypeOK, Configurations
<1>7. IsSetup(request)
  BY <1>5, <1>6 DEF IsSetup, Begun, InChart
<1>8. Promised(request)
  BY <1>5 DEF Promised, InChart, PastChart, PastDefaults, PastCenter, CenterFilled, Done, TaxStages
<1>9. OnlyMore
  BY <1>4 DEF OnlyMore
<1>10. ChartIsPlanned' /\ FirmsAreSound'
  BY <1>4 DEF SetupInv, ChartIsPlanned, FirmsAreSound, AccountThere
<1>11. ASSUME NEW q \in Founders \ {r}
       PROVE  /\ IsSetup(founder'[q]) /\ Promised(founder'[q])
              /\ founder'[q].at = founder[q].at /\ founder'[q].toSet = founder[q].toSet
              /\ founder'[q].want = founder[q].want /\ founder'[q].before = founder[q].before
              /\ founder'[q].alone => founder[q].alone /\ q \notin others
  <2>1. PICK g, to : g = founder[q] /\ to = founder'[q]
    OBVIOUS
  <2>2. IsSetup(g) /\ Promised(g)
    BY <2>1 DEF SetupInv, SetupTypeOK
  <2>3. CASE q \notin others
    BY <1>4, <2>1, <2>2, <2>3
  <2>4. CASE q \in others
    <3>1. to = [g EXCEPT !.alone = FALSE]
      BY <1>4, <2>1, <2>4
    <3>2. /\ DOMAIN to = RequestFields /\ to.at = g.at /\ to.want = g.want /\ to.tree = g.tree
          /\ to.before = g.before /\ to.back = g.back /\ to.next = g.next /\ to.toSet = g.toSet
          /\ to.alone = FALSE /\ to.how = g.how
      BY <2>2, <3>1 DEF IsSetup, RequestFields
    <3>3. IsSetup(to)
      BY <2>2, <3>2 DEF IsSetup, Begun, InChart, Planned
    <3>4. Promised(to)
      BY <2>2, <3>2 DEF Promised, InChart, PastChart, PastDefaults, PastCenter, CenterFilled, Done, Own,
                        Planned, Provided
    <3> QED BY <2>1, <3>2, <3>3, <3>4
  <2> QED BY <2>3, <2>4
<1>12. founder'[r] = request /\ founder' = [q \in Founders |-> founder'[q]]
  BY <1>4
<1>13. SetupTypeOK'
  BY <1>4, <1>7, <1>11, <1>12 DEF SetupInv, SetupTypeOK, IsSetup
<1>14. ASSUME NEW q \in Founders PROVE Promised(founder[q])'
  <2>1. PICK g : g = founder'[q]
    OBVIOUS
  <2>2. IsSetup(g) /\ Promised(g)
    BY <1>7, <1>8, <1>11, <1>12, <2>1
  <2>3. Promised(g)'
    BY <1>9, <2>2, PromiseIsKept
  <2> QED BY <2>1, <2>3 DEF Promised
<1>15. \A c, f : ~ToReplace(request, c, f)
  BY <1>5 DEF ToReplace
<1>16. \A q \in Founders \ {r} : \A c, f : ToReplace(founder'[q], c, f) <=> ToReplace(founder[q], c, f)
  BY <1>11 DEF ToReplace, Own
<1>17. Undisturbed(founder[r], r)'
  <2> SUFFICES ASSUME request.alone
               PROVE  /\ \A q \in Founders \ {r} : ~Under(founder'[q])
                      /\ \A f \in Fields : found[f] # Empty =>
                            /\ firm[w.firm] # Empty /\ firm[w.firm].defaults[f] = found[f]
                            /\ \A q \in Founders : ~ToReplace(founder'[q], w.firm, f)
    BY <1>4, <1>5, <1>12 DEF Undisturbed, Own
  <2>1. \A q \in Founders \ {r} : ~Under(founder'[q]) /\ founder'[q].at \in {"idle", "answered"}
    BY <1>1, <1>5, <1>11 DEF Under
  <2>2. \A q \in Founders : \A c, f : ~ToReplace(founder'[q], c, f)
    BY <1>12, <1>15, <2>1 DEF ToReplace
  <2> QED BY <1>2, <2>1, <2>2
<1>18. ASSUME NEW q \in Founders \ {r} PROVE Undisturbed(founder[q], q)'
  <2>1. PICK g : g = founder'[q]
    OBVIOUS
  <2> SUFFICES ASSUME Begun(g), g.alone
               PROVE  /\ Under(g) => \A s \in Founders \ {q} : ~Under(founder'[s])
                      /\ \A f \in Fields : g.before[f] # Empty =>
                            /\ firm[Own(g)] # Empty /\ firm[Own(g)].defaults[f] = g.before[f]
                            /\ \A s \in Founders : ~ToReplace(founder'[s], Own(g), f)
    BY <1>4, <2>1 DEF Undisturbed
  <2>2. /\ Begun(founder[q]) /\ founder[q].alone /\ founder[q].before = g.before
        /\ Own(founder[q]) = Own(g) /\ ~Under(g)
    BY <1>1, <1>11, <2>1 DEF Begun, Under, Own
  <2>3. \A f \in Fields : g.before[f] # Empty =>
            /\ firm[Own(g)] # Empty /\ firm[Own(g)].defaults[f] = g.before[f]
            /\ \A s \in Founders : ~ToReplace(founder[s], Own(g), f)
    BY <2>2 DEF SetupInv, Undisturbed
  <2> QED BY <1>12, <1>15, <1>16, <2>2, <2>3
<1> QED BY <1>10, <1>13, <1>14, <1>17, <1>18 DEF SetupInv

\* What is known of a request that has begun.
LEMMA Request ==
    ASSUME SetupInv, NEW r \in Founders, NEW g, g = founder[r], Begun(g)
    PROVE  /\ IsSetup(g) /\ Promised(g) /\ DOMAIN g = RequestFields
           /\ g.want \in Wanted /\ Own(g) \in Firms /\ Own(g) = g.want.firm
           /\ g.tree = PlannedChart(g.want)
           /\ Len(g.tree) \in Nat \ {0} /\ DOMAIN g.tree = 1..Len(g.tree)
           /\ Planned(g) = PlannedDefaults(g.want) /\ Len(Planned(g)) \in Nat
           /\ firm[Own(g)] # Empty => firm[Own(g)] \in Configurations
<1>1. IsSetup(g) /\ Promised(g)
  BY DEF SetupInv, SetupTypeOK
<1>2. DOMAIN g = RequestFields /\ g.want \in Wanted /\ g.tree = PlannedChart(g.want)
  BY <1>1 DEF IsSetup
<1>3. Own(g) \in Firms
  BY <1>2, Plans DEF Own
<1>4. firm[Own(g)] # Empty => firm[Own(g)] \in Configurations
  BY <1>3 DEF SetupInv, SetupTypeOK
<1> QED BY <1>1, <1>2, <1>3, <1>4, Plans DEF Own, Planned

\* create_company finds that the company exists, or goes on to insert it.
LEMMA CheckNewPreserves ==
    ASSUME SetupInv, NEW r \in Founders, CheckNew(r)
    PROVE  SetupInv'
<1>1. PICK g : g = founder[r]
  OBVIOUS
<1>2. /\ g.at = "new" /\ Under(g) /\ Begun(g) /\ UNCHANGED <<firm, chartOf, mainCenters>>
      /\ \/ Conclude(r, "refused")
         \/ founder' = [founder EXCEPT ![r] = [g EXCEPT !.at = "insert", !.back = "state"]]
  BY <1>1 DEF CheckNew, Now, Turned, Under, Begun
<1>3. CASE Conclude(r, "refused")
  BY <1>1, <1>2, <1>3, GivesUp
<1>4. CASE founder' = [founder EXCEPT ![r] = [g EXCEPT !.at = "insert", !.back = "state"]]
  <2>1. PICK to : to = [g EXCEPT !.at = "insert", !.back = "state"]
    OBVIOUS
  <2>2. IsSetup(g)
    BY <1>1, <1>2, Request
  <2>3. /\ DOMAIN to = RequestFields /\ to.at = "insert" /\ to.back = "state" /\ to.want = g.want
        /\ to.tree = g.tree /\ to.alone = g.alone /\ to.before = g.before
    BY <2>1, <2>2 DEF IsSetup, RequestFields
  <2>4. IsSetup(to) /\ Promised(to) /\ \A c, f : ~ToReplace(to, c, f)
    BY <1>2, <2>2, <2>3 DEF IsSetup, Begun, Promised, InChart, PastChart, PastDefaults, PastCenter,
                            CenterFilled, Done, TaxStages, ToReplace
  <2> QED BY <1>1, <1>2, <1>4, <2>1, <2>3, <2>4, MovesOn
<1> QED BY <1>2, <1>3, <1>4

\* The company is inserted, empty.
LEMMA InsertFirmPreserves ==
    ASSUME SetupInv, NEW r \in Founders, InsertFirm(r)
    PROVE  SetupInv'
<1>1. PICK g : g = founder[r]
  OBVIOUS
<1>2. g.at = "insert" /\ Under(g) /\ Begun(g) /\ UNCHANGED <<chartOf, mainCenters>>
  BY <1>1 DEF InsertFirm, Now, Under, Begun
<1>3. /\ IsSetup(g) /\ Own(g) \in Firms /\ g.want \in Wanted /\ g.back \in {"state", "accounts"}
      /\ g.tree = PlannedChart(g.want) /\ Len(g.tree) \in Nat \ {0}
  BY <1>1, <1>2, Request DEF IsSetup
<1>4. CASE firm[Own(g)] # Empty
  <2>1. Conclude(r, "failed") /\ UNCHANGED firm
    BY <1>1, <1>4 DEF InsertFirm, Now, Own
  <2> QED BY <1>1, <1>2, <2>1, GivesUp
<1>5. CASE firm[Own(g)] = Empty
  <2>1. PICK to, new : to = [g EXCEPT !.at = g.back, !.next = 1] /\ new = NewFirm(g.want)
    OBVIOUS
  <2>2. founder' = [founder EXCEPT ![r] = to] /\ firm' = [firm EXCEPT ![Own(g)] = new]
    BY <1>1, <1>5, <2>1 DEF InsertFirm, Now, Own, Turned
  <2>3. /\ DOMAIN to = RequestFields /\ to.at \in {"state", "accounts"} /\ to.next = 1
        /\ to.want = g.want /\ to.tree = g.tree /\ to.alone = g.alone /\ to.before = g.before
    BY <1>3, <2>1 DEF IsSetup, RequestFields
  <2>4. /\ new \in Configurations /\ new # Empty /\ new.center = Empty /\ new.roundOff = Empty
        /\ \A f \in Fields : new.defaults[f] = Empty
    BY <1>3, <2>1, SetupAssumption DEF NewFirm, Configurations, Plan
  <2>5. /\ firm' \in [Firms -> Configurations \cup {Empty}] /\ firm'[Own(g)] = new
        /\ \A c \in Firms \ {Own(g)} : firm'[c] = firm[c]
    BY <1>3, <2>2, <2>4 DEF SetupInv, SetupTypeOK
  <2>6. OnlyMore
    BY <1>2, <1>5, <2>5 DEF OnlyMore
  <2>7. ChartIsPlanned'
    BY <1>2 DEF SetupInv, ChartIsPlanned, AccountThere
  <2>8. FirmsAreSound'
    <3>1. \A name : AccountThere(name)' = AccountThere(name)
      BY <1>2 DEF AccountThere
    <3> QED BY <1>2, <2>4, <2>5, <3>1 DEF SetupInv, FirmsAreSound
  <2>9. IsSetup(to) /\ \A c, f : ~ToReplace(to, c, f)
    BY <1>2, <1>3, <2>3 DEF IsSetup, Begun, InChart, ToReplace
  <2>10. Promised(to)'
    BY <2>3, <2>4, <2>5 DEF Promised, InChart, PastChart, PastDefaults, PastCenter,
                            CenterFilled, Done, TaxStages, Own
  <2>11. Spared(r, to)
    BY <1>5, <2>5, <2>9 DEF Spared
  <2> QED BY <1>1, <1>2, <2>2, <2>3, <2>5, <2>6, <2>7, <2>8, <2>9, <2>10, <2>11, RequestSteps
<1> QED BY <1>4, <1>5

\* apply_company_setup looks whether it may go on, and with what.
LEMMA ReadStatePreserves ==
    ASSUME SetupInv, NEW r \in Founders, ReadState(r)
    PROVE  SetupInv'
<1>1. PICK g : g = founder[r]
  OBVIOUS
<1>2. /\ g.at = "state" /\ Under(g) /\ Begun(g) /\ UNCHANGED <<firm, chartOf, mainCenters>>
      /\ \/ Conclude(r, "refused")
         \/ founder' = [founder EXCEPT ![r] = [g EXCEPT !.at = "insert", !.back = "accounts"]]
         \/ /\ firm[Own(g)] # Empty
            /\ founder' = [founder EXCEPT ![r] = [g EXCEPT !.at = "accounts", !.next = 1]]
  BY <1>1 DEF ReadState, Now, Turned, Under, Begun, Own
<1>3. IsSetup(g) /\ Len(g.tree) \in Nat \ {0}
  BY <1>1, <1>2, Request
<1>4. CASE Conclude(r, "refused")
  BY <1>1, <1>2, <1>4, GivesUp
<1>5. CASE founder' = [founder EXCEPT ![r] = [g EXCEPT !.at = "insert", !.back = "accounts"]]
  <2>1. PICK to : to = [g EXCEPT !.at = "insert", !.back = "accounts"]
    OBVIOUS
  <2>2. /\ DOMAIN to = RequestFields /\ to.at = "insert" /\ to.back = "accounts" /\ to.want = g.want
        /\ to.tree = g.tree /\ to.alone = g.alone /\ to.before = g.before
    BY <1>3, <2>1 DEF IsSetup, RequestFields
  <2>3. IsSetup(to) /\ Promised(to) /\ \A c, f : ~ToReplace(to, c, f)
    BY <1>2, <1>3, <2>2 DEF IsSetup, Begun, Promised, InChart, PastChart, PastDefaults, PastCenter,
                            CenterFilled, Done, TaxStages, ToReplace
  <2>4. founder' = [founder EXCEPT ![r] = to] /\ Under(founder[r]) /\ UNCHANGED <<firm, chartOf, mainCenters>>
    BY <1>1, <1>2, <1>5, <2>1
  <2>5. to.want = founder[r].want /\ to.alone = founder[r].alone /\ to.before = founder[r].before
    BY <1>1, <2>2
  <2> QED BY ONLY <2>3, <2>4, <2>5, SetupInv, r \in Founders, MovesOn
<1>6. CASE /\ firm[Own(g)] # Empty
           /\ founder' = [founder EXCEPT ![r] = [g EXCEPT !.at = "accounts", !.next = 1]]
  <2>1. PICK to : to = [g EXCEPT !.at = "accounts", !.next = 1]
    OBVIOUS
  <2>2. /\ DOMAIN to = RequestFields /\ to.at = "accounts" /\ to.next = 1 /\ to.want = g.want
        /\ to.tree = g.tree /\ to.alone = g.alone /\ to.before = g.before
    BY <1>3, <2>1 DEF IsSetup, RequestFields
  <2>3. IsSetup(to) /\ \A c, f : ~ToReplace(to, c, f)
    BY <1>2, <1>3, <2>2 DEF IsSetup, Begun, InChart, ToReplace
  <2>4. Promised(to)
    BY <1>6, <2>2 DEF Promised, InChart, PastChart, PastDefaults, PastCenter,
                      CenterFilled, Done, TaxStages, Own
  <2> QED BY <1>1, <1>2, <1>6, <2>1, <2>2, <2>3, <2>4, MovesOn
<1> QED BY <1>2, <1>4, <1>5, <1>6

\* With the account at a place there, the chart is there up to the next one, or all of it.
LEMMA OneFurther ==
    ASSUME SetupInv, NEW r \in Founders, NEW g, g = founder[r], InChart(g),
           NEW to, to = Further(g, g.next + 1)
    PROVE  /\ IsSetup(to) /\ to.want = g.want /\ to.alone = g.alone /\ to.before = g.before
           /\ \A c, f : ~ToReplace(to, c, f)
           /\ AccountThere(Named(Own(g), g.tree[g.next].leaf)) => Promised(to)
<1>1. /\ Begun(g) /\ InChart(g) /\ IsSetup(g) /\ Promised(g) /\ Len(g.tree) \in Nat \ {0}
      /\ DOMAIN g.tree = 1..Len(g.tree) /\ g.next \in 1..Len(g.tree) /\ Len(Planned(g)) \in Nat
  BY Request DEF InChart, Begun, IsSetup
<1>2. CASE g.next + 1 > Len(g.tree)
  <2>1. to = [g EXCEPT !.at = "defaults", !.next = 1, !.toSet = <<>>] /\ g.next = Len(g.tree)
    BY <1>1, <1>2 DEF Further
  <2>2. /\ DOMAIN to = RequestFields /\ to.at = "defaults" /\ to.next = 1 /\ to.toSet = <<>>
        /\ to.want = g.want /\ to.tree = g.tree /\ to.alone = g.alone /\ to.before = g.before
    BY <1>1, <2>1 DEF IsSetup, RequestFields
  <2>3. Planned(to) = Planned(g) /\ Own(to) = Own(g) /\ ToSet(to.toSet) = {}
        /\ <<>> \in Seq(ToSet(Planned(g)))
    BY <2>2 DEF Planned, Own, ToSet
  <2>4. IsSetup(to) /\ \A c, f : ~ToReplace(to, c, f)
    <3>1. to.next \in 1..(Len(Planned(to)) + 1) /\ to.toSet \in Seq(ToSet(Planned(to)))
      <4>1. PICK S : S = Seq(ToSet(Planned(g)))
        OBVIOUS
      <4>2. to.toSet \in S /\ S = Seq(ToSet(Planned(to)))
        BY <2>2, <2>3, <4>1, Zenon
      <4>3. to.next \in 1..(Len(Planned(to)) + 1)
        BY <1>1, <2>2, <2>3
      <4> QED BY <4>2, <4>3
    <3>2. \A c, f : ~ToReplace(to, c, f)
      BY <2>3 DEF ToReplace
    <3>3. ~InChart(to) /\ to.at # "insert" /\ Begun(g)
      BY <1>1, <2>2 DEF InChart
    <3>4. IsSetup(to)
      BY <1>1, <2>2, <3>1, <3>3 DEF IsSetup
    <3> QED BY <3>2, <3>4
  <2>5. ASSUME AccountThere(Named(Own(g), g.tree[g.next].leaf)) PROVE Promised(to)
    <3>1. \A j \in DOMAIN to.tree : AccountThere(Named(Own(to), to.tree[j].leaf))
      BY <1>1, <2>1, <2>2, <2>3, <2>5 DEF Promised
    <3>2. firm[Own(to)] # Empty
      BY <1>1, <2>3 DEF Promised
    <3> QED BY <2>2, <2>3, <3>1, <3>2 DEF Promised, InChart, PastChart, PastDefaults, PastCenter,
                                          CenterFilled, Done, TaxStages
  <2> QED BY <2>2, <2>4, <2>5
<1>3. CASE ~(g.next + 1 > Len(g.tree))
  <2>1. to = [g EXCEPT !.at = "accounts", !.next = g.next + 1] /\ g.next + 1 \in 1..Len(g.tree)
    BY <1>1, <1>3 DEF Further
  <2>2. /\ DOMAIN to = RequestFields /\ to.at = "accounts" /\ to.next = g.next + 1
        /\ to.want = g.want /\ to.tree = g.tree /\ to.alone = g.alone /\ to.before = g.before
    BY <1>1, <2>1 DEF IsSetup, RequestFields
  <2>3. IsSetup(to) /\ Own(to) = Own(g) /\ \A c, f : ~ToReplace(to, c, f)
    BY <1>1, <2>1, <2>2 DEF IsSetup, Begun, InChart, ToReplace, Own
  <2>4. ASSUME AccountThere(Named(Own(g), g.tree[g.next].leaf)) PROVE Promised(to)
    <3>1. \A j \in 1..(to.next - 1) : AccountThere(Named(Own(to), to.tree[j].leaf))
      <4> SUFFICES ASSUME NEW j \in 1..g.next PROVE AccountThere(Named(Own(g), g.tree[j].leaf))
        BY <1>1, <2>2, <2>3
      <4>1. j = g.next \/ j \in 1..(g.next - 1)
        BY <1>1
      <4> QED BY <1>1, <2>4, <4>1 DEF Promised
    <3>2. firm[Own(to)] # Empty
      BY <1>1, <2>3 DEF Promised
    <3> QED BY <2>2, <2>3, <3>1, <3>2 DEF Promised, InChart, PastChart, PastDefaults, PastCenter,
                                          CenterFilled, Done, TaxStages
  <2> QED BY <2>2, <2>3, <2>4
<1> QED BY <1>2, <1>3

\* The next account of the chart is there, or is to be inserted.
LEMMA LookForAccountPreserves ==
    ASSUME SetupInv, NEW r \in Founders, LookForAccount(r)
    PROVE  SetupInv'
<1>1. PICK g : g = founder[r]
  OBVIOUS
<1>2. /\ g.at = "accounts" /\ InChart(g) /\ Under(g) /\ Begun(g)
      /\ UNCHANGED <<firm, chartOf, mainCenters>>
      /\ founder' = [founder EXCEPT ![r] =
            IF AccountThere(Named(Own(g), g.tree[g.next].leaf)) THEN Further(g, g.next + 1)
            ELSE [g EXCEPT !.at = "account"]]
  BY <1>1 DEF LookForAccount, Now, Turned, Under, Begun, InChart, Own, Onward
<1>3. CASE AccountThere(Named(Own(g), g.tree[g.next].leaf))
  <2>1. PICK to : to = Further(g, g.next + 1)
    OBVIOUS
  <2>2. /\ IsSetup(to) /\ to.want = g.want /\ to.alone = g.alone /\ to.before = g.before
        /\ (\A c, f : ~ToReplace(to, c, f)) /\ Promised(to)
    BY <1>1, <1>2, <1>3, <2>1, OneFurther
  <2> QED BY <1>1, <1>2, <1>3, <2>1, <2>2, MovesOn
<1>4. CASE ~AccountThere(Named(Own(g), g.tree[g.next].leaf))
  <2>1. PICK to : to = [g EXCEPT !.at = "account"]
    OBVIOUS
  <2>2. IsSetup(g) /\ Promised(g)
    BY <1>1, <1>2, Request
  <2>3. /\ DOMAIN to = RequestFields /\ to.at = "account" /\ to.next = g.next /\ to.want = g.want
        /\ to.tree = g.tree /\ to.alone = g.alone /\ to.before = g.before
    BY <2>1, <2>2 DEF IsSetup, RequestFields
  <2>4. IsSetup(to) /\ \A c, f : ~ToReplace(to, c, f)
    BY <1>2, <2>2, <2>3 DEF IsSetup, Begun, InChart, ToReplace
  <2>5. Promised(to)
    BY <1>2, <2>2, <2>3 DEF Promised, InChart, PastChart, PastDefaults, PastCenter,
                            CenterFilled, Done, TaxStages, Own
  <2> QED BY <1>1, <1>2, <1>4, <2>1, <2>3, <2>4, <2>5, MovesOn
<1> QED BY <1>3, <1>4

\* A chart names every account behind the one it is kept under.
LEMMA ParentsFirst ==
    ASSUME NEW w \in Wanted, NEW i \in DOMAIN PlannedChart(w), PlannedChart(w)[i].within # <<>>
    PROVE  \E j \in 1..(i - 1) : PlannedChart(w)[j].leaf = Last(PlannedChart(w)[i].within)
<1>1. PICK tree : tree = PlannedChart(w)
  OBVIOUS
<1>2. \A k \in DOMAIN tree :
         tree[k].within # <<>> => \E j \in 1..(k - 1) : tree[j].leaf = Last(tree[k].within)
  BY <1>1, SetupAssumption
<1> QED BY ONLY <1>1, <1>2, i \in DOMAIN PlannedChart(w), PlannedChart(w)[i].within # <<>>

\* The next account of the chart is inserted, under one that is there.
LEMMA InsertAccountPreserves ==
    ASSUME SetupInv, NEW r \in Founders, InsertAccount(r)
    PROVE  SetupInv'
<1>1. PICK g, row, name :
          /\ g = founder[r] /\ row = NewAccount(g.want, g.tree, g.next)
          /\ name = Named(Own(g), g.tree[g.next].leaf)
  OBVIOUS
<1>2. g.at = "account" /\ InChart(g) /\ Under(g) /\ Begun(g) /\ UNCHANGED <<firm, mainCenters>>
  BY <1>1 DEF InsertAccount, Now, Under, Begun, InChart
<1>3. /\ IsSetup(g) /\ Promised(g) /\ Own(g) \in Firms /\ Own(g) = g.want.firm /\ g.want \in Wanted
      /\ g.tree = PlannedChart(g.want) /\ DOMAIN g.tree = 1..Len(g.tree) /\ g.next \in 1..Len(g.tree)
      /\ Len(g.tree) \in Nat
  BY <1>1, <1>2, Request DEF IsSetup
<1>4. row.name = name
  BY <1>1, <1>3 DEF NewAccount
<1>5. CASE AccountThere(name)
  <2>1. Conclude(r, "failed") /\ UNCHANGED chartOf
    BY <1>1, <1>4, <1>5 DEF InsertAccount, Now
  <2> QED BY <1>1, <1>2, <2>1, GivesUp
<1>6. CASE ~AccountThere(name)
  <2>1. PICK to : to = Further(g, g.next + 1)
    OBVIOUS
  <2>2. founder' = [founder EXCEPT ![r] = to] /\ chartOf' = chartOf \cup {row}
    BY <1>1, <1>4, <1>6, <2>1 DEF InsertAccount, Now, Turned, Onward
  <2>3. /\ IsSetup(to) /\ to.want = g.want /\ to.alone = g.alone /\ to.before = g.before
        /\ \A c, f : ~ToReplace(to, c, f)
    BY <1>1, <1>2, <2>1, OneFurther
  <2>4. OnlyMore
    BY <1>2, <2>2 DEF OnlyMore
  <2>5. /\ \A n : AccountThere(n) => AccountThere(n)'
        /\ AccountThere(name)'
    BY <1>4, <2>2 DEF AccountThere
  <2>6. ChartIsPlanned'
    <3>1. row.parent # Empty => AccountThere(row.parent)
      <4> SUFFICES ASSUME row.parent # Empty PROVE AccountThere(row.parent)
        OBVIOUS
      <4>1. g.tree[g.next].within # <<>> /\ row.parent = Named(Own(g), Last(g.tree[g.next].within))
        BY <1>1, <1>3 DEF NewAccount
      <4>2. PICK j \in 1..(g.next - 1) : g.tree[j].leaf = Last(g.tree[g.next].within)
        <5>1. /\ g.want \in Wanted /\ g.next \in DOMAIN PlannedChart(g.want)
              /\ PlannedChart(g.want)[g.next].within # <<>>
          BY <1>3, <4>1
        <5>2. \E j \in 1..(g.next - 1) :
                 PlannedChart(g.want)[j].leaf = Last(PlannedChart(g.want)[g.next].within)
          BY ONLY <5>1, ParentsFirst
        <5> QED BY ONLY <5>2, <1>3
      <4> QED BY <1>2, <1>3, <4>1, <4>2 DEF Promised
    <3>2. \E w \in Wanted : \E i \in DOMAIN PlannedChart(w) : row = NewAccount(w, PlannedChart(w), i)
      BY <1>1, <1>3
    <3>3. ASSUME NEW a \in chartOf'
          PROVE  /\ \E w \in Wanted : \E i \in DOMAIN PlannedChart(w) : a = NewAccount(w, PlannedChart(w), i)
                 /\ a.parent # Empty => AccountThere(a.parent)'
      <4>1. CASE a = row
        BY <2>5, <3>1, <3>2, <4>1
      <4>2. CASE a \in chartOf
        BY <2>5, <4>2 DEF SetupInv, ChartIsPlanned
      <4> QED BY <2>2, <4>1, <4>2
    <3> QED BY <3>3 DEF ChartIsPlanned
  <2>7. FirmsAreSound'
    BY <1>2, <2>5 DEF SetupInv, FirmsAreSound
  <2>8. Promised(to)'
    <3>1. Promised(g)'
      BY <1>3, <2>4, PromiseIsKept
    <3>2. CASE g.next + 1 > Len(g.tree)
      <4>1. to = [g EXCEPT !.at = "defaults", !.next = 1, !.toSet = <<>>] /\ g.next = Len(g.tree)
        BY <1>3, <2>1, <3>2 DEF Further
      <4>2. /\ to.at = "defaults" /\ to.next = 1 /\ to.toSet = <<>> /\ to.want = g.want
            /\ to.tree = g.tree /\ Own(to) = Own(g) /\ ToSet(to.toSet) = {}
        BY <1>3, <4>1 DEF IsSetup, RequestFields, Own, ToSet
      <4>3. \A j \in DOMAIN g.tree : AccountThere(Named(Own(g), g.tree[j].leaf))'
        <5>1. \A j \in 1..(g.next - 1) : AccountThere(Named(Own(g), g.tree[j].leaf))'
          BY <1>2, <3>1 DEF Promised
        <5>2. AccountThere(Named(Own(g), g.tree[g.next].leaf))'
          BY <1>1, <2>5
        <5>3. \A j \in DOMAIN g.tree : j \in 1..(g.next - 1) \/ j = g.next
          BY <1>3, <4>1
        <5> QED BY <5>1, <5>2, <5>3
      <4>4. firm'[Own(g)] # Empty
        BY <1>2, <3>1 DEF Promised
      <4> QED BY <4>2, <4>3, <4>4 DEF Promised, InChart, PastChart, PastDefaults, PastCenter,
                                      CenterFilled, Done, TaxStages
    <3>3. CASE ~(g.next + 1 > Len(g.tree))
      <4>1. to = [g EXCEPT !.at = "accounts", !.next = g.next + 1]
        BY <1>3, <2>1, <3>3 DEF Further
      <4>2. /\ to.at = "accounts" /\ to.next = g.next + 1 /\ to.want = g.want
            /\ to.tree = g.tree /\ Own(to) = Own(g)
        BY <1>3, <4>1 DEF IsSetup, RequestFields, Own
      <4>3. \A j \in 1..(to.next - 1) : AccountThere(Named(Own(g), g.tree[j].leaf))'
        <5>1. \A j \in 1..(g.next - 1) : AccountThere(Named(Own(g), g.tree[j].leaf))'
          BY <1>2, <3>1 DEF Promised
        <5>2. AccountThere(Named(Own(g), g.tree[g.next].leaf))'
          BY <1>1, <2>5
        <5>3. \A j \in 1..(to.next - 1) : j \in 1..(g.next - 1) \/ j = g.next
          BY <1>3, <4>2
        <5> QED BY <5>1, <5>2, <5>3
      <4>4. firm'[Own(g)] # Empty
        BY <1>2, <3>1 DEF Promised
      <4> QED BY <4>2, <4>3, <4>4 DEF Promised, InChart, PastChart, PastDefaults, PastCenter,
                                      CenterFilled, Done, TaxStages
    <3> QED BY <3>2, <3>3
  <2>9. Spared(r, to) /\ firm' \in [Firms -> Configurations \cup {Empty}]
    BY <1>2, <2>3 DEF Spared, SetupInv, SetupTypeOK
  <2> QED BY <1>1, <1>2, <2>2, <2>3, <2>4, <2>6, <2>7, <2>8, <2>9, RequestSteps
<1> QED BY <1>5, <1>6

\* A default is read: it is to be set when it is empty and its account is there.
LEMMA ReadDefaultPreserves ==
    ASSUME SetupInv, NEW r \in Founders, ReadDefault(r)
    PROVE  SetupInv'
<1>1. PICK g, d, fill :
          /\ g = founder[r] /\ d = Planned(g)[g.next]
          /\ fill = (firm[Own(g)].defaults[d.field] = Empty /\ AccountThere(Named(Own(g), d.leaf)))
  OBVIOUS
<1>2. PICK to : to = [g EXCEPT !.next = g.next + 1, !.toSet = IF fill THEN Append(@, d) ELSE @]
  OBVIOUS
<1>3. /\ g.at = "defaults" /\ Under(g) /\ Begun(g) /\ g.next <= Len(Planned(g))
      /\ UNCHANGED <<firm, chartOf, mainCenters>> /\ founder' = [founder EXCEPT ![r] = to]
  BY <1>1, <1>2 DEF ReadDefault, Now, Turned, Under, Begun, Plan, Planned, Own
<1>4. /\ IsSetup(g) /\ Promised(g) /\ DOMAIN g = RequestFields /\ g.want \in Wanted /\ Own(g) \in Firms
      /\ Len(Planned(g)) \in Nat /\ Planned(g) = PlannedDefaults(g.want) /\ g.tree = PlannedChart(g.want)
      /\ g.next \in 1..Len(Planned(g)) /\ g.toSet \in Seq(ToSet(Planned(g)))
  BY <1>1, <1>3, Request DEF IsSetup
<1>5. d \in ToSet(Planned(g)) /\ d.field \in Fields /\ fill \in BOOLEAN
  BY <1>1, <1>4, Plans
<1>6. /\ DOMAIN to = RequestFields /\ to.at = "defaults" /\ to.next = g.next + 1 /\ to.want = g.want
      /\ to.tree = g.tree /\ to.alone = g.alone /\ to.before = g.before
      /\ to.toSet = IF fill THEN Append(g.toSet, d) ELSE g.toSet
  BY <1>2, <1>3, <1>4 DEF RequestFields
<1>7. /\ to.toSet \in Seq(ToSet(Planned(g)))
      /\ ToSet(to.toSet) = ToSet(g.toSet) \cup (IF fill THEN {d} ELSE {})
  <2>1. PICK S, s : S = ToSet(Planned(g)) /\ s = g.toSet
    OBVIOUS
  <2>2. s \in Seq(S) /\ d \in S
    BY <1>4, <1>5, <2>1
  <2>3. /\ Append(s, d) \in Seq(S) /\ Len(Append(s, d)) = Len(s) + 1 /\ Len(s) \in Nat
        /\ DOMAIN s = 1..Len(s) /\ DOMAIN Append(s, d) = 1..(Len(s) + 1)
        /\ Append(s, d)[Len(s) + 1] = d /\ \A i \in 1..Len(s) : Append(s, d)[i] = s[i]
    BY <2>2, AppendProperties
  <2>4. ToSet(Append(s, d)) = ToSet(s) \cup {d}
    <3>1. \A i \in 1..(Len(s) + 1) : i \in 1..Len(s) \/ i = Len(s) + 1
      BY <2>3
    <3> QED BY <2>3, <3>1 DEF ToSet
  <2> QED BY <1>5, <1>6, <2>1, <2>2, <2>3, <2>4
<1>8. Own(to) = Own(g) /\ Planned(to) = Planned(g) /\ to.next \in 1..(Len(Planned(g)) + 1)
      /\ to.next - 1 = g.next
  BY <1>4, <1>6 DEF Own, Planned
<1>9. IsSetup(to)
  <2>1. to.next \in 1..(Len(Planned(to)) + 1)
    BY <1>8
  <2>2. to.toSet \in Seq(ToSet(Planned(to)))
    BY <1>7, <1>8
  <2>3. ~InChart(to) /\ to.at # "insert"
    BY <1>6 DEF InChart
  <2>4. Begun(to) => /\ to.want \in Wanted /\ to.tree = PlannedChart(to.want)
                     /\ to.before \in [Fields -> DefaultAccounts \cup {Empty}]
    BY <1>3, <1>4, <1>6 DEF IsSetup
  <2> QED BY <1>6, <2>1, <2>2, <2>3, <2>4 DEF IsSetup
<1>10. Promised(to)
  <2>1. /\ firm[Own(g)] # Empty /\ \A j \in DOMAIN g.tree : AccountThere(Named(Own(g), g.tree[j].leaf))
        /\ \A e \in ToSet(g.toSet) : AccountThere(Named(Own(g), e.leaf))
        /\ \A k \in 1..(g.next - 1) : Provided(g, Planned(g)[k], ToSet(g.toSet))
    BY <1>3, <1>4 DEF Promised, PastChart
  <2>2. \A e \in ToSet(to.toSet) : AccountThere(Named(Own(g), e.leaf))
    BY <1>1, <1>7, <2>1
  <2>3. ASSUME NEW k \in 1..g.next PROVE Provided(to, Planned(g)[k], ToSet(to.toSet))
    <3>1. CASE k \in 1..(g.next - 1)
      <4>1. Provided(g, Planned(g)[k], ToSet(g.toSet))
        BY <2>1, <3>1
      <4> QED BY <1>6, <1>7, <1>8, <4>1 DEF Provided
    <3>2. CASE k = g.next
      <4> SUFFICES ASSUME NEW i \in DOMAIN g.tree, g.tree[i].leaf = d.leaf,
                          firm[Own(g)].defaults[d.field] = Empty
                   PROVE  \E e \in ToSet(to.toSet) : e.field = d.field
        BY <1>1, <1>6, <1>8, <3>2 DEF Provided
      <4>1. AccountThere(Named(Own(g), d.leaf))
        BY <2>1
      <4>2. fill
        BY <1>1, <4>1
      <4> QED BY <1>7, <4>2
    <3>3. k \in 1..(g.next - 1) \/ k = g.next
      BY <1>4
    <3> QED BY <3>1, <3>2, <3>3
  <2>4. \A k \in 1..(to.next - 1) : Provided(to, Planned(to)[k], ToSet(to.toSet))
    BY <1>8, <2>3
  <2> QED BY <1>6, <1>8, <2>1, <2>2, <2>4 DEF Promised, InChart, PastDefaults, PastCenter,
                                              CenterFilled, Done, TaxStages
<1>11. ASSUME NEW c \in Firms, NEW f \in Fields, firm[c].defaults[f] # Empty, ~ToReplace(g, c, f)
       PROVE  ~ToReplace(to, c, f)
  BY <1>1, <1>3, <1>6, <1>7, <1>8, <1>11 DEF ToReplace
<1> QED BY <1>1, <1>3, <1>6, <1>9, <1>10, <1>11, MovesOn

\* The defaults are set in one statement.
LEMMA SetDefaultsPreserves ==
    ASSUME SetupInv, NEW r \in Founders, SetDefaults(r)
    PROVE  SetupInv'
<1>1. PICK g, c, to : /\ g = founder[r] /\ c = Own(g)
                      /\ to = [g EXCEPT !.at = "taxes", !.next = 1]
  OBVIOUS
<1>2. PICK new :
          new = [f \in Fields |->
                    IF {d \in ToSet(g.toSet) : d.field = f} = {} THEN firm[c].defaults[f]
                    ELSE Named(c, (CHOOSE d \in {d \in ToSet(g.toSet) : d.field = f} : TRUE).leaf)]
  OBVIOUS
<1>3. PICK for : for = [f \in Fields |-> {d \in ToSet(g.toSet) : d.field = f}]
  OBVIOUS
<1>4. /\ g.at = "defaults" /\ g.next > Len(Planned(g)) /\ Under(g) /\ Begun(g)
      /\ UNCHANGED <<chartOf, mainCenters>> /\ founder' = [founder EXCEPT ![r] = to]
  BY <1>1 DEF SetDefaults, Now, Turned, Under, Begun, Plan, Planned
<1>5. firm' = [firm EXCEPT ![c].defaults = new]
  BY <1>1, <1>2 DEF SetDefaults, Now, Own
<1>6. /\ IsSetup(g) /\ Promised(g) /\ DOMAIN g = RequestFields /\ g.want \in Wanted /\ c \in Firms
      /\ Len(Planned(g)) \in Nat /\ Planned(g) = PlannedDefaults(g.want) /\ c = g.want.firm
      /\ g.next \in 1..(Len(Planned(g)) + 1) /\ g.toSet \in Seq(ToSet(Planned(g)))
      /\ firm[c] # Empty /\ firm[c] \in Configurations
  BY <1>1, <1>4, Request DEF IsSetup, Promised, PastChart
<1>7. /\ \A d \in ToSet(g.toSet) : /\ d.field \in Fields /\ Named(c, d.leaf) \in DefaultAccounts
                                   /\ Named(c, d.leaf) # Empty /\ AccountThere(Named(c, d.leaf))
      /\ \A k \in 1..Len(Planned(g)) : Provided(g, Planned(g)[k], ToSet(g.toSet))
      /\ \A k \in 1..Len(Planned(g)) : Planned(g)[k].field \in Fields
  <2>1. \A d \in ToSet(g.toSet) : d \in ToSet(Planned(g))
    <3>1. PICK S : S = ToSet(Planned(g))
      OBVIOUS
    <3>2. g.toSet \in Seq(S)
      BY <1>6, <3>1
    <3> QED BY <3>1, <3>2 DEF ToSet
  <2>2. g.next - 1 = Len(Planned(g))
    BY <1>4, <1>6
  <2>3. /\ \A d \in ToSet(g.toSet) : AccountThere(Named(c, d.leaf))
        /\ \A k \in 1..(g.next - 1) : Provided(g, Planned(g)[k], ToSet(g.toSet))
    BY <1>1, <1>4, <1>6 DEF Promised
  <2>4. \A d \in ToSet(Planned(g)) : d.field \in Fields /\ Named(c, d.leaf) \in DefaultAccounts
    BY <1>6, Plans
  <2>5. \A k \in 1..Len(Planned(g)) : Planned(g)[k] \in ToSet(Planned(g))
    BY <1>6, Plans
  <2> QED BY <2>1, <2>2, <2>3, <2>4, <2>5, SetupAssumption
<1>8. ASSUME NEW f \in Fields
      PROVE  /\ for[f] = {} => new[f] = firm[c].defaults[f]
             /\ for[f] # {} => new[f] \in DefaultAccounts /\ new[f] # Empty /\ AccountThere(new[f])
  BY <1>2, <1>3, <1>7
<1>9. /\ new \in [Fields -> DefaultAccounts \cup {Empty}]
      /\ \A f \in Fields : firm[c].defaults[f] # Empty => new[f] # Empty
  BY <1>2, <1>6, <1>8 DEF Configurations
<1>10. /\ firm' \in [Firms -> Configurations \cup {Empty}]
       /\ firm'[c] # Empty /\ firm'[c].defaults = new
       /\ firm'[c].center = firm[c].center /\ firm'[c].roundOff = firm[c].roundOff
       /\ \A b \in Firms \ {c} : firm'[b] = firm[b]
  <2>1. PICK m : m = [firm[c] EXCEPT !.defaults = new]
    OBVIOUS
  <2>2. /\ m \in Configurations /\ m.defaults = new /\ m.center = firm[c].center
        /\ m.roundOff = firm[c].roundOff
    BY <1>6, <1>9, <2>1 DEF Configurations
  <2>3. firm' = [firm EXCEPT ![c] = m]
    BY <1>5, <2>1
  <2> QED BY <1>6, <2>2, <2>3, SetupAssumption DEF SetupInv, SetupTypeOK
<1>11. OnlyMore
  BY <1>4, <1>9, <1>10 DEF OnlyMore
<1>12. \A n : AccountThere(n)' = AccountThere(n)
  BY <1>4 DEF AccountThere
<1>13. ChartIsPlanned'
  BY <1>4, <1>12 DEF SetupInv, ChartIsPlanned
<1>14. FirmsAreSound'
  <2>1. \A f \in Fields : new[f] # Empty => AccountThere(new[f])
    BY <1>6, <1>8 DEF SetupInv, FirmsAreSound
  <2>2. {firm[c].center, firm[c].roundOff} \subseteq mainCenters \cup {Empty}
    BY <1>6 DEF SetupInv, FirmsAreSound
  <2>3. ASSUME NEW b \in Firms, firm'[b] # Empty
        PROVE  /\ \A f \in Fields : firm'[b].defaults[f] # Empty => AccountThere(firm[b].defaults[f])'
               /\ {firm'[b].center, firm'[b].roundOff} \subseteq mainCenters' \cup {Empty}
    <3>1. CASE b = c
      BY <1>4, <1>10, <1>12, <2>1, <2>2, <3>1
    <3>2. CASE b # c
      BY <1>4, <1>10, <1>12, <2>3, <3>2 DEF SetupInv, FirmsAreSound
    <3> QED BY <3>1, <3>2
  <2> QED BY <2>3 DEF FirmsAreSound
<1>15. /\ DOMAIN to = RequestFields /\ to.at = "taxes" /\ to.want = g.want
       /\ to.tree = g.tree /\ to.alone = g.alone /\ to.before = g.before
  BY <1>1, <1>6 DEF RequestFields
<1>16. IsSetup(to) /\ \A b, f : ~ToReplace(to, b, f)
  BY <1>4, <1>6, <1>15 DEF IsSetup, Begun, InChart, ToReplace
<1>17. Spared(r, to)
  <2> SUFFICES ASSUME NEW b \in Firms, NEW f \in Fields, ~ToReplace(g, b, f)
               PROVE  firm'[b].defaults[f] = firm[b].defaults[f]
    BY <1>1, <1>16 DEF Spared
  <2>1. CASE b = c
    <3>1. for[f] = {}
      BY <1>1, <1>3, <1>4, <2>1 DEF ToReplace
    <3> QED BY <1>8, <1>10, <2>1, <3>1
  <2>2. CASE b # c
    BY <1>10, <2>2
  <2> QED BY <2>1, <2>2
<1>18. Promised(to)'
  <2>1. ASSUME NEW k \in 1..Len(Planned(g)) PROVE Provided(to, Planned(g)[k], {})'
    <3> SUFFICES ASSUME NEW i \in DOMAIN g.tree, g.tree[i].leaf = Planned(g)[k].leaf
                 PROVE  new[Planned(g)[k].field] # Empty
      BY <1>1, <1>10, <1>15 DEF Provided, Own
    <3>1. PICK f : f = Planned(g)[k].field /\ f \in Fields
      BY <1>7
    <3>2. firm[c].defaults[f] # Empty \/ \E e \in ToSet(g.toSet) : e.field = f
      BY <1>1, <1>7, <3>1 DEF Provided
    <3>3. firm[c].defaults[f] # Empty \/ for[f] # {}
      BY <1>3, <3>1, <3>2
    <3> QED BY <1>8, <1>9, <3>1, <3>3
  <2>2. \A j \in DOMAIN to.tree : AccountThere(Named(Own(to), to.tree[j].leaf))'
    BY <1>4, <1>6, <1>12, <1>15 DEF Promised, PastChart, Own
  <2>3. firm'[Own(to)] # Empty /\ Planned(to) = Planned(g)
    BY <1>1, <1>10, <1>15 DEF Own, Planned
  <2> QED BY <1>15, <2>1, <2>2, <2>3 DEF Promised, InChart, PastCenter, CenterFilled, Done
<1> QED BY <1>1, <1>4, <1>10, <1>11, <1>13, <1>14, <1>15, <1>16, <1>17, <1>18, RequestSteps

\* A late step may fill in a cost center, and changes no default.
FirmsStay ==
    \A c \in Firms :
       /\ firm[c] # Empty => firm'[c] # Empty
       /\ firm'[c] # Empty =>
             /\ firm[c] # Empty
             /\ firm'[c].defaults = firm[c].defaults
             /\ \/ firm'[c].center = firm[c].center
                \/ /\ firm[c].center = Empty
                   /\ firm'[c].center \in mainCenters'
             /\ \/ firm'[c].roundOff = firm[c].roundOff
                \/ /\ firm[c].roundOff = Empty
                   /\ firm'[c].roundOff \in mainCenters'

\* A step after the defaults are set: no default changes any more.
LEMMA LateStep ==
    ASSUME SetupInv, NEW r \in Founders, NEW g, g = founder[r], Under(g), PastDefaults(g),
           NEW to, DOMAIN to = RequestFields, founder' = [founder EXCEPT ![r] = to],
           PastDefaults(to), to.want = g.want, to.tree = g.tree,
           to.alone = g.alone, to.before = g.before,
           UNCHANGED chartOf, mainCenters \subseteq mainCenters',
           firm' \in [Firms -> Configurations \cup {Empty}],
           FirmsStay,
           PastCenter(to) => Prefix[Own(g)] \in mainCenters',
           CenterFilled(to) => firm'[Own(g)].center # Empty,
           Done(to) => firm'[Own(g)].roundOff # Empty
    PROVE  SetupInv'
<1>1. /\ Begun(g) /\ IsSetup(g) /\ Promised(g) /\ Own(g) \in Firms
      /\ Own(to) = Own(g) /\ Planned(to) = Planned(g) /\ PastChart(g) /\ PastChart(to)
  BY Request DEF Under, Begun, Own, Planned, PastChart
<1>2. to.at \notin {"idle", "insert", "defaults", "accounts", "account"}
  BY DEF PastDefaults, Done, TaxStages
<1>3. IsSetup(to) /\ \A c, f : ~ToReplace(to, c, f)
  BY <1>1, <1>2 DEF IsSetup, Begun, InChart, ToReplace
<1>4. OnlyMore
  <2>1. ASSUME NEW c \in Firms, firm[c] # Empty
        PROVE  /\ firm'[c] # Empty
               /\ \A f \in Fields : firm[c].defaults[f] # Empty => firm'[c].defaults[f] # Empty
               /\ firm[c].center # Empty => firm'[c].center # Empty
               /\ firm[c].roundOff # Empty => firm'[c].roundOff # Empty
    BY <2>1 DEF FirmsStay
  <2> QED BY <2>1 DEF OnlyMore
<1>5. \A n : AccountThere(n)' = AccountThere(n)
  BY DEF AccountThere
<1>6. ChartIsPlanned'
  BY <1>5 DEF SetupInv, ChartIsPlanned
<1>7. FirmsAreSound'
  <2>1. ASSUME NEW c \in Firms, firm'[c] # Empty
        PROVE  /\ \A f \in Fields : firm'[c].defaults[f] # Empty => AccountThere(firm[c].defaults[f])'
               /\ {firm'[c].center, firm'[c].roundOff} \subseteq mainCenters' \cup {Empty}
    <3>1. /\ \A f \in Fields : firm[c].defaults[f] # Empty => AccountThere(firm[c].defaults[f])
          /\ firm[c].center \in mainCenters \cup {Empty} /\ firm[c].roundOff \in mainCenters \cup {Empty}
      BY <2>1 DEF SetupInv, FirmsAreSound, FirmsStay
    <3>2. firm'[c].defaults = firm[c].defaults
      BY <2>1 DEF FirmsStay
    <3>3. firm'[c].center \in mainCenters' \cup {Empty} /\ firm'[c].roundOff \in mainCenters' \cup {Empty}
      BY <2>1, <3>1 DEF FirmsStay
    <3>4. \A f \in Fields : firm'[c].defaults[f] # Empty => AccountThere(firm[c].defaults[f])'
      <4> SUFFICES ASSUME NEW f \in Fields, firm[c].defaults[f] # Empty
                   PROVE  \E a \in chartOf : a.name = firm'[c].defaults[f]
        BY <3>2 DEF AccountThere
      <4> QED BY <3>1, <3>2 DEF AccountThere
    <3> QED BY <3>3, <3>4
  <2> QED BY <2>1 DEF FirmsAreSound
<1>8. Spared(r, to)
  BY <1>3, <1>4 DEF Spared, OnlyMore, FirmsStay
<1>9. Promised(to)'
  <2>1. Promised(g)'
    BY <1>1, <1>4, PromiseIsKept
  <2>2. /\ firm'[Own(to)] # Empty
        /\ \A j \in DOMAIN to.tree : AccountThere(Named(Own(to), to.tree[j].leaf))'
    BY <1>1, <2>1 DEF Promised
  <2>3. \A k \in 1..Len(Planned(to)) : Provided(to, Planned(to)[k], {})'
    BY <1>1, <2>1 DEF Promised, Provided
  <2> QED BY <1>1, <1>2, <2>2, <2>3 DEF Promised, InChart
<1> QED BY <1>1, <1>3, <1>4, <1>6, <1>7, <1>8, <1>9, RequestSteps

\* What the late steps start from.
LEMMA LateRequest ==
    ASSUME SetupInv, NEW r \in Founders, NEW g, g = founder[r], PastDefaults(g), Under(g)
    PROVE  /\ Begun(g) /\ DOMAIN g = RequestFields /\ Promised(g)
           /\ Own(g) \in Firms /\ Own(g) = g.want.firm
           /\ firm[Own(g)] \in Configurations /\ firm[Own(g)] # Empty
           /\ Prefix[Own(g)] \in Centers /\ Prefix[Own(g)] # Empty
           /\ firm \in [Firms -> Configurations \cup {Empty}]
           /\ \A c \in Firms : firm[c] = Empty \/ firm[c] \in Configurations
<1>1. Begun(g)
  BY DEF Under, Begun
<1>2. /\ DOMAIN g = RequestFields /\ Promised(g) /\ Own(g) \in Firms /\ Own(g) = g.want.firm
      /\ firm[Own(g)] # Empty => firm[Own(g)] \in Configurations
  BY <1>1, Request
<1>3. firm[Own(g)] # Empty
  BY <1>2 DEF Promised, PastChart
<1>4. Prefix[Own(g)] \in Centers /\ Prefix[Own(g)] # Empty
  BY <1>2, SetupAssumption DEF Centers
<1> QED BY <1>1, <1>2, <1>3, <1>4 DEF SetupInv, SetupTypeOK

\* The tax templates and the cost center are looked for; a template is stored in two steps.
LEMMA LooksPreserve ==
    ASSUME SetupInv, NEW r \in Founders,
           LookForTemplate(r) \/ InsertTemplate(r) \/ InsertRate(r) \/ LookForCenter(r)
    PROVE  SetupInv'
<1>1. PICK g : g = founder[r]
  OBVIOUS
<1>2. /\ PastDefaults(g) /\ Under(g) /\ UNCHANGED <<firm, chartOf, mainCenters>>
  BY <1>1 DEF LookForTemplate, InsertTemplate, InsertRate, LookForCenter, Now, PastDefaults, Under, TaxStages
<1>3. CASE Conclude(r, "failed")
  BY <1>1, <1>2, <1>3, GivesUp
<1>4. CASE ~Conclude(r, "failed")
  <2>1. PICK at, next :
            /\ founder' = [founder EXCEPT ![r] = [g EXCEPT !.at = at, !.next = next]]
            /\ \/ at \in TaxStages \cup {"newCenter"}
               \/ at = "centerDefault" /\ Prefix[Own(g)] \in mainCenters
    <3>1. DOMAIN g = RequestFields
      BY <1>1, <1>2, LateRequest
    <3>2. \A at : /\ [g EXCEPT !.at = at] = [g EXCEPT !.at = at, !.next = g.next]
                  /\ [g EXCEPT !.next = g.next + 1] = [g EXCEPT !.at = g.at, !.next = g.next + 1]
      BY <3>1 DEF RequestFields
    <3>3. CASE LookForTemplate(r)
      <4>1. g.at = "taxes"
        BY <1>1, <3>3 DEF LookForTemplate, Now
      <4>2. \/ founder' = [founder EXCEPT ![r] = [g EXCEPT !.at = "salesTax"]]
            \/ founder' = [founder EXCEPT ![r] = [g EXCEPT !.next = g.next + 1]]
            \/ founder' = [founder EXCEPT ![r] = [g EXCEPT !.at = "template"]]
        BY <1>1, <3>3 DEF LookForTemplate, Turned, Now
      <4>3. CASE founder' = [founder EXCEPT ![r] = [g EXCEPT !.at = "salesTax"]]
        <5>1. founder' = [founder EXCEPT ![r] = [g EXCEPT !.at = "salesTax", !.next = g.next]]
          BY <3>2, <4>3
        <5> QED BY <5>1 DEF TaxStages
      <4>4. CASE founder' = [founder EXCEPT ![r] = [g EXCEPT !.next = g.next + 1]]
        <5>1. founder' = [founder EXCEPT ![r] = [g EXCEPT !.at = g.at, !.next = g.next + 1]]
          BY <3>2, <4>4
        <5> QED BY <4>1, <5>1 DEF TaxStages
      <4>5. CASE founder' = [founder EXCEPT ![r] = [g EXCEPT !.at = "template"]]
        <5>1. founder' = [founder EXCEPT ![r] = [g EXCEPT !.at = "template", !.next = g.next]]
          BY <3>2, <4>5
        <5> QED BY <5>1 DEF TaxStages
      <4> QED BY <4>2, <4>3, <4>4, <4>5
    <3>4. CASE InsertTemplate(r)
      <4>1. founder' = [founder EXCEPT ![r] = [g EXCEPT !.at = "rate"]]
        BY <1>1, <1>4, <3>4 DEF InsertTemplate, Turned, Now
      <4> QED BY <3>2, <4>1 DEF TaxStages
    <3>5. CASE InsertRate(r)
      BY <1>1, <3>5 DEF InsertRate, Turned, Now, TaxStages
    <3>6. CASE LookForCenter(r)
      <4>1. \/ /\ founder' = [founder EXCEPT ![r] = [g EXCEPT !.at = "centerDefault"]]
               /\ Prefix[Own(g)] \in mainCenters
            \/ founder' = [founder EXCEPT ![r] = [g EXCEPT !.at = "newCenter"]]
        BY <1>1, <3>6 DEF LookForCenter, Turned, Now, Own
      <4>2. CASE /\ founder' = [founder EXCEPT ![r] = [g EXCEPT !.at = "centerDefault"]]
                 /\ Prefix[Own(g)] \in mainCenters
        <5>1. founder' = [founder EXCEPT ![r] = [g EXCEPT !.at = "centerDefault", !.next = g.next]]
          BY <3>2, <4>2
        <5> QED BY <4>2, <5>1
      <4>3. CASE founder' = [founder EXCEPT ![r] = [g EXCEPT !.at = "newCenter"]]
        <5>1. founder' = [founder EXCEPT ![r] = [g EXCEPT !.at = "newCenter", !.next = g.next]]
          BY <3>2, <4>3
        <5> QED BY <5>1
      <4> QED BY <4>1, <4>2, <4>3
    <3> QED BY <3>3, <3>4, <3>5, <3>6
  <2>2. PICK to : to = [g EXCEPT !.at = at, !.next = next]
    OBVIOUS
  <2>3. DOMAIN g = RequestFields /\ firm \in [Firms -> Configurations \cup {Empty}]
    BY <1>1, <1>2, LateRequest
  <2>4. /\ DOMAIN to = RequestFields /\ to.at = at /\ to.want = g.want /\ to.tree = g.tree
        /\ to.alone = g.alone /\ to.before = g.before
    BY <2>2, <2>3 DEF RequestFields
  <2>5. /\ PastDefaults(to) /\ ~CenterFilled(to) /\ ~Done(to)
        /\ PastCenter(to) => Prefix[Own(g)] \in mainCenters
    BY <2>1, <2>4 DEF PastDefaults, CenterFilled, Done, PastCenter, TaxStages
  <2>6. /\ g = founder[r] /\ Under(g) /\ PastDefaults(g) /\ DOMAIN to = RequestFields
        /\ founder' = [founder EXCEPT ![r] = to] /\ PastDefaults(to) /\ to.want = g.want
        /\ to.tree = g.tree /\ to.alone = g.alone /\ to.before = g.before
        /\ UNCHANGED chartOf /\ mainCenters \subseteq mainCenters'
        /\ firm' \in [Firms -> Configurations \cup {Empty}]
    BY <1>1, <1>2, <2>1, <2>2, <2>3, <2>4, <2>5
  <2>7. FirmsStay
    BY <1>2 DEF FirmsStay
  <2>8. /\ PastCenter(to) => Prefix[Own(g)] \in mainCenters'
        /\ CenterFilled(to) => firm'[Own(g)].center # Empty
        /\ Done(to) => firm'[Own(g)].roundOff # Empty
    BY <1>2, <2>5
  <2> QED BY ONLY SetupInv, r \in Founders, <2>6, <2>7, <2>8, LateStep
<1> QED BY <1>3, <1>4

\* The company's standard sales tax is set.
LEMMA SetSalesTaxPreserves ==
    ASSUME SetupInv, NEW r \in Founders, SetSalesTax(r)
    PROVE  SetupInv'
<1>1. PICK g, to : g = founder[r] /\ to = [g EXCEPT !.at = "center"]
  OBVIOUS
<1>2. /\ PastDefaults(g) /\ Under(g) /\ UNCHANGED <<chartOf, mainCenters>>
      /\ founder' = [founder EXCEPT ![r] = to]
  BY <1>1 DEF SetSalesTax, Now, Turned, PastDefaults, Under, TaxStages
<1>3. /\ DOMAIN g = RequestFields /\ Own(g) \in Firms /\ Own(g) = g.want.firm /\ Begun(g)
      /\ firm[Own(g)] \in Configurations /\ firm[Own(g)] # Empty
      /\ firm \in [Firms -> Configurations \cup {Empty}]
  BY <1>1, <1>2, LateRequest
<1>4. /\ DOMAIN to = RequestFields /\ to.at = "center" /\ to.want = g.want /\ to.tree = g.tree
      /\ to.alone = g.alone /\ to.before = g.before
  BY <1>1, <1>3 DEF RequestFields
<1>5. PastDefaults(to) /\ ~CenterFilled(to) /\ ~Done(to) /\ ~PastCenter(to)
  BY <1>4 DEF PastDefaults, CenterFilled, Done, PastCenter, TaxStages
<1>6. PICK m : /\ m \in Configurations /\ m.defaults = firm[Own(g)].defaults
               /\ m.center = firm[Own(g)].center /\ m.roundOff = firm[Own(g)].roundOff
               /\ firm' = [firm EXCEPT ![Own(g)] = m]
  <2>1. PICK tax : tax = Named(Own(g), PackSalesTax[ResolvedPack(g.want)])
    OBVIOUS
  <2>2. g.want \in Wanted
    BY <1>1, <1>3, Request
  <2>3. PackSalesTax[ResolvedPack(g.want)] # Empty => tax \in SalesTaxes
    BY <1>3, <2>1, <2>2, SetupAssumption DEF SalesTaxes
  <2>4. \/ firm' = firm
        \/ /\ PackSalesTax[ResolvedPack(g.want)] # Empty
           /\ firm' = [firm EXCEPT ![Own(g)].salesTax = tax]
    BY <1>1, <1>3, <2>1 DEF SetSalesTax, Now
  <2>5. CASE firm' = firm
    <3>1. firm' = [firm EXCEPT ![Own(g)] = firm[Own(g)]]
      BY <1>3, <2>5
    <3> QED BY <1>3, <3>1
  <2>6. CASE /\ PackSalesTax[ResolvedPack(g.want)] # Empty
             /\ firm' = [firm EXCEPT ![Own(g)].salesTax = tax]
    <3>1. PICK n : n = [firm[Own(g)] EXCEPT !.salesTax = tax]
      OBVIOUS
    <3>2. /\ n \in Configurations /\ n.defaults = firm[Own(g)].defaults
          /\ n.center = firm[Own(g)].center /\ n.roundOff = firm[Own(g)].roundOff
      BY <1>3, <2>3, <2>6, <3>1 DEF Configurations
    <3>3. firm' = [firm EXCEPT ![Own(g)] = n]
      BY <2>6, <3>1
    <3> QED BY <3>2, <3>3
  <2> QED BY <2>4, <2>5, <2>6
<1>7. /\ m # Empty /\ firm' \in [Firms -> Configurations \cup {Empty}] /\ firm'[Own(g)] = m
      /\ \A c \in Firms \ {Own(g)} : firm'[c] = firm[c]
  BY <1>3, <1>6, SetupAssumption
<1>8. /\ g = founder[r] /\ Under(g) /\ PastDefaults(g) /\ DOMAIN to = RequestFields
      /\ founder' = [founder EXCEPT ![r] = to] /\ PastDefaults(to) /\ to.want = g.want
      /\ to.tree = g.tree /\ to.alone = g.alone /\ to.before = g.before
      /\ UNCHANGED chartOf /\ mainCenters \subseteq mainCenters'
      /\ firm' \in [Firms -> Configurations \cup {Empty}]
  BY <1>1, <1>2, <1>3, <1>4, <1>5, <1>7
<1>9. FirmsStay
  BY <1>2, <1>3, <1>6, <1>7 DEF FirmsStay
<1>10. /\ PastCenter(to) => Prefix[Own(g)] \in mainCenters'
       /\ CenterFilled(to) => firm'[Own(g)].center # Empty
       /\ Done(to) => firm'[Own(g)].roundOff # Empty
  BY <1>5
<1> QED BY ONLY SetupInv, r \in Founders, <1>8, <1>9, <1>10, LateStep

\* The cost center is inserted, unless somebody has in between.
LEMMA InsertCenterPreserves ==
    ASSUME SetupInv, NEW r \in Founders, InsertCenter(r)
    PROVE  SetupInv'
<1>1. PICK g, to : g = founder[r] /\ to = [g EXCEPT !.at = "centerDefault"]
  OBVIOUS
<1>2. PastDefaults(g) /\ Under(g) /\ UNCHANGED <<firm, chartOf>>
  BY <1>1 DEF InsertCenter, Now, PastDefaults, Under, TaxStages
<1>3. /\ DOMAIN g = RequestFields /\ Own(g) = g.want.firm
      /\ firm \in [Firms -> Configurations \cup {Empty}]
  BY <1>1, <1>2, LateRequest
<1>4. CASE Conclude(r, "failed") /\ UNCHANGED mainCenters
  BY <1>1, <1>2, <1>4, GivesUp
<1>5. CASE /\ founder' = [founder EXCEPT ![r] = to]
           /\ mainCenters' = mainCenters \cup {Prefix[Own(g)]}
  <2>1. /\ DOMAIN to = RequestFields /\ to.at = "centerDefault" /\ to.want = g.want
        /\ to.tree = g.tree /\ to.alone = g.alone /\ to.before = g.before
    BY <1>1, <1>3 DEF RequestFields
  <2>2. PastDefaults(to) /\ ~CenterFilled(to) /\ ~Done(to)
    BY <2>1 DEF PastDefaults, CenterFilled, Done, TaxStages
  <2>3. /\ g = founder[r] /\ Under(g) /\ PastDefaults(g) /\ DOMAIN to = RequestFields
        /\ founder' = [founder EXCEPT ![r] = to] /\ PastDefaults(to) /\ to.want = g.want
        /\ to.tree = g.tree /\ to.alone = g.alone /\ to.before = g.before
        /\ UNCHANGED chartOf /\ mainCenters \subseteq mainCenters'
        /\ firm' \in [Firms -> Configurations \cup {Empty}]
    BY <1>1, <1>2, <1>3, <1>5, <2>1, <2>2
  <2>4. FirmsStay
    BY <1>2 DEF FirmsStay
  <2>5. /\ PastCenter(to) => Prefix[Own(g)] \in mainCenters'
        /\ CenterFilled(to) => firm'[Own(g)].center # Empty
        /\ Done(to) => firm'[Own(g)].roundOff # Empty
    BY <1>5, <2>2
  <2> QED BY ONLY SetupInv, r \in Founders, <2>3, <2>4, <2>5, LateStep
<1> QED BY <1>1, <1>3, <1>4, <1>5 DEF InsertCenter, Now, Turned

\* The two fields of the company that name the cost center are filled in.
LEMMA FillsPreserve ==
    ASSUME SetupInv, NEW r \in Founders, FillCenter(r) \/ FillRoundOff(r)
    PROVE  SetupInv'
<1>1. PICK g, c : g = founder[r] /\ c = Own(g)
  OBVIOUS
<1>2. PastDefaults(g) /\ PastCenter(g) /\ Under(g) /\ UNCHANGED <<chartOf, mainCenters>>
  BY <1>1 DEF FillCenter, FillRoundOff, Now, PastDefaults, PastCenter, Under, TaxStages
<1>3. /\ DOMAIN g = RequestFields /\ c \in Firms /\ c = g.want.firm /\ Promised(g)
      /\ firm[c] \in Configurations /\ firm[c] # Empty
      /\ Prefix[c] \in Centers /\ Prefix[c] # Empty
      /\ firm \in [Firms -> Configurations \cup {Empty}]
  BY <1>1, <1>2, LateRequest
<1>4. Prefix[c] \in mainCenters
  BY <1>1, <1>2, <1>3 DEF Promised
<1>5. CASE FillCenter(r)
  <2>1. PICK to, m : /\ to = [g EXCEPT !.at = "roundOff"]
                     /\ m = [firm[c] EXCEPT !.center = IF @ = Empty THEN Prefix[c] ELSE @]
    OBVIOUS
  <2>2. firm' = [firm EXCEPT ![c] = m] /\ founder' = [founder EXCEPT ![r] = to]
    BY <1>1, <1>3, <1>5, <2>1 DEF FillCenter, Now, Turned
  <2>3. /\ m \in Configurations /\ m # Empty /\ m.defaults = firm[c].defaults
        /\ m.roundOff = firm[c].roundOff /\ m.center # Empty
        /\ m.center = firm[c].center \/ (firm[c].center = Empty /\ m.center = Prefix[c])
    BY <1>3, <2>1, SetupAssumption DEF Configurations
  <2>4. /\ firm' \in [Firms -> Configurations \cup {Empty}] /\ firm'[c] = m
        /\ \A b \in Firms \ {c} : firm'[b] = firm[b]
    BY <1>3, <2>2, <2>3
  <2>5. /\ DOMAIN to = RequestFields /\ to.at = "roundOff" /\ to.want = g.want
        /\ to.tree = g.tree /\ to.alone = g.alone /\ to.before = g.before
    BY <1>3, <2>1 DEF RequestFields
  <2>6. PastDefaults(to) /\ ~Done(to)
    BY <2>5 DEF PastDefaults, Done, TaxStages
  <2>7. /\ g = founder[r] /\ Under(g) /\ PastDefaults(g) /\ DOMAIN to = RequestFields
        /\ founder' = [founder EXCEPT ![r] = to] /\ PastDefaults(to) /\ to.want = g.want
        /\ to.tree = g.tree /\ to.alone = g.alone /\ to.before = g.before
        /\ UNCHANGED chartOf /\ mainCenters \subseteq mainCenters'
        /\ firm' \in [Firms -> Configurations \cup {Empty}]
    BY <1>1, <1>2, <1>3, <2>2, <2>4, <2>5, <2>6
  <2>8. FirmsStay
    BY <1>1, <1>2, <1>3, <1>4, <2>3, <2>4 DEF FirmsStay
  <2>9. /\ PastCenter(to) => Prefix[Own(g)] \in mainCenters'
        /\ CenterFilled(to) => firm'[Own(g)].center # Empty
        /\ Done(to) => firm'[Own(g)].roundOff # Empty
    BY <1>1, <1>2, <1>4, <2>3, <2>4, <2>5, <2>6 DEF PastCenter, Done
  <2> QED BY ONLY SetupInv, r \in Founders, <2>7, <2>8, <2>9, LateStep
<1>6. CASE FillRoundOff(r)
  <2>1. PICK to, m : /\ to = [g EXCEPT !.at = "answered", !.how = "ok"]
                     /\ m = [firm[c] EXCEPT !.roundOff = IF @ = Empty THEN Prefix[c] ELSE @]
    OBVIOUS
  <2>2. firm' = [firm EXCEPT ![c] = m] /\ founder' = [founder EXCEPT ![r] = to]
        /\ CenterFilled(g)
    BY <1>1, <1>3, <1>6, <2>1 DEF FillRoundOff, Now, Turned, Conclude, CenterFilled
  <2>3. /\ m \in Configurations /\ m # Empty /\ m.defaults = firm[c].defaults
        /\ m.center = firm[c].center /\ m.center # Empty /\ m.roundOff # Empty
        /\ m.roundOff = firm[c].roundOff \/ (firm[c].roundOff = Empty /\ m.roundOff = Prefix[c])
    BY <1>1, <1>3, <2>1, <2>2, SetupAssumption DEF Configurations, Promised
  <2>4. /\ firm' \in [Firms -> Configurations \cup {Empty}] /\ firm'[c] = m
        /\ \A b \in Firms \ {c} : firm'[b] = firm[b]
    BY <1>3, <2>2, <2>3
  <2>5. /\ DOMAIN to = RequestFields /\ to.at = "answered" /\ to.how = "ok" /\ to.want = g.want
        /\ to.tree = g.tree /\ to.alone = g.alone /\ to.before = g.before
    BY <1>3, <2>1 DEF RequestFields
  <2>6. PastDefaults(to)
    BY <2>5 DEF PastDefaults, Done
  <2>7. /\ g = founder[r] /\ Under(g) /\ PastDefaults(g) /\ DOMAIN to = RequestFields
        /\ founder' = [founder EXCEPT ![r] = to] /\ PastDefaults(to) /\ to.want = g.want
        /\ to.tree = g.tree /\ to.alone = g.alone /\ to.before = g.before
        /\ UNCHANGED chartOf /\ mainCenters \subseteq mainCenters'
        /\ firm' \in [Firms -> Configurations \cup {Empty}]
    BY <1>1, <1>2, <1>3, <2>2, <2>4, <2>5, <2>6
  <2>8. FirmsStay
    BY <1>1, <1>2, <1>3, <1>4, <2>3, <2>4 DEF FirmsStay
  <2>9. /\ PastCenter(to) => Prefix[Own(g)] \in mainCenters'
        /\ CenterFilled(to) => firm'[Own(g)].center # Empty
        /\ Done(to) => firm'[Own(g)].roundOff # Empty
    BY <1>1, <1>2, <1>4, <2>3, <2>4, <2>5, <2>6 DEF PastCenter, Done
  <2> QED BY ONLY SetupInv, r \in Founders, <2>7, <2>8, <2>9, LateStep
<1> QED BY <1>5, <1>6

\* A user picks a sales tax: nothing that a setup has promised.
LEMMA PickSalesTaxPreserves ==
    ASSUME SetupInv, NEW c \in Firms, NEW tax \in SalesTaxes \cup {Empty}, PickSalesTax(c, tax)
    PROVE  SetupInv'
<1>1. firm[c] # Empty /\ firm[c] \in Configurations /\ UNCHANGED <<chartOf, mainCenters, founder>>
  BY DEF PickSalesTax, SetupInv, SetupTypeOK
<1>2. PICK m : m = [firm[c] EXCEPT !.salesTax = tax]
  OBVIOUS
<1>3. /\ m \in Configurations /\ m # Empty /\ m.defaults = firm[c].defaults
      /\ m.center = firm[c].center /\ m.roundOff = firm[c].roundOff
  BY <1>1, <1>2, SetupAssumption DEF Configurations
<1>4. firm' = [firm EXCEPT ![c] = m]
  BY <1>2 DEF PickSalesTax
<1>5. /\ firm' \in [Firms -> Configurations \cup {Empty}] /\ firm'[c] = m
      /\ \A b \in Firms \ {c} : firm'[b] = firm[b]
  BY <1>3, <1>4 DEF SetupInv, SetupTypeOK
<1>6. OnlyMore
  BY <1>1, <1>3, <1>5 DEF OnlyMore
<1>7. \A n : AccountThere(n)' = AccountThere(n)
  BY <1>1 DEF AccountThere
<1>8. SetupTypeOK' /\ ChartIsPlanned'
  BY <1>1, <1>5, <1>7 DEF SetupInv, SetupTypeOK, ChartIsPlanned, IsSetup
<1>9. FirmsAreSound'
  <2>1. ASSUME NEW b \in Firms, firm'[b] # Empty
        PROVE  /\ \A f \in Fields : firm'[b].defaults[f] # Empty => AccountThere(firm[b].defaults[f])'
               /\ {firm'[b].center, firm'[b].roundOff} \subseteq mainCenters' \cup {Empty}
    <3>1. /\ firm[b] # Empty /\ firm'[b].defaults = firm[b].defaults
          /\ firm'[b].center = firm[b].center /\ firm'[b].roundOff = firm[b].roundOff
      BY <1>1, <1>3, <1>5, <2>1
    <3> QED BY <1>1, <1>7, <3>1 DEF SetupInv, FirmsAreSound
  <2> QED BY <2>1 DEF FirmsAreSound
<1>10. ASSUME NEW r \in Founders PROVE Promised(founder[r])' /\ Undisturbed(founder[r], r)'
  <2>1. PICK g : g = founder[r]
    OBVIOUS
  <2>2. IsSetup(g) /\ Promised(g) /\ Undisturbed(g, r)
    BY <2>1 DEF SetupInv, SetupTypeOK
  <2>3. Promised(g)'
    BY <1>6, <2>2, PromiseIsKept
  <2>4. Begun(g) => Own(g) \in Firms
    BY <2>2, Plans DEF IsSetup, Own
  <2>5. Undisturbed(g, r)'
    <3> SUFFICES ASSUME Begun(g), g.alone
                 PROVE  /\ Under(g) => \A q \in Founders \ {r} : ~Under(founder'[q])
                        /\ \A f \in Fields : g.before[f] # Empty =>
                              /\ firm'[Own(g)] # Empty /\ firm'[Own(g)].defaults[f] = g.before[f]
                              /\ \A q \in Founders : ~ToReplace(founder'[q], Own(g), f)
      BY DEF Undisturbed
    <3>1. /\ Under(g) => \A q \in Founders \ {r} : ~Under(founder[q])
          /\ \A f \in Fields : g.before[f] # Empty =>
                /\ firm[Own(g)] # Empty /\ firm[Own(g)].defaults[f] = g.before[f]
                /\ \A q \in Founders : ~ToReplace(founder[q], Own(g), f)
      BY <2>2 DEF Undisturbed
    <3>2. \A b \in Firms : firm[b] # Empty => firm'[b] # Empty /\ firm'[b].defaults = firm[b].defaults
      BY <1>3, <1>5
    <3> QED BY <1>1, <2>4, <3>1, <3>2
  <2> QED BY <1>1, <2>1, <2>3, <2>5 DEF Promised, Undisturbed
<1> QED BY <1>8, <1>9, <1>10 DEF SetupInv

\* Every state: what a setup has written is there to stay.
THEOREM SetupInvariant == SetupSpec => []SetupInv
<1>1. SetupInv /\ [SetupNext]_setupVars => SetupInv'
  <2> SUFFICES ASSUME SetupInv, [SetupNext]_setupVars PROVE SetupInv'
    OBVIOUS
  <2>1. CASE UNCHANGED setupVars
    <3>1. UNCHANGED <<firm, chartOf, mainCenters, founder>>
      BY <2>1 DEF setupVars
    <3> QED BY <3>1 DEF SetupInv, SetupTypeOK, ChartIsPlanned, FirmsAreSound, Promised, Undisturbed,
                        AccountThere, Provided, IsSetup
  <2>2. CASE SetupNext
    BY <2>2, BeginSetupPreserves, CheckNewPreserves, InsertFirmPreserves, ReadStatePreserves,
       LookForAccountPreserves, InsertAccountPreserves, ReadDefaultPreserves, SetDefaultsPreserves,
       LooksPreserve, SetSalesTaxPreserves, InsertCenterPreserves, FillsPreserve, DieInSetupPreserves,
       PickSalesTaxPreserves
       DEF SetupNext
  <2> QED BY <2>1, <2>2
<1> QED BY InitialSetup, <1>1, PTL DEF SetupSpec

\* The sales tax is as the request found it until it sets its pack's, if nobody else sets it.
PastTax(g) == g.at \in {"center", "newCenter", "centerDefault", "roundOff"} \/ Done(g)
TaxOf(g, tax) == IF PastTax(g) THEN SalesTaxAfter(g.want, tax) ELSE tax
TaxFollows(g, found) ==
    Under(g) \/ Done(g) => \A tax \in found : SalesTaxOf(Own(g)) = TaxOf(g, tax)
TaxInv ==
    /\ foundTax = [r \in Founders |-> foundTax[r]]
    /\ \A r \in Founders : TaxFollows(founder[r], foundTax[r])

\* A step of one request that sets no sales tax.
LEMMA TaxQuiet ==
    ASSUME SetupInv, TaxInv, NEW r \in Founders, NEW to, founder' = [founder EXCEPT ![r] = to],
           foundTax' = foundTax \/ foundTax' = [foundTax EXCEPT ![r] = {}],
           \A c \in Firms : SalesTaxOf(c)' = SalesTaxOf(c),
           Under(to) \/ Done(to) => /\ Under(founder[r]) /\ to.want = founder[r].want
                                    /\ PastTax(to) <=> PastTax(founder[r])
    PROVE  TaxInv'
<1>1. /\ founder'[r] = to /\ \A q \in Founders \ {r} : founder'[q] = founder[q]
      /\ foundTax' = [q \in Founders |-> foundTax'[q]]
      /\ \A q \in Founders : foundTax'[q] = foundTax[q] \/ foundTax'[q] = {}
  BY DEF SetupInv, SetupTypeOK, TaxInv
<1>2. ASSUME NEW q \in Founders PROVE TaxFollows(founder[q], foundTax[q])'
  <2>1. PICK g, h, found : g = founder[q] /\ h = founder'[q] /\ found = foundTax'[q]
    OBVIOUS
  <2> SUFFICES ASSUME NEW tax \in found, Under(h) \/ Done(h)
               PROVE  SalesTaxOf(Own(h))' = TaxOf(h, tax)
    BY <2>1 DEF TaxFollows, TaxOf, Under, Done, Own, PastTax, SalesTaxOf
  <2>2. (Under(g) \/ Done(g)) /\ h.want = g.want /\ (PastTax(h) <=> PastTax(g))
    <3>1. CASE q = r
      <4>1. g = founder[r] /\ h = to
        BY <1>1, <2>1, <3>1
      <4>2. Under(to) \/ Done(to)
        BY <4>1
      <4>3. Under(g) /\ h.want = g.want /\ (PastTax(to) <=> PastTax(founder[r]))
        BY <4>1, <4>2
      <4> QED BY <4>1, <4>3
    <3>2. CASE q # r
      BY <1>1, <2>1, <3>2
    <3> QED BY <3>1, <3>2
  <2>3. Own(g) \in Firms /\ Own(h) = Own(g)
    BY <2>1, <2>2, Request DEF Own, Under, Done, Begun
  <2>4. SalesTaxOf(Own(g)) = TaxOf(g, tax)
    BY <1>1, <2>1, <2>2 DEF TaxInv, TaxFollows
  <2> QED BY <2>2, <2>3, <2>4 DEF TaxOf
<1> QED BY <1>1, <1>2 DEF TaxInv

\* At first there are no requests.
LEMMA TaxStarts == SetupInit => TaxInv
<1>1. NoRequest.at = "idle"
  BY DEF NoRequest
<1> QED BY <1>1 DEF SetupInit, TaxInv, TaxFollows, Under, Done

\* A request that begins notes the sales tax that it finds.
LEMMA TaxBegins ==
    ASSUME SetupInv, TaxInv, NEW r \in Founders, NEW w \in Wanted, BeginSetup(r, w)
    PROVE  TaxInv'
<1>1. PICK request : /\ founder'[r] = request /\ request.at \in {"new", "state"} /\ request.want = w
  <2> DEFINE others == {q \in Founders \ {r} : founder[q].at \notin {"idle", "answered"}}
             found == IF firm[w.firm] = Empty THEN [f \in Fields |-> Empty] ELSE firm[w.firm].defaults
             request == [NoRequest EXCEPT !.at = IF w.door = "form" THEN "new" ELSE "state",
                                          !.want = w, !.tree = Plan(w).chart,
                                          !.alone = (others = {}), !.before = found]
  <2>1. founder' = [q \in Founders |->
           IF q = r THEN request
           ELSE IF q \in others THEN [founder[q] EXCEPT !.alone = FALSE] ELSE founder[q]]
    BY DEF BeginSetup
  <2>2. request.at \in {"new", "state"} /\ request.want = w
    BY DEF NoRequest
  <2> HIDE DEF others, found, request
  <2> QED BY <2>1, <2>2
<1>2. /\ foundTax' = [foundTax EXCEPT ![r] = {SalesTaxOf(w.firm)}] /\ UNCHANGED firm
      /\ founder' = [q \in Founders |-> founder'[q]]
  BY DEF BeginSetup
<1>3. \A c : SalesTaxOf(c)' = SalesTaxOf(c)
  BY <1>2 DEF SalesTaxOf
<1>4. TaxFollows(founder[r], foundTax[r])'
  <2>1. ~PastTax(request)
    BY <1>1 DEF PastTax, Done
  <2>2. foundTax'[r] = {SalesTaxOf(w.firm)}
    BY <1>2 DEF TaxInv
  <2> QED BY <1>1, <1>3, <2>1, <2>2 DEF TaxFollows, TaxOf, Own, Under, Done, PastTax
<1>5. ASSUME NEW q \in Founders \ {r} PROVE TaxFollows(founder[q], foundTax[q])'
  <2>1. PICK g, to : g = founder[q] /\ to = founder'[q]
    OBVIOUS
  <2>2. to = g \/ to = [g EXCEPT !.alone = FALSE]
    BY <2>1 DEF BeginSetup
  <2>3. Under(g) \/ Done(g) => DOMAIN g = RequestFields
    BY <2>1, Request DEF Under, Done, Begun
  <2>4. DOMAIN g = RequestFields
    BY <2>1 DEF SetupInv, SetupTypeOK, IsSetup
  <2>5. to.at = g.at /\ to.how = g.how /\ to.want = g.want
    BY <2>2, <2>4 DEF RequestFields
  <2>6. foundTax'[q] = foundTax[q]
    BY <1>2 DEF TaxInv
  <2>7. TaxFollows(g, foundTax[q])
    BY <2>1 DEF TaxInv
  <2> QED BY <1>3, <2>1, <2>5, <2>6, <2>7 DEF TaxFollows, TaxOf, Own, Under, Done, PastTax
<1>6. foundTax' = [q \in Founders |-> foundTax'[q]]
  BY <1>2 DEF TaxInv
<1> QED BY <1>4, <1>5, <1>6 DEF TaxInv

\* Someone sets the sales tax of a company; the other companies and their requests see nothing.
LEMMA TaxIsSet ==
    ASSUME SetupInv, TaxInv, NEW c \in Firms, NEW others \in SUBSET Founders,
           NEW tax, firm[c] # Empty, firm[c] \in Configurations,
           firm' = [firm EXCEPT ![c].salesTax = tax], foundTax' = Overtaken(c, others),
           NEW q \in Founders, founder'[q] = founder[q], q \in others
    PROVE  TaxFollows(founder[q], foundTax[q])'
<1>1. PICK g : g = founder[q]
  OBVIOUS
<1> SUFFICES ASSUME NEW old \in foundTax'[q], Under(g) \/ Done(g)
             PROVE  SalesTaxOf(Own(g))' = TaxOf(g, old)
  BY <1>1 DEF TaxFollows, TaxOf, Under, Done, Own, PastTax
<1>2. Own(g) \in Firms /\ g.at # "idle"
  BY <1>1, Request DEF Under, Done, Begun
<1>3. Own(g) # c /\ foundTax'[q] = foundTax[q]
  BY <1>1, <1>2 DEF Overtaken, Own
<1>4. SalesTaxOf(Own(g))' = SalesTaxOf(Own(g))
  BY <1>2, <1>3 DEF SetupInv, SetupTypeOK, SalesTaxOf
<1> QED BY <1>1, <1>3, <1>4 DEF TaxInv, TaxFollows

\* A user picks a sales tax.
LEMMA TaxIsPicked ==
    ASSUME SetupInv, TaxInv, NEW c \in Firms, NEW tax \in SalesTaxes \cup {Empty}, PickSalesTax(c, tax)
    PROVE  TaxInv'
<1>1. /\ firm[c] # Empty /\ firm[c] \in Configurations /\ UNCHANGED founder
      /\ firm' = [firm EXCEPT ![c].salesTax = tax] /\ foundTax' = Overtaken(c, Founders)
  BY DEF PickSalesTax, SetupInv, SetupTypeOK
<1>2. ASSUME NEW q \in Founders PROVE TaxFollows(founder[q], foundTax[q])'
  BY <1>1, TaxIsSet
<1>3. foundTax' = [q \in Founders |-> foundTax'[q]]
  BY <1>1 DEF Overtaken
<1> QED BY <1>2, <1>3 DEF TaxInv

\* A setup makes its pack's standard rate the company's.
LEMMA TaxIsSetUp ==
    ASSUME SetupInv, TaxInv, NEW r \in Founders, SetSalesTax(r)
    PROVE  TaxInv'
<1>1. PICK g, to, c : g = founder[r] /\ to = [g EXCEPT !.at = "center"] /\ c = Own(g)
  OBVIOUS
<1>2. PICK rate : rate = PackSalesTax[ResolvedPack(g.want)]
  OBVIOUS
<1>3. /\ PastDefaults(g) /\ Under(g) /\ g.at = "salesTax" /\ founder' = [founder EXCEPT ![r] = to]
      /\ IF rate = Empty THEN firm' = firm /\ foundTax' = foundTax
         ELSE /\ firm' = [firm EXCEPT ![c].salesTax = Named(c, rate)]
              /\ foundTax' = Overtaken(c, Founders \ {r})
  BY <1>1, <1>2 DEF SetSalesTax, Now, Turned, PastDefaults, Under, TaxStages, Own
<1>4. /\ DOMAIN g = RequestFields /\ c \in Firms /\ c = g.want.firm
      /\ firm[c] \in Configurations /\ firm[c] # Empty
  BY <1>1, <1>3, LateRequest
<1>5. to.at = "center" /\ to.want = g.want
  BY <1>1, <1>4 DEF RequestFields
<1>6. /\ founder'[r] = to /\ \A q \in Founders \ {r} : founder'[q] = founder[q]
      /\ foundTax' = [q \in Founders |-> foundTax'[q]] /\ foundTax'[r] = foundTax[r]
  BY <1>3 DEF SetupInv, SetupTypeOK, TaxInv, Overtaken
<1>7. PastTax(to) /\ ~PastTax(g) /\ Own(to) = c
  BY <1>1, <1>3, <1>5 DEF PastTax, Done, Own
<1>8. ASSUME NEW old \in foundTax'[r] PROVE SalesTaxOf(c)' = TaxOf(to, old)
  <2>1. TaxOf(to, old) = IF rate = Empty THEN old ELSE Named(c, rate)
    BY <1>2, <1>4, <1>5, <1>7 DEF TaxOf, SalesTaxAfter
  <2>2. SalesTaxOf(c) = old
    BY <1>1, <1>3, <1>6, <1>7, <1>8 DEF TaxInv, TaxFollows, TaxOf
  <2>3. CASE rate = Empty
    BY <1>3, <2>1, <2>2, <2>3 DEF SalesTaxOf
  <2>4. CASE rate # Empty
    <3>1. PICK m : m = [firm[c] EXCEPT !.salesTax = Named(c, rate)]
      OBVIOUS
    <3>2. m \in [currency : {m.currency}, defaults : {m.defaults}, salesTax : {Named(c, rate)},
                  center : {m.center}, roundOff : {m.roundOff}]
      BY <1>4, <3>1 DEF Configurations
    <3>3. m.salesTax = Named(c, rate) /\ m.currency = firm[c].currency
      BY <1>4, <3>1 DEF Configurations
    <3>4. firm'[c] = m
      BY <1>3, <1>4, <2>4, <3>1 DEF SetupInv, SetupTypeOK
    <3>5. firm'[c] # Empty
      <4>1. founder'[r] = to /\ Promised(to)'
        BY <1>6, SetSalesTaxPreserves DEF SetupInv, Promised
      <4> QED BY <1>5, <1>7, <4>1 DEF Promised, PastChart, PastDefaults
    <3> QED BY <2>1, <2>4, <3>3, <3>4, <3>5 DEF SalesTaxOf
  <2> QED BY <2>3, <2>4
<1>9. TaxFollows(founder[r], foundTax[r])'
  BY <1>6, <1>7, <1>8 DEF TaxFollows, TaxOf, Under, Done, PastTax, Own
<1>10. ASSUME NEW q \in Founders \ {r} PROVE TaxFollows(founder[q], foundTax[q])'
  <2>1. CASE rate = Empty
    <3>1. \A b : SalesTaxOf(b)' = SalesTaxOf(b)
      BY <1>3, <2>1 DEF SalesTaxOf
    <3> QED BY <1>3, <1>6, <2>1, <3>1 DEF TaxInv, TaxFollows, TaxOf, Under, Done, PastTax, Own
  <2>2. CASE rate # Empty
    <3>1. /\ firm' = [firm EXCEPT ![c].salesTax = Named(c, rate)] /\ foundTax' = Overtaken(c, Founders \ {r})
          /\ Founders \ {r} \in SUBSET Founders /\ q \in Founders \ {r} /\ q \in Founders
          /\ founder'[q] = founder[q]
      BY <1>3, <1>6, <2>2
    <3> QED BY ONLY <3>1, <1>4, SetupInv, TaxInv, TaxIsSet
  <2> QED BY <2>1, <2>2
<1> QED BY <1>6, <1>9, <1>10 DEF TaxInv

\* Every other step leaves the sales taxes alone.
LEMMA TaxIsLeft ==
    ASSUME SetupInv, SetupInv', TaxInv, NEW r \in Founders,
           \/ CheckNew(r) \/ InsertFirm(r) \/ ReadState(r) \/ LookForAccount(r) \/ InsertAccount(r)
           \/ ReadDefault(r) \/ SetDefaults(r) \/ LookForTemplate(r) \/ InsertTemplate(r)
           \/ InsertRate(r) \/ LookForCenter(r) \/ InsertCenter(r) \/ FillCenter(r) \/ FillRoundOff(r)
           \/ DieInSetup(r)
    PROVE  TaxInv'
<1>1. PICK g : g = founder[r]
  OBVIOUS
<1>2. Under(g) /\ Begun(g)
  BY <1>1 DEF CheckNew, InsertFirm, ReadState, LookForAccount, InsertAccount, ReadDefault, SetDefaults,
              LookForTemplate, InsertTemplate, InsertRate, LookForCenter, InsertCenter, FillCenter,
              FillRoundOff, DieInSetup, Now, Under, Begun
<1>3. /\ DOMAIN g = RequestFields /\ g.want \in Wanted /\ Own(g) \in Firms /\ Own(g) = g.want.firm
      /\ firm[Own(g)] # Empty => firm[Own(g)] \in Configurations
      /\ g.at = "insert" => g.back \in {"state", "accounts"}
  BY <1>1, <1>2, Request DEF IsSetup
<1>4. /\ foundTax' = foundTax \/ foundTax' = [foundTax EXCEPT ![r] = {}]
      /\ \A c \in Firms : SalesTaxOf(c)' = SalesTaxOf(c)
  <2>1. CASE UNCHANGED <<firm, foundTax>>
    BY <2>1 DEF SalesTaxOf
  <2>2. CASE DieInSetup(r)
    BY <2>2 DEF DieInSetup, SalesTaxOf
  <2>3. CASE InsertFirm(r) /\ firm' # firm
    <3>1. /\ firm[Own(g)] = Empty /\ firm' = [firm EXCEPT ![Own(g)] = NewFirm(g.want)]
          /\ UNCHANGED foundTax
      BY <1>1, <1>3, <2>3 DEF InsertFirm, Now
    <3>2. NewFirm(g.want).salesTax = Empty
      BY DEF NewFirm
    <3> QED BY <1>3, <3>1, <3>2 DEF SalesTaxOf, SetupInv, SetupTypeOK
  <2>4. CASE SetDefaults(r) \/ FillCenter(r) \/ FillRoundOff(r)
    <3>1. PICK m : /\ firm' = [firm EXCEPT ![Own(g)] = m] /\ UNCHANGED foundTax
                   /\ \/ \E new : m = [firm[Own(g)] EXCEPT !.defaults = new]
                      \/ \E new : m = [firm[Own(g)] EXCEPT !.center = new]
                      \/ \E new : m = [firm[Own(g)] EXCEPT !.roundOff = new]
      <4>1. CASE SetDefaults(r)
        <5>1. PICK new : firm' = [firm EXCEPT ![Own(g)] = [firm[Own(g)] EXCEPT !.defaults = new]]
          BY <1>1, <1>3, <4>1 DEF SetDefaults, Now
        <5> QED BY <4>1, <5>1 DEF SetDefaults
      <4>2. CASE FillCenter(r)
        <5>1. PICK new : firm' = [firm EXCEPT ![Own(g)] = [firm[Own(g)] EXCEPT !.center = new]]
          BY <1>1, <1>3, <4>2 DEF FillCenter, Now
        <5> QED BY <4>2, <5>1 DEF FillCenter
      <4>3. CASE FillRoundOff(r)
        <5>1. PICK new : firm' = [firm EXCEPT ![Own(g)] = [firm[Own(g)] EXCEPT !.roundOff = new]]
          BY <1>1, <1>3, <4>3 DEF FillRoundOff, Now
        <5> QED BY <4>3, <5>1 DEF FillRoundOff
      <4> QED BY <2>4, <4>1, <4>2, <4>3
    <3>2. firm[Own(g)] # Empty /\ firm'[Own(g)] # Empty
      <4>1. PastChart(g) /\ Promised(g)
        BY <1>1, <1>2, <2>4, Request DEF SetDefaults, FillCenter, FillRoundOff, Now, PastChart, PastDefaults
      <4>2. PICK to : to = founder'[r]
        OBVIOUS
      <4>3. /\ to.want = g.want
            /\ to.at \in {"taxes", "roundOff"} \/ (to.at = "answered" /\ to.how = "ok")
        <5>1. CASE SetDefaults(r)
          BY <1>1, <1>3, <4>2, <5>1 DEF SetDefaults, Turned, Now, RequestFields, SetupInv, SetupTypeOK
        <5>2. CASE FillCenter(r)
          BY <1>1, <1>3, <4>2, <5>2 DEF FillCenter, Turned, Now, RequestFields, SetupInv, SetupTypeOK
        <5>3. CASE FillRoundOff(r)
          BY <1>1, <1>3, <4>2, <5>3 DEF FillRoundOff, Conclude, Turned, Now, RequestFields, SetupInv,
             SetupTypeOK
        <5> QED BY <2>4, <5>1, <5>2, <5>3
      <4>4. Promised(to)'
        BY <4>2 DEF SetupInv, Promised
      <4> QED BY <4>1, <4>3, <4>4 DEF Promised, PastChart, PastDefaults, TaxStages, Done, Own
    <3> QED BY <1>3, <3>1, <3>2 DEF SalesTaxOf, SetupInv, SetupTypeOK, Configurations
  <2>5. CASE UNCHANGED firm
    <3>1. UNCHANGED foundTax \/ DieInSetup(r)
      <4>1. CASE CheckNew(r) \/ InsertFirm(r) \/ ReadState(r) \/ LookForAccount(r) \/ InsertAccount(r)
        BY <4>1 DEF CheckNew, InsertFirm, ReadState, LookForAccount, InsertAccount
      <4>2. CASE ReadDefault(r) \/ SetDefaults(r) \/ LookForTemplate(r) \/ InsertTemplate(r) \/ InsertRate(r)
        BY <4>2 DEF ReadDefault, SetDefaults, LookForTemplate, InsertTemplate, InsertRate
      <4>3. CASE LookForCenter(r) \/ InsertCenter(r) \/ FillCenter(r) \/ FillRoundOff(r)
        BY <4>3 DEF LookForCenter, InsertCenter, FillCenter, FillRoundOff
      <4> QED BY <4>1, <4>2, <4>3
    <3> QED BY <2>1, <2>2, <2>5, <3>1
  <2>6. UNCHANGED firm \/ InsertFirm(r) \/ SetDefaults(r) \/ FillCenter(r) \/ FillRoundOff(r)
    BY DEF CheckNew, ReadState, LookForAccount, InsertAccount, ReadDefault, LookForTemplate,
           InsertTemplate, InsertRate, LookForCenter, InsertCenter, DieInSetup
  <2> QED BY <2>2, <2>3, <2>4, <2>5, <2>6
<1>5. PICK to : founder' = [founder EXCEPT ![r] = to]
  <2>1. CASE CheckNew(r) \/ InsertFirm(r) \/ ReadState(r) \/ LookForAccount(r) \/ InsertAccount(r)
    BY <2>1 DEF CheckNew, InsertFirm, ReadState, LookForAccount, InsertAccount, Conclude, Turned
  <2>2. CASE ReadDefault(r) \/ SetDefaults(r) \/ LookForTemplate(r) \/ InsertTemplate(r) \/ InsertRate(r)
    BY <2>2 DEF ReadDefault, SetDefaults, LookForTemplate, InsertTemplate, InsertRate, Conclude, Turned
  <2>3. CASE LookForCenter(r) \/ InsertCenter(r) \/ FillCenter(r) \/ FillRoundOff(r) \/ DieInSetup(r)
    BY <2>3 DEF LookForCenter, InsertCenter, FillCenter, FillRoundOff, DieInSetup, Conclude, Turned
  <2> QED BY <2>1, <2>2, <2>3
<1>6. to = founder'[r]
  BY <1>5 DEF SetupInv, SetupTypeOK
<1> DEFINE Late == {"center", "newCenter", "centerDefault", "roundOff"}
<1>7. \/ ~Under(to) /\ ~Done(to)
      \/ /\ to.want = g.want
         /\ \/ {to.at, g.at} \subseteq Late \/ (g.at = "roundOff" /\ to.at = "answered" /\ to.how = "ok")
            \/ {to.at, g.at} \cap (Late \cup {"answered"}) = {}
  <2>1. CASE Conclude(r, "refused") \/ Conclude(r, "failed")
    <3>1. to.at = "answered" /\ to.how # "ok"
      BY <1>1, <1>3, <1>6, <2>1 DEF Conclude, Turned, Now, RequestFields, SetupInv, SetupTypeOK
    <3> QED BY <3>1 DEF Under, Done
  <2>2. CASE DieInSetup(r)
    <3>1. to.at = "idle"
      BY <1>6, <2>2 DEF DieInSetup, NoRequest, SetupInv, SetupTypeOK
    <3> QED BY <3>1 DEF Under, Done
  <2>3. CASE CheckNew(r) /\ ~Conclude(r, "refused")
    <3>1. founder' = [founder EXCEPT ![r] = [g EXCEPT !.at = "insert", !.back = "state"]]
      BY <1>1, <2>3 DEF CheckNew, Turned, Now
    <3>2. to = [g EXCEPT !.at = "insert", !.back = "state"]
      BY <1>6, <3>1 DEF SetupInv, SetupTypeOK
    <3>3. to.want = g.want /\ to.at = "insert" /\ g.at = "new"
      BY <1>1, <1>3, <2>3, <3>2 DEF CheckNew, Now, RequestFields
    <3> QED BY <3>3
  <2>4. CASE InsertFirm(r) /\ ~Conclude(r, "failed")
    <3>1. founder' = [founder EXCEPT ![r] = [g EXCEPT !.at = g.back, !.next = 1]]
      BY <1>1, <2>4 DEF InsertFirm, Turned, Now
    <3>2. to = [g EXCEPT !.at = g.back, !.next = 1]
      BY <1>6, <3>1 DEF SetupInv, SetupTypeOK
    <3>3. to.want = g.want /\ to.at = g.back /\ g.at = "insert"
      BY <1>1, <1>3, <2>4, <3>2 DEF InsertFirm, Now, RequestFields
    <3> QED BY <1>3, <3>3
  <2>5. CASE ReadState(r) /\ ~Conclude(r, "refused")
    <3>1. \/ founder' = [founder EXCEPT ![r] = [g EXCEPT !.at = "insert", !.back = "accounts"]]
          \/ founder' = [founder EXCEPT ![r] = [g EXCEPT !.at = "accounts", !.next = 1]]
      BY <1>1, <2>5 DEF ReadState, Turned, Now
    <3>2. \/ to = [g EXCEPT !.at = "insert", !.back = "accounts"]
          \/ to = [g EXCEPT !.at = "accounts", !.next = 1]
      BY <1>6, <3>1 DEF SetupInv, SetupTypeOK
    <3>3. to.want = g.want /\ to.at \in {"insert", "accounts"} /\ g.at = "state"
      BY <1>1, <1>3, <2>5, <3>2 DEF ReadState, Now, RequestFields
    <3> QED BY <3>3
  <2>6. CASE LookForAccount(r)
    <3>1. to.want = g.want /\ to.at \in {"defaults", "accounts", "account"} /\ g.at = "accounts"
      BY <1>1, <1>3, <1>6, <2>6 DEF LookForAccount, Further, Turned, Now, RequestFields,
         SetupInv, SetupTypeOK
    <3> QED BY <3>1
  <2>7. CASE InsertAccount(r) /\ ~Conclude(r, "failed")
    <3>1. \/ founder' = [founder EXCEPT ![r] = [g EXCEPT !.at = "defaults", !.next = 1, !.toSet = <<>>]]
          \/ founder' = [founder EXCEPT ![r] = [g EXCEPT !.at = "accounts", !.next = Onward(g.tree, g.next, FALSE)]]
      BY <1>1, <2>7 DEF InsertAccount, Further, Turned, Now
    <3>2. \/ to = [g EXCEPT !.at = "defaults", !.next = 1, !.toSet = <<>>]
          \/ to = [g EXCEPT !.at = "accounts", !.next = Onward(g.tree, g.next, FALSE)]
      BY <1>6, <3>1 DEF SetupInv, SetupTypeOK
    <3>3. to.want = g.want /\ to.at \in {"defaults", "accounts"} /\ g.at = "account"
      BY <1>1, <1>3, <2>7, <3>2 DEF InsertAccount, Now, RequestFields
    <3> QED BY <3>3
  <2>8. CASE ReadDefault(r)
    <3>1. to.want = g.want /\ to.at = "defaults" /\ g.at = "defaults"
      BY <1>1, <1>3, <1>6, <2>8 DEF ReadDefault, Turned, Now, RequestFields,
         SetupInv, SetupTypeOK
    <3> QED BY <3>1
  <2>9. CASE SetDefaults(r)
    <3>1. to.want = g.want /\ to.at = "taxes" /\ g.at = "defaults"
      BY <1>1, <1>3, <1>6, <2>9 DEF SetDefaults, Turned, Now, RequestFields,
         SetupInv, SetupTypeOK
    <3> QED BY <3>1
  <2>10. CASE LookForTemplate(r)
    <3>1. to.want = g.want /\ to.at \in TaxStages /\ g.at = "taxes"
      BY <1>1, <1>3, <1>6, <2>10 DEF LookForTemplate, TaxStages, Turned, Now, RequestFields,
         SetupInv, SetupTypeOK
    <3> QED BY <3>1 DEF TaxStages
  <2>11. CASE InsertTemplate(r) /\ ~Conclude(r, "failed")
    <3>1. to.want = g.want /\ to.at = "rate" /\ g.at = "template"
      BY <1>1, <1>3, <1>6, <2>11 DEF InsertTemplate, Turned, Now, RequestFields,
         SetupInv, SetupTypeOK
    <3> QED BY <3>1
  <2>12. CASE InsertRate(r)
    <3>1. to.want = g.want /\ to.at = "taxes" /\ g.at = "rate"
      BY <1>1, <1>3, <1>6, <2>12 DEF InsertRate, Turned, Now, RequestFields,
         SetupInv, SetupTypeOK
    <3> QED BY <3>1
  <2>13. CASE LookForCenter(r)
    <3>1. to.want = g.want /\ to.at \in {"newCenter", "centerDefault"} /\ g.at = "center"
      BY <1>1, <1>3, <1>6, <2>13 DEF LookForCenter, Turned, Now, RequestFields,
         SetupInv, SetupTypeOK
    <3> QED BY <3>1
  <2>14. CASE InsertCenter(r) /\ ~Conclude(r, "failed")
    <3>1. to.want = g.want /\ to.at = "centerDefault" /\ g.at = "newCenter"
      BY <1>1, <1>3, <1>6, <2>14 DEF InsertCenter, Turned, Now, RequestFields,
         SetupInv, SetupTypeOK
    <3> QED BY <3>1
  <2>15. CASE FillCenter(r)
    <3>1. to.want = g.want /\ to.at = "roundOff" /\ g.at = "centerDefault"
      BY <1>1, <1>3, <1>6, <2>15 DEF FillCenter, Turned, Now, RequestFields,
         SetupInv, SetupTypeOK
    <3> QED BY <3>1
  <2>16. CASE FillRoundOff(r)
    <3>1. to.want = g.want /\ to.at = "answered" /\ to.how = "ok" /\ g.at = "roundOff"
      BY <1>1, <1>3, <1>6, <2>16 DEF FillRoundOff, Conclude, Turned, Now, RequestFields,
         SetupInv, SetupTypeOK
    <3> QED BY <3>1
  <2> QED BY <2>1, <2>2, <2>3, <2>4, <2>5, <2>6, <2>7, <2>8, <2>9, <2>10, <2>11, <2>12, <2>13, <2>14,
             <2>15, <2>16
<1>8. Under(to) \/ Done(to) => to.want = g.want /\ (PastTax(to) <=> PastTax(g))
  BY <1>7 DEF Under, Done, PastTax
<1> QED BY <1>1, <1>2, <1>4, <1>5, <1>8, TaxQuiet

\* Every state: the sales tax is as found, or as the pack has it.
THEOREM SalesTaxInvariant == SetupSpec => []TaxInv
<1>1. SetupInv /\ SetupInv' /\ TaxInv /\ [SetupNext]_setupVars => TaxInv'
  <2> SUFFICES ASSUME SetupInv, SetupInv', TaxInv, [SetupNext]_setupVars PROVE TaxInv'
    OBVIOUS
  <2>1. CASE UNCHANGED setupVars
    BY <2>1 DEF setupVars, TaxInv, TaxFollows, TaxOf, SalesTaxOf
  <2>2. CASE SetupNext
    BY <2>2, TaxBegins, TaxIsPicked, TaxIsSetUp, TaxIsLeft DEF SetupNext
  <2> QED BY <2>1, <2>2
<1> QED BY <1>1, TaxStarts, SetupInvariant, PTL DEF SetupSpec

\* Whatever became of other attempts, before it or beside it, a setup that answers ok leaves
\* the chart, the defaults and the cost center of its plan; one that ran alone has kept every
\* default account it found; and the sales tax is as it was unless the pack has a standard
\* rate, which then replaces it (accounting/setup/engine.py, apply_company_setup).
THEOREM SetupsConverge == SetupSpec => []SetupConverges
<1>1. SetupInv /\ TaxInv => SetupConverges
  <2> SUFFICES ASSUME SetupInv, TaxInv, NEW r \in Founders, founder[r].at = "answered", founder[r].how = "ok",
                      NEW g, g = founder[r], NEW c, c = g.want.firm
               PROVE  /\ \A i \in DOMAIN g.tree : AccountThere(Named(c, g.tree[i].leaf))
                      /\ \A a \in chartOf : a.parent # Empty =>
                            \E p \in chartOf : p.name = a.parent /\ p.group
                      /\ \A d \in ToSet(Plan(g.want).defaults) :
                            (\E i \in DOMAIN g.tree : g.tree[i].leaf = d.leaf) =>
                                firm[c].defaults[d.field] # Empty
                      /\ \A f \in Fields : firm[c].defaults[f] # Empty => AccountThere(firm[c].defaults[f])
                      /\ {firm[c].center, firm[c].roundOff} \subseteq mainCenters
                      /\ g.alone => \A f \in Fields : g.before[f] # Empty => firm[c].defaults[f] = g.before[f]
                      /\ \A tax \in foundTax[r] : firm[c].salesTax = SalesTaxAfter(g.want, tax)
    BY SMTT(60) DEF SetupConverges
  <2>1. Done(g) /\ PastDefaults(g) /\ PastChart(g) /\ CenterFilled(g) /\ Begun(g)
    BY DEF Done, PastDefaults, PastChart, CenterFilled, Begun
  <2>2. /\ Promised(g) /\ c = Own(g) /\ c \in Firms /\ g.want \in Wanted
        /\ Planned(g) = PlannedDefaults(g.want)
    BY <2>1, Request
  <2>3. firm[c] # Empty /\ \A i \in DOMAIN g.tree : AccountThere(Named(c, g.tree[i].leaf))
    BY <2>1, <2>2 DEF Promised
  <2>4. ASSUME NEW a \in chartOf, a.parent # Empty
        PROVE  \E p \in chartOf : p.name = a.parent /\ p.group
    <3>1. PICK p \in chartOf : p.name = a.parent
      BY <2>4 DEF SetupInv, ChartIsPlanned, AccountThere
    <3>2. PICK v, w, i, j, t, u :
              /\ v \in Wanted /\ w \in Wanted /\ t = PlannedChart(v) /\ u = PlannedChart(w)
              /\ i \in DOMAIN t /\ j \in DOMAIN u
              /\ a = NewAccount(v, t, i) /\ p = NewAccount(w, u, j)
      BY DEF SetupInv, ChartIsPlanned
    <3>3. t[i].within # <<>> /\ a.parent = Named(v.firm, Last(t[i].within))
      BY <2>4, <3>2 DEF NewAccount
    <3>4. p.name = Named(w.firm, u[j].leaf) /\ p.group = IsGroup(u, u[j].leaf)
      BY <3>2 DEF NewAccount
    <3>5. u[j].leaf = Last(t[i].within)
      BY <3>1, <3>3, <3>4 DEF Named
    <3>6. IsGroup(t, u[j].leaf)
      BY <3>2, <3>3, <3>5 DEF IsGroup
    <3>7. PICK k \in DOMAIN t : t[k].leaf = u[j].leaf
      <4>1. /\ t = PlannedChart(v) /\ DOMAIN t = 1..Len(t)
            /\ \A m \in DOMAIN t : t[m].within # <<>> =>
                  \E n \in 1..(m - 1) : t[n].leaf = Last(t[m].within)
        BY <3>2, SetupAssumption, Plans
      <4>2. PICK n \in 1..(i - 1) : t[n].leaf = Last(t[i].within)
        BY ONLY <4>1, <3>2, <3>3
      <4>3. n \in DOMAIN t
        BY <3>2, <4>1, <4>2
      <4> QED BY <3>5, <4>2, <4>3
    <3>8. IsGroup(u, u[j].leaf)
      BY <3>2, <3>6, <3>7, SetupAssumption
    <3> QED BY <3>1, <3>4, <3>8
  <2>5. ASSUME NEW d \in ToSet(Plan(g.want).defaults), \E i \in DOMAIN g.tree : g.tree[i].leaf = d.leaf
        PROVE  firm[c].defaults[d.field] # Empty
    <3>1. PICK k \in 1..Len(Planned(g)) : d = Planned(g)[k]
      BY <2>2, Plans DEF Plan
    <3>2. Provided(g, Planned(g)[k], {})
      BY <2>1, <2>2 DEF Promised
    <3> QED BY <2>2, <2>5, <3>1, <3>2 DEF Provided
  <2>6. /\ \A f \in Fields : firm[c].defaults[f] # Empty => AccountThere(firm[c].defaults[f])
        /\ {firm[c].center, firm[c].roundOff} \subseteq mainCenters \cup {Empty}
    BY <2>2, <2>3 DEF SetupInv, FirmsAreSound
  <2>7. firm[c].center # Empty /\ firm[c].roundOff # Empty
    BY <2>1, <2>2 DEF Promised
  <2>8. g.alone => \A f \in Fields : g.before[f] # Empty => firm[c].defaults[f] = g.before[f]
    BY <2>1, <2>2 DEF SetupInv, Undisturbed
  <2>9. \A tax \in foundTax[r] : firm[c].salesTax = SalesTaxAfter(g.want, tax)
    BY <2>1, <2>2, <2>3 DEF TaxInv, TaxFollows, TaxOf, PastTax, SalesTaxOf
  <2>10. {firm[c].center, firm[c].roundOff} \subseteq mainCenters
    BY <2>6, <2>7
  <2> QED BY <2>3, <2>4, <2>5, <2>6, <2>8, <2>9, <2>10, Zenon
<1> QED BY SetupInvariant, SalesTaxInvariant, <1>1, PTL
=============================================================================
