------------------------- MODULE StockLedgerProofs -------------------------
(***************************************************************************)
(* What holds of the stock ledger for any number of sessions, documents,   *)
(* items and warehouses.  The inductive invariant is a locking discipline: *)
(* a request that posts holds the row of every item its document names, so *)
(* the bins it has read stay as it read them until it commits, and what it *)
(* sees in a bin is the committed bin plus what it has moved itself.  Rows *)
(* are taken in the order of their rank, so whoever waits for a row holds  *)
(* only rows of lower rank, and no circle of waiting requests can close    *)
(* without one that plans orders or returns an ordered receipt.            *)
(***************************************************************************)
EXTENDS StockLedger, Sums, TLAPS, FiniteSetTheorems, WellFoundedInduction

\* What entries add to a bin.
AtQty(seq, b) == QtyIn(seq, At(seq, b))
AtCost(seq, b) == CostIn(seq, At(seq, b))

\* The rows a request has locked are its own and those it went past in order.
LocksOk(s) ==
    /\ job[s].doc \in Documents
    /\ lock[job[s].doc] = s
    /\ status[job[s].doc] = Expected(job[s].op)
    /\ job[s].locks \subseteq Referenced(job[s].doc)
    /\ job[s].at = "post" => job[s].locks = {}
    /\ \A r \in Referenced(job[s].doc) \ job[s].locks : lock[r] = s
    /\ \A r \in Documents \cup Items :
          lock[r] = s => r = job[s].doc \/ r \in Referenced(job[s].doc) \ job[s].locks
    /\ \A r \in Referenced(job[s].doc) \ job[s].locks :
          \A q \in job[s].locks : LockRank(r) < LockRank(q)
    /\ \A b \in Bins : lock[b] = s =>
          job[s].at = "post" /\ (ItemOf[b] \in ItemsOf(job[s].doc) \/ job[s].legs = {})

\* What a request sees in a bin it read or wrote, and that it holds the item.
WorkOk(s) ==
    /\ \A b \in Bins \ job[s].touched : AtQty(job[s].posted, b) = 0 /\ AtCost(job[s].posted, b) = 0
    /\ \A b \in job[s].touched :
          /\ job[s].at = "post" /\ ItemOf[b] \in ItemsOf(job[s].doc)
          /\ job[s].work[b].qty = bin[b].qty + AtQty(job[s].posted, b)
          /\ job[s].work[b].value = bin[b].value + AtCost(job[s].posted, b)
          /\ job[s].op = "submit" => job[s].work[b].qty >= 0 \/ job[s].work[b] = bin[b]

\* Every movement of a request is of an item its document names.
LegsOk(s) ==
    /\ job[s].at = "post" => job[s].legs \subseteq Movements(job[s].op, job[s].doc)
    /\ \A k \in DOMAIN job[s].posted :
          ItemOf[job[s].posted[k].bin] \in ItemsOf(job[s].doc)

SessionOk(s) == job[s].at # "idle" => LocksOk(s) /\ WorkOk(s) /\ LegsOk(s)

EntriesNamed ==
    \A d \in Documents : \A k \in DOMAIN entries[d] :
        ItemOf[entries[d][k].bin] \in ItemsOf(d)

StockInv == /\ TypeOK
            /\ BinMatchesLedger
            /\ EntriesNamed
            /\ \A s \in Sessions : SessionOk(s)

-----------------------------------------------------------------------------
(* The documents *)

\* A document names bins and items that exist.
LEMMA NamedRows ==
    ASSUME NEW d \in Documents
    PROVE  /\ BinsOf(d) \subseteq Bins
           /\ ItemsOf(d) \subseteq Items
           /\ Referenced(d) \subseteq Documents \cup Items /\ ItemsOf(d) \subseteq Referenced(d)
           /\ Documents \cup Items \subseteq Lockable /\ Bins \subseteq Lockable
           /\ LinesOf(d) \subseteq Documents \X Bins
<1> USE StockAssumption
<1>1. RowsOf[d] \in Seq(Rows)
  OBVIOUS
<1>2. \A i \in DOMAIN RowsOf[d] : RowsOf[d][i] \in Rows
  BY <1>1
<1>3. BinsOf(d) \subseteq Bins
  BY <1>2 DEF BinsOf, Rows
<1>4. ItemsOf(d) \subseteq Items
  BY <1>3 DEF ItemsOf
<1>5. OrdersOf[d] \subseteq Documents
  BY OrderAssumption
<1>6. LinesOf(d) \subseteq Documents \X Bins
  BY <1>5 DEF LinesOf, Planned
<1> QED BY <1>3, <1>4, <1>5, <1>6 DEF Referenced, Lockable

\* A numbered movement of a document is of one of its bins.
LEMMA LegType ==
    ASSUME NEW d \in Documents, NEW k \in LegsOf(d)
    PROVE  Leg(d, k) \in Moves /\ ItemOf[Leg(d, k).bin] \in ItemsOf(d)
<1> USE StockAssumption
<1> DEFINE i == (k + 1) \div 2
<1>1. RowsOf[d] \in Seq(Rows) /\ k \in 1..(2 * Len(RowsOf[d])) /\ Leg(d, k).bin # None
  BY DEF LegsOf
<1>2. i \in 1..Len(RowsOf[d])
  <2>1. Len(RowsOf[d]) \in Nat
    BY <1>1
  <2> QED BY <1>1, <2>1
<1> DEFINE r == RowsOf[d][i]
<1>3. r \in Rows /\ i \in DOMAIN RowsOf[d]
  BY <1>1, <1>2
<1> HIDE DEF i
<1>4. Leg(d, k) = IF k % 2 = 1 THEN Leaving(d, r) ELSE Arriving(d, r)
  BY DEF Leg, i
<1> HIDE DEF r
<1>5. -r.qty \in Int /\ r.qty \in Int /\ r.rate \in Int
  BY <1>3 DEF Rows
<1>6. Leg(d, k) = Leaving(d, r) \/ Leg(d, k) = Arriving(d, r)
  BY <1>4
<1>7. Leg(d, k).bin \in {r.from, r.to} \ {None}
  BY <1>6, <1>1 DEF Leaving, Arriving
<1>8. Leg(d, k).bin \in BinsOf(d)
  BY <1>7, <1>3 DEF BinsOf, r
<1>9. Leg(d, k).bin \in Bins
  BY <1>8, NamedRows
<1>10. Leg(d, k) \in Moves
  <2>1. CASE Leg(d, k) = Leaving(d, r)
    BY <2>1, <1>5, <1>9 DEF Leaving, Moves
  <2>2. CASE Leg(d, k) = Arriving(d, r)
    BY <2>2, <1>5, <1>9 DEF Arriving, Moves
  <2> QED BY <1>6, <2>1, <2>2
<1> QED BY <1>8, <1>10 DEF ItemsOf

\* So is every movement of a request.
LEMMA MoveType ==
    ASSUME StockInv, NEW o \in {"submit", "cancel"}, NEW d \in Documents, NEW k \in Movements(o, d)
    PROVE  /\ Movement(o, d, k) \in Moves
           /\ ItemOf[Movement(o, d, k).bin] \in ItemsOf(d)
<1>2. CASE ReadsBack(o, d)
  <2>1. k \in DOMAIN entries[d] /\ entries[d] \in Seq(Entries)
    BY <1>2 DEF Movements, StockInv, TypeOK
  <2>2. entries[d][k] \in Entries
    BY <2>1
  <2>3. -entries[d][k].qty \in Int
    BY <2>2 DEF Entries
  <2>4. Movement(o, d, k) = [bin |-> entries[d][k].bin, qty |-> -entries[d][k].qty,
                             rate |-> entries[d][k].rate, basis |-> "given"]
    BY <1>2 DEF Movement, ReadsBack
  <2>5. ItemOf[entries[d][k].bin] \in ItemsOf(d)
    BY <2>1 DEF StockInv, EntriesNamed
  <2> QED BY <2>2, <2>3, <2>4, <2>5 DEF Moves, Entries
<1>3. CASE ~ReadsBack(o, d)
  <2>1. Leg(d, k) \in Moves /\ ItemOf[Leg(d, k).bin] \in ItemsOf(d)
    BY <1>3, LegType DEF Movements
  <2>2. -Leg(d, k).qty \in Int
    BY <2>1 DEF Moves
  <2>4. Movement(o, d, k) = Leg(d, k) \/ Movement(o, d, k) = Reversed(Leg(d, k))
    BY <1>3 DEF Movement, ReadsBack
  <2>5. Reversed(Leg(d, k)) \in Moves /\ Reversed(Leg(d, k)).bin = Leg(d, k).bin
    BY <2>1, <2>2 DEF Reversed, Moves
  <2> QED BY <2>1, <2>4, <2>5
<1> QED BY <1>2, <1>3

\* In particular those it has still to post.
LEMMA MovementType ==
    ASSUME StockInv, NEW s \in Sessions, job[s].at = "post", NEW k \in job[s].legs
    PROVE  /\ Movement(job[s].op, job[s].doc, k) \in Moves
           /\ ItemOf[Movement(job[s].op, job[s].doc, k).bin] \in ItemsOf(job[s].doc)
<1>1. job[s].doc \in Documents /\ k \in Movements(job[s].op, job[s].doc)
  BY DEF StockInv, SessionOk, LocksOk, LegsOk
<1>2. job[s].op \in {"submit", "cancel"}
  BY DEF StockInv, TypeOK, Jobs
<1> QED BY <1>1, <1>2, MoveType

\* Moving average valuation stays in whole cents.
LEMMA AveragesType ==
    ASSUME NEW m \in Moves, NEW rate \in Int, NEW qty \in Int, NEW value \in Int,
           NEW old \in Int, NEW a \in Averages(m, rate, qty, value, old)
    PROVE  a \in Int
<1>1. qty > 0 => Rounded(value, qty) \subseteq Int
  BY DEF Rounded
<1> QED BY <1>1 DEF Averages

-----------------------------------------------------------------------------
(* What entries add up to *)

\* Entries add up to numbers.
LEMMA AtType ==
    ASSUME NEW p \in Seq(Entries)
    PROVE  /\ IsFiniteSet(DOMAIN p) /\ \A n \in DOMAIN p : p[n].qty \in Int /\ p[n].qty * p[n].rate \in Int
           /\ CostIn(p, DOMAIN p) \in Int
           /\ \A b : /\ IsFiniteSet(At(p, b)) /\ At(p, b) \subseteq DOMAIN p
                     /\ AtQty(p, b) \in Int /\ AtCost(p, b) \in Int
<1>1. Len(p) \in Nat /\ DOMAIN p = 1..Len(p)
  OBVIOUS
<1>2. IsFiniteSet(DOMAIN p)
  BY <1>1, FS_Interval
<1>7. \A n \in DOMAIN p : p[n] \in Entries
  OBVIOUS
<1>3. \A n \in DOMAIN p : p[n].qty \in Int /\ p[n].rate \in Int
  BY <1>7 DEF Entries
<1>4. \A n \in DOMAIN p : p[n].qty * p[n].rate \in Int
  BY <1>3
<1>5. ASSUME NEW N \in SUBSET DOMAIN p
      PROVE  IsFiniteSet(N) /\ QtyIn(p, N) \in Int /\ CostIn(p, N) \in Int
  <2>1. IsFiniteSet(N)
    BY <1>2, FS_Subset
  <2>2. \A n \in N : [k \in N |-> p[k].qty][n] \in Int
    BY <1>3
  <2>3. \A n \in N : [k \in N |-> p[k].qty * p[k].rate][n] \in Int
    BY <1>4
  <2>4. SumFunctionOnSet([k \in N |-> p[k].qty], N) \in Int
    BY <2>1, <2>2, SumIsNumber
  <2>5. SumFunctionOnSet([k \in N |-> p[k].qty * p[k].rate], N) \in Int
    BY <2>1, <2>3, SumIsNumber
  <2> QED BY <2>1, <2>4, <2>5 DEF QtyIn, CostIn
<1>6. \A b : At(p, b) \in SUBSET DOMAIN p
  BY DEF At
<1> QED BY <1>2, <1>3, <1>4, <1>5, <1>6 DEF AtQty, AtCost

\* No entries add nothing.
LEMMA NoEntries == /\ CostIn(<<>>, DOMAIN <<>>) = 0
                   /\ \A b : AtQty(<<>>, b) = 0 /\ AtCost(<<>>, b) = 0
<1>1. DOMAIN <<>> = {} /\ \A b : At(<<>>, b) = {}
  BY DEF At
<1> QED BY <1>1, SumOfNone DEF AtQty, AtCost, QtyIn, CostIn

\* C is B put behind the first n numbers, and h what f is before and g behind them.
GoesOn(n, A, B, C, f, g, h) ==
    /\ n \in Nat /\ A \in SUBSET (1..n) /\ B \in SUBSET (Nat \ {0}) /\ IsFiniteSet(B)
    /\ C = {n + k : k \in B}
    /\ \A k \in A : f[k] \in Int /\ h[k] = f[k]
    /\ \A k \in B : g[k] \in Int /\ h[n + k] = g[k]

\* The sum of a list that goes on behind its n-th member.
LEMMA ConcatSum ==
    ASSUME NEW n, NEW A, NEW B, NEW C, NEW f, NEW g, NEW h, GoesOn(n, A, B, C, f, g, h)
    PROVE  SumFunctionOnSet(h, A \cup C) = SumFunctionOnSet(f, A) + SumFunctionOnSet(g, B)
<1> USE DEF GoesOn
<1>0. IsFiniteSet(B)
  OBVIOUS
<1>1. IsFiniteSet(A)
  <2>1. IsFiniteSet(1..n)
    BY FS_Interval
  <2> QED BY <2>1, FS_Subset
<1>2. PICK name : name = [k \in B |-> n + k]
  OBVIOUS
<1>3. \A x, y \in B : name[x] = name[y] => x = y
  BY <1>2
<1>4. \A x \in B : g[x] \in Int /\ h[name[x]] = g[x]
  BY <1>2
<1>5. /\ IsFiniteSet({name[x] : x \in B})
      /\ SumFunctionOnSet(h, {name[x] : x \in B}) = SumFunctionOnSet(g, B)
  BY ONLY <1>0, <1>3, <1>4, SumRenamed
<1>6. C = {name[x] : x \in B} /\ C \cap A = {}
  BY <1>2
<1>7. \A x \in A \cup C : h[x] \in Int
  OBVIOUS
<1>8. IsFiniteSet(A \cup C) /\ A \in SUBSET (A \cup C) /\ (A \cup C) \ A = C
  BY <1>1, <1>5, <1>6, FS_Union
<1>9. SumFunctionOnSet(h, A \cup C) = SumFunctionOnSet(h, A) + SumFunctionOnSet(h, (A \cup C) \ A)
  BY ONLY <1>7, <1>8, SumParts
<1>10. SumFunctionOnSet(h, A) = SumFunctionOnSet(f, A)
  <2>1. \A k \in A : f[k] \in Int /\ h[k] = f[k]
    OBVIOUS
  <2> QED BY ONLY <1>1, <2>1, SumSame
<1> QED BY <1>5, <1>6, <1>8, <1>9, <1>10

\* Entries that follow others add what they add alone.
LEMMA ConcatAt ==
    ASSUME NEW p \in Seq(Entries), NEW q \in Seq(Entries)
    PROVE  /\ CostIn(p \o q, DOMAIN (p \o q)) = CostIn(p, DOMAIN p) + CostIn(q, DOMAIN q)
           /\ \A b : /\ AtQty(p \o q, b) = AtQty(p, b) + AtQty(q, b)
                     /\ AtCost(p \o q, b) = AtCost(p, b) + AtCost(q, b)
<1> DEFINE n == Len(p)
           r == p \o q
<1>1. /\ n \in Nat /\ Len(q) \in Nat /\ DOMAIN p = 1..n /\ DOMAIN q = 1..Len(q)
      /\ DOMAIN r = 1..(n + Len(q))
      /\ \A k \in DOMAIN p : r[k] = p[k]
      /\ \A k \in DOMAIN q : r[n + k] = q[k]
  OBVIOUS
<1> HIDE DEF r, n
<1>2. ASSUME NEW A \in SUBSET DOMAIN p, NEW B \in SUBSET DOMAIN q
      PROVE  /\ QtyIn(r, A \cup {n + k : k \in B}) = QtyIn(p, A) + QtyIn(q, B)
             /\ CostIn(r, A \cup {n + k : k \in B}) = CostIn(p, A) + CostIn(q, B)
  <2>0. PICK C : C = {n + k : k \in B}
    OBVIOUS
  <2> DEFINE N == A \cup C
  <2>1. IsFiniteSet(B) /\ B \in SUBSET (Nat \ {0}) /\ A \in SUBSET (1..n) /\ n \in Nat
    BY <1>1, AtType, FS_Subset
  <2>2. /\ \A k \in A : p[k].qty \in Int /\ p[k].qty * p[k].rate \in Int /\ r[k] = p[k] /\ k \in N
        /\ \A k \in B : q[k].qty \in Int /\ q[k].qty * q[k].rate \in Int /\ r[n + k] = q[k] /\ n + k \in N
    BY <1>1, <2>0, AtType
  <2>3. QtyIn(r, N) = QtyIn(p, A) + QtyIn(q, B)
    <3> DEFINE f == [k \in A |-> p[k].qty]
               g == [k \in B |-> q[k].qty]
               h == [k \in N |-> r[k].qty]
    <3>3. /\ \A k \in A : f[k] \in Int /\ h[k] = f[k]
          /\ \A k \in B : g[k] \in Int /\ h[n + k] = g[k]
      BY <2>2
    <3>1. GoesOn(n, A, B, C, f, g, h)
      <4> HIDE DEF f, g, h
      <4> QED BY <2>0, <2>1, <3>3 DEF GoesOn
    <3> HIDE DEF f, g, h
    <3>2. SumFunctionOnSet(h, A \cup C) = SumFunctionOnSet(f, A) + SumFunctionOnSet(g, B)
      BY ONLY <3>1, ConcatSum
    <3> QED BY <3>2 DEF QtyIn, f, g, h
  <2>4. CostIn(r, N) = CostIn(p, A) + CostIn(q, B)
    <3> DEFINE f == [k \in A |-> p[k].qty * p[k].rate]
               g == [k \in B |-> q[k].qty * q[k].rate]
               h == [k \in N |-> r[k].qty * r[k].rate]
    <3>3. /\ \A k \in A : f[k] \in Int /\ h[k] = f[k]
          /\ \A k \in B : g[k] \in Int /\ h[n + k] = g[k]
      BY <2>2
    <3>1. GoesOn(n, A, B, C, f, g, h)
      <4> HIDE DEF f, g, h
      <4> QED BY <2>0, <2>1, <3>3 DEF GoesOn
    <3> HIDE DEF f, g, h
    <3>2. SumFunctionOnSet(h, A \cup C) = SumFunctionOnSet(f, A) + SumFunctionOnSet(g, B)
      BY ONLY <3>1, ConcatSum
    <3> QED BY <3>2 DEF CostIn, f, g, h
  <2> QED BY <2>0, <2>3, <2>4
<1>3. DOMAIN r = DOMAIN p \cup {n + k : k \in DOMAIN q}
  <2>1. ASSUME NEW x \in DOMAIN r, x \notin DOMAIN p PROVE x \in {n + k : k \in DOMAIN q}
    <3>1. x - n \in DOMAIN q /\ x = n + (x - n)
      BY <1>1, <2>1
    <3> QED BY <3>1
  <2> QED BY <1>1, <2>1
<1>4. ASSUME NEW b PROVE At(r, b) = At(p, b) \cup {n + k : k \in At(q, b)}
  BY <1>1, <1>3 DEF At
<1>5. \A b : At(p, b) \in SUBSET DOMAIN p /\ At(q, b) \in SUBSET DOMAIN q
  BY DEF At
<1>6. ASSUME NEW b
      PROVE  AtQty(r, b) = AtQty(p, b) + AtQty(q, b) /\ AtCost(r, b) = AtCost(p, b) + AtCost(q, b)
  BY <1>2, <1>4, <1>5 DEF AtQty, AtCost
<1>7. CostIn(r, DOMAIN r) = CostIn(p, DOMAIN p) + CostIn(q, DOMAIN q)
  BY <1>2, <1>3
<1> QED BY <1>6, <1>7 DEF r

\* One entry more.
LEMMA AppendAt ==
    ASSUME NEW p \in Seq(Entries), NEW e \in Entries
    PROVE  /\ CostIn(Append(p, e), DOMAIN Append(p, e)) = CostIn(p, DOMAIN p) + e.qty * e.rate
           /\ \A b : /\ AtQty(Append(p, e), b) = AtQty(p, b) + IF e.bin = b THEN e.qty ELSE 0
                     /\ AtCost(Append(p, e), b) = AtCost(p, b) + IF e.bin = b THEN e.qty * e.rate ELSE 0
           /\ AtQty(Append(p, e), e.bin) = AtQty(p, e.bin) + e.qty
           /\ AtCost(Append(p, e), e.bin) = AtCost(p, e.bin) + e.qty * e.rate
           /\ \A b : b # e.bin => AtQty(Append(p, e), b) = AtQty(p, b) /\ AtCost(Append(p, e), b) = AtCost(p, b)
<1> DEFINE q == <<e>>
<1>1. q \in Seq(Entries) /\ Append(p, e) = p \o q /\ DOMAIN q = {1} /\ q[1] = e
  OBVIOUS
<1> HIDE DEF q
<1>2. e.qty \in Int /\ e.qty * e.rate \in Int
  BY DEF Entries
<1>3. ASSUME NEW b PROVE At(q, b) = IF e.bin = b THEN {1} ELSE {}
  BY <1>1 DEF At
<1>4. QtyIn(q, {1}) = e.qty /\ CostIn(q, {1}) = e.qty * e.rate
  <2> DEFINE f == [n \in {1} |-> q[n].qty]
             g == [n \in {1} |-> q[n].qty * q[n].rate]
  <2>1. {} \cup {1} = {1} /\ IsFiniteSet({}) /\ 1 \notin {}
    BY FS_EmptySet
  <2>2. f[1] = e.qty /\ g[1] = e.qty * e.rate
    BY <1>1
  <2>6. (\A x \in {} \cup {1} : f[x] \in Int) /\ \A x \in {} \cup {1} : g[x] \in Int
    BY <1>2, <2>2
  <2> HIDE DEF f, g
  <2>3. SumFunctionOnSet(f, {} \cup {1}) = SumFunctionOnSet(f, {}) + f[1]
    BY ONLY <2>1, <2>6, SumAdd
  <2>4. SumFunctionOnSet(g, {} \cup {1}) = SumFunctionOnSet(g, {}) + g[1]
    BY ONLY <2>1, <2>6, SumAdd
  <2> DEFINE c == e.qty * e.rate
  <2>5. SumFunctionOnSet(f, {1}) = e.qty /\ SumFunctionOnSet(g, {1}) = c
    <3>1. c \in Int /\ g[1] = c
      BY <1>2, <2>2
    <3> HIDE DEF c
    <3> QED BY <2>1, <2>2, <2>3, <2>4, <1>2, <3>1, SumOfNone
  <2> QED BY <2>5 DEF QtyIn, CostIn, f, g
<1>5. QtyIn(q, {}) = 0 /\ CostIn(q, {}) = 0
  BY SumOfNone DEF QtyIn, CostIn
<1>6. \A b : /\ AtQty(q, b) = IF e.bin = b THEN e.qty ELSE 0
             /\ AtCost(q, b) = IF e.bin = b THEN e.qty * e.rate ELSE 0
  BY <1>3, <1>4, <1>5 DEF AtQty, AtCost
<1>7. \A b : AtQty(p, b) \in Int /\ AtCost(p, b) \in Int
  BY AtType
<1>8. /\ CostIn(Append(p, e), DOMAIN Append(p, e)) = CostIn(p, DOMAIN p) + e.qty * e.rate
      /\ \A b : /\ AtQty(Append(p, e), b) = AtQty(p, b) + AtQty(q, b)
                /\ AtCost(Append(p, e), b) = AtCost(p, b) + AtCost(q, b)
  BY <1>1, <1>4, ConcatAt
<1> QED BY <1>6, <1>7, <1>8

-----------------------------------------------------------------------------
(* The inductive step *)

\* The bins of an empty ledger are empty.
LEMMA InitialStock == Init => StockInv
<1> SUFFICES ASSUME Init PROVE StockInv
  OBVIOUS
<1> USE StockAssumption
<1>1. NoStock \in Balances
  BY DEF NoStock, Balances
<1>2. NoJob \in Jobs /\ NoJob.at = "idle"
  BY <1>1 DEF NoJob, Jobs
<1>3. bin \in [Bins -> Balances]
  BY <1>1 DEF Init
<1>4. entries \in [Documents -> Seq(Entries)] /\ EntriesNamed
  BY DEF Init, EntriesNamed
<1>5. TypeOK
  BY <1>2, <1>3, <1>4 DEF Init, TypeOK
<1>6. BinMatchesLedger
  <2> SUFFICES ASSUME NEW b \in Bins PROVE bin[b].qty = LedgerQty(b) /\ bin[b].value = LedgerValue(b)
    BY DEF BinMatchesLedger
  <2> DEFINE f == [d \in Documents |-> QtyIn(entries[d], At(entries[d], b))]
             g == [d \in Documents |-> CostIn(entries[d], At(entries[d], b))]
  <2>1. \A d \in Documents : f[d] = 0 /\ g[d] = 0
    BY NoEntries DEF Init, AtQty, AtCost
  <2> HIDE DEF f, g
  <2>2. SumFunctionOnSet(f, Documents) = 0 /\ SumFunctionOnSet(g, Documents) = 0
    BY <2>1, SumOfZeros
  <2> QED BY <2>2 DEF Init, NoStock, LedgerQty, LedgerValue, f, g
<1>7. \A s \in Sessions : SessionOk(s)
  BY <1>2 DEF Init, SessionOk
<1> QED BY <1>4, <1>5, <1>6, <1>7 DEF StockInv

\* A step that leaves the locks of a session and the bins it holds alone leaves
\* the session valid.
LEMMA OthersUndisturbed ==
    ASSUME StockInv, NEW o \in Sessions, job'[o] = job[o],
           \A r \in Lockable : lock'[r] = o <=> lock[r] = o,
           \A d \in Documents : lock[d] = o => status'[d] = status[d] /\ entries'[d] = entries[d],
           \A b \in Bins : lock[ItemOf[b]] = o => bin'[b] = bin[b]
    PROVE  SessionOk(o)'
<1> SUFFICES ASSUME job[o].at # "idle"
             PROVE  (LocksOk(o) /\ WorkOk(o) /\ LegsOk(o))'
  BY DEF SessionOk
<1> DEFINE d == job[o].doc
<1>1. LocksOk(o) /\ WorkOk(o) /\ LegsOk(o)
  BY DEF StockInv, SessionOk
<1>2. d \in Documents /\ lock[d] = o /\ ItemsOf(d) \subseteq Referenced(d)
  BY <1>1 DEF LocksOk, Referenced
<1>3. Referenced(d) \subseteq Documents \cup Items
  BY <1>2, NamedRows
<1>4. LocksOk(o)'
  <2>1. Documents \cup Items \subseteq Lockable /\ Bins \subseteq Lockable
    BY DEF Lockable
  <2> QED BY <1>1, <1>2, <1>3, <2>1 DEF LocksOk
<1>5. \A b \in job[o].touched : b \in Bins /\ lock[ItemOf[b]] = o
  BY <1>1, <1>2 DEF LocksOk, WorkOk, StockInv, TypeOK, Jobs
<1>6. WorkOk(o)'
  BY <1>1, <1>5 DEF WorkOk
<1>7. Movements(job[o].op, d)' = Movements(job[o].op, d)
  BY <1>2 DEF Movements, ReadsBack, LegsOf, Leg, Leaving, Arriving
<1>8. LegsOk(o)'
  BY <1>1, <1>7 DEF LegsOk
<1> QED BY <1>4, <1>6, <1>8

\* It is enough that a step of s keeps the types and the locks and leaves
\* the stock alone.
LEMMA QuietStep ==
    ASSUME StockInv, NEW s \in Sessions, TypeOK', SessionOk(s)',
           UNCHANGED <<status, bin, entries>>,
           \A o \in Sessions \ {s} : job'[o] = job[o],
           \A o \in Sessions \ {s} :
              \A r \in Lockable : lock'[r] = o <=> lock[r] = o
    PROVE  StockInv'
<1>1. \A o \in Sessions \ {s} : SessionOk(o)'
  BY OthersUndisturbed
<1>2. BinMatchesLedger' /\ EntriesNamed'
  BY DEF StockInv, BinMatchesLedger, LedgerQty, LedgerValue, EntriesNamed
<1> QED BY <1>1, <1>2 DEF StockInv

\* A session without a job is typed.
LEMMA NoJobType == NoJob \in Jobs /\ NoJob.at = "idle"
BY StockAssumption DEF NoJob, Jobs, NoStock, Balances

\* A session begins with nothing held and nothing moved.
LEMMA BeginPreserves ==
    ASSUME StockInv, NEW s \in Sessions, NEW o \in {"submit", "cancel"},
           NEW d \in Documents, Begin(s, o, d)
    PROVE  StockInv'
<1> USE StockAssumption DEF StockInv, TypeOK
<1> DEFINE new == [NoJob EXCEPT !.at = "lock", !.op = o, !.doc = d, !.locks = Referenced(d)]
<1>1. /\ job' = [job EXCEPT ![s] = new] /\ lock' = [lock EXCEPT ![d] = s]
      /\ lock[d] = None /\ status[d] = Expected(o) /\ job[s].at = "idle"
      /\ UNCHANGED <<status, bin, entries, booked>>
  BY DEF Begin
<1>2. Referenced(d) \subseteq Documents \cup Items
  BY NamedRows
<1>3. /\ new \in Jobs /\ new.at = "lock" /\ new.op = o /\ new.doc = d /\ new.posted = <<>>
      /\ new.locks = Referenced(d) /\ new.touched = {}
  BY <1>2, NoJobType DEF NoJob, Jobs
<1> HIDE DEF new
<1>4. TypeOK'
  BY <1>1, <1>3
<1>5. \A r \in Lockable : lock[r] # s
  BY <1>1
<1>6. job'[s] = new
  BY <1>1
<1>7. LocksOk(s)'
  <2>1. \A r \in Lockable : lock'[r] = s <=> r = d
    BY <1>1, <1>5
  <2>2. Documents \cup Items \subseteq Lockable /\ \A b \in Bins : lock'[b] # s
    BY <2>1 DEF Lockable
  <2> QED BY <1>1, <1>3, <1>6, <2>1, <2>2 DEF LocksOk
<1>8. WorkOk(s)'
  BY <1>3, <1>6, NoEntries DEF WorkOk
<1>9. LegsOk(s)'
  BY <1>3, <1>6 DEF LegsOk
<1>10. SessionOk(s)'
  BY <1>7, <1>8, <1>9 DEF SessionOk
<1>11. \A p \in Sessions \ {s} : job'[p] = job[p] /\
          \A r \in Lockable : lock'[r] = p <=> lock[r] = p
  BY <1>1
<1> QED BY <1>1, <1>4, <1>10, <1>11, QuietStep

\* No two rows have the same rank, and items rank behind all others.
LEMMA RanksDiffer ==
    ASSUME NEW r \in Documents \cup Items
    PROVE  /\ LockRank(r) \in Nat /\ LockRank(r) >= 1 /\ LockRank(r) <= LastRank + LastRank
           /\ LastRank \in Nat
           /\ r \in Documents => LockRank(r) = NameRank[r]
           /\ \A q \in Documents \cup Items :
                 /\ q # r => LockRank(q) # LockRank(r)
                 /\ r \in Documents /\ q \in Items => LockRank(r) < LockRank(q)
<1> USE StockAssumption, OrderAssumption
<1>1. LastRank \in Nat
  <2>1. IsFiniteSet(Lockable)
    BY FS_Union DEF Lockable
  <2> QED BY <2>1, FS_CardinalityType DEF LastRank
<1>2. \A q \in Documents \cup Items : /\ NameRank[q] \in Nat /\ 1 <= NameRank[q] /\ NameRank[q] <= LastRank
                                    /\ (q # r => NameRank[q] # NameRank[r])
  <2>1. Documents \cup Items \subseteq Lockable
    BY DEF Lockable
  <2> QED BY <1>1, <2>1
<1>4. r \in Documents <=> r \notin Items
  OBVIOUS
<1>5. PICK n : n = LastRank
  OBVIOUS
<1>6. n \in Nat
  BY <1>1, <1>5
<1>10. PICK rank, name : rank = LockRank(r) /\ name = NameRank[r]
  OBVIOUS
<1>11. /\ name \in Nat /\ 1 <= name /\ name <= n
       /\ r \in Items => rank = name + n
       /\ r \notin Items => rank = name + 0
  <2>1. name \in Nat /\ 1 <= name /\ name <= n
    BY <1>2, <1>5, <1>10
  <2> QED BY <1>5, <1>10, <2>1 DEF LockRank
<1>7. LockRank(r) \in Nat /\ LockRank(r) >= 1 /\ LockRank(r) <= n + n
  BY <1>6, <1>10, <1>11
<1>8. r \in Documents => LockRank(r) = NameRank[r]
  BY <1>4, <1>10, <1>11
<1>9. ASSUME NEW q \in Documents \cup Items
      PROVE  (q # r => LockRank(q) # LockRank(r)) /\ (r \in Documents /\ q \in Items => LockRank(r) < LockRank(q))
  <2>1. PICK x, y : x = LockRank(q) /\ y = NameRank[q]
    OBVIOUS
  <2>2. /\ y \in Nat /\ 1 <= y /\ y <= n /\ (q # r => y # name)
        /\ q \in Items => x = y + n
        /\ q \notin Items => x = y + 0
    <3>1. y \in Nat /\ 1 <= y /\ y <= n /\ (q # r => y # name)
      BY <1>2, <1>5, <1>10, <2>1
    <3> QED BY <1>5, <2>1, <3>1 DEF LockRank
  <2>3. (q # r => x # rank) /\ (r \notin Items /\ q \in Items => rank < x)
    BY ONLY <1>6, <1>11, <2>2
  <2> QED BY <1>4, <1>10, <2>1, <2>3
<1> QED BY <1>5, <1>6, <1>7, <1>8, <1>9

\* A session takes the free row of lowest rank it still needs, above those it holds.
LEMMA TakePreserves ==
    ASSUME StockInv, NEW s \in Sessions, Take(s)
    PROVE  StockInv'
<1> USE StockAssumption DEF StockInv, TypeOK
<1>1. PICK r \in Documents \cup Items :
        /\ NextLock(job[s].locks, r) /\ lock[r] = None
        /\ lock' = [lock EXCEPT ![r] = s]
        /\ job' = [job EXCEPT ![s] = [job[s] EXCEPT !.locks = job[s].locks \ {r}]]
  BY DEF Take
<1>2. job[s].at = "lock" /\ UNCHANGED <<status, bin, entries, booked>>
  BY DEF Take
<1>3. /\ job'[s] \in Jobs /\ job'[s].locks = job[s].locks \ {r} /\ job'[s].at = "lock"
      /\ job'[s].op = job[s].op /\ job'[s].doc = job[s].doc /\ job'[s].touched = job[s].touched
      /\ job'[s].work = job[s].work
      /\ job'[s].posted = job[s].posted
  <2>1. job[s] \in Jobs
    OBVIOUS
  <2>2. job'[s] = [job[s] EXCEPT !.locks = job[s].locks \ {r}]
    BY <1>1
  <2>3. job[s].locks \ {r} \subseteq Documents \cup Items
    BY <2>1 DEF Jobs
  <2>4. job'[s] \in Jobs
    BY ONLY <2>1, <2>2, <2>3 DEF Jobs
  <2> QED BY ONLY <2>1, <2>2, <2>4, <1>2 DEF Jobs
<1>4. TypeOK'
  BY <1>1, <1>2, <1>3
<1> DEFINE d == job[s].doc
           L == job[s].locks
<1>5. LocksOk(s) /\ WorkOk(s) /\ LegsOk(s)
  BY <1>2 DEF SessionOk
<1>6. d \in Documents /\ L \subseteq Referenced(d) /\ r \in L
  BY <1>1, <1>5 DEF LocksOk, NextLock
<1>7. Referenced(d) \ (L \ {r}) = (Referenced(d) \ L) \cup {r}
  BY <1>6
<1>8. \A q \in L \ {r} : LockRank(r) < LockRank(q)
  <2> SUFFICES ASSUME NEW q \in L \ {r} PROVE LockRank(r) < LockRank(q)
    OBVIOUS
  <2>1. LockRank(r) <= LockRank(q)
    BY <1>1 DEF NextLock
  <2>2. q \in Documents \cup Items
    BY <1>6, NamedRows
  <2> QED BY <2>1, <2>2, RanksDiffer
<1>9. LocksOk(s)'
  <2>9. Documents \cup Items \subseteq Lockable
    BY DEF Lockable
  <2>1. \A q \in Documents \cup Items : lock'[q] = s <=> lock[q] = s \/ q = r
    BY <1>1, <2>9
  <2>2. d # r
    BY <1>1, <1>5 DEF LocksOk
  <2>3. Referenced(d) \subseteq Documents \cup Items
    BY <1>6, NamedRows
  <2>4. \A q \in (Referenced(d) \ L) \cup {r} : lock'[q] = s
    BY <1>5, <2>1, <2>3 DEF LocksOk
  <2>5. \A q \in (Referenced(d) \ L) \cup {r} : \A p \in L \ {r} : LockRank(q) < LockRank(p)
    BY <1>5, <1>8 DEF LocksOk
  <2>6. \A q \in Documents \cup Items :
           lock'[q] = s => q = d \/ q \in (Referenced(d) \ L) \cup {r}
    BY <1>5, <2>1 DEF LocksOk
  <2>7. lock'[d] = s /\ status'[d] = Expected(job[s].op)
    BY <1>2, <1>5, <2>1 DEF LocksOk
  <2>8. \A b \in Bins : lock'[b] # s
    BY <1>1, <1>2, <1>5 DEF LocksOk, Lockable
  <2> QED BY <1>3, <1>6, <1>7, <2>4, <2>5, <2>6, <2>7, <2>8 DEF LocksOk
<1>10. WorkOk(s)' /\ LegsOk(s)'
  BY <1>2, <1>3, <1>5 DEF WorkOk, LegsOk
<1>11. SessionOk(s)'
  BY <1>9, <1>10 DEF SessionOk
<1>12. \A p \in Sessions \ {s} : job'[p] = job[p] /\
          \A q \in Lockable : lock'[q] = p <=> lock[q] = p
  BY <1>1
<1> QED BY <1>2, <1>4, <1>11, <1>12, QuietStep

\* A session whose checks pass has moved nothing yet.
LEMMA ValidatePreserves ==
    ASSUME StockInv, NEW s \in Sessions, Validate(s)
    PROVE  StockInv'
<1> USE StockAssumption DEF StockInv, TypeOK
<1> DEFINE new == [job[s] EXCEPT !.at = "post", !.legs = Movements(job[s].op, job[s].doc),
                                 !.lines = LinesOf(job[s].doc)]
<1>1. /\ job' = [job EXCEPT ![s] = new] /\ job[s].at = "lock" /\ job[s].locks = {}
      /\ UNCHANGED <<status, bin, entries, booked, lock>>
  BY DEF Validate
<1>2. LocksOk(s) /\ WorkOk(s) /\ LegsOk(s)
  BY <1>1 DEF SessionOk
<1>3. Movements(job[s].op, job[s].doc) \subseteq Nat
  <2>1. job[s].doc \in Documents
    BY <1>2 DEF LocksOk
  <2>2. entries[job[s].doc] \in Seq(Entries)
    BY <2>1
  <2>3. DOMAIN entries[job[s].doc] \subseteq Nat
    BY <2>2
  <2> QED BY <2>3 DEF Movements, LegsOf
<1>11. LinesOf(job[s].doc) \subseteq Documents \X Bins
  BY <1>2, NamedRows DEF LocksOk
<1>4. /\ new \in Jobs /\ new.at = "post" /\ new.op = job[s].op /\ new.doc = job[s].doc
      /\ new.locks = {} /\ new.touched = job[s].touched /\ new.work = job[s].work
      /\ new.posted = job[s].posted
      /\ new.legs = Movements(job[s].op, job[s].doc)
  <2>1. job[s] \in Jobs
    OBVIOUS
  <2> QED BY ONLY <2>1, <1>1, <1>3, <1>11 DEF Jobs
<1> HIDE DEF new
<1>5. job'[s] = new
  BY <1>1
<1>6. TypeOK'
  BY <1>1, <1>4
<1>7. LocksOk(s)'
  <2>1. \A b \in Bins : lock'[b] # s
    BY <1>1, <1>2 DEF LocksOk
  <2> QED BY <1>1, <1>2, <1>4, <1>5, <2>1 DEF LocksOk
<1>8. WorkOk(s)'
  BY <1>1, <1>2, <1>4, <1>5 DEF WorkOk
<1>9. LegsOk(s)'
  BY <1>1, <1>2, <1>4, <1>5 DEF LegsOk, Movements, ReadsBack
<1>10. SessionOk(s)'
  BY <1>7, <1>8, <1>9 DEF SessionOk
<1> QED BY <1>1, <1>6, <1>10, QuietStep

\* A request that reads a bin sees what is committed: it has moved nothing there.
LEMMA LoadPreserves ==
    ASSUME StockInv, NEW s \in Sessions, Load(s)
    PROVE  StockInv'
<1> USE StockAssumption DEF StockInv, TypeOK
<1>1. PICK k \in job[s].legs :
        LET c == Movement(job[s].op, job[s].doc, k).bin
        IN  /\ c \notin job[s].touched
            /\ job' = [job EXCEPT ![s] = [job[s] EXCEPT !.touched = job[s].touched \cup {c},
                                                       !.work = [job[s].work EXCEPT ![c] = bin[c]]]]
  BY DEF Load
<1>2. job[s].at = "post" /\ UNCHANGED <<status, bin, entries, booked, lock>>
  BY DEF Load
<1>3. PICK b : b = Movement(job[s].op, job[s].doc, k).bin
  OBVIOUS
<1>4. b \in Bins /\ ItemOf[b] \in ItemsOf(job[s].doc)
  BY <1>2, <1>3, MovementType DEF Moves
<1>5. b \notin job[s].touched
  BY <1>1, <1>3
<1>6. job[s] \in Jobs
  OBVIOUS
<1>7. /\ job'[s] \in Jobs /\ job'[s].at = job[s].at /\ job'[s].op = job[s].op
      /\ job'[s].doc = job[s].doc /\ job'[s].locks = job[s].locks /\ job'[s].legs = job[s].legs
      /\ job'[s].posted = job[s].posted /\ job'[s].touched = job[s].touched \cup {b}
      /\ \A c \in Bins : job'[s].work[c] = IF c = b THEN bin[b] ELSE job[s].work[c]
  <2>1. job'[s] = [job[s] EXCEPT !.touched = job[s].touched \cup {b},
                                 !.work = [job[s].work EXCEPT ![b] = bin[b]]]
    BY <1>1, <1>3
  <2>2. /\ job[s].work \in [Bins -> Balances] /\ job[s].touched \cup {b} \subseteq Bins
        /\ [job[s].work EXCEPT ![b] = bin[b]] \in [Bins -> Balances]
    BY <1>4, <1>6 DEF Jobs
  <2>3. job'[s] \in Jobs
    BY ONLY <1>6, <2>1, <2>2 DEF Jobs
  <2>4. \A c \in Bins : [job[s].work EXCEPT ![b] = bin[b]][c] = IF c = b THEN bin[b] ELSE job[s].work[c]
    BY <2>2
  <2> QED BY ONLY <1>6, <2>1, <2>3, <2>4 DEF Jobs
<1>8. \A o \in Sessions \ {s} : job'[o] = job[o]
  BY <1>1
<1>9. TypeOK'
  BY <1>1, <1>2, <1>7, <1>8
<1>10. LocksOk(s) /\ WorkOk(s) /\ LegsOk(s)
  BY <1>2 DEF SessionOk
<1>11. LocksOk(s)'
  BY <1>2, <1>7, <1>10 DEF LocksOk
<1>12. WorkOk(s)'
  <2>1. AtQty(job[s].posted, b) = 0 /\ AtCost(job[s].posted, b) = 0
    BY <1>4, <1>5, <1>10 DEF WorkOk
  <2>2. bin[b].qty \in Int /\ bin[b].value \in Int
    BY <1>4 DEF Balances
  <2>3. /\ job'[s].work[b] = bin[b]
        /\ job'[s].work[b].qty = bin[b].qty + AtQty(job[s].posted, b)
        /\ job'[s].work[b].value = bin[b].value + AtCost(job[s].posted, b)
    BY <1>4, <1>7, <2>1, <2>2
  <2>4. \A c \in job[s].touched : c \in Bins /\ job'[s].work[c] = job[s].work[c]
    BY <1>5, <1>6, <1>7 DEF Jobs
  <2> QED BY <1>2, <1>4, <1>7, <1>10, <2>3, <2>4 DEF WorkOk
<1>13. LegsOk(s)'
  BY <1>2, <1>7, <1>10 DEF LegsOk, Movements, ReadsBack
<1>14. SessionOk(s)'
  BY <1>11, <1>12, <1>13 DEF SessionOk
<1> QED BY <1>2, <1>8, <1>9, <1>14, QuietStep

\* A movement adds the same to what a session sees in a bin and to what it has
\* moved there, and a submit stops at zero.
LEMMA PostPreserves ==
    ASSUME StockInv, NEW s \in Sessions, Post(s)
    PROVE  StockInv'
<1> USE StockAssumption DEF StockInv, TypeOK
<1>1. PICK k \in job[s].legs :
        LET m == Movement(job[s].op, job[s].doc, k)
            old == Seen(s, m.bin)
            rate == RateOf(m, old.average, job[s].last)
            qty == old.qty + m.qty
            value == old.value + m.qty * rate
        IN  /\ m.bin \in job[s].touched /\ ~Overdrawn(job[s].op, qty)
            /\ Lock(s, m.bin)
            /\ \E average \in Averages(m, rate, qty, value, old.average) :
                  job' = [job EXCEPT ![s] = [job[s] EXCEPT
                     !.legs = job[s].legs \ {k},
                     !.posted = Append(job[s].posted,
                                       [bin |-> m.bin, qty |-> m.qty, rate |-> rate]),
                     !.last = rate,
                     !.cost = job[s].cost + m.qty * rate,
                     !.stated = job[s].stated + m.qty * m.rate,
                     !.work = [job[s].work EXCEPT ![m.bin] =
                                 [qty |-> qty, average |-> average, value |-> value]]]]
  BY DEF Post
<1>2. job[s].at = "post" /\ UNCHANGED <<status, bin, entries, booked>>
  BY DEF Post
<1> DEFINE m == Movement(job[s].op, job[s].doc, k)
           old == Seen(s, m.bin)
           rate == RateOf(m, old.average, job[s].last)
           qty == old.qty + m.qty
           value == old.value + m.qty * rate
<1>3. PICK average \in Averages(m, rate, qty, value, old.average) :
        job' = [job EXCEPT ![s] = [job[s] EXCEPT
           !.legs = job[s].legs \ {k},
           !.posted = Append(job[s].posted, [bin |-> m.bin, qty |-> m.qty, rate |-> rate]),
           !.last = rate,
           !.cost = job[s].cost + m.qty * rate,
           !.stated = job[s].stated + m.qty * m.rate,
           !.work = [job[s].work EXCEPT ![m.bin] =
                       [qty |-> qty, average |-> average, value |-> value]]]]
  BY <1>1
<1>4. ~Overdrawn(job[s].op, qty) /\ Lock(s, m.bin) /\ m.bin \in job[s].touched
  BY <1>1
<1>5. m \in Moves /\ ItemOf[m.bin] \in ItemsOf(job[s].doc)
  BY <1>2, MovementType
<1>6. job[s] \in Jobs
  OBVIOUS
<1>7. old \in Balances /\ m.bin \in Bins
  <2>1. m.bin \in Bins
    BY <1>5 DEF Moves
  <2>2. job[s].work[m.bin] \in Balances
    BY <2>1, <1>6 DEF Jobs
  <2> QED BY <2>1, <2>2 DEF Seen
<1> DEFINE b == m.bin
           n == m.qty
<1>8. n \in Int /\ m.rate \in Int /\ b \in Bins
  BY <1>5 DEF Moves
<1>9. rate \in Int
  <2>1. old.average \in Int /\ job[s].last \in Int
    BY <1>6, <1>7 DEF Balances, Jobs
  <2>2. m.basis \in {"average", "given", "moved"}
    BY <1>5 DEF Moves
  <2> HIDE DEF old, m
  <2> QED BY <1>8, <2>1, <2>2 DEF RateOf
<1>10. qty \in Int /\ value \in Int /\ n * rate \in Int
  <2>1. old.qty \in Int /\ old.value \in Int
    BY <1>7 DEF Balances
  <2> HIDE DEF old, m, rate
  <2> QED BY <1>8, <1>9, <2>1
<1>11. average \in Int
  <2>1. old.average \in Int
    BY <1>7 DEF Balances
  <2> HIDE DEF old, m, rate, qty, value
  <2> QED BY <1>3, <1>5, <1>9, <1>10, <2>1, AveragesType
<1> DEFINE seen == [qty |-> qty, average |-> average, value |-> value]
           entry == [bin |-> b, qty |-> n, rate |-> rate]
           new == job'[s]
<1>12. seen \in Balances /\ seen.qty = qty /\ seen.value = value
  BY <1>10, <1>11 DEF Balances
<1>13. /\ job[s].posted \in Seq(Entries)
       /\ \A c : AtQty(job[s].posted, c) \in Int /\ AtCost(job[s].posted, c) \in Int
  <2>1. job[s].posted \in Seq(Entries)
    BY <1>6 DEF Jobs
  <2> QED BY <2>1, AtType
<1>14. entry \in Entries /\ ItemOf[entry.bin] \in ItemsOf(job[s].doc)
  BY <1>5, <1>8, <1>9 DEF Entries
<1>15. job[s].cost + n * rate \in Int /\ job[s].stated + n * m.rate \in Int
  <2>1. job[s].cost \in Int /\ job[s].stated \in Int
    BY <1>6 DEF Jobs
  <2>2. n * m.rate \in Int
    BY <1>8
  <2> HIDE DEF m, n, rate
  <2> QED BY <2>1, <2>2, <1>10
<1>16. job' = [job EXCEPT ![s] = [job[s] EXCEPT
          !.legs = job[s].legs \ {k},
          !.posted = Append(job[s].posted, entry),
          !.last = rate,
          !.cost = job[s].cost + n * rate,
          !.stated = job[s].stated + n * m.rate,
          !.work = [job[s].work EXCEPT ![b] = seen]]]
  BY <1>3
<1> HIDE DEF m, old, rate, qty, value, b, n, seen, entry
<1>17. /\ new \in Jobs /\ new.at = job[s].at /\ new.op = job[s].op /\ new.doc = job[s].doc
       /\ new.locks = job[s].locks /\ new.legs = job[s].legs \ {k}
       /\ new.posted = Append(job[s].posted, entry)
       /\ new.touched = job[s].touched
       /\ new.work = [job[s].work EXCEPT ![b] = seen]
  <2>1. /\ job[s].work \in [Bins -> Balances]
        /\ job[s].posted \in Seq(Entries) /\ job[s].touched \subseteq Bins
        /\ job[s].legs \subseteq Nat
    BY <1>6 DEF Jobs
  <2>2. [job[s].work EXCEPT ![b] = seen] \in [Bins -> Balances]
    BY <2>1, <1>12
  <2>4. Append(job[s].posted, entry) \in Seq(Entries)
    BY <2>1, <1>14
  <2>5. job[s].legs \ {k} \subseteq Nat
    BY <2>1
  <2> QED BY ONLY <1>6, <1>9, <1>15, <1>16, <2>2, <2>4, <2>5,
                  job \in [Sessions -> Jobs], s \in Sessions DEF Jobs
<1>28. lock[b] \in {None, s} /\ lock' = [lock EXCEPT ![b] = s] /\ b \in Lockable
  BY <1>4, <1>8 DEF Lock, b, Lockable
<1>29. /\ lock' \in [Lockable -> Sessions \cup {None}]
       /\ \A r \in Lockable : lock'[r] = IF r = b THEN s ELSE lock[r]
       /\ \A o \in Sessions \ {s} : \A r \in Lockable : lock'[r] = o <=> lock[r] = o
  BY <1>28
<1>30. \A o \in Sessions : job'[o] = IF o = s THEN new ELSE job[o]
  BY <1>16
<1>18. TypeOK'
  <2>1. ASSUME NEW r \in Lockable, lock'[r] # None PROVE job'[lock'[r]].at # "idle"
    <3>1. CASE lock'[r] = s
      BY <3>1, <1>2, <1>17, <1>30
    <3>2. CASE lock'[r] # s
      <4>1. lock'[r] = lock[r] /\ lock[r] \in Sessions \ {s} /\ job[lock[r]].at # "idle"
        BY <2>1, <3>2, <1>29
      <4> QED BY <4>1, <1>30
    <3> QED BY <3>1, <3>2
  <2> QED BY <1>2, <1>16, <1>17, <1>29, <2>1
<1>19. LocksOk(s) /\ WorkOk(s) /\ LegsOk(s)
  BY <1>2 DEF SessionOk
<1> HIDE DEF new
<1>20. job'[s] = new
  BY DEF new
<1>21. LocksOk(s)'
  <2>1. Documents \cup Items \subseteq Lockable /\ Bins \subseteq Lockable /\ b \notin Documents \cup Items
    BY <1>8 DEF Lockable
  <2>2. \A r \in Documents \cup Items : lock'[r] = lock[r]
    BY <1>29, <2>1
  <2>3. \A c \in Bins : lock'[c] = s => c = b \/ lock[c] = s
    BY <1>29, <2>1
  <2>4. ItemOf[b] \in ItemsOf(job[s].doc)
    BY <1>5 DEF b
  <2>5. \A c \in Bins : lock'[c] = s => ItemOf[c] \in ItemsOf(new.doc) \/ new.legs = {}
    BY <1>17, <1>19, <2>3, <2>4 DEF LocksOk
  <2>6. Referenced(job[s].doc) \subseteq Documents \cup Items
    BY <1>19, NamedRows DEF LocksOk
  <2>7. job[s].doc \in Documents /\ job[s].locks = {}
    BY <1>2, <1>19 DEF LocksOk
  <2>8. /\ new.doc \in Documents /\ lock'[new.doc] = s /\ status'[new.doc] = Expected(new.op)
        /\ new.locks = {} /\ new.at = "post"
        /\ \A r \in Referenced(new.doc) : lock'[r] = s
        /\ \A r \in Documents \cup Items : lock'[r] = s => r = new.doc \/ r \in Referenced(new.doc)
    BY <1>2, <1>17, <1>19, <2>2, <2>6, <2>7 DEF LocksOk
  <2> QED BY <1>20, <2>5, <2>8 DEF LocksOk
<1> DEFINE t == n * rate
<1>25. /\ AtQty(new.posted, b) = AtQty(job[s].posted, b) + n
       /\ AtCost(new.posted, b) = AtCost(job[s].posted, b) + t
       /\ \A c : c # b => /\ AtQty(new.posted, c) = AtQty(job[s].posted, c)
                         /\ AtCost(new.posted, c) = AtCost(job[s].posted, c)
  <2>1. entry.bin = b /\ entry.qty = n /\ entry.rate = rate
    BY DEF entry
  <2> QED BY <1>13, <1>14, <1>17, <2>1, AppendAt
<1>26. t \in Int
  BY <1>10
<1>27. value = old.value + t
  BY DEF value, n
<1> HIDE DEF t
<1>22. WorkOk(s)'
  <2>1. \A c \in Bins \ new.touched : AtQty(new.posted, c) = 0 /\ AtCost(new.posted, c) = 0
    <3>1. b \in new.touched
      BY <1>4, <1>17 DEF b
    <3> QED BY <3>1, <1>17, <1>19, <1>25 DEF WorkOk
  <2>2. /\ new.work[b].qty = bin[b].qty + AtQty(new.posted, b)
        /\ new.work[b].value = bin[b].value + AtCost(new.posted, b)
        /\ new.op = "submit" => new.work[b].qty >= 0
    <3>1. new.work[b] = seen
      BY <1>6, <1>8, <1>17 DEF Jobs
    <3>2. /\ old.qty = bin[b].qty + AtQty(job[s].posted, b)
          /\ old.value = bin[b].value + AtCost(job[s].posted, b)
      BY <1>4, <1>19 DEF WorkOk, old, Seen, b
    <3>3. qty = old.qty + n
      BY DEF qty, n
    <3>4. bin[b].qty \in Int /\ bin[b].value \in Int
      BY <1>8 DEF Balances
    <3>5. new.op = "submit" => qty >= 0
      BY <1>4, <1>10, <1>17 DEF Overdrawn
    <3>7. qty = bin[b].qty + AtQty(new.posted, b)
      BY ONLY <3>2, <3>3, <3>4, <1>8, <1>13, <1>25
    <3>8. value = bin[b].value + AtCost(new.posted, b)
      BY ONLY <3>2, <3>4, <1>13, <1>25, <1>26, <1>27
    <3> QED BY ONLY <3>1, <3>5, <3>7, <3>8, <1>12
  <2>3. \A c \in job[s].touched : c # b => new.work[c] = job[s].work[c]
    BY <1>6, <1>17 DEF Jobs
  <2>4. \A c \in new.touched :
           /\ new.at = "post" /\ ItemOf[c] \in ItemsOf(new.doc)
           /\ new.work[c].qty = bin[c].qty + AtQty(new.posted, c)
           /\ new.work[c].value = bin[c].value + AtCost(new.posted, c)
           /\ new.op = "submit" => new.work[c].qty >= 0 \/ new.work[c] = bin[c]
    <3> SUFFICES ASSUME NEW c \in new.touched
                 PROVE  /\ new.at = "post" /\ ItemOf[c] \in ItemsOf(new.doc)
                        /\ new.work[c].qty = bin[c].qty + AtQty(new.posted, c)
                        /\ new.work[c].value = bin[c].value + AtCost(new.posted, c)
                        /\ new.op = "submit" => new.work[c].qty >= 0 \/ new.work[c] = bin[c]
      OBVIOUS
    <3>1. CASE c = b
      BY <3>1, <1>2, <1>5, <1>17, <2>2 DEF b
    <3>2. CASE c # b
      BY <3>2, <1>2, <1>17, <1>19, <1>25, <2>3 DEF WorkOk
    <3> QED BY <3>1, <3>2
  <2> QED BY <1>2, <1>20, <2>1, <2>4 DEF WorkOk
<1>23. LegsOk(s)'
  <2>1. new.legs \subseteq Movements(new.op, new.doc)
    BY <1>2, <1>17, <1>19 DEF LegsOk
  <2>2. \A i \in DOMAIN new.posted : ItemOf[new.posted[i].bin] \in ItemsOf(new.doc)
    <3>1. job[s].posted \in Seq(Entries)
      BY <1>6 DEF Jobs
    <3> QED BY <3>1, <1>14, <1>17, <1>19 DEF LegsOk
  <2> QED BY <1>2, <1>20, <2>1, <2>2 DEF LegsOk, Movements, ReadsBack
<1>24. SessionOk(s)'
  BY <1>21, <1>22, <1>23 DEF SessionOk
<1> QED BY <1>2, <1>16, <1>18, <1>24, <1>29, QuietStep

\* A bin that is planned again keeps its stock.
LEMMA RefreshPreserves ==
    ASSUME StockInv, NEW s \in Sessions, Refresh(s)
    PROVE  StockInv'
<1> USE StockAssumption DEF StockInv, TypeOK
<1>1. PICK l \in job[s].lines :
        Lock(s, l[2]) /\ job' = [job EXCEPT ![s] = [job[s] EXCEPT !.lines = job[s].lines \ {l}]]
  BY DEF Refresh
<1>2. job[s].at = "post" /\ job[s].legs = {} /\ UNCHANGED <<status, bin, entries, booked>>
  BY DEF Refresh
<1>3. PICK b : b = l[2]
  OBVIOUS
<1>4. b \in Bins /\ b \in Lockable /\ b \notin Documents \cup Items
  <2>1. job[s].lines \subseteq Documents \X Bins
    BY DEF Jobs
  <2>2. l \in Documents \X Bins
    BY <2>1
  <2> QED BY <1>3, <2>2 DEF Lockable
<1>5. lock[b] \in {None, s} /\ lock' = [lock EXCEPT ![b] = s]
  BY <1>1, <1>3 DEF Lock
<1>6. /\ lock' \in [Lockable -> Sessions \cup {None}]
      /\ \A r \in Lockable : lock'[r] = IF r = b THEN s ELSE lock[r]
      /\ \A o \in Sessions \ {s} : \A r \in Lockable : lock'[r] = o <=> lock[r] = o
  BY <1>4, <1>5
<1>7. /\ job'[s] \in Jobs /\ job'[s].at = job[s].at /\ job'[s].op = job[s].op
      /\ job'[s].doc = job[s].doc /\ job'[s].locks = job[s].locks /\ job'[s].legs = job[s].legs
      /\ job'[s].posted = job[s].posted /\ job'[s].touched = job[s].touched
      /\ job'[s].work = job[s].work
  <2>1. job[s] \in Jobs
    OBVIOUS
  <2>2. job'[s] = [job[s] EXCEPT !.lines = job[s].lines \ {l}]
    BY <1>1
  <2>3. job[s].lines \ {l} \subseteq Documents \X Bins
    BY <2>1 DEF Jobs
  <2>4. job'[s] \in Jobs
    BY ONLY <2>1, <2>2, <2>3 DEF Jobs
  <2> QED BY ONLY <2>1, <2>2, <2>4 DEF Jobs
<1>8. \A o \in Sessions \ {s} : job'[o] = job[o]
  BY <1>1
<1>9. TypeOK'
  <2>1. ASSUME NEW r \in Lockable, lock'[r] # None PROVE job'[lock'[r]].at # "idle"
    <3>1. CASE lock'[r] = s
      BY <3>1, <1>2, <1>7
    <3>2. CASE lock'[r] # s
      <4>1. lock'[r] = lock[r] /\ lock[r] \in Sessions \ {s} /\ job[lock[r]].at # "idle"
        BY <2>1, <3>2, <1>6
      <4> QED BY <4>1, <1>8
    <3> QED BY <3>1, <3>2
  <2>2. job' \in [Sessions -> Jobs]
    BY <1>1, <1>7
  <2> QED BY <1>2, <1>6, <2>1, <2>2
<1>10. LocksOk(s) /\ WorkOk(s) /\ LegsOk(s)
  BY <1>2 DEF SessionOk
<1>11. LocksOk(s)'
  <2>1. \A r \in Documents \cup Items : lock'[r] = lock[r]
    BY <1>4, <1>6 DEF Lockable
  <2>2. Referenced(job[s].doc) \subseteq Documents \cup Items
    BY <1>10, NamedRows DEF LocksOk
  <2>7. job[s].doc \in Documents /\ job[s].locks = {}
    BY <1>2, <1>10 DEF LocksOk
  <2>3. PICK new : new = job'[s]
    OBVIOUS
  <2>4. new.doc = job[s].doc /\ \A r \in Referenced(job[s].doc) : lock[r] = s /\ lock'[r] = s
    BY <1>7, <1>10, <2>1, <2>2, <2>3, <2>7 DEF LocksOk
  <2>5. \A r \in Documents \cup Items : lock'[r] = s => r = new.doc \/ r \in Referenced(new.doc)
    BY <1>10, <2>1, <2>4, <2>7 DEF LocksOk
  <2>8. /\ new.doc \in Documents /\ lock'[new.doc] = s /\ status'[new.doc] = Expected(new.op)
        /\ new.locks = {} /\ new.at = "post" /\ new.legs = {}
        /\ \A r \in Referenced(new.doc) : lock'[r] = s
        /\ \A r \in Documents \cup Items : lock'[r] = s => r = new.doc \/ r \in Referenced(new.doc)
    BY <1>2, <1>7, <1>10, <2>1, <2>3, <2>4, <2>5, <2>7 DEF LocksOk
  <2> QED BY <2>3, <2>8 DEF LocksOk
<1>12. WorkOk(s)'
  BY <1>2, <1>7, <1>10 DEF WorkOk
<1>13. LegsOk(s)'
  BY <1>2, <1>7, <1>10 DEF LegsOk, Movements, ReadsBack
<1>14. SessionOk(s)'
  BY <1>11, <1>12, <1>13 DEF SessionOk
<1> QED BY <1>2, <1>6, <1>8, <1>9, <1>14, QuietStep

\* A session that ends its transaction gives back all its rows and no other.
LEMMA ReleasedRows ==
    ASSUME TypeOK, NEW s \in Sessions, lock' = Released(s), job' = [job EXCEPT ![s] = NoJob]
    PROVE  /\ job' \in [Sessions -> Jobs] /\ job'[s] = NoJob
           /\ \A o \in Sessions \ {s} : job'[o] = job[o]
           /\ lock' \in [Lockable -> Sessions \cup {None}]
           /\ \A r \in Lockable : lock'[r] # None => job'[lock'[r]].at # "idle"
           /\ \A o \in Sessions \ {s} :
                 \A r \in Lockable : lock'[r] = o <=> lock[r] = o
<1> USE StockAssumption, NoJobType DEF TypeOK, Released
<1>1. job' \in [Sessions -> Jobs] /\ job'[s] = NoJob /\ \A o \in Sessions \ {s} : job'[o] = job[o]
  OBVIOUS
<1>2. \A r \in Lockable : lock'[r] = IF lock[r] = s THEN None ELSE lock[r]
  OBVIOUS
<1>3. lock' \in [Lockable -> Sessions \cup {None}]
  OBVIOUS
<1>4. \A o \in Sessions \ {s} : \A r \in Lockable : lock'[r] = o <=> lock[r] = o
  BY <1>2
<1>5. \A r \in Lockable : lock'[r] # None => job'[lock'[r]].at # "idle"
  BY <1>1, <1>2
<1> QED BY <1>1, <1>3, <1>4, <1>5

\* A rollback gives up the copy and the locks together.
LEMMA RollbackPreserves ==
    ASSUME StockInv, NEW s \in Sessions, Rollback(s)
    PROVE  StockInv'
<1>1. /\ lock' = Released(s) /\ job' = [job EXCEPT ![s] = NoJob]
      /\ UNCHANGED <<status, bin, entries, booked>>
  BY DEF Rollback
<1>2. TypeOK'
  BY <1>1, ReleasedRows DEF StockInv, TypeOK
<1>3. SessionOk(s)'
  BY <1>1, ReleasedRows, NoJobType DEF StockInv, SessionOk
<1> QED BY <1>1, <1>2, <1>3, ReleasedRows, QuietStep DEF StockInv

\* What a list of entries holds after others were added to it.
LEMMA Appended ==
    ASSUME NEW old \in Seq(Entries), NEW added \in Seq(Entries), NEW k \in DOMAIN (old \o added)
    PROVE  \/ k \in DOMAIN old /\ (old \o added)[k] = old[k]
           \/ \E i \in DOMAIN added : (old \o added)[k] = added[i]
<1>1. /\ Len(old) \in Nat /\ Len(added) \in Nat /\ DOMAIN old = 1..Len(old)
      /\ DOMAIN added = 1..Len(added) /\ k \in 1..(Len(old) + Len(added))
  OBVIOUS
<1>2. CASE k <= Len(old)
  BY <1>1, <1>2
<1>3. CASE k > Len(old)
  <2>1. k - Len(old) \in DOMAIN added
    BY <1>1, <1>3
  <2>2. (old \o added)[k] = added[k - Len(old)]
    BY <1>1, <1>3
  <2> QED BY <2>1, <2>2
<1> QED BY <1>1, <1>2, <1>3

\* The entries of a voucher add to the ledger what they add up to.
LEMMA LedgerGrows ==
    ASSUME NEW d \in Documents, NEW p \in Seq(Entries), entries \in [Documents -> Seq(Entries)],
           entries' = [entries EXCEPT ![d] = entries[d] \o p], NEW b
    PROVE  /\ LedgerQty(b)' = LedgerQty(b) + AtQty(p, b)
           /\ LedgerValue(b)' = LedgerValue(b) + AtCost(p, b)
<1> DEFINE f == [e \in Documents |-> AtQty(entries[e], b)]
           g == [e \in Documents |-> AtCost(entries[e], b)]
           F == [e \in Documents |-> AtQty(entries'[e], b)]
           G == [e \in Documents |-> AtCost(entries'[e], b)]
<1>1. IsFiniteSet(Documents) /\ d \in Documents
  BY StockAssumption
<1>2. \A e \in Documents : entries'[e] = IF e = d THEN entries[d] \o p ELSE entries[e]
  OBVIOUS
<1>3. \A e \in Documents : f[e] \in Int /\ g[e] \in Int
  BY AtType
<1>4. AtQty(p, b) \in Int /\ AtCost(p, b) \in Int
  BY AtType
<1>5. F[d] = f[d] + AtQty(p, b) /\ G[d] = g[d] + AtCost(p, b)
  BY <1>2, ConcatAt
<1>6. \A e \in Documents : e # d => F[e] = f[e] /\ G[e] = g[e]
  BY <1>2
<1>7. LedgerQty(b) = SumFunctionOnSet(f, Documents) /\ LedgerValue(b) = SumFunctionOnSet(g, Documents)
  BY DEF LedgerQty, LedgerValue, AtQty, AtCost
<1>8. LedgerQty(b)' = SumFunctionOnSet(F, Documents) /\ LedgerValue(b)' = SumFunctionOnSet(G, Documents)
  BY DEF LedgerQty, LedgerValue, AtQty, AtCost
<1> HIDE DEF f, g, F, G
<1>13. F[d] \in Int /\ G[d] \in Int
  BY <1>1, <1>3, <1>4, <1>5
<1>14. /\ \A e \in Documents : f[e] \in Int /\ (e # d => F[e] = f[e])
       /\ \A e \in Documents : g[e] \in Int /\ (e # d => G[e] = g[e])
  BY <1>3, <1>6
<1>9. SumFunctionOnSet(F, Documents) = SumFunctionOnSet(f, Documents) - f[d] + F[d]
  BY ONLY <1>1, <1>13, <1>14, SumChange
<1>10. SumFunctionOnSet(G, Documents) = SumFunctionOnSet(g, Documents) - g[d] + G[d]
  BY ONLY <1>1, <1>13, <1>14, SumChange
<1>11. SumFunctionOnSet(f, Documents) \in Int /\ SumFunctionOnSet(g, Documents) \in Int
  BY <1>1, <1>3, SumIsNumber
<1>12. f[d] \in Int /\ g[d] \in Int
  BY <1>1, <1>3
<1> QED BY <1>4, <1>5, <1>7, <1>8, <1>9, <1>10, <1>11, <1>12

\* A commit writes bins and ledger together, over rows the session holds.
LEMMA CommitPreserves ==
    ASSUME StockInv, NEW s \in Sessions, Commit(s)
    PROVE  StockInv'
<1> USE StockAssumption
<1> DEFINE j == job[s]
<1>1. /\ j.at = "post" /\ lock' = Released(s) /\ job' = [job EXCEPT ![s] = NoJob]
      /\ status' = [status EXCEPT ![j.doc] = IF j.op = "submit" THEN "submitted" ELSE "cancelled"]
      /\ bin' = [b \in Bins |-> IF b \in j.touched THEN j.work[b] ELSE bin[b]]
      /\ entries' = [entries EXCEPT ![j.doc] = entries[j.doc] \o j.posted]
      /\ booked' = [booked EXCEPT ![j.doc] =
                       IF j.op = "submit" THEN Booking(j.doc, j.cost, j.stated) ELSE 0]
  BY DEF Commit
<1>2. LocksOk(s) /\ WorkOk(s) /\ LegsOk(s) /\ TypeOK
  BY <1>1 DEF StockInv, SessionOk
<1>3. j \in Jobs /\ j.doc \in Documents /\ lock[j.doc] = s
  BY <1>2 DEF TypeOK, LocksOk
<1>4. /\ j.work \in [Bins -> Balances]
      /\ j.posted \in Seq(Entries) /\ j.touched \subseteq Bins
      /\ j.cost \in Int /\ j.stated \in Int
  BY <1>3 DEF Jobs
<1>5. bin' \in [Bins -> Balances]
  BY <1>1, <1>2, <1>4 DEF TypeOK
<1>7. entries' \in [Documents -> Seq(Entries)]
  <2>1. entries[j.doc] \o j.posted \in Seq(Entries)
    BY <1>2, <1>3, <1>4 DEF TypeOK
  <2> QED BY <1>1, <1>2, <2>1 DEF TypeOK
<1>8. booked' \in [Documents -> Int]
  <2>1. Booking(j.doc, j.cost, j.stated) \in Int
    BY <1>4 DEF Booking
  <2> DEFINE amount == IF j.op = "submit" THEN Booking(j.doc, j.cost, j.stated) ELSE 0
  <2>2. amount \in Int /\ booked' = [booked EXCEPT ![j.doc] = amount]
    BY <1>1, <2>1
  <2> HIDE DEF amount
  <2> QED BY ONLY <2>2, <1>2 DEF TypeOK
<1>9. status' \in [Documents -> {"draft", "submitted", "cancelled"}]
  BY <1>1, <1>2 DEF TypeOK
<1>10. TypeOK'
  BY <1>1, <1>2, <1>5, <1>7, <1>8, <1>9, ReleasedRows DEF TypeOK
<1>11. BinMatchesLedger'
  <2> SUFFICES ASSUME NEW b \in Bins
               PROVE  bin'[b].qty = LedgerQty(b)' /\ bin'[b].value = LedgerValue(b)'
    BY DEF BinMatchesLedger
  <2>1. bin[b].qty = LedgerQty(b) /\ bin[b].value = LedgerValue(b)
    BY DEF StockInv, BinMatchesLedger
  <2>2. /\ LedgerQty(b)' = LedgerQty(b) + AtQty(j.posted, b)
        /\ LedgerValue(b)' = LedgerValue(b) + AtCost(j.posted, b)
    BY <1>1, <1>2, <1>3, <1>4, LedgerGrows DEF TypeOK
  <2>3. CASE b \in j.touched
    <3>1. bin'[b] = j.work[b]
      BY <1>1, <2>3
    <3> QED BY <2>1, <2>2, <2>3, <3>1, <1>2 DEF WorkOk
  <2>4. CASE b \notin j.touched
    <3>1. bin'[b] = bin[b] /\ AtQty(j.posted, b) = 0 /\ AtCost(j.posted, b) = 0
      BY <1>1, <1>2, <2>4 DEF WorkOk
    <3>2. bin[b].qty \in Int /\ bin[b].value \in Int
      BY <1>2 DEF TypeOK, Balances
    <3> QED BY <2>1, <2>2, <3>1, <3>2
  <2> QED BY <2>3, <2>4
<1>12. EntriesNamed'
  <2>1. entries[j.doc] \in Seq(Entries)
    BY <1>2, <1>3 DEF TypeOK
  <2>2. \A k \in DOMAIN (entries[j.doc] \o j.posted) :
           \/ k \in DOMAIN entries[j.doc] /\ (entries[j.doc] \o j.posted)[k] = entries[j.doc][k]
           \/ \E i \in DOMAIN j.posted : (entries[j.doc] \o j.posted)[k] = j.posted[i]
    <3>1. PICK p, q : p = entries[j.doc] /\ q = j.posted
      OBVIOUS
    <3>2. p \in Seq(Entries) /\ q \in Seq(Entries)
      BY <2>1, <1>4, <3>1
    <3>3. \A k \in DOMAIN (p \o q) : \/ k \in DOMAIN p /\ (p \o q)[k] = p[k]
                                     \/ \E i \in DOMAIN q : (p \o q)[k] = q[i]
      BY ONLY <3>2, Appended
    <3> QED BY <3>1, <3>3
  <2>3. \A k \in DOMAIN (entries[j.doc] \o j.posted) :
           ItemOf[(entries[j.doc] \o j.posted)[k].bin] \in ItemsOf(j.doc)
    BY <2>2, <1>2, <1>3 DEF StockInv, EntriesNamed, LegsOk
  <2>4. \A d \in Documents : entries'[d] = IF d = j.doc THEN entries[j.doc] \o j.posted
                                                        ELSE entries[d]
    BY <1>1, <1>2 DEF TypeOK
  <2> QED BY <2>3, <2>4 DEF StockInv, EntriesNamed
<1>13. SessionOk(s)'
  BY <1>1, <1>2, ReleasedRows, NoJobType DEF SessionOk
<1>14. ASSUME NEW o \in Sessions \ {s} PROVE SessionOk(o)'
  <2>1. job'[o] = job[o] /\ \A r \in Lockable : lock'[r] = o <=> lock[r] = o
    BY <1>1, <1>2, ReleasedRows
  <2>2. \A d \in Documents : lock[d] = o => status'[d] = status[d] /\ entries'[d] = entries[d]
    BY <1>1, <1>2, <1>3 DEF TypeOK
  <2>3. \A b \in j.touched : lock[ItemOf[b]] = s
    BY <1>1, <1>2 DEF LocksOk, WorkOk, Referenced
  <2>5. Documents \subseteq Lockable
    BY DEF Lockable
  <2>4. \A b \in Bins : lock[ItemOf[b]] = o => bin'[b] = bin[b]
    BY <1>1, <2>3
  <2> QED BY <2>1, <2>2, <2>4, <2>5, OthersUndisturbed
<1> QED BY <1>10, <1>11, <1>12, <1>13, <1>14 DEF StockInv

\* Every step of the stock ledger keeps its invariant.
LEMMA StockStep == StockInv /\ [Next]_vars => StockInv'
<1> SUFFICES ASSUME StockInv, [Next]_vars PROVE StockInv'
  OBVIOUS
<1>1. CASE UNCHANGED vars
  <2>1. UNCHANGED <<status, bin, entries, booked, lock, job>>
    BY <1>1 DEF vars
  <2>2. TypeOK'
    BY <2>1 DEF StockInv, TypeOK
  <2>3. \A o \in Sessions : SessionOk(o)'
    BY <2>1, OthersUndisturbed
  <2> QED BY <2>1, <2>2, <2>3 DEF StockInv, BinMatchesLedger, LedgerQty, LedgerValue, EntriesNamed
<1>2. ASSUME NEW s \in Sessions, NEW o \in {"submit", "cancel"}, NEW d \in Documents, Begin(s, o, d)
      PROVE  StockInv'
  BY <1>2, BeginPreserves
<1>3. ASSUME NEW s \in Sessions, Take(s) PROVE StockInv'
  BY <1>3, TakePreserves
<1>4. ASSUME NEW s \in Sessions, Validate(s) PROVE StockInv'
  BY <1>4, ValidatePreserves
<1>5. ASSUME NEW s \in Sessions, Post(s) PROVE StockInv'
  BY <1>5, PostPreserves
<1>8. ASSUME NEW s \in Sessions, Refresh(s) PROVE StockInv'
  BY <1>8, RefreshPreserves
<1>9. ASSUME NEW s \in Sessions, Load(s) PROVE StockInv'
  BY <1>9, LoadPreserves
<1>6. ASSUME NEW s \in Sessions, Commit(s) PROVE StockInv'
  BY <1>6, CommitPreserves
<1>7. ASSUME NEW s \in Sessions, Refuse(s) \/ Fail(s) PROVE StockInv'
  BY <1>7, RollbackPreserves DEF Refuse, Fail
<1> QED BY <1>1, <1>2, <1>3, <1>4, <1>5, <1>6, <1>7, <1>8, <1>9 DEF Next

\* The invariant of the stock ledger holds in every state.
LEMMA StockAlways == Spec => []StockInv
<1>1. Init => StockInv
  BY InitialStock
<1>2. StockInv /\ [Next]_vars => StockInv'
  BY StockStep
<1> QED BY <1>1, <1>2, PTL DEF Spec

-----------------------------------------------------------------------------
(* What is posted is what was to be moved *)

\* What the movements N of a request add to a bin, at the rates they state.
ToBin(o, d, N, b) == {k \in N : Movement(o, d, k).bin = b}
PlanQty(o, d, N, b) ==
    SumFunctionOnSet([k \in ToBin(o, d, N, b) |-> Movement(o, d, k).qty], ToBin(o, d, N, b))
PlanCost(o, d, N, b) ==
    SumFunctionOnSet([k \in ToBin(o, d, N, b) |-> Movement(o, d, k).qty * Movement(o, d, k).rate],
                     ToBin(o, d, N, b))

\* Every movement of the request states its rate.
OwnCosts(o, d) == ~CostAtAverage(d) /\ (KindOf[d] = "entry" => o = "cancel")

Done(s) == Movements(job[s].op, job[s].doc) \ job[s].legs

\* What a request has posted is what it had to move, less what is left to do.
PlanOk(s) ==
    /\ job[s].at = "lock" => job[s].posted = <<>> /\ job[s].cost = 0 /\ job[s].stated = 0
    /\ job[s].at = "post" =>
          /\ \A b \in Bins : AtQty(job[s].posted, b) = PlanQty(job[s].op, job[s].doc, Done(s), b)
          /\ job[s].cost = CostIn(job[s].posted, DOMAIN job[s].posted)
          /\ OwnCosts(job[s].op, job[s].doc) =>
                /\ job[s].stated = job[s].cost
                /\ \A b \in Bins :
                      AtCost(job[s].posted, b) = PlanCost(job[s].op, job[s].doc, Done(s), b)

\* A draft has no entries, a submitted voucher those of its rows, a cancelled one
\* entries that leave nothing.
VoucherOk(d) ==
    /\ status[d] = "draft" => entries[d] = <<>>
    /\ status[d] # "submitted" => booked[d] = 0
    /\ status[d] = "submitted" =>
          /\ \A b \in Bins : AtQty(entries[d], b) = PlanQty("submit", d, LegsOf(d), b)
          /\ OwnCosts("submit", d) =>
                \A b \in Bins : AtCost(entries[d], b) = PlanCost("submit", d, LegsOf(d), b)
          /\ ~(KindOf[d] = "purchase" /\ IsReturn(d)) => booked[d] = CostIn(entries[d], DOMAIN entries[d])
    /\ status[d] = "cancelled" =>
          \A b \in Bins : /\ AtQty(entries[d], b) = 0
                          /\ ~CostAtAverage(d) => AtCost(entries[d], b) = 0

PlanInv == (\A s \in Sessions : PlanOk(s)) /\ \A d \in Documents : VoucherOk(d)

\* A request that states its rates is valued at them.
LEMMA GivenRates ==
    ASSUME NEW o \in {"submit", "cancel"}, NEW d \in Documents, OwnCosts(o, d), NEW k \in Movements(o, d)
    PROVE  Movement(o, d, k).basis = "given"
<1>1. CASE ReadsBack(o, d)
  BY <1>1 DEF ReadsBack, Movement
<1>2. CASE ~ReadsBack(o, d)
  <2>1. KindOf[d] # "entry"
    BY <1>2 DEF ReadsBack, OwnCosts
  <2>2. k \in 1..(2 * Len(RowsOf[d])) /\ Leg(d, k).bin # None
    BY <1>2 DEF Movements, LegsOf
  <2>9. KindOf[d] # "order"
    BY <1>2 DEF Movements, LegsOf
  <2>3. PICK r : r = RowsOf[d][(k + 1) \div 2]
    OBVIOUS
  <2>4. Leg(d, k) = IF k % 2 = 1 THEN Leaving(d, r) ELSE Arriving(d, r)
    BY <2>3 DEF Leg
  <2>5. KindOf[d] = "receipt" \/ (KindOf[d] = "purchase" /\ Original[d] = None)
    BY <2>1, <2>9, StockAssumption DEF OwnCosts, CostAtAverage, IsReturn, Kinds
  <2>6. Leg(d, k).basis = "given"
    <3>1. CASE KindOf[d] = "receipt"
      BY <2>4, <3>1 DEF Leaving, Arriving
    <3>2. CASE KindOf[d] = "purchase" /\ Original[d] = None
      <4>1. (k + 1) \div 2 \in DOMAIN RowsOf[d]
        <5>1. RowsOf[d] \in Seq(Rows)
          BY StockAssumption
        <5>2. Len(RowsOf[d]) \in Nat /\ DOMAIN RowsOf[d] = 1..Len(RowsOf[d])
          BY <5>1
        <5> QED BY <2>2, <5>2
      <4>2. r.from = None
        BY <2>3, <3>2, <4>1, StockAssumption
      <4>3. Leg(d, k) = Arriving(d, r)
        BY <2>2, <2>4, <4>2 DEF Leaving
      <4> QED BY <3>2, <4>3 DEF Arriving
    <3> QED BY <2>5, <3>1, <3>2
  <2>7. Movement(o, d, k) = Leg(d, k) \/ Movement(o, d, k) = Reversed(Leg(d, k))
    BY <2>1 DEF Movement
  <2>8. Reversed(Leg(d, k)).basis = Leg(d, k).basis
    BY <2>4 DEF Reversed, Leaving, Arriving
  <2> QED BY <2>6, <2>7, <2>8
<1> QED BY <1>1, <1>2

\* A request has finitely many movements.
LEMMA FiniteMovements ==
    ASSUME StockInv, NEW o, NEW d \in Documents
    PROVE  IsFiniteSet(Movements(o, d)) /\ IsFiniteSet(LegsOf(d))
<1>1. RowsOf[d] \in Seq(Rows) /\ entries[d] \in Seq(Entries)
  BY StockAssumption DEF StockInv, TypeOK
<1>2. Len(RowsOf[d]) \in Nat
  BY <1>1
<1>3. 2 * Len(RowsOf[d]) \in Int
  BY <1>2
<1>4. IsFiniteSet(1..(2 * Len(RowsOf[d]))) /\ IsFiniteSet(DOMAIN entries[d])
  BY <1>1, <1>3, FS_Interval, AtType
<1>5. LegsOf(d) \in SUBSET (1..(2 * Len(RowsOf[d])))
  BY DEF LegsOf
<1>6. IsFiniteSet(LegsOf(d))
  BY <1>4, <1>5, FS_Subset
<1> QED BY <1>4, <1>6 DEF Movements

\* What is planned for a bin adds up to a number, and a movement more adds itself.
LEMMA PlanGrows ==
    ASSUME StockInv, NEW o \in {"submit", "cancel"}, NEW d \in Documents, NEW N \in SUBSET Movements(o, d)
    PROVE  /\ \A b : PlanQty(o, d, N, b) \in Int /\ PlanCost(o, d, N, b) \in Int
           /\ \A b : PlanQty(o, d, {}, b) = 0 /\ PlanCost(o, d, {}, b) = 0
           /\ \A k \in Movements(o, d) \ N : \A b :
                 /\ PlanQty(o, d, N \cup {k}, b)
                      = PlanQty(o, d, N, b) + IF Movement(o, d, k).bin = b THEN Movement(o, d, k).qty ELSE 0
                 /\ PlanCost(o, d, N \cup {k}, b)
                      = PlanCost(o, d, N, b) + IF Movement(o, d, k).bin = b
                                               THEN Movement(o, d, k).qty * Movement(o, d, k).rate ELSE 0
<1> DEFINE q == [k \in Movements(o, d) |-> Movement(o, d, k).qty]
           c == [k \in Movements(o, d) |-> Movement(o, d, k).qty * Movement(o, d, k).rate]
<1>1. \A k \in Movements(o, d) : q[k] \in Int /\ c[k] \in Int
  <2> SUFFICES ASSUME NEW k \in Movements(o, d) PROVE q[k] \in Int /\ c[k] \in Int
    OBVIOUS
  <2>1. Movement(o, d, k).qty \in Int /\ Movement(o, d, k).rate \in Int
    BY MoveType DEF Moves
  <2> QED BY <2>1
<1>2. ASSUME NEW M \in SUBSET Movements(o, d), NEW b
      PROVE  /\ IsFiniteSet(ToBin(o, d, M, b))
             /\ PlanQty(o, d, M, b) = SumFunctionOnSet(q, ToBin(o, d, M, b))
             /\ PlanCost(o, d, M, b) = SumFunctionOnSet(c, ToBin(o, d, M, b))
  <2> DEFINE A == ToBin(o, d, M, b)
             f == [k \in A |-> Movement(o, d, k).qty]
             g == [k \in A |-> Movement(o, d, k).qty * Movement(o, d, k).rate]
  <2>1. A \in SUBSET Movements(o, d) /\ IsFiniteSet(Movements(o, d))
    BY FiniteMovements DEF ToBin
  <2>2. IsFiniteSet(A)
    BY <2>1, FS_Subset
  <2>3. (\A k \in A : q[k] \in Int /\ f[k] = q[k]) /\ \A k \in A : c[k] \in Int /\ g[k] = c[k]
    <3> HIDE DEF A
    <3> QED BY <1>1, <2>1
  <2>4. PlanQty(o, d, M, b) = SumFunctionOnSet(f, A) /\ PlanCost(o, d, M, b) = SumFunctionOnSet(g, A)
    BY DEF PlanQty, PlanCost
  <2> HIDE DEF A, f, g, q, c
  <2>5. SumFunctionOnSet(f, A) = SumFunctionOnSet(q, A) /\ SumFunctionOnSet(g, A) = SumFunctionOnSet(c, A)
    BY ONLY <2>2, <2>3, SumSame
  <2> QED BY <2>2, <2>4, <2>5 DEF A
<1>3. ASSUME NEW b PROVE PlanQty(o, d, N, b) \in Int /\ PlanCost(o, d, N, b) \in Int
  <2>1. \A k \in ToBin(o, d, N, b) : q[k] \in Int /\ c[k] \in Int
    BY <1>1 DEF ToBin
  <2> HIDE DEF q, c
  <2> QED BY <1>2, <2>1, SumIsNumber
<1>4. ASSUME NEW b PROVE PlanQty(o, d, {}, b) = 0 /\ PlanCost(o, d, {}, b) = 0
  <2>1. ToBin(o, d, {}, b) = {}
    BY DEF ToBin
  <2> QED BY <2>1, SumOfNone DEF PlanQty, PlanCost
<1>5. ASSUME NEW k \in Movements(o, d) \ N, NEW b
      PROVE  /\ PlanQty(o, d, N \cup {k}, b)
                  = PlanQty(o, d, N, b) + IF Movement(o, d, k).bin = b THEN Movement(o, d, k).qty ELSE 0
             /\ PlanCost(o, d, N \cup {k}, b)
                  = PlanCost(o, d, N, b) + IF Movement(o, d, k).bin = b
                                           THEN Movement(o, d, k).qty * Movement(o, d, k).rate ELSE 0
  <2> DEFINE A == ToBin(o, d, N, b)
             B == ToBin(o, d, N \cup {k}, b)
  <2>1. /\ q[k] = Movement(o, d, k).qty /\ c[k] = Movement(o, d, k).qty * Movement(o, d, k).rate
        /\ N \cup {k} \in SUBSET Movements(o, d) /\ A \in SUBSET Movements(o, d) /\ k \notin A
    BY DEF ToBin
  <2>2. B = IF Movement(o, d, k).bin = b THEN A \cup {k} ELSE A
    BY DEF ToBin
  <2>3. IsFiniteSet(A) /\ k \notin A /\ (\A x \in A \cup {k} : q[x] \in Int) /\ \A x \in A \cup {k} : c[x] \in Int
    <3> HIDE DEF q, c, A
    <3>1. IsFiniteSet(A)
      BY <1>2 DEF A
    <3> QED BY <1>1, <2>1, <3>1
  <2>4. /\ PlanQty(o, d, N, b) = SumFunctionOnSet(q, A) /\ PlanCost(o, d, N, b) = SumFunctionOnSet(c, A)
        /\ PlanQty(o, d, N \cup {k}, b) = SumFunctionOnSet(q, B)
        /\ PlanCost(o, d, N \cup {k}, b) = SumFunctionOnSet(c, B)
    <3> HIDE DEF q, c
    <3> QED BY <1>2, <2>1
  <2>5. /\ SumFunctionOnSet(q, A \cup {k}) = SumFunctionOnSet(q, A) + q[k]
        /\ SumFunctionOnSet(c, A \cup {k}) = SumFunctionOnSet(c, A) + c[k]
    <3> HIDE DEF q, c, A
    <3> QED BY ONLY <2>3, SumAdd
  <2>6. PlanQty(o, d, N, b) \in Int /\ PlanCost(o, d, N, b) \in Int
    BY <1>3
  <2> HIDE DEF A, B, q, c
  <2> QED BY <2>1, <2>2, <2>4, <2>5, <2>6
<1> QED BY <1>3, <1>4, <1>5

\* A cancel plans the opposite of what its document posted.
LEMMA CancelPlan ==
    ASSUME StockInv, NEW d \in Documents, VoucherOk(d), status[d] = "submitted", NEW b \in Bins
    PROVE  /\ PlanQty("cancel", d, Movements("cancel", d), b) = -AtQty(entries[d], b)
           /\ ~CostAtAverage(d) =>
                 PlanCost("cancel", d, Movements("cancel", d), b) = -AtCost(entries[d], b)
<1>1. CASE KindOf[d] = "entry"
  <2> DEFINE A == At(entries[d], b)
             f == [k \in A |-> entries[d][k].qty]
             g == [k \in A |-> entries[d][k].qty * entries[d][k].rate]
             F == [k \in A |-> Movement("cancel", d, k).qty]
             G == [k \in A |-> Movement("cancel", d, k).qty * Movement("cancel", d, k).rate]
  <2>1. entries[d] \in Seq(Entries)
    BY DEF StockInv, TypeOK
  <2>2. IsFiniteSet(A) /\ A \subseteq DOMAIN entries[d]
    BY <2>1, AtType
  <2>3. ToBin("cancel", d, Movements("cancel", d), b) = A
    BY <1>1 DEF ToBin, Movements, ReadsBack, Movement, At
  <2>4. \A k \in A : /\ Movement("cancel", d, k).qty = -entries[d][k].qty
                     /\ Movement("cancel", d, k).rate = entries[d][k].rate
                     /\ entries[d][k].qty \in Int /\ entries[d][k].rate \in Int
    <3>1. \A k \in A : entries[d][k] \in Entries
      BY <2>1, <2>2
    <3> QED BY <1>1, <3>1 DEF Movement, Entries
  <2>5. /\ PlanQty("cancel", d, Movements("cancel", d), b) = SumFunctionOnSet(F, A)
        /\ PlanCost("cancel", d, Movements("cancel", d), b) = SumFunctionOnSet(G, A)
        /\ AtQty(entries[d], b) = SumFunctionOnSet(f, A) /\ AtCost(entries[d], b) = SumFunctionOnSet(g, A)
    BY <2>3 DEF PlanQty, PlanCost, AtQty, AtCost, QtyIn, CostIn
  <2>6. /\ \A k \in A : f[k] \in Int /\ F[k] \in Int /\ f[k] + F[k] = 0
        /\ \A k \in A : g[k] \in Int /\ G[k] \in Int /\ g[k] + G[k] = 0
    <3> HIDE DEF A
    <3> QED BY <2>4
  <2> HIDE DEF A, f, g, F, G
  <2>7. SumFunctionOnSet(F, A) = -SumFunctionOnSet(f, A) /\ SumFunctionOnSet(G, A) = -SumFunctionOnSet(g, A)
    BY ONLY <2>2, <2>6, SumOpposite
  <2> QED BY <2>5, <2>7
<1>2. CASE KindOf[d] # "entry"
  <2> DEFINE A == ToBin("submit", d, LegsOf(d), b)
             f == [k \in A |-> Movement("submit", d, k).qty]
             g == [k \in A |-> Movement("submit", d, k).qty * Movement("submit", d, k).rate]
             F == [k \in A |-> Movement("cancel", d, k).qty]
             G == [k \in A |-> Movement("cancel", d, k).qty * Movement("cancel", d, k).rate]
  <2>1. Movements("cancel", d) = LegsOf(d) /\ Movements("submit", d) = LegsOf(d)
    BY <1>2 DEF Movements, ReadsBack
  <2>2. \A k \in LegsOf(d) :
           /\ Movement("cancel", d, k).qty = -Movement("submit", d, k).qty
           /\ Movement("cancel", d, k).rate = Movement("submit", d, k).rate
           /\ Movement("cancel", d, k).bin = Movement("submit", d, k).bin
           /\ Movement("submit", d, k).qty \in Int /\ Movement("submit", d, k).rate \in Int
    <3> SUFFICES ASSUME NEW k \in LegsOf(d)
                 PROVE  /\ Movement("cancel", d, k).qty = -Movement("submit", d, k).qty
                        /\ Movement("cancel", d, k).rate = Movement("submit", d, k).rate
                        /\ Movement("cancel", d, k).bin = Movement("submit", d, k).bin
                        /\ Movement("submit", d, k).qty \in Int /\ Movement("submit", d, k).rate \in Int
      OBVIOUS
    <3>1. Leg(d, k) \in Moves
      BY LegType
    <3>2. Movement("submit", d, k) = Leg(d, k) /\ Movement("cancel", d, k) = Reversed(Leg(d, k))
      BY <1>2 DEF Movement
    <3> QED BY <3>1, <3>2 DEF Reversed, Moves
  <2>3. ToBin("cancel", d, LegsOf(d), b) = A /\ A \in SUBSET LegsOf(d)
    BY <2>2 DEF ToBin
  <2>4. IsFiniteSet(A)
    BY <2>3, FiniteMovements, FS_Subset
  <2>5. /\ PlanQty("cancel", d, LegsOf(d), b) = SumFunctionOnSet(F, A)
        /\ PlanCost("cancel", d, LegsOf(d), b) = SumFunctionOnSet(G, A)
        /\ PlanQty("submit", d, LegsOf(d), b) = SumFunctionOnSet(f, A)
        /\ PlanCost("submit", d, LegsOf(d), b) = SumFunctionOnSet(g, A)
    BY <2>3 DEF PlanQty, PlanCost
  <2>6. /\ \A k \in A : f[k] \in Int /\ F[k] \in Int /\ f[k] + F[k] = 0
        /\ \A k \in A : g[k] \in Int /\ G[k] \in Int /\ g[k] + G[k] = 0
    <3> HIDE DEF A
    <3> QED BY <2>2, <2>3
  <2> HIDE DEF A, f, g, F, G
  <2>7. SumFunctionOnSet(F, A) = -SumFunctionOnSet(f, A) /\ SumFunctionOnSet(G, A) = -SumFunctionOnSet(g, A)
    BY ONLY <2>4, <2>6, SumOpposite
  <2>8. /\ AtQty(entries[d], b) = PlanQty("submit", d, LegsOf(d), b)
        /\ ~CostAtAverage(d) => AtCost(entries[d], b) = PlanCost("submit", d, LegsOf(d), b)
    BY <1>2 DEF VoucherOk, OwnCosts
  <2> QED BY <2>1, <2>5, <2>7, <2>8
<1> QED BY <1>1, <1>2

\* A plan stays what it was while the entries it reads back do.
LEMMA SamePlan ==
    ASSUME NEW o, NEW d \in Documents, o = "submit" \/ entries'[d] = entries[d]
    PROVE  /\ Movements(o, d)' = Movements(o, d)
           /\ \A N, b : /\ PlanQty(o, d, N, b)' = PlanQty(o, d, N, b)
                        /\ PlanCost(o, d, N, b)' = PlanCost(o, d, N, b)
<1>1. \A k : Movement(o, d, k)' = Movement(o, d, k)
  BY DEF Movement, Leg, Leaving, Arriving, Reversed
<1>2. Movements(o, d)' = Movements(o, d)
  BY DEF Movements, ReadsBack, LegsOf, Leg, Leaving, Arriving
<1>3. ASSUME NEW N, NEW b
      PROVE  /\ PlanQty(o, d, N, b)' = PlanQty(o, d, N, b)
             /\ PlanCost(o, d, N, b)' = PlanCost(o, d, N, b)
  BY <1>1 DEF PlanQty, PlanCost, ToBin
<1> QED BY <1>2, <1>3

\* A step that leaves a session and the entries of its document alone leaves
\* what it has posted in step with its plan.
LEMMA PlanKept ==
    ASSUME NEW o \in Sessions, PlanOk(o), job'[o] = job[o],
           job[o].at # "idle" => job[o].doc \in Documents /\ entries'[job[o].doc] = entries[job[o].doc]
    PROVE  PlanOk(o)'
<1>1. CASE job[o].at # "idle"
  <2>1. PICK p, d : p = job[o].op /\ d = job[o].doc /\ d \in Documents /\ entries'[d] = entries[d]
    BY <1>1
  <2>2. /\ Movements(p, d)' = Movements(p, d)
        /\ \A N, b : PlanQty(p, d, N, b)' = PlanQty(p, d, N, b) /\ PlanCost(p, d, N, b)' = PlanCost(p, d, N, b)
    BY <2>1, SamePlan
  <2>3. Done(o)' = Done(o)
    BY <2>1, <2>2 DEF Done
  <2>4. \A N, b : /\ PlanQty(job[o].op, job[o].doc, N, b)' = PlanQty(job[o].op, job[o].doc, N, b)
                  /\ PlanCost(job[o].op, job[o].doc, N, b)' = PlanCost(job[o].op, job[o].doc, N, b)
    BY <2>1, <2>2
  <2> QED BY <2>3, <2>4 DEF PlanOk
<1>2. CASE job[o].at = "idle"
  BY <1>2 DEF PlanOk
<1> QED BY <1>1, <1>2

\* So is a voucher nothing is written to.
LEMMA VoucherKept ==
    ASSUME NEW d \in Documents, VoucherOk(d), status'[d] = status[d], entries'[d] = entries[d],
           booked'[d] = booked[d]
    PROVE  VoucherOk(d)'
<1>1. \A N, b : /\ PlanQty("submit", d, N, b)' = PlanQty("submit", d, N, b)
                /\ PlanCost("submit", d, N, b)' = PlanCost("submit", d, N, b)
  BY SamePlan
<1>2. LegsOf(d)' = LegsOf(d)
  BY DEF LegsOf, Leg, Leaving, Arriving
<1> QED BY <1>1, <1>2 DEF VoucherOk

\* Every document starts as a draft that has posted nothing.
LEMMA InitialPlan == Init => PlanInv
BY DEF Init, PlanInv, PlanOk, VoucherOk, NoJob

\* It is enough that a step that writes no voucher keeps the plan of its session.
LEMMA QuietPlan ==
    ASSUME StockInv, PlanInv, NEW s \in Sessions, PlanOk(s)', UNCHANGED <<status, entries, booked>>,
           \A o \in Sessions \ {s} : job'[o] = job[o]
    PROVE  PlanInv'
<1>1. ASSUME NEW o \in Sessions \ {s} PROVE PlanOk(o)'
  <2>1. job[o].at # "idle" => job[o].doc \in Documents /\ entries'[job[o].doc] = entries[job[o].doc]
    BY DEF StockInv, SessionOk, LocksOk
  <2> QED BY <2>1, PlanKept DEF PlanInv
<1>2. ASSUME NEW d \in Documents PROVE VoucherOk(d)'
  BY VoucherKept DEF PlanInv
<1> QED BY <1>1, <1>2 DEF PlanInv

\* What one round of postings adds to the request.
LEMMA Posting ==
    ASSUME StockInv, NEW s \in Sessions, Post(s)
    PROVE  \E k \in job[s].legs : \E e \in Entries :
              LET m == Movement(job[s].op, job[s].doc, k)
              IN  /\ e.bin = m.bin /\ e.qty = m.qty /\ (m.basis = "given" => e.rate = m.rate)
                  /\ job'[s].at = "post" /\ job'[s].op = job[s].op /\ job'[s].doc = job[s].doc
                  /\ job'[s].legs = job[s].legs \ {k}
                  /\ job'[s].posted = Append(job[s].posted, e)
                  /\ job'[s].cost = job[s].cost + e.qty * e.rate
                  /\ job'[s].stated = job[s].stated + e.qty * m.rate
                  /\ \A o \in Sessions \ {s} : job'[o] = job[o]
<1> USE StockAssumption
<1>1. job[s].at = "post" /\ job[s] \in Jobs /\ job \in [Sessions -> Jobs] /\ bin \in [Bins -> Balances]
  BY DEF Post, StockInv, TypeOK
<1>2. PICK k \in job[s].legs :
        LET m == Movement(job[s].op, job[s].doc, k)
            old == Seen(s, m.bin)
            rate == RateOf(m, old.average, job[s].last)
            qty == old.qty + m.qty
            value == old.value + m.qty * rate
        IN  \E average \in Averages(m, rate, qty, value, old.average) :
                  job' = [job EXCEPT ![s] = [job[s] EXCEPT
                     !.legs = job[s].legs \ {k},
                     !.posted = Append(job[s].posted,
                                       [bin |-> m.bin, qty |-> m.qty, rate |-> rate]),
                     !.last = rate,
                     !.cost = job[s].cost + m.qty * rate,
                     !.stated = job[s].stated + m.qty * m.rate,
                     !.work = [job[s].work EXCEPT ![m.bin] =
                                 [qty |-> qty, average |-> average, value |-> value]]]]
  BY DEF Post
<1> DEFINE m == Movement(job[s].op, job[s].doc, k)
           old == Seen(s, m.bin)
           rate == RateOf(m, old.average, job[s].last)
           e == [bin |-> m.bin, qty |-> m.qty, rate |-> rate]
<1>3. m \in Moves
  BY <1>1, MovementType
<1>4. m.bin \in Bins /\ m.qty \in Int /\ m.rate \in Int /\ m.basis \in {"average", "given", "moved"}
  BY <1>3 DEF Moves
<1>5. old \in Balances
  <2>1. job[s].work[m.bin] \in Balances
    BY <1>1, <1>4 DEF Jobs
  <2> QED BY <1>1, <1>4, <2>1 DEF Seen
<1>6. rate \in Int /\ (m.basis = "given" => rate = m.rate)
  <2>1. old.average \in Int /\ job[s].last \in Int
    BY <1>1, <1>5 DEF Balances, Jobs
  <2> HIDE DEF old, m
  <2> QED BY <1>4, <2>1 DEF RateOf
<1>7. e \in Entries /\ e.bin = m.bin /\ e.qty = m.qty /\ (m.basis = "given" => e.rate = m.rate)
  BY <1>4, <1>6 DEF Entries
<1>8. /\ job'[s].at = "post" /\ job'[s].op = job[s].op /\ job'[s].doc = job[s].doc
      /\ job'[s].legs = job[s].legs \ {k}
      /\ job'[s].posted = Append(job[s].posted, e)
      /\ job'[s].cost = job[s].cost + e.qty * e.rate
      /\ job'[s].stated = job[s].stated + e.qty * m.rate
      /\ \A o \in Sessions \ {s} : job'[o] = job[o]
  <2> DEFINE qty == old.qty + m.qty
             value == old.value + m.qty * rate
  <2>1. PICK average :
          job' = [job EXCEPT ![s] = [job[s] EXCEPT
             !.legs = job[s].legs \ {k},
             !.posted = Append(job[s].posted, [bin |-> m.bin, qty |-> m.qty, rate |-> rate]),
             !.last = rate,
             !.cost = job[s].cost + m.qty * rate,
             !.stated = job[s].stated + m.qty * m.rate,
             !.work = [job[s].work EXCEPT ![m.bin] =
                         [qty |-> qty, average |-> average, value |-> value]]]]
    BY <1>2
  <2> HIDE DEF m, old, rate, qty, value
  <2> QED BY <1>1, <2>1 DEF Jobs
<1> QED BY <1>7, <1>8

\* A movement posted is a movement done.
LEMMA PostKeepsPlan ==
    ASSUME StockInv, PlanInv, NEW s \in Sessions, Post(s)
    PROVE  PlanInv'
<1>1. PICK k, e :
        /\ k \in job[s].legs /\ e \in Entries
        /\ e.bin = Movement(job[s].op, job[s].doc, k).bin /\ e.qty = Movement(job[s].op, job[s].doc, k).qty
        /\ Movement(job[s].op, job[s].doc, k).basis = "given" => e.rate = Movement(job[s].op, job[s].doc, k).rate
        /\ job'[s].at = "post" /\ job'[s].op = job[s].op /\ job'[s].doc = job[s].doc
        /\ job'[s].legs = job[s].legs \ {k}
        /\ job'[s].posted = Append(job[s].posted, e)
        /\ job'[s].cost = job[s].cost + e.qty * e.rate
        /\ job'[s].stated = job[s].stated + e.qty * Movement(job[s].op, job[s].doc, k).rate
        /\ \A o \in Sessions \ {s} : job'[o] = job[o]
  BY Posting
<1>2. job[s].at = "post" /\ UNCHANGED <<status, entries, booked>>
  BY DEF Post
<1>3. PICK o, d, p, N : o = job[s].op /\ d = job[s].doc /\ p = job[s].posted /\ N = Done(s)
  OBVIOUS
<1>4. /\ o \in {"submit", "cancel"} /\ d \in Documents /\ p \in Seq(Entries)
      /\ job[s].legs \subseteq Movements(o, d) /\ job[s].cost \in Int
  BY <1>2, <1>3 DEF StockInv, TypeOK, Jobs, SessionOk, LocksOk, LegsOk
<1>5. PICK q : q = Movement(o, d, k)
  OBVIOUS
<1>6. /\ k \in Movements(o, d) /\ N = Movements(o, d) \ job[s].legs
      /\ e.bin = q.bin /\ e.qty = q.qty /\ (OwnCosts(o, d) => e.rate = q.rate)
      /\ e.qty \in Int /\ e.rate \in Int
  <2>1. k \in Movements(o, d)
    BY <1>1, <1>4
  <2>2. OwnCosts(o, d) => q.basis = "given"
    BY <1>4, <1>5, <2>1, GivenRates
  <2> QED BY <1>1, <1>3, <1>5, <2>1, <2>2 DEF Entries, Done
<1>7. N \in SUBSET Movements(o, d) /\ k \notin N /\ N \cup {k} = Movements(o, d) \ job'[s].legs
  BY <1>1, <1>4, <1>6
<1>8. /\ Movements(o, d)' = Movements(o, d)
      /\ \A M, b : PlanQty(o, d, M, b)' = PlanQty(o, d, M, b) /\ PlanCost(o, d, M, b)' = PlanCost(o, d, M, b)
  BY <1>2, <1>4, SamePlan
<1>9. Done(s)' = N \cup {k}
  BY <1>1, <1>3, <1>7, <1>8 DEF Done
<1>10. /\ \A b \in Bins : AtQty(p, b) = PlanQty(o, d, N, b)
       /\ job[s].cost = CostIn(p, DOMAIN p)
       /\ OwnCosts(o, d) => /\ job[s].stated = job[s].cost
                            /\ \A b \in Bins : AtCost(p, b) = PlanCost(o, d, N, b)
  BY <1>2, <1>3 DEF PlanInv, PlanOk
<1>11. \A b : /\ PlanQty(o, d, N \cup {k}, b) = PlanQty(o, d, N, b) + IF e.bin = b THEN e.qty ELSE 0
              /\ OwnCosts(o, d) =>
                    PlanCost(o, d, N \cup {k}, b)
                      = PlanCost(o, d, N, b) + IF e.bin = b THEN e.qty * e.rate ELSE 0
  <2>1. StockInv /\ o \in {"submit", "cancel"} /\ d \in Documents /\ N \in SUBSET Movements(o, d)
    BY <1>4, <1>7
  <2>3. \A n \in Movements(o, d) \ N : \A b :
               /\ PlanQty(o, d, N \cup {n}, b)
                    = PlanQty(o, d, N, b) + IF Movement(o, d, n).bin = b THEN Movement(o, d, n).qty ELSE 0
               /\ PlanCost(o, d, N \cup {n}, b)
                    = PlanCost(o, d, N, b) + IF Movement(o, d, n).bin = b
                                             THEN Movement(o, d, n).qty * Movement(o, d, n).rate ELSE 0
    BY ONLY <2>1, PlanGrows
  <2>4. k \in Movements(o, d) \ N
    BY <1>6, <1>7
  <2>2. \A b : /\ PlanQty(o, d, N \cup {k}, b)
                    = PlanQty(o, d, N, b) + IF Movement(o, d, k).bin = b THEN Movement(o, d, k).qty ELSE 0
               /\ PlanCost(o, d, N \cup {k}, b)
                    = PlanCost(o, d, N, b) + IF Movement(o, d, k).bin = b
                                             THEN Movement(o, d, k).qty * Movement(o, d, k).rate ELSE 0
    BY <2>3, <2>4
  <2> QED BY <1>5, <1>6, <2>2
<1>12. /\ CostIn(Append(p, e), DOMAIN Append(p, e)) = CostIn(p, DOMAIN p) + e.qty * e.rate
       /\ \A b : /\ AtQty(Append(p, e), b) = AtQty(p, b) + IF e.bin = b THEN e.qty ELSE 0
                 /\ AtCost(Append(p, e), b) = AtCost(p, b) + IF e.bin = b THEN e.qty * e.rate ELSE 0
  BY <1>1, <1>4, AppendAt
<1>13. \A b \in Bins : AtQty(Append(p, e), b) = PlanQty(o, d, N \cup {k}, b)
  BY ONLY <1>10, <1>11, <1>12
<1>14. OwnCosts(o, d) => \A b \in Bins : AtCost(Append(p, e), b) = PlanCost(o, d, N \cup {k}, b)
  BY ONLY <1>10, <1>11, <1>12
<1>15. /\ job'[s].cost = CostIn(Append(p, e), DOMAIN Append(p, e))
       /\ OwnCosts(o, d) => job'[s].stated = job'[s].cost
  BY <1>1, <1>3, <1>5, <1>6, <1>10, <1>12
<1>16. PlanOk(s)'
  <2>1. job'[s].at = "post" /\ job'[s].op = o /\ job'[s].doc = d /\ job'[s].posted = Append(p, e)
    BY <1>1, <1>3
  <2>2. /\ \A b \in Bins : AtQty(job'[s].posted, b) = PlanQty(o, d, N \cup {k}, b)'
        /\ OwnCosts(o, d) => \A b \in Bins : AtCost(job'[s].posted, b) = PlanCost(o, d, N \cup {k}, b)'
    BY <1>8, <1>13, <1>14, <2>1
  <2>3. /\ \A b \in Bins : AtQty(job[s].posted, b)' = PlanQty(job[s].op, job[s].doc, Done(s), b)'
        /\ OwnCosts(o, d) =>
              \A b \in Bins : AtCost(job[s].posted, b)' = PlanCost(job[s].op, job[s].doc, Done(s), b)'
    BY <2>1, <2>2, <1>9
  <2> QED BY <2>1, <2>3, <1>15 DEF PlanOk
<1> QED BY <1>1, <1>2, <1>16, QuietPlan

\* Requests that begin, lock or validate have posted nothing.
LEMMA UnpostedKeepsPlan ==
    ASSUME StockInv, PlanInv, NEW s \in Sessions,
           \/ \E o \in {"submit", "cancel"}, d \in Documents : Begin(s, o, d)
           \/ Take(s) \/ Validate(s)
    PROVE  PlanInv'
<1> USE DEF StockInv, TypeOK
<1>1. /\ UNCHANGED <<status, entries, booked>>
      /\ \A o \in Sessions \ {s} : job'[o] = job[o]
  BY DEF Begin, Take, Validate
<1>2. CASE \E o \in {"submit", "cancel"}, d \in Documents : Begin(s, o, d)
  <2>1. /\ job'[s].at = "lock" /\ job'[s].posted = <<>> /\ job'[s].cost = 0 /\ job'[s].stated = 0
    <3>1. PICK o, d : Begin(s, o, d)
      BY <1>2
    <3>2. job'[s] = [NoJob EXCEPT !.at = "lock", !.op = o, !.doc = d, !.locks = Referenced(d)]
      BY <3>1 DEF Begin
    <3> QED BY <3>2 DEF NoJob
  <2>2. PlanOk(s)'
    BY <2>1 DEF PlanOk
  <2> QED BY <1>1, <2>2, QuietPlan
<1>3. CASE Take(s)
  <2>1. /\ job[s].at = "lock" /\ job'[s].at = "lock" /\ job'[s].posted = job[s].posted
        /\ job'[s].cost = job[s].cost /\ job'[s].stated = job[s].stated
    BY <1>3 DEF Take
  <2>2. PlanOk(s)'
    BY <2>1 DEF PlanInv, PlanOk
  <2> QED BY <1>1, <2>2, QuietPlan
<1>4. CASE Validate(s)
  <2>1. PICK o, d : o = job[s].op /\ d = job[s].doc
    OBVIOUS
  <2>2. o \in {"submit", "cancel"} /\ d \in Documents /\ job[s].at = "lock"
    BY <1>4, <2>1 DEF Validate, Jobs, SessionOk, LocksOk
  <2>3. /\ job'[s].at = "post" /\ job'[s].op = o /\ job'[s].doc = d
        /\ job'[s].legs = Movements(o, d) /\ job'[s].posted = job[s].posted
        /\ job'[s].cost = job[s].cost /\ job'[s].stated = job[s].stated
    BY <1>4, <2>1 DEF Validate
  <2>4. job[s].posted = <<>> /\ job[s].cost = 0 /\ job[s].stated = 0
    BY <2>2 DEF PlanInv, PlanOk
  <2>5. /\ Movements(o, d)' = Movements(o, d)
        /\ \A N, b : PlanQty(o, d, N, b)' = PlanQty(o, d, N, b) /\ PlanCost(o, d, N, b)' = PlanCost(o, d, N, b)
    BY <1>1, <2>2, SamePlan
  <2>6. Done(s)' = {}
    BY <2>3, <2>5 DEF Done
  <2>7. \A b : PlanQty(o, d, {}, b) = 0 /\ PlanCost(o, d, {}, b) = 0
    <3>1. {} \in SUBSET Movements(o, d)
      OBVIOUS
    <3> QED BY <2>2, <3>1, PlanGrows
  <2>8. \A b \in Bins : /\ PlanQty(job[s].op, job[s].doc, Done(s), b)' = 0
                        /\ PlanCost(job[s].op, job[s].doc, Done(s), b)' = 0
    BY <2>3, <2>5, <2>6, <2>7
  <2>9. PlanOk(s)'
    BY <2>3, <2>4, <2>8, NoEntries DEF PlanOk
  <2> QED BY <1>1, <2>9, QuietPlan
<1> QED BY <1>2, <1>3, <1>4

\* Reading a bin and planning an order post nothing.
LEMMA NothingPosted ==
    ASSUME StockInv, NEW s \in Sessions, Load(s) \/ Refresh(s)
    PROVE  /\ UNCHANGED <<status, entries, booked>> /\ job[s].at = "post" /\ job[s].doc \in Documents
           /\ \A o \in Sessions \ {s} : job'[o] = job[o]
           /\ job'[s].at = job[s].at /\ job'[s].op = job[s].op /\ job'[s].doc = job[s].doc
           /\ job'[s].legs = job[s].legs /\ job'[s].posted = job[s].posted
           /\ job'[s].cost = job[s].cost /\ job'[s].stated = job[s].stated
<1>1. job[s].at = "post" /\ UNCHANGED <<status, entries, booked>>
  BY DEF Load, Refresh
<1>2. job[s] \in Jobs /\ job \in [Sessions -> Jobs] /\ job[s].doc \in Documents
  BY <1>1 DEF StockInv, TypeOK, SessionOk, LocksOk
<1>3. CASE Load(s)
  <2>1. PICK T, W : job' = [job EXCEPT ![s] = [job[s] EXCEPT !.touched = T, !.work = W]]
    BY <1>3 DEF Load
  <2> QED BY ONLY <1>1, <1>2, <2>1, s \in Sessions DEF Jobs
<1>4. CASE Refresh(s)
  <2>1. PICK L : job' = [job EXCEPT ![s] = [job[s] EXCEPT !.lines = L]]
    BY <1>4 DEF Refresh
  <2> QED BY ONLY <1>1, <1>2, <2>1, s \in Sessions DEF Jobs
<1> QED BY <1>3, <1>4

\* So they leave a request in step with its plan.
LEMMA ReadingKeepsPlan ==
    ASSUME StockInv, PlanInv, NEW s \in Sessions, Load(s) \/ Refresh(s)
    PROVE  PlanInv'
<1>1. /\ UNCHANGED <<status, entries, booked>> /\ job[s].at = "post" /\ job[s].doc \in Documents
      /\ \A o \in Sessions \ {s} : job'[o] = job[o]
  BY NothingPosted
<1>2. /\ job'[s].at = job[s].at /\ job'[s].op = job[s].op /\ job'[s].doc = job[s].doc
      /\ job'[s].legs = job[s].legs /\ job'[s].posted = job[s].posted
      /\ job'[s].cost = job[s].cost /\ job'[s].stated = job[s].stated
  BY NothingPosted
<1>3. PICK o, d, N : o = job[s].op /\ d = job[s].doc /\ N = Done(s)
  OBVIOUS
<1>8. d \in Documents /\ entries'[d] = entries[d]
  BY <1>1, <1>3
<1>4. /\ Movements(o, d)' = Movements(o, d)
      /\ \A M, b : PlanQty(o, d, M, b)' = PlanQty(o, d, M, b) /\ PlanCost(o, d, M, b)' = PlanCost(o, d, M, b)
  BY ONLY <1>8, SamePlan
<1>5. Done(s)' = N
  BY <1>2, <1>3, <1>4 DEF Done
<1>6. \A b : /\ PlanQty(job[s].op, job[s].doc, Done(s), b)' = PlanQty(o, d, N, b)
             /\ PlanCost(job[s].op, job[s].doc, Done(s), b)' = PlanCost(o, d, N, b)
  BY <1>2, <1>3, <1>4, <1>5
<1>7. PlanOk(s)'
  BY <1>1, <1>2, <1>3, <1>6 DEF PlanInv, PlanOk
<1> QED BY <1>1, <1>7, QuietPlan

\* A rollback forgets what was posted.
LEMMA RollbackKeepsPlan ==
    ASSUME StockInv, PlanInv, NEW s \in Sessions, Rollback(s)
    PROVE  PlanInv'
<1>1. UNCHANGED <<status, entries, booked>> /\ \A o \in Sessions \ {s} : job'[o] = job[o]
  BY DEF Rollback, StockInv, TypeOK
<1>2. job'[s] = NoJob
  BY DEF Rollback, StockInv, TypeOK
<1>3. PlanOk(s)'
  BY <1>2 DEF PlanOk, NoJob
<1> QED BY <1>1, <1>3, QuietPlan

\* A voucher that commits has posted all it planned: a submitted one what its
\* rows say, a cancelled one the opposite of what it had posted.
LEMMA CommitKeepsPlan ==
    ASSUME StockInv, PlanInv, NEW s \in Sessions, Commit(s)
    PROVE  PlanInv'
<1>1. PICK j, d : j = job[s] /\ d = j.doc
  OBVIOUS
<1>2. /\ j.at = "post" /\ j.legs = {} /\ job' = [job EXCEPT ![s] = NoJob]
      /\ status' = [status EXCEPT ![d] = IF j.op = "submit" THEN "submitted" ELSE "cancelled"]
      /\ entries' = [entries EXCEPT ![d] = entries[d] \o j.posted]
      /\ booked' = [booked EXCEPT ![d] = IF j.op = "submit" THEN Booking(d, j.cost, j.stated) ELSE 0]
  BY <1>1 DEF Commit
<1>3. /\ d \in Documents /\ lock[d] = s /\ status[d] = Expected(j.op)
      /\ j.op \in {"submit", "cancel"} /\ j.posted \in Seq(Entries) /\ entries[d] \in Seq(Entries)
  BY <1>1, <1>2 DEF StockInv, TypeOK, Jobs, SessionOk, LocksOk
<1>4. /\ status'[d] = IF j.op = "submit" THEN "submitted" ELSE "cancelled"
      /\ entries'[d] = entries[d] \o j.posted
      /\ booked'[d] = IF j.op = "submit" THEN Booking(d, j.cost, j.stated) ELSE 0
      /\ job'[s] = NoJob /\ \A o \in Sessions \ {s} : job'[o] = job[o]
      /\ \A e \in Documents \ {d} : status'[e] = status[e] /\ entries'[e] = entries[e] /\ booked'[e] = booked[e]
  BY <1>2, <1>3 DEF StockInv, TypeOK
<1>5. ASSUME NEW o \in Sessions \ {s} PROVE PlanOk(o)'
  <2>1. job[o].at # "idle" => job[o].doc \in Documents \ {d}
    BY <1>3 DEF StockInv, SessionOk, LocksOk
  <2>2. job[o].at # "idle" => job[o].doc \in Documents /\ entries'[job[o].doc] = entries[job[o].doc]
    BY <1>4, <2>1
  <2> QED BY <1>4, <2>2, PlanKept DEF PlanInv
<1>6. PlanOk(s)'
  BY <1>4 DEF PlanOk, NoJob
<1>7. ASSUME NEW e \in Documents \ {d} PROVE VoucherOk(e)'
  BY <1>4, VoucherKept DEF PlanInv
<1>8. Done(s) = Movements(j.op, d)
  BY <1>1, <1>2 DEF Done
<1>9. /\ \A b \in Bins : AtQty(j.posted, b) = PlanQty(j.op, d, Movements(j.op, d), b)
      /\ j.cost = CostIn(j.posted, DOMAIN j.posted)
      /\ OwnCosts(j.op, d) =>
            /\ j.stated = j.cost
            /\ \A b \in Bins : AtCost(j.posted, b) = PlanCost(j.op, d, Movements(j.op, d), b)
  BY <1>1, <1>2, <1>8 DEF PlanInv, PlanOk
<1>10. CASE j.op = "submit"
  <2>1. entries[d] = <<>> /\ entries'[d] = j.posted /\ status'[d] = "submitted"
    <3>1. status[d] = "draft" /\ VoucherOk(d)
      BY <1>3, <1>10 DEF Expected, PlanInv
    <3>2. entries[d] = <<>>
      BY <3>1 DEF VoucherOk
    <3>3. <<>> \o j.posted = j.posted
      BY <1>3
    <3> QED BY <1>4, <1>10, <3>2, <3>3
  <2>2. \A N, b : PlanQty("submit", d, N, b)' = PlanQty("submit", d, N, b)
                  /\ PlanCost("submit", d, N, b)' = PlanCost("submit", d, N, b)
    BY <1>3, SamePlan
  <2>3. LegsOf(d)' = LegsOf(d) /\ Movements("submit", d) = LegsOf(d)
    BY DEF LegsOf, Leg, Leaving, Arriving, Movements, ReadsBack
  <2>4. ~(KindOf[d] = "purchase" /\ IsReturn(d)) => booked'[d] = j.cost
    <3>1. KindOf[d] \notin {"entry", "sale"} /\ ~(KindOf[d] = "purchase" /\ IsReturn(d)) => j.stated = j.cost
      BY <1>9, <1>10 DEF OwnCosts, CostAtAverage
    <3> QED BY <1>4, <1>10, <3>1 DEF Booking
  <2>5. /\ \A b \in Bins : AtQty(entries'[d], b) = PlanQty("submit", d, LegsOf(d), b)
        /\ OwnCosts("submit", d) => \A b \in Bins : AtCost(entries'[d], b) = PlanCost("submit", d, LegsOf(d), b)
        /\ ~(KindOf[d] = "purchase" /\ IsReturn(d)) => booked'[d] = CostIn(entries'[d], DOMAIN entries'[d])
    BY <1>9, <1>10, <2>1, <2>3, <2>4
  <2>6. VoucherOk(d)'
    BY <2>1, <2>2, <2>3, <2>5 DEF VoucherOk
  <2> QED BY <1>5, <1>6, <1>7, <2>6 DEF PlanInv
<1>11. CASE j.op = "cancel"
  <2>1. status[d] = "submitted" /\ status'[d] = "cancelled" /\ booked'[d] = 0 /\ VoucherOk(d)
    BY <1>3, <1>4, <1>11 DEF Expected, PlanInv
  <2>2. ASSUME NEW b \in Bins
        PROVE  AtQty(entries'[d], b) = 0 /\ (~CostAtAverage(d) => AtCost(entries'[d], b) = 0)
    <3>1. /\ AtQty(entries'[d], b) = AtQty(entries[d], b) + AtQty(j.posted, b)
          /\ AtCost(entries'[d], b) = AtCost(entries[d], b) + AtCost(j.posted, b)
      BY <1>3, <1>4, ConcatAt
    <3>2. /\ AtQty(entries[d], b) \in Int /\ AtCost(entries[d], b) \in Int
      BY <1>3, AtType
    <3>3. /\ PlanQty("cancel", d, Movements("cancel", d), b) = -AtQty(entries[d], b)
          /\ ~CostAtAverage(d) => PlanCost("cancel", d, Movements("cancel", d), b) = -AtCost(entries[d], b)
      BY <1>3, <2>1, CancelPlan
    <3>4. AtQty(j.posted, b) = -AtQty(entries[d], b)
      BY <1>9, <1>11, <3>3
    <3>5. ~CostAtAverage(d) => AtCost(j.posted, b) = -AtCost(entries[d], b)
      BY <1>9, <1>11, <3>3 DEF OwnCosts
    <3> QED BY <3>1, <3>2, <3>4, <3>5
  <2>3. VoucherOk(d)'
    BY <2>1, <2>2 DEF VoucherOk
  <2> QED BY <1>5, <1>6, <1>7, <2>3 DEF PlanInv
<1> QED BY <1>3, <1>10, <1>11

\* Every step keeps vouchers and requests in step with their plans.
LEMMA PlanStep == StockInv /\ PlanInv /\ [Next]_vars => PlanInv'
<1> SUFFICES ASSUME StockInv, PlanInv, [Next]_vars PROVE PlanInv'
  OBVIOUS
<1>1. CASE UNCHANGED vars
  <2>1. UNCHANGED <<status, entries, booked, job>>
    BY <1>1 DEF vars
  <2>2. ASSUME NEW o \in Sessions PROVE PlanOk(o)'
    <3>1. job[o].at # "idle" => job[o].doc \in Documents /\ entries'[job[o].doc] = entries[job[o].doc]
      BY <2>1 DEF StockInv, SessionOk, LocksOk
    <3> QED BY <2>1, <3>1, PlanKept DEF PlanInv
  <2>3. ASSUME NEW d \in Documents PROVE VoucherOk(d)'
    BY <2>1, VoucherKept DEF PlanInv
  <2> QED BY <2>2, <2>3 DEF PlanInv
<1>2. ASSUME NEW s \in Sessions,
             \/ \E o \in {"submit", "cancel"}, d \in Documents : Begin(s, o, d)
             \/ Take(s) \/ Validate(s)
      PROVE  PlanInv'
  BY <1>2, UnpostedKeepsPlan
<1>3. ASSUME NEW s \in Sessions, Post(s) PROVE PlanInv'
  BY <1>3, PostKeepsPlan
<1>6. ASSUME NEW s \in Sessions, Load(s) \/ Refresh(s) PROVE PlanInv'
  BY <1>6, ReadingKeepsPlan
<1>4. ASSUME NEW s \in Sessions, Commit(s) PROVE PlanInv'
  BY <1>4, CommitKeepsPlan
<1>5. ASSUME NEW s \in Sessions, Refuse(s) \/ Fail(s) PROVE PlanInv'
  BY <1>5, RollbackKeepsPlan DEF Refuse, Fail
<1> QED BY <1>1, <1>2, <1>3, <1>4, <1>5, <1>6 DEF Next

\* What every voucher has posted, in every state.
LEMMA PlanAlways == Spec => [](StockInv /\ PlanInv)
<1>1. Init => StockInv /\ PlanInv
  BY InitialStock, InitialPlan
<1>2. StockInv /\ PlanInv /\ [Next]_vars => (StockInv /\ PlanInv)'
  BY StockStep, PlanStep
<1> QED BY <1>1, <1>2, PTL DEF Spec

-----------------------------------------------------------------------------
(* What returns take back *)

\* A return that was validated still fits when it commits: the lock of the
\* original keeps the other returns away.
ReturnFits(s) ==
    job[s].at = "post" /\ job[s].op = "submit" /\ IsReturn(job[s].doc) =>
        \A i \in ItemsOf(job[s].doc) :
            Returned(Original[job[s].doc], i) + Moved(job[s].doc, i) <= Moved(Original[job[s].doc], i)

ReturnInv == ReturnsWithinOriginal /\ \A s \in Sessions : ReturnFits(s)

\* A document moves a number of units of an item, none of an item it does not name.
LEMMA MovedType ==
    ASSUME NEW d \in Documents, NEW i
    PROVE  Moved(d, i) \in Int /\ Moved(d, i) >= 0 /\ (i \notin ItemsOf(d) => Moved(d, i) = 0)
<1> DEFINE N == RowsWith(d, i)
           f == [n \in N |-> RowsOf[d][n].qty]
<1>1. RowsOf[d] \in Seq(Rows)
  BY StockAssumption
<1>2. Len(RowsOf[d]) \in Nat /\ DOMAIN RowsOf[d] = 1..Len(RowsOf[d])
  BY <1>1
<1>3. IsFiniteSet(DOMAIN RowsOf[d])
  <2>1. PICK len : len = Len(RowsOf[d]) /\ len \in Int
    BY <1>2
  <2>2. IsFiniteSet(1..len)
    BY <2>1, FS_Interval
  <2> QED BY <1>2, <2>1, <2>2
<1>4. N \in SUBSET DOMAIN RowsOf[d]
  BY DEF RowsWith
<1>5. IsFiniteSet(N)
  BY <1>3, <1>4, FS_Subset
<1>6. \A n \in N : f[n] \in Int /\ f[n] >= 0
  <2>1. \A n \in N : RowsOf[d][n] \in Rows
    BY <1>1, <1>4
  <2> HIDE DEF N
  <2> QED BY <2>1 DEF Rows
<1>7. Moved(d, i) = SumFunctionOnSet(f, N)
  BY DEF Moved, QtyIn
<1>8. i \notin ItemsOf(d) => N = {}
  BY DEF RowsWith, ItemsOf, BinsOf
<1> HIDE DEF f, N
<1>9. SumFunctionOnSet(f, N) \in Int /\ SumFunctionOnSet(f, N) >= 0
  BY <1>5, <1>6, SumIsNumber, SumNotNegative
<1>10. N = {} => SumFunctionOnSet(f, N) = 0
  BY SumOfNone
<1> QED BY <1>7, <1>8, <1>9, <1>10

\* What the documents of a set move together.
MovedBy(R, i) == SumFunctionOnSet([r \in R |-> Moved(r, i)], R)

\* Returns add up to a number of units, one return more by what it moves.
LEMMA ReturnedSum ==
    ASSUME NEW R \in SUBSET Documents, NEW i
    PROVE  /\ MovedBy(R, i) \in Int
           /\ \A d \in Documents \ R : MovedBy(R \cup {d}, i) = MovedBy(R, i) + Moved(d, i)
<1> USE DEF MovedBy
<1>0. PICK f : f = [r \in R |-> Moved(r, i)]
  OBVIOUS
<1>1. IsFiniteSet(R)
  BY StockAssumption, FS_Subset
<1>2. \A r \in R : f[r] \in Int
  BY <1>0, MovedType
<1>3. SumFunctionOnSet(f, R) \in Int
  BY <1>1, <1>2, SumIsNumber
<1>4. ASSUME NEW d \in Documents \ R
      PROVE  MovedBy(R \cup {d}, i) = SumFunctionOnSet(f, R) + Moved(d, i)
  <2>1. PICK g : g = [r \in R \cup {d} |-> Moved(r, i)]
    OBVIOUS
  <2>2. d \notin R /\ \A r \in R \cup {d} : g[r] \in Int
    BY <2>1, MovedType
  <2>3. SumFunctionOnSet(g, R \cup {d}) = SumFunctionOnSet(g, R) + g[d]
    BY ONLY <1>1, <2>2, SumAdd
  <2>4. \A r \in R : f[r] \in Int /\ g[r] = f[r]
    BY <1>0, <1>2, <2>1
  <2>5. SumFunctionOnSet(g, R) = SumFunctionOnSet(f, R)
    BY ONLY <1>1, <2>4, SumSame
  <2>6. g[d] = Moved(d, i)
    BY <2>1
  <2> QED BY <2>1, <2>3, <2>5, <2>6
<1> QED BY <1>0, <1>3, <1>4

\* Nothing has been returned yet.
LEMMA InitialReturns == Init => ReturnInv
<1> SUFFICES ASSUME Init PROVE ReturnInv
  OBVIOUS
<1>1. ASSUME NEW d \in Documents, NEW i \in Items PROVE Returned(d, i) <= Moved(d, i)
  <2>1. ReturnsOf(d) = {}
    BY DEF ReturnsOf, Init
  <2>2. Returned(d, i) = 0
    BY <2>1, SumOfNone DEF Returned
  <2> QED BY <2>2, MovedType
<1>2. \A s \in Sessions : ReturnFits(s)
  BY DEF Init, NoJob, ReturnFits
<1> QED BY <1>1, <1>2 DEF ReturnInv, ReturnsWithinOriginal

\* Without a commit nothing is returned: what a request validates it keeps.
LEMMA QuietReturns ==
    ASSUME StockInv, ReturnInv, NEW s \in Sessions, UNCHANGED status, ReturnFits(s)',
           \A o \in Sessions \ {s} : job'[o] = job[o]
    PROVE  ReturnInv'
<1>1. \A d, i : Returned(d, i)' = Returned(d, i)
  BY DEF Returned, ReturnsOf
<1>2. ReturnsWithinOriginal'
  BY <1>1 DEF ReturnInv, ReturnsWithinOriginal
<1>3. ASSUME NEW o \in Sessions \ {s} PROVE ReturnFits(o)'
  BY <1>1 DEF ReturnInv, ReturnFits
<1> QED BY <1>2, <1>3 DEF ReturnInv

\* What is validated against the original is what was returned when it is posted.
LEMMA ValidateFits ==
    ASSUME StockInv, NEW s \in Sessions, Validate(s)
    PROVE  ReturnFits(s)'
<1>1. PICK o, d : o = job[s].op /\ d = job[s].doc
  OBVIOUS
<1>2. Allowed(o, d) /\ UNCHANGED status /\ job'[s].op = o /\ job'[s].doc = d
  BY <1>1 DEF Validate, StockInv, TypeOK
<1>3. \A e, i : Returned(e, i)' = Returned(e, i)
  BY <1>2 DEF Returned, ReturnsOf
<1>4. o = "submit" /\ IsReturn(d) =>
         \A i \in ItemsOf(d) : Returned(Original[d], i) + Moved(d, i) <= Moved(Original[d], i)
  BY <1>2 DEF Allowed
<1> QED BY <1>2, <1>3, <1>4 DEF ReturnFits

\* A commit adds or takes back the returned quantities of one original, the row
\* of which its session holds.
LEMMA CommitKeepsReturns ==
    ASSUME StockInv, ReturnInv, NEW s \in Sessions, Commit(s)
    PROVE  ReturnInv'
<1>1. PICK o, d : o = job[s].op /\ d = job[s].doc
  OBVIOUS
<1>2. /\ job[s].at = "post" /\ job' = [job EXCEPT ![s] = NoJob]
      /\ status' = [status EXCEPT ![d] = IF o = "submit" THEN "submitted" ELSE "cancelled"]
  BY <1>1 DEF Commit
<1>3. /\ d \in Documents /\ o \in {"submit", "cancel"} /\ status[d] = Expected(o) /\ LocksOk(s)
      /\ job \in [Sessions -> Jobs] /\ status \in [Documents -> {"draft", "submitted", "cancelled"}]
  BY <1>1, <1>2 DEF StockInv, TypeOK, Jobs, SessionOk, LocksOk
<1>4. /\ status'[d] = IF o = "submit" THEN "submitted" ELSE "cancelled"
      /\ \A e \in Documents \ {d} : status'[e] = status[e]
      /\ job'[s] = NoJob /\ \A t \in Sessions \ {s} : job'[t] = job[t]
  BY <1>2, <1>3
<1>5. ASSUME NEW e \in Documents, Original[d] # e
      PROVE  \A i : Returned(e, i)' = Returned(e, i)
  <2>1. ReturnsOf(e)' = ReturnsOf(e)
    BY <1>4, <1>5 DEF ReturnsOf
  <2> QED BY <2>1 DEF Returned
<1>6. ASSUME NEW e \in Documents, Original[d] = e, NEW i \in Items
      PROVE  Returned(e, i)' <= Moved(e, i)
  <2>1. PICK R, r : R = ReturnsOf(e) /\ r = ReturnsOf(e)'
    OBVIOUS
  <2>2. R \in SUBSET Documents /\ r \in SUBSET Documents
    BY <2>1 DEF ReturnsOf
  <2>3. Returned(e, i) = MovedBy(R, i) /\ Returned(e, i)' = MovedBy(r, i)
    BY <2>1 DEF Returned, MovedBy, Moved, RowsWith, QtyIn
  <2>4. Returned(e, i) <= Moved(e, i) /\ Moved(e, i) \in Int
    BY MovedType DEF ReturnInv, ReturnsWithinOriginal
  <2>5. Moved(d, i) \in Int /\ Moved(d, i) >= 0 /\ (i \notin ItemsOf(d) => Moved(d, i) = 0)
    BY <1>3, MovedType
  <2>6. CASE o = "submit"
    <3>1. r = R \cup {d} /\ d \notin R
      BY <1>3, <1>4, <1>6, <2>1, <2>6 DEF ReturnsOf, Expected
    <3>2. Returned(e, i)' = Returned(e, i) + Moved(d, i)
      BY <1>3, <2>2, <2>3, <3>1, ReturnedSum
    <3>3. i \in ItemsOf(d) => Returned(e, i) + Moved(d, i) <= Moved(e, i)
      <4>1. IsReturn(d) /\ ReturnFits(s)
        BY <1>6, StockAssumption DEF IsReturn, ReturnInv
      <4> QED BY <1>1, <1>2, <1>6, <2>6, <4>1 DEF ReturnFits
    <3>4. Returned(e, i) \in Int
      BY <2>2, <2>3, ReturnedSum
    <3> QED BY <2>4, <2>5, <3>2, <3>3, <3>4
  <2>7. CASE o = "cancel"
    <3>1. R = r \cup {d} /\ d \notin r
      BY <1>3, <1>4, <1>6, <2>1, <2>7 DEF ReturnsOf, Expected
    <3>2. Returned(e, i) = Returned(e, i)' + Moved(d, i) /\ Returned(e, i)' \in Int
      BY <1>3, <2>2, <2>3, <3>1, ReturnedSum
    <3> QED BY <2>4, <2>5, <3>2
  <2> QED BY <1>3, <2>6, <2>7
<1>7. ReturnsWithinOriginal'
  <2> SUFFICES ASSUME NEW e \in Documents, NEW i \in Items PROVE Returned(e, i)' <= Moved(e, i)'
    BY DEF ReturnsWithinOriginal
  <2>1. Moved(e, i)' = Moved(e, i)
    BY DEF Moved, RowsWith, QtyIn
  <2>2. CASE Original[d] # e
    BY <1>5, <2>1, <2>2 DEF ReturnInv, ReturnsWithinOriginal
  <2>3. CASE Original[d] = e
    BY <1>6, <2>1, <2>3
  <2> QED BY <2>2, <2>3
<1>8. ASSUME NEW t \in Sessions \ {s} PROVE ReturnFits(t)'
  <2> SUFFICES ASSUME job[t].at = "post", job[t].op = "submit", IsReturn(job[t].doc),
                      NEW i \in ItemsOf(job[t].doc)
               PROVE  Returned(Original[job[t].doc], i)' + Moved(job[t].doc, i)
                         <= Moved(Original[job[t].doc], i)
    BY <1>4 DEF ReturnFits, Moved, RowsWith, QtyIn
  <2>1. PICK e : e = Original[job[t].doc]
    OBVIOUS
  <2>2. LocksOk(t) /\ job[t].locks = {} /\ job[t].doc \in Documents
    BY DEF StockInv, SessionOk, LocksOk
  <2>3. e \in Documents /\ lock[e] = t
    <3>1. e # None /\ e \in Documents
      BY <2>1, <2>2, StockAssumption DEF IsReturn
    <3>2. e \in Referenced(job[t].doc) \ job[t].locks
      BY <2>1, <2>2, <3>1 DEF Referenced
    <3> QED BY <2>2, <3>1, <3>2 DEF LocksOk
  <2>4. Original[d] # e
    <3> SUFFICES ASSUME Original[d] = e PROVE FALSE
      OBVIOUS
    <3>1. e # None
      BY <2>3, StockAssumption
    <3>2. job[s].locks = {} /\ e \in Referenced(d) \ job[s].locks
      BY <1>1, <1>2, <1>3, <3>1 DEF Referenced, LocksOk
    <3>3. lock[e] = s
      BY <1>1, <1>3, <3>2 DEF LocksOk
    <3> QED BY <2>3, <3>3
  <2>5. Returned(e, i)' = Returned(e, i)
    BY <1>5, <2>3, <2>4
  <2>6. ReturnFits(t)
    BY DEF ReturnInv
  <2>7. Returned(e, i) + Moved(job[t].doc, i) <= Moved(e, i)
    BY <2>1, <2>6 DEF ReturnFits
  <2> QED BY <1>4, <2>1, <2>5, <2>7
<1>9. ReturnFits(s)'
  BY <1>4 DEF ReturnFits, NoJob
<1> QED BY <1>7, <1>8, <1>9 DEF ReturnInv

\* No step lets returns take back more than was moved.
LEMMA ReturnStep == StockInv /\ ReturnInv /\ [Next]_vars => ReturnInv'
<1> SUFFICES ASSUME StockInv, ReturnInv, [Next]_vars PROVE ReturnInv'
  OBVIOUS
<1> USE DEF StockInv, TypeOK
<1>1. CASE UNCHANGED vars
  <2>1. UNCHANGED <<status, job>>
    BY <1>1 DEF vars
  <2>2. \A d, i : Returned(d, i)' = Returned(d, i)
    BY <2>1 DEF Returned, ReturnsOf
  <2> QED BY <2>1, <2>2 DEF ReturnInv, ReturnsWithinOriginal, ReturnFits
<1>2. ASSUME NEW s \in Sessions, NEW o \in {"submit", "cancel"}, NEW d \in Documents, Begin(s, o, d)
      PROVE  ReturnInv'
  <2>1. UNCHANGED status /\ job'[s].at = "lock" /\ \A t \in Sessions \ {s} : job'[t] = job[t]
    BY <1>2 DEF Begin, NoJob
  <2>2. ReturnFits(s)'
    BY <2>1 DEF ReturnFits
  <2> QED BY <2>1, <2>2, QuietReturns
<1>3. ASSUME NEW s \in Sessions, Take(s) PROVE ReturnInv'
  <2>1. UNCHANGED status /\ job'[s].at = "lock" /\ \A t \in Sessions \ {s} : job'[t] = job[t]
    BY <1>3 DEF Take
  <2>2. ReturnFits(s)'
    BY <2>1 DEF ReturnFits
  <2> QED BY <2>1, <2>2, QuietReturns
<1>4. ASSUME NEW s \in Sessions, Validate(s) PROVE ReturnInv'
  <2>1. UNCHANGED status /\ \A t \in Sessions \ {s} : job'[t] = job[t]
    BY <1>4 DEF Validate
  <2>2. ReturnFits(s)'
    BY <1>4, ValidateFits
  <2> QED BY <2>1, <2>2, QuietReturns
<1>5. ASSUME NEW s \in Sessions, Post(s) PROVE ReturnInv'
  <2>1. /\ UNCHANGED status /\ job[s].at = "post"
        /\ job'[s].op = job[s].op /\ job'[s].doc = job[s].doc
        /\ \A t \in Sessions \ {s} : job'[t] = job[t]
    <3>1. UNCHANGED status /\ job[s].at = "post"
      BY <1>5 DEF Post
    <3> QED BY <1>5, <3>1, Posting
  <2>2. \A d, i : Returned(d, i)' = Returned(d, i)
    BY <2>1 DEF Returned, ReturnsOf
  <2>3. ReturnFits(s)'
    BY <2>1, <2>2 DEF ReturnInv, ReturnFits
  <2> QED BY <2>1, <2>3, QuietReturns
<1>8. ASSUME NEW s \in Sessions, Load(s) \/ Refresh(s) PROVE ReturnInv'
  <2>1. /\ UNCHANGED status /\ job[s].at = "post"
        /\ job'[s].op = job[s].op /\ job'[s].doc = job[s].doc
        /\ \A t \in Sessions \ {s} : job'[t] = job[t]
    BY <1>8, NothingPosted
  <2>2. \A d, i : Returned(d, i)' = Returned(d, i)
    BY <2>1 DEF Returned, ReturnsOf
  <2>3. ReturnFits(s)'
    BY <2>1, <2>2 DEF ReturnInv, ReturnFits
  <2> QED BY <2>1, <2>3, QuietReturns
<1>6. ASSUME NEW s \in Sessions, Commit(s) PROVE ReturnInv'
  BY <1>6, CommitKeepsReturns
<1>7. ASSUME NEW s \in Sessions, Refuse(s) \/ Fail(s) PROVE ReturnInv'
  <2>1. UNCHANGED status /\ job'[s] = NoJob /\ \A t \in Sessions \ {s} : job'[t] = job[t]
    BY <1>7 DEF Refuse, Fail, Rollback
  <2>2. ReturnFits(s)'
    BY <2>1 DEF ReturnFits, NoJob
  <2> QED BY <2>1, <2>2, QuietReturns
<1> QED BY <1>1, <1>2, <1>3, <1>4, <1>5, <1>6, <1>7, <1>8 DEF Next

-----------------------------------------------------------------------------
(* The stock account and the bins *)

\* What a voucher posted is what it posted to the bins.
LEMMA CostByBin ==
    ASSUME NEW p \in Seq(Entries)
    PROVE  CostIn(p, DOMAIN p) = SumFunctionOnSet([b \in Bins |-> AtCost(p, b)], Bins)
<1>1. PICK f, key, N : /\ N = DOMAIN p /\ f = [n \in N |-> p[n].qty * p[n].rate]
                       /\ key = [n \in N |-> p[n].bin]
  OBVIOUS
<1>2. IsFiniteSet(N) /\ IsFiniteSet(Bins)
  BY <1>1, AtType, StockAssumption
<1>3. \A n \in N : p[n] \in Entries /\ p[n].qty * p[n].rate \in Int
  BY <1>1, AtType
<1>4. \A n \in N : key[n] \in Bins
  BY <1>1, <1>3 DEF Entries
<1>5. \A n \in N : f[n] \in Int
  BY <1>1, <1>3
<1>6. SumFunctionOnSet(f, N) = SumFunctionOnSet([b \in Bins |-> SumFunctionOnSet(f, {n \in N : key[n] = b})], Bins)
  BY ONLY <1>2, <1>4, <1>5, SumByGroup
<1>7. ASSUME NEW b \in Bins PROVE SumFunctionOnSet(f, {n \in N : key[n] = b}) = AtCost(p, b)
  <2>1. PICK A, g : A = At(p, b) /\ g = [n \in A |-> p[n].qty * p[n].rate]
    OBVIOUS
  <2>2. {n \in N : key[n] = b} = A /\ A \subseteq N
    BY <1>1, <2>1 DEF At
  <2>3. IsFiniteSet(A)
    BY <2>1, AtType
  <2>4. \A n \in A : f[n] \in Int /\ g[n] = f[n]
    BY <1>1, <1>5, <2>1, <2>2
  <2>5. SumFunctionOnSet(g, A) = SumFunctionOnSet(f, A)
    BY ONLY <2>3, <2>4, SumSame
  <2> QED BY <2>1, <2>2, <2>5 DEF AtCost, CostIn
<1>8. [b \in Bins |-> SumFunctionOnSet(f, {n \in N : key[n] = b})] = [b \in Bins |-> AtCost(p, b)]
  BY <1>7
<1> QED BY <1>1, <1>6, <1>8 DEF CostIn

\* The bins are worth what all vouchers posted.
LEMMA BinsAreWorthTheEntries ==
    ASSUME StockInv
    PROVE  SumFunctionOnSet([b \in Bins |-> bin[b].value], Bins)
              = SumFunctionOnSet([d \in Documents |-> CostIn(entries[d], DOMAIN entries[d])], Documents)
<1>1. PICK f : f = [b \in Bins |-> [d \in Documents |-> AtCost(entries[d], b)]]
  OBVIOUS
<1>2. \A d \in Documents : entries[d] \in Seq(Entries)
  BY DEF StockInv, TypeOK
<1>3. \A b \in Bins : \A d \in Documents : f[b][d] \in Int
  BY <1>1, <1>2, AtType
<1>4. IsFiniteSet(Bins) /\ IsFiniteSet(Documents)
  BY StockAssumption
<1>5. SumFunctionOnSet([b \in Bins |-> SumFunctionOnSet(f[b], Documents)], Bins)
         = SumFunctionOnSet([d \in Documents |-> SumFunctionOnSet([b \in Bins |-> f[b][d]], Bins)], Documents)
  BY ONLY <1>3, <1>4, SumBothWays
<1>6. ASSUME NEW b \in Bins PROVE SumFunctionOnSet(f[b], Documents) = bin[b].value
  <2>1. f[b] = [d \in Documents |-> AtCost(entries[d], b)]
    BY <1>1
  <2>2. bin[b].value = LedgerValue(b)
    BY DEF StockInv, BinMatchesLedger
  <2> QED BY <2>1, <2>2 DEF LedgerValue, AtCost
<1>7. ASSUME NEW d \in Documents
      PROVE  SumFunctionOnSet([b \in Bins |-> f[b][d]], Bins) = CostIn(entries[d], DOMAIN entries[d])
  <2>1. [b \in Bins |-> f[b][d]] = [b \in Bins |-> AtCost(entries[d], b)]
    BY <1>1
  <2> QED BY <1>2, <2>1, CostByBin
<1>8. /\ [b \in Bins |-> SumFunctionOnSet(f[b], Documents)] = [b \in Bins |-> bin[b].value]
      /\ [d \in Documents |-> SumFunctionOnSet([b \in Bins |-> f[b][d]], Bins)]
            = [d \in Documents |-> CostIn(entries[d], DOMAIN entries[d])]
  BY <1>6, <1>7
<1> QED BY <1>5, <1>8

\* A voucher whose books and entries may not part has booked what it posted.
LEMMA BookedWhatWasPosted ==
    ASSUME StockInv, PlanInv, NEW d \in Documents \ Apart
    PROVE  CostIn(entries[d], DOMAIN entries[d]) = booked[d]
<1>1. VoucherOk(d) /\ entries[d] \in Seq(Entries) /\ status[d] \in {"draft", "submitted", "cancelled"}
  BY DEF PlanInv, StockInv, TypeOK
<1>2. CASE status[d] = "draft"
  BY <1>1, <1>2, NoEntries DEF VoucherOk
<1>3. CASE status[d] = "submitted"
  BY <1>1, <1>3 DEF VoucherOk, Apart
<1>4. CASE status[d] = "cancelled"
  <2>1. booked[d] = 0 /\ \A b \in Bins : AtCost(entries[d], b) = 0
    BY <1>1, <1>4 DEF VoucherOk, Apart
  <2>2. PICK f : f = [b \in Bins |-> AtCost(entries[d], b)]
    OBVIOUS
  <2>3. \A b \in Bins : f[b] = 0
    BY <2>1, <2>2
  <2>4. SumFunctionOnSet(f, Bins) = 0
    BY <2>3, SumOfZeros, StockAssumption
  <2> QED BY <1>1, <2>1, <2>2, <2>4, CostByBin
<1> QED BY <1>1, <1>2, <1>3, <1>4

-----------------------------------------------------------------------------
(* The theorems *)

\* Every variable has its type and only open transactions hold row locks,
\* whoever commits, is refused or fails in the middle of its postings.
THEOREM TypeCorrect == Spec => []TypeOK
<1>1. StockInv => TypeOK
  BY DEF StockInv
<1> QED BY <1>1, StockAlways, PTL

\* The Bin table is the sum of the stock ledger entries of all vouchers, in quantity and in value.
THEOREM BinsAreTheLedger == Spec => []BinMatchesLedger
<1>1. StockInv => BinMatchesLedger
  BY DEF StockInv
<1> QED BY <1>1, StockAlways, PTL

\* Only cancelling may leave a bin short: what a submit checked when it posted
\* still holds when it commits.
THEOREM NoSubmitOverdraws == Spec => SubmitNeverOverdraws
<1> DEFINE Short == \A b \in Bins : bin'[b] # bin[b] /\ bin'[b].qty < 0 =>
                       \E d \in Documents : status[d] = "submitted" /\ status'[d] = "cancelled"
<1>1. ASSUME StockInv, [Next]_vars PROVE [Short]_vars
  <2> SUFFICES ASSUME NEW b \in Bins, bin'[b] # bin[b], bin'[b].qty < 0
               PROVE  \E d \in Documents : status[d] = "submitted" /\ status'[d] = "cancelled"
    OBVIOUS
  <2>1. PICK s \in Sessions : Commit(s)
    BY <1>1 DEF Next, vars, Begin, Take, Validate, Load, Post, Refresh, Refuse, Fail, Rollback
  <2>2. job[s].at = "post" /\ LocksOk(s) /\ WorkOk(s) /\ job[s] \in Jobs
    BY <1>1, <2>1 DEF Commit, StockInv, SessionOk, TypeOK
  <2>3. bin'[b] = IF b \in job[s].touched THEN job[s].work[b] ELSE bin[b]
    BY <2>1 DEF Commit
  <2>4. /\ b \in job[s].touched /\ job[s].work[b] # bin[b]
        /\ job[s].work[b].qty < 0 /\ job[s].work[b].qty \in Int
    BY <2>2, <2>3 DEF Jobs, Balances
  <2>5. job[s].op = "cancel"
    BY <2>2, <2>4 DEF WorkOk, Jobs
  <2>6. job[s].doc \in Documents /\ status[job[s].doc] = "submitted"
    BY <2>2, <2>5 DEF LocksOk, Expected
  <2>7. status'[job[s].doc] = "cancelled"
    BY <1>1, <2>1, <2>5, <2>6 DEF Commit, StockInv, TypeOK
  <2> QED BY <2>6, <2>7
<1> QED BY <1>1, StockAlways, PTL DEF Spec, SubmitNeverOverdraws

\* A cancelled document leaves no quantity in any bin, and no value when it moved
\* at costs of its own: whatever was posted between, the cancel reverses what was posted.
THEOREM CancelsLeaveNothing == Spec => []CancelLeavesNothing
<1>1. PlanInv => CancelLeavesNothing
  BY DEF PlanInv, VoucherOk, CancelLeavesNothing, AtQty, AtCost
<1> QED BY <1>1, PlanAlways, PTL

\* The stock account is booked with the cost the ledger entries of a submitted
\* document carry, returns of purchase invoices excepted.
THEOREM BooksShowTheCost == Spec => []BookedAtCost
<1>1. PlanInv => BookedAtCost
  BY DEF PlanInv, VoucherOk, BookedAtCost
<1> QED BY <1>1, PlanAlways, PTL

\* The submitted returns of a document never take back more of an item than it
\* moved, however many are submitted at once.
THEOREM ReturnsFit == Spec => []ReturnsWithinOriginal
<1>1. Init => StockInv /\ ReturnInv
  BY InitialStock, InitialReturns
<1>2. StockInv /\ ReturnInv /\ [Next]_vars => (StockInv /\ ReturnInv)'
  BY StockStep, ReturnStep
<1>3. ReturnInv => ReturnsWithinOriginal
  BY DEF ReturnInv
<1> QED BY <1>1, <1>2, <1>3, PTL DEF Spec

\* The stock account differs from the bins only by what returns of purchase
\* invoices and cancelled documents posted at the moving average.
THEOREM AccountPartsOnlyThere == Spec => []AccountFollowsBins
<1>1. ASSUME StockInv, PlanInv PROVE AccountFollowsBins
  <2>1. PICK c, f, g, A :
           /\ c = [d \in Documents |-> CostIn(entries[d], DOMAIN entries[d])]
           /\ f = [d \in Documents |-> c[d] - booked[d]]
           /\ g = [d \in Apart |-> CostIn(entries[d], DOMAIN entries[d]) - booked[d]]
           /\ A = Apart
    OBVIOUS
  <2>2. \A d \in Documents : c[d] \in Int /\ booked[d] \in Int
    <3>1. \A d \in Documents : entries[d] \in Seq(Entries) /\ booked[d] \in Int
      BY <1>1 DEF StockInv, TypeOK
    <3> QED BY <2>1, <3>1, AtType
  <2>3. IsFiniteSet(Documents) /\ A \in SUBSET Documents
    BY <2>1, StockAssumption DEF Apart
  <2>4. \A d \in Documents : f[d] \in Int /\ booked[d] \in Int /\ c[d] = f[d] + booked[d]
    BY <2>1, <2>2
  <2>5. SumFunctionOnSet(c, Documents) = SumFunctionOnSet(f, Documents) + SumFunctionOnSet(booked, Documents)
    BY ONLY <2>3, <2>4, SumOfSums
  <2>6. \A d \in Documents : f[d] \in Int
    BY <2>4
  <2>7. SumFunctionOnSet(f, Documents) = SumFunctionOnSet(f, A) + SumFunctionOnSet(f, Documents \ A)
    BY ONLY <2>3, <2>6, SumParts
  <2>8. SumFunctionOnSet(f, Documents \ A) = 0
    <3>1. \A d \in Documents \ A : f[d] = 0
      BY <1>1, <2>1, <2>2, BookedWhatWasPosted
    <3>2. IsFiniteSet(Documents \ A)
      BY <2>3, FS_Subset
    <3> QED BY ONLY <3>1, <3>2, SumOfZeros
  <2>9. SumFunctionOnSet(g, A) = SumFunctionOnSet(f, A)
    <3>1. IsFiniteSet(A)
      BY <2>3, FS_Subset
    <3>2. \A d \in A : f[d] \in Int /\ g[d] = f[d]
      BY <2>1, <2>3, <2>6
    <3> QED BY ONLY <3>1, <3>2, SumSame
  <2>10. /\ SumFunctionOnSet(f, Documents) \in Int /\ SumFunctionOnSet(booked, Documents) \in Int
         /\ SumFunctionOnSet(f, A) \in Int
    <3>1. IsFiniteSet(A) /\ \A d \in A : f[d] \in Int
      BY <2>3, <2>6, FS_Subset
    <3>2. \A d \in Documents : booked[d] \in Int
      BY <2>2
    <3> QED BY ONLY <2>3, <2>6, <3>1, <3>2, SumIsNumber
  <2>11. SumFunctionOnSet([b \in Bins |-> bin[b].value], Bins) = SumFunctionOnSet(c, Documents)
    BY <1>1, <2>1, BinsAreWorthTheEntries
  <2> QED BY <2>1, <2>5, <2>7, <2>8, <2>9, <2>10, <2>11 DEF AccountFollowsBins
<1> QED BY <1>1, PlanAlways, PTL

\* A request that posts waits for nobody but a request that plans orders: whoever
\* else holds the row of a bin holds its item.
LEMMA PosterWaitsForPlanner ==
    ASSUME StockInv, NEW s \in Sessions, job[s].at = "post", job[s].legs # {},
           NEW q \in Needs(s), lock[q] \in Sessions \ {s}
    PROVE  OutOfOrder(lock[q])
<1>1. PICK k \in job[s].legs : q = Movement(job[s].op, job[s].doc, k).bin
  BY DEF Needs
<1>2. PICK t : t = lock[q] /\ t \in Sessions \ {s}
  OBVIOUS
<1>3. q \in Bins /\ ItemOf[q] \in ItemsOf(job[s].doc)
  BY <1>1, MovementType DEF Moves
<1>4. LocksOk(s) /\ job[s].locks = {}
  BY DEF StockInv, SessionOk, LocksOk
<1>5. lock[ItemOf[q]] = s
  BY <1>3, <1>4 DEF LocksOk, Referenced
<1>6. job[t].at # "idle"
  <2>1. q \in Lockable
    BY <1>3 DEF Lockable
  <2> QED BY <1>2, <2>1, StockAssumption DEF StockInv, TypeOK
<1>7. LocksOk(t)
  BY <1>2, <1>6 DEF StockInv, SessionOk
<1>8. job[t].at = "post" /\ (ItemOf[q] \in ItemsOf(job[t].doc) \/ job[t].legs = {})
  BY <1>2, <1>3, <1>7 DEF LocksOk
<1>9. ItemOf[q] \notin ItemsOf(job[t].doc)
  BY <1>2, <1>5, <1>7, <1>8 DEF LocksOk, Referenced
<1> QED BY <1>2, <1>8, <1>9 DEF OutOfOrder

\* The place of a row in the one order of locking: documents, orders, items.
Height(r) == IF r \in Documents /\ KindOf[r] # "order" THEN 0 ELSE LockRank(r)

\* A request in order that takes its rows, and holds one of them, needs a higher one.
LEMMA HigherRowNeeded ==
    ASSUME StockInv, NEW t \in Sessions, job[t].at = "lock", ~OutOfOrder(t),
           NEW p, NextLock(job[t].locks, p),
           NEW q \in Documents \cup Items, lock[q] = t,
           NEW e \in Documents, q \in Referenced(e)
    PROVE  p \in Documents \cup Items /\ Height(q) < Height(p)
<1>1. PICK d : d = job[t].doc
  OBVIOUS
<1>2. LocksOk(t) /\ d \in Documents
  BY <1>1 DEF StockInv, SessionOk, LocksOk
<1>3. p \in job[t].locks /\ p \in Referenced(d) /\ p \in Documents \cup Items
  BY <1>1, <1>2, NamedRows DEF NextLock, LocksOk
<1>4. q = d \/ (q \in Referenced(d) /\ LockRank(q) < LockRank(p))
  BY <1>1, <1>2, <1>3 DEF LocksOk
<1>5. ~(IsReturn(d) /\ KindOf[d] = "receipt" /\ OrdersOf[d] # {})
  BY <1>1 DEF OutOfOrder
<1>6. /\ \A x \in Documents : OrdersOf[x] \subseteq Documents /\ \A y \in OrdersOf[x] : KindOf[y] = "order"
      /\ \A x \in Documents : Original[x] # None =>
            Original[x] \in Documents /\ Original[Original[x]] = None /\ KindOf[Original[x]] = KindOf[x]
      /\ \A x \in Documents : KindOf[x] = "order" => Original[x] = None /\ OrdersOf[x] = {}
  BY StockAssumption, OrderAssumption
<1>7. \A x \in Documents : ItemsOf(x) \subseteq Items /\ x \notin Items
  BY NamedRows, StockAssumption
<1>8. /\ LockRank(p) \in Nat /\ LockRank(p) >= 1 /\ LockRank(q) \in Nat
      /\ p \in Documents /\ q \in Items => LockRank(p) < LockRank(q)
      /\ q \in Documents /\ p \in Items => LockRank(q) < LockRank(p)
      /\ p \in Documents => LockRank(p) = NameRank[p]
      /\ q \in Documents => LockRank(q) = NameRank[q]
  BY <1>3, RanksDiffer
<1>9. Height(p) = 0 \/ Height(p) = LockRank(p)
  BY DEF Height
<1>10. CASE q = d
  <2>1. q = Original[e] \/ q \in OrdersOf[e]
    BY <1>2, <1>7, <1>10 DEF Referenced
  <2>2. Original[d] = None
    BY <1>2, <1>6, <1>10, <2>1, StockAssumption
  <2>3. p \in OrdersOf[d] \/ p \in ItemsOf(d)
    BY <1>3, <2>2 DEF Referenced
  <2>4. CASE KindOf[d] = "order"
    <3>1. p \in Items
      BY <1>2, <1>6, <1>7, <2>3, <2>4
    <3>2. Height(p) = LockRank(p) /\ Height(q) = LockRank(q)
      BY <1>7, <1>10, <2>4, <3>1 DEF Height
    <3> QED BY <1>2, <1>3, <1>8, <1>10, <3>1, <3>2
  <2>5. CASE KindOf[d] # "order"
    <3>1. Height(p) = LockRank(p) /\ Height(q) = 0
      BY <1>2, <1>6, <1>7, <1>10, <2>3, <2>5 DEF Height
    <3> QED BY <1>3, <1>8, <3>1
  <2> QED BY <2>4, <2>5
<1>11. CASE q \in Referenced(d) /\ LockRank(q) < LockRank(p)
  <2>1. CASE p \in Documents /\ KindOf[p] # "order"
    <3>1. p = Original[d] /\ Original[d] # None
      BY <1>2, <1>3, <1>6, <1>7, <2>1, StockAssumption DEF Referenced
    <3>2. q \in OrdersOf[d]
      <4>1. q \notin Items
        BY <1>8, <1>11, <2>1
      <4>2. q # Original[d]
        BY <1>8, <1>11, <3>1
      <4> QED BY <1>2, <1>7, <1>11, <4>1, <4>2 DEF Referenced
    <3>3. KindOf[d] # "receipt" /\ KindOf[p] = KindOf[d]
      BY <1>2, <1>5, <1>6, <3>1, <3>2 DEF IsReturn
    <3>4. NameRank[p] < NameRank[q]
      BY <1>2, <2>1, <3>2, <3>3, OrderAssumption
    <3>5. q \in Documents
      BY <1>2, <1>6, <3>2
    <3> QED BY <1>8, <1>11, <2>1, <3>4, <3>5
  <2>2. CASE ~(p \in Documents /\ KindOf[p] # "order")
    <3>1. Height(p) = LockRank(p) /\ (Height(q) = 0 \/ Height(q) = LockRank(q))
      BY <2>2 DEF Height
    <3> QED BY <1>3, <1>8, <1>11, <3>1
  <2> QED BY <2>1, <2>2
<1> QED BY <1>4, <1>10, <1>11

\* Requests wait for each other in a circle only through one that plans its orders
\* or returns an ordered receipt.  Among others take the one that waits for the
\* highest row: whoever holds it is waiting itself, for a higher row.
THEOREM NoCircleOfWaiting == Spec => []NoWaitCycle
<1>1. ASSUME StockInv PROVE NoWaitCycle
  <2> SUFFICES ASSUME NEW S \in (SUBSET Sessions) \ {{}}, \A s \in S : ~OutOfOrder(s),
                      \A s \in S : Holders(s) \cap S # {}
               PROVE  FALSE
    BY DEF NoWaitCycle
  <2> DEFINE Held == Documents \cup Items
             n == LastRank + LastRank
             Waits(s, q) == /\ job[s].at = "lock" /\ q \in Held
                            /\ NextLock(job[s].locks, q) /\ lock[q] \in S
             Heights == {h \in Nat : \E s \in S : \E q \in Held : Waits(s, q) /\ h = n - Height(q)}
  <2>1. n \in Nat /\ \A q \in Held : Height(q) \in 0..n
    <3>1. LastRank \in Nat
      <4>1. IsFiniteSet(Lockable)
        BY FS_Union, StockAssumption DEF Lockable
      <4> QED BY <4>1, FS_CardinalityType DEF LastRank
    <3>2. ASSUME NEW q \in Held PROVE Height(q) \in 0..n
      <4>1. LockRank(q) \in Nat /\ LockRank(q) <= n
        BY RanksDiffer
      <4> QED BY <3>1, <4>1 DEF Height
    <3> QED BY <3>1, <3>2
  <2>3. \A s \in S : s \in Sessions
    OBVIOUS
  <2>2. ASSUME NEW s \in S PROVE \E q \in Held : Waits(s, q)
    <3>1. PICK q \in Needs(s) : lock[q] \in S /\ lock[q] # s
      BY DEF Holders
    <3>2. job[s].at = "lock"
      <4>1. lock[q] \in Sessions \ {s} /\ ~OutOfOrder(lock[q]) /\ ~OutOfOrder(s)
        BY <3>1, <2>3
      <4>2. ~(job[s].at = "post" /\ job[s].legs # {})
        BY <1>1, <2>3, <4>1, PosterWaitsForPlanner
      <4> QED BY <4>1, <4>2 DEF OutOfOrder, Needs
    <3>3. NextLock(job[s].locks, q)
      BY <3>2 DEF Needs
    <3>4. LocksOk(s)
      BY <1>1, <2>3, <3>2 DEF StockInv, SessionOk
    <3>5. q \in Held
      BY <3>3, <3>4, NamedRows DEF NextLock, LocksOk
    <3> QED BY <3>1, <3>2, <3>3, <3>5
  <2>4. ASSUME NEW s \in S, NEW q \in Held, Waits(s, q),
               NEW p \in Held, Waits(lock[q], p)
        PROVE  Height(q) < Height(p)
    <3>1. PICK t, e : t = lock[q] /\ e = job[s].doc
      OBVIOUS
    <3>2. LocksOk(s)
      BY <1>1, <2>3, <2>4 DEF StockInv, SessionOk
    <3>3. e \in Documents /\ q \in Referenced(e)
      BY <2>4, <3>1, <3>2 DEF NextLock, LocksOk
    <3>4. t \in Sessions /\ job[t].at = "lock" /\ ~OutOfOrder(t) /\ NextLock(job[t].locks, p) /\ lock[q] = t
      BY <2>3, <2>4, <3>1
    <3> QED BY <1>1, <3>3, <3>4, HigherRowNeeded
  <2>5. Heights \subseteq Nat /\ Heights # {}
    <3>1. PICK s \in S : TRUE
      OBVIOUS
    <3>2. PICK q \in Held : Waits(s, q)
      BY <2>2
    <3>3. n - Height(q) \in Nat
      BY <2>1
    <3> HIDE DEF Waits, n
    <3> QED BY <3>2, <3>3
  <2> HIDE DEF Heights
  <2>6. PICK h \in Heights : \A g \in Heights : ~(<<g, h>> \in OpToRel(<, Nat))
    BY <2>5, NatLessThanWellFounded, WFMin
  <2>7. \A g \in Heights : ~(g < h)
    BY <2>5, <2>6 DEF OpToRel
  <2>8. PICK s \in S, q \in Held : Waits(s, q) /\ h = n - Height(q)
    BY DEF Heights
  <2>9. PICK p \in Held : Waits(lock[q], p)
    BY <2>2, <2>8
  <2>10. Height(q) < Height(p)
    BY <2>4, <2>8, <2>9
  <2>11. n - Height(p) \in Heights
    <3>1. lock[q] \in S
      BY <2>8
    <3>2. n - Height(p) \in Nat
      BY <2>1
    <3> HIDE DEF Waits, n
    <3> QED BY <2>9, <3>1, <3>2 DEF Heights
  <2>12. n - Height(p) < h
    BY <2>1, <2>8, <2>10
  <2> QED BY <2>7, <2>11, <2>12
<1> QED BY <1>1, StockAlways, PTL
=============================================================================
