----------------------------- MODULE RDictProofs -----------------------------
(***************************************************************************)
(* The structural invariant of the hash table, for every set of keys, hash *)
(* function, sequence of sizes and resize ratio.  The five invariants that *)
(* TLC checks on MCRDict are inductive together: each needs the others.    *)
(* On them rest the refinement of DictMap, the map the callers see, and    *)
(* the promise an open iterator relies on.                                 *)
(***************************************************************************)
EXTENDS RDictCalls, CommonLemmas, FiniteSetTheorems, TLAPS

\* The inductive invariant, as a predicate of one dictionary.
DictOK(s) ==
  /\ s \in Dicts
  /\ PlacementOf(s)
  /\ OneHomeOf(s)
  /\ UsedCountsOf(s)
  /\ RehashFrontierOf(s)

-----------------------------------------------------------------------------
\* _dictNextPower returns a size of the sequence that is large enough.
LEMMA NextPower ==
  ASSUME NEW n \in 0 .. 2 * Cardinality(Keys)
  PROVE  dictNextPower(n) \in TableSizes /\ n <= dictNextPower(n)
<1> DEFINE Fit == {s \in TableSizes : n <= s}
<1>1. Fit \in SUBSET Nat /\ Fit # {}
  BY RDictAssumption, SizesSuffice
<1>2. \E m \in Fit : \A r \in Fit : m <= r
  <2> HIDE DEF Fit
  <2> QED BY <1>1, LeastNatural
<1>3. \E s \in TableSizes : n <= s /\ \A r \in TableSizes : n <= r => s <= r
  BY <1>2
<1> QED BY <1>3 DEF dictNextPower

\* The initial size is small enough to be asked for.
LEMMA NextPowerInitial ==
  dictNextPower(DICT_HT_INITIAL_SIZE) \in TableSizes
<1> DEFINE Q(s) == /\ DICT_HT_INITIAL_SIZE <= s
                   /\ \A r \in TableSizes : DICT_HT_INITIAL_SIZE <= r => s <= r
<1>1. Q(DICT_HT_INITIAL_SIZE) /\ DICT_HT_INITIAL_SIZE \in TableSizes
  BY RDictAssumption
<1>2. \E s \in TableSizes : Q(s)
  BY <1>1
<1> QED BY <1>2 DEF dictNextPower

\* The fields of a table.
LEMMA TableType ==
  ASSUME NEW ht \in Tables
  PROVE  /\ ht.size \in Nat /\ ht.used \in Nat /\ ht.table \in SUBSET Entries
         /\ ht.size # 0 => ht.size \in TableSizes
<1>1. \A n \in TableSizes : n \in Nat
  BY RDictAssumption
<1>2. /\ ht.size \in {0} \cup TableSizes
      /\ ht.used \in Nat /\ ht.table \in SUBSET Entries
  BY DEF Tables
<1> QED BY <1>1, <1>2

\* A slot is a bucket number of its table.
LEMMA SlotType ==
  ASSUME NEW ht \in Tables, ht.size # 0, NEW k \in Keys
  PROVE  Slot(ht, k) \in Nat /\ Slot(ht, k) < ht.size
<1>1. ht.size \in Nat \ {0} /\ Hash[k] \in Nat
  BY RDictAssumption DEF Tables
<1> QED BY <1>1 DEF Slot

\* The chains of one table hold finitely many entries, at most one per key.
LEMMA TableFinite ==
  ASSUME NEW T \in SUBSET Entries, \A e, f \in T : e.key = f.key => e = f
  PROVE  IsFiniteSet(T) /\ Cardinality(T) \in Nat /\ Cardinality(T) <= Cardinality(Keys)
<1> DEFINE f == [e \in T |-> e.key]
<1>1. f \in [T -> Keys]
  BY DEF Entries
<1>2. f \in Injection(T, Keys)
  BY <1>1 DEF Injection, IsInjective
<1>3. IsFiniteSet(T) /\ Cardinality(T) <= Cardinality(Keys)
  <2> HIDE DEF f
  <2> QED BY <1>2, RDictAssumption, FS_Injection
<1> QED BY <1>3, FS_CardinalityType

\* The entries of each table are finite in number and counted by `used`.
LEMMA DictFinite ==
  ASSUME NEW s, DictOK(s)
  PROVE  /\ IsFiniteSet(s.ht0.table) /\ IsFiniteSet(s.ht1.table)
         /\ s.ht0.used \in 0 .. Cardinality(Keys)
         /\ s.ht1.used \in 0 .. Cardinality(Keys)
         /\ s.ht0.used = 0 <=> s.ht0.table = {}
<1>1. s.ht0.table \in SUBSET Entries /\ s.ht1.table \in SUBSET Entries
  BY DEF DictOK, Dicts, Tables
<1>2. /\ \A e, f \in s.ht0.table : e.key = f.key => e = f
      /\ \A e, f \in s.ht1.table : e.key = f.key => e = f
  BY DEF DictOK, OneHomeOf
<1>3. /\ IsFiniteSet(s.ht0.table) /\ Cardinality(s.ht0.table) \in Nat
      /\ Cardinality(s.ht0.table) <= Cardinality(Keys)
      /\ IsFiniteSet(s.ht1.table) /\ Cardinality(s.ht1.table) \in Nat
      /\ Cardinality(s.ht1.table) <= Cardinality(Keys)
  BY <1>1, <1>2, TableFinite
<1>4. Cardinality(Keys) \in Nat
  BY RDictAssumption, FS_CardinalityType
<1>5. Cardinality(s.ht0.table) = 0 <=> s.ht0.table = {}
  BY <1>3, FS_EmptySet
<1> QED BY <1>3, <1>4, <1>5 DEF DictOK, UsedCountsOf

\* A fresh table is well formed, well placed and rightly counted.
LEMMA FreshTable ==
  ASSUME NEW n \in {0} \cup TableSizes
  PROVE  /\ NewTable(n) \in Tables
         /\ WellPlaced(NewTable(n))
         /\ NewTable(n).used = Cardinality(NewTable(n).table)
         /\ NewTable(n).table = {} /\ NewTable(n).used = 0 /\ NewTable(n).size = n
BY FS_EmptySet DEF NewTable, Tables, WellPlaced

\* The scan of dictRehash stops at the first non-empty bucket.
LEMMA FirstFull ==
  ASSUME NEW s, DictOK(s), dictIsRehashing(s), s.ht0.used # 0
  PROVE  /\ FirstFullBucket(s) \in Nat
         /\ s.rehashidx <= FirstFullBucket(s)
         /\ \A e \in s.ht0.table : FirstFullBucket(s) <= e.idx
         /\ \E e \in s.ht0.table : e.idx = FirstFullBucket(s)
<1> DEFINE Used == {e.idx : e \in s.ht0.table}
<1>1. s.ht0.table # {} /\ s.ht0.table \in SUBSET Entries
  BY DictFinite DEF DictOK, Dicts, Tables
<1>2. Used \in SUBSET Nat /\ Used # {}
  BY <1>1 DEF Entries
<1>3. \E m \in Used : \A n \in Used : m <= n
  <2> HIDE DEF Used
  <2> QED BY <1>2, LeastNatural
<1>4. \A e \in s.ht0.table : s.rehashidx <= e.idx
  BY DEF DictOK, RehashFrontierOf
<1>5. \E i \in Used : /\ s.rehashidx <= i
                      /\ \A e \in s.ht0.table : s.rehashidx <= e.idx => i <= e.idx
  BY <1>3, <1>4
<1>6. /\ FirstFullBucket(s) \in Used
      /\ s.rehashidx <= FirstFullBucket(s)
      /\ \A e \in s.ht0.table : s.rehashidx <= e.idx => FirstFullBucket(s) <= e.idx
  <2> HIDE DEF Used
  <2>1. FirstFullBucket(s) = CHOOSE i \in Used :
            /\ s.rehashidx <= i
            /\ \A e \in s.ht0.table : s.rehashidx <= e.idx => i <= e.idx
    BY DEF FirstFullBucket, Used
  <2> QED BY <1>5, <2>1
<1> QED BY <1>2, <1>4, <1>6

\* The last step of a rehash: table 1 takes the place of the drained table 0.
LEMMA FinishKeeps ==
  ASSUME NEW s, DictOK(s), dictIsRehashing(s), s.ht0.used = 0
  PROVE  DictOK(FinishRehash(s))
<1> DEFINE t == FinishRehash(s)
<1>1. /\ t.ht0 = s.ht1 /\ t.ht1 = EmptyTable /\ t.rehashidx = -1
      /\ t.iterators = s.iterators
  BY DEF FinishRehash, With
<1>2. t \in Dicts
  BY FreshTable DEF DictOK, Dicts, EmptyTable, FinishRehash, With
<1>3. PlacementOf(t)
  BY <1>1, FreshTable DEF DictOK, PlacementOf, EmptyTable
<1>4. OneHomeOf(t)
  BY <1>1, FreshTable DEF DictOK, OneHomeOf, EmptyTable
<1>5. UsedCountsOf(t)
  <2>1. EmptyTable.used = Cardinality(EmptyTable.table)
    BY FS_EmptySet DEF EmptyTable, NewTable
  <2>2. s.ht1.used = Cardinality(s.ht1.table)
    BY DEF DictOK, UsedCountsOf
  <2> HIDE DEF t
  <2> QED BY <1>1, <2>1, <2>2 DEF UsedCountsOf
<1>6. RehashFrontierOf(t)
  BY <1>1 DEF RehashFrontierOf, dictIsRehashing
<1> QED BY <1>2, <1>3, <1>4, <1>5, <1>6 DEF DictOK

\* Moving entries to a larger table changes their buckets and nothing else.
LEMMA RehashedEntries ==
  ASSUME NEW ht \in Tables, ht.size # 0, NEW es \in SUBSET Entries,
         \A e, f \in es : e.key = f.key => e = f, IsFiniteSet(es)
  PROVE  /\ Rehashed(ht, es) \in SUBSET Entries
         /\ \A x \in Rehashed(ht, es) :
               /\ x.idx = Slot(ht, x.key)
               /\ \E e \in es : e.key = x.key /\ e.val = x.val
         /\ \A x, y \in Rehashed(ht, es) : x.key = y.key => x = y
         /\ IsFiniteSet(Rehashed(ht, es))
         /\ Cardinality(Rehashed(ht, es)) = Cardinality(es)
<1> DEFINE g(e) == [idx |-> Slot(ht, e.key), key |-> e.key, val |-> e.val]
           F == [e \in es |-> g(e)]
           R == Rehashed(ht, es)
<1>1. \A e \in es : [e EXCEPT !.idx = Slot(ht, e.key)] = g(e) /\ g(e) \in Entries
  BY SlotType DEF Entries
<1>2. R = {g(e) : e \in es}
  <2> HIDE DEF g
  <2> QED BY <1>1 DEF Rehashed
<1>3. R \in SUBSET Entries
  BY <1>1, <1>2
<1>4. \A x \in R : x.idx = Slot(ht, x.key) /\ \E e \in es : e.key = x.key /\ e.val = x.val
  BY <1>2
<1>5. \A x, y \in R : x.key = y.key => x = y
  BY <1>2
<1>6. F \in [es -> R] /\ \A x \in R : \E e \in es : F[e] = x
  BY <1>2
<1>7. \A e, f \in es : F[e] = F[f] => e = f
  <2> TAKE e, f \in es
  <2>1. F[e].key = e.key /\ F[f].key = f.key
    OBVIOUS
  <2> QED BY <2>1
<1>8. F \in Bijection(es, R)
  <2> HIDE DEF F, R
  <2> QED BY <1>6, <1>7 DEF Bijection, Injection, Surjection, IsInjective
<1>9. IsFiniteSet(R) /\ Cardinality(R) = Cardinality(es)
  <2> HIDE DEF F, R
  <2> QED BY <1>8, FS_Bijection DEF ExistsBijection
<1> QED BY <1>3, <1>4, <1>5, <1>9

\* A bucket moves as a whole: no key is lost, duplicated or misplaced.
LEMMA MoveKeeps ==
  ASSUME NEW s, DictOK(s), dictIsRehashing(s), s.ht0.used # 0
  PROVE  DictOK(MoveBucket(s, FirstFullBucket(s)))
<1> DEFINE i == FirstFullBucket(s)
           moved == Bucket(s.ht0, i)
           new == Rehashed(s.ht1, moved)
           T0 == s.ht0.table
           T1 == s.ht1.table
           t == MoveBucket(s, i)
<1>1. /\ s.ht0 \in Tables /\ s.ht1 \in Tables /\ s.ht1.size # 0
      /\ T0 \in SUBSET Entries /\ T1 \in SUBSET Entries
      /\ \A e, f \in T0 \cup T1 : e.key = f.key => e = f
      /\ T0 \cap T1 = {}
      /\ s.rehashidx \in Nat /\ s.ht0.size # 0
  BY DEF DictOK, Dicts, Tables, OneHomeOf, RehashFrontierOf, dictIsRehashing
<1>2. /\ i \in Nat /\ s.rehashidx <= i
      /\ \A e \in T0 : i <= e.idx
      /\ \E e \in T0 : e.idx = i
  BY FirstFull
<1>3. /\ IsFiniteSet(T0) /\ IsFiniteSet(T1)
      /\ s.ht0.used = Cardinality(T0) /\ s.ht1.used = Cardinality(T1)
  BY DictFinite DEF DictOK, UsedCountsOf
<1>4. /\ moved \subseteq T0
      /\ \A e \in T0 : e \in moved <=> e.idx = i
  BY DEF Bucket
<1>5. IsFiniteSet(moved) /\ Cardinality(moved) \in Nat
  BY <1>3, <1>4, FS_Subset, FS_CardinalityType
<1>6. /\ new \in SUBSET Entries
      /\ \A x \in new : /\ x.idx = Slot(s.ht1, x.key)
                        /\ \E e \in moved : e.key = x.key /\ e.val = x.val
      /\ \A x, y \in new : x.key = y.key => x = y
      /\ IsFiniteSet(new) /\ Cardinality(new) = Cardinality(moved)
  <2>1. \A e, f \in moved : e.key = f.key => e = f
    BY <1>1, <1>4
  <2>2. moved \in SUBSET Entries
    BY <1>1, <1>4
  <2> HIDE DEF moved
  <2> QED BY <1>1, <1>5, <2>1, <2>2, RehashedEntries
<1>7. /\ t.ht0 = [size |-> s.ht0.size, used |-> s.ht0.used - Cardinality(moved),
                  table |-> T0 \ moved]
      /\ t.ht1 = [size |-> s.ht1.size, used |-> s.ht1.used + Cardinality(moved),
                  table |-> T1 \cup new]
      /\ t.rehashidx = i + 1 /\ t.iterators = s.iterators
      /\ t = [ht0 |-> t.ht0, ht1 |-> t.ht1, rehashidx |-> t.rehashidx,
              iterators |-> t.iterators]
  BY DEF MoveBucket, With
<1> HIDE DEF i, moved, new, t
<1>8. /\ Cardinality(T0 \ moved) = s.ht0.used - Cardinality(moved)
      /\ Cardinality(T0 \ moved) \in Nat
  <2>1. T0 \cap moved = moved
    BY <1>4
  <2>2. IsFiniteSet(T0 \ moved) /\ Cardinality(T0 \ moved) = Cardinality(T0) - Cardinality(T0 \cap moved)
    BY <1>3, FS_Difference
  <2> QED BY <1>3, <2>1, <2>2, FS_CardinalityType
<1>9. Cardinality(T1 \cup new) = s.ht1.used + Cardinality(moved)
  <2>1. T1 \cap new = {}
    <3>1. ASSUME NEW x \in T1, x \in new PROVE FALSE
      <4>1. PICK e \in moved : e.key = x.key
        BY <1>6, <3>1
      <4>2. e = x
        BY <1>1, <1>4, <4>1
      <4> QED BY <1>1, <1>4, <4>2
    <3> QED BY <3>1
  <2>2. Cardinality(T1 \cup new) = Cardinality(T1) + Cardinality(new) - Cardinality(T1 \cap new)
    BY <1>3, <1>6, FS_Union
  <2>3. Cardinality(T1) \in Nat /\ Cardinality({}) = 0
    BY <1>3, FS_CardinalityType, FS_EmptySet
  <2>4. Cardinality(T1 \cap new) = 0
    BY <2>1, <2>3
  <2> HIDE DEF T1
  <2> QED BY <1>3, <1>5, <1>6, <2>2, <2>3, <2>4
<1>10. t \in Dicts
  <2>1. s.ht1.used + Cardinality(moved) \in Nat
    BY <1>1, <1>5 DEF Tables
  <2>2. t.ht0 \in Tables
    BY <1>1, <1>7, <1>8 DEF Tables
  <2>3. t.ht1 \in Tables
    BY <1>1, <1>6, <1>7, <2>1 DEF Tables
  <2>4. s.iterators \in 0 .. MaxIterators
    BY DEF DictOK, Dicts
  <2>5. t.rehashidx \in Nat \cup {-1} /\ t.iterators \in 0 .. MaxIterators
    BY <1>2, <1>7, <2>4
  <2> QED BY <1>7, <2>2, <2>3, <2>5 DEF Dicts
<1>11. PlacementOf(t)
  <2>1. WellPlaced(s.ht0) /\ WellPlaced(s.ht1)
    BY DEF DictOK, PlacementOf
  <2>2. WellPlaced(t.ht0)
    BY <1>7, <2>1 DEF WellPlaced, Slot
  <2>3. WellPlaced(t.ht1)
    BY <1>1, <1>6, <1>7, <2>1 DEF WellPlaced, Slot
  <2> QED BY <2>2, <2>3 DEF PlacementOf
<1>12. OneHomeOf(t)
  <2>1. \A x \in new, e \in (T0 \ moved) \cup T1 : x.key # e.key
    <3> SUFFICES ASSUME NEW x \in new, NEW e \in (T0 \ moved) \cup T1, x.key = e.key
                 PROVE  FALSE
      OBVIOUS
    <3>1. PICK f \in moved : f.key = x.key
      BY <1>6
    <3>2. f = e
      BY <1>1, <1>4, <3>1
    <3> QED BY <1>1, <1>4, <3>2
  <2>2. \A e, f \in (T0 \ moved) \cup (T1 \cup new) : e.key = f.key => e = f
    BY <1>1, <1>6, <2>1
  <2>3. (T0 \ moved) \cap (T1 \cup new) = {}
    BY <1>1, <2>1
  <2> QED BY <1>7, <2>2, <2>3 DEF OneHomeOf
<1>13. UsedCountsOf(t)
  BY <1>7, <1>8, <1>9 DEF UsedCountsOf
<1>14. RehashFrontierOf(t)
  <2>1. dictIsRehashing(t)
    BY <1>2, <1>7 DEF dictIsRehashing
  <2>2. \A e \in T0 \ moved : i + 1 <= e.idx
    BY <1>1, <1>2, <1>4 DEF Entries
  <2>3. t.ht0.used > 0 => i + 1 < s.ht0.size
    <3> SUFFICES ASSUME t.ht0.used > 0 PROVE i + 1 < s.ht0.size
      OBVIOUS
    <3>1. T0 \ moved # {}
      BY <1>7, <1>8, FS_EmptySet
    <3>2. PICK e \in T0 \ moved : TRUE
      BY <3>1
    <3>3. e.idx = Slot(s.ht0, e.key) /\ e.key \in Keys
      BY <1>1 DEF DictOK, PlacementOf, WellPlaced, Entries
    <3>4. s.ht0.size \in Nat
      BY <1>1, RDictAssumption DEF Tables
    <3>5. Slot(s.ht0, e.key) \in Nat /\ Slot(s.ht0, e.key) < s.ht0.size
      BY <1>1, <3>3, SlotType
    <3> QED BY <1>2, <2>2, <3>3, <3>4, <3>5
  <2> QED BY <1>1, <1>7, <2>1, <2>2, <2>3 DEF RehashFrontierOf
<1> QED BY <1>10, <1>11, <1>12, <1>13, <1>14 DEF DictOK, i, t

\* One call of _dictRehashStep, wherever the rehash stands.
LEMMA StepKeeps ==
  ASSUME NEW s, DictOK(s)
  PROVE  DictOK(dictRehashStep(s))
BY FinishKeeps, MoveKeeps DEF dictRehashStep, dictRehash

\* Starting a rehash, or giving a new dictionary its first table.
LEMMA ExpandKeeps ==
  ASSUME NEW s, DictOK(s), NEW n \in Nat, dictNextPower(n) \in TableSizes
  PROVE  DictOK(dictExpand(s, n))
<1> DEFINE new == NewTable(dictNextPower(n))
<1>1. /\ new \in Tables /\ new.size # 0 /\ new.table = {} /\ new.used = 0
      /\ WellPlaced(new) /\ new.used = Cardinality(new.table)
  <2>1. dictNextPower(n) \in {0} \cup TableSizes /\ dictNextPower(n) # 0
    BY RDictAssumption
  <2> QED BY <2>1, FreshTable
<1>2. /\ s.ht0 \in Tables /\ s.ht1 \in Tables
      /\ s.rehashidx \in Nat \cup {-1} /\ s.iterators \in 0 .. MaxIterators
      /\ WellPlaced(s.ht0) /\ WellPlaced(s.ht1)
  BY DEF DictOK, Dicts, PlacementOf
<1>3. s.ht0.table \in SUBSET Entries
  BY <1>2 DEF Tables
<1> HIDE DEF new
<1>4. CASE ~ ExpandAllowed(s, n)
  BY <1>4 DEF dictExpand
<1>5. CASE ExpandAllowed(s, n) /\ s.ht0.size = 0
  <2> DEFINE t == With(s, new, s.ht1, s.rehashidx)
  <2>1. t = dictExpand(s, n)
    BY <1>5 DEF dictExpand, new
  <2>2. ~ dictIsRehashing(s) /\ s.ht1 = EmptyTable
    BY <1>5 DEF ExpandAllowed, DictOK, RehashFrontierOf
  <2>3. t.ht0 = new /\ t.ht1 = EmptyTable /\ t.rehashidx = s.rehashidx
    BY <2>2 DEF With
  <2>4. EmptyTable.table = {} /\ EmptyTable.used = 0
    BY DEF EmptyTable, NewTable
  <2>5. t \in Dicts
    BY <1>1, <1>2 DEF With, Dicts
  <2> HIDE DEF t
  <2>6. PlacementOf(t)
    BY <1>1, <1>2, <2>2, <2>3 DEF PlacementOf
  <2>7. OneHomeOf(t)
    BY <1>1, <2>3, <2>4 DEF OneHomeOf
  <2>8. UsedCountsOf(t)
    BY <1>1, <2>3, <2>4 DEF UsedCountsOf
  <2>9. RehashFrontierOf(t)
    BY <2>2, <2>3 DEF RehashFrontierOf, dictIsRehashing
  <2> QED BY <2>1, <2>5, <2>6, <2>7, <2>8, <2>9 DEF DictOK
<1>6. CASE ExpandAllowed(s, n) /\ s.ht0.size # 0
  <2> DEFINE t == With(s, s.ht0, new, 0)
  <2>1. t = dictExpand(s, n)
    BY <1>6 DEF dictExpand, new
  <2>2. t.ht0 = s.ht0 /\ t.ht1 = new /\ t.rehashidx = 0
    BY DEF With
  <2>3. t \in Dicts
    BY <1>1, <1>2 DEF With, Dicts
  <2> HIDE DEF t
  <2>4. PlacementOf(t)
    BY <1>1, <1>2, <2>2 DEF PlacementOf
  <2>5. OneHomeOf(t)
    BY <1>1, <2>2 DEF OneHomeOf, DictOK
  <2>6. UsedCountsOf(t)
    BY <1>1, <2>2 DEF UsedCountsOf, DictOK
  <2>7. RehashFrontierOf(t)
    <3>1. \A e \in s.ht0.table : 0 <= e.idx
      BY <1>3 DEF Entries
    <3>2. s.ht0.size \in Nat
      BY <1>2, TableType
    <3>3. dictIsRehashing(t)
      BY <2>2 DEF dictIsRehashing
    <3> QED BY <1>1, <1>6, <2>2, <3>1, <3>2, <3>3 DEF RehashFrontierOf
  <2> QED BY <2>1, <2>3, <2>4, <2>5, <2>6, <2>7 DEF DictOK
<1> QED BY <1>4, <1>5, <1>6

\* What _dictKeyIndex does before it searches; an insertion finds a table.
LEMMA PreparedKeeps ==
  ASSUME NEW s, DictOK(s)
  PROVE  /\ DictOK(Prepared(s))
         /\ Prepared(s).ht0.size # 0
<1> DEFINE t == dictRehashStep(s)
<1>1. DictOK(t)
  BY StepKeeps
<1> HIDE DEF t
<1>2. /\ t.ht0.used \in 0 .. Cardinality(Keys)
      /\ Cardinality(Keys) \in Nat
  BY <1>1, DictFinite, RDictAssumption, FS_CardinalityType
<1>3. DictOK(dictExpand(t, DICT_HT_INITIAL_SIZE))
  <2>1. DICT_HT_INITIAL_SIZE \in Nat
    BY RDictAssumption
  <2> QED BY <1>1, <2>1, NextPowerInitial, ExpandKeeps
<1>4. DictOK(dictExpand(t, 2 * t.ht0.used))
  <2>1. 2 * t.ht0.used \in 0 .. 2 * Cardinality(Keys)
    BY <1>2
  <2>2. 2 * t.ht0.used \in Nat
    BY <2>1
  <2>3. dictNextPower(2 * t.ht0.used) \in TableSizes
    BY <2>1, NextPower
  <2> QED BY <1>1, <2>2, <2>3, ExpandKeeps
<1>5. DictOK(dictExpandIfNeeded(t))
  BY <1>1, <1>3, <1>4 DEF dictExpandIfNeeded
<1>6. dictExpandIfNeeded(t).ht0.size # 0
  <2>1. CASE dictIsRehashing(t)
    BY <1>1, <2>1 DEF dictExpandIfNeeded, DictOK, RehashFrontierOf
  <2>2. CASE ~ dictIsRehashing(t) /\ t.ht0.size = 0
    <3>1. t.ht0.table = {}
      BY <1>1, <2>2 DEF DictOK, PlacementOf, WellPlaced
    <3>2. t.ht0.used = 0
      BY <1>1, <3>1, DictFinite
    <3>3. ExpandAllowed(t, DICT_HT_INITIAL_SIZE)
      BY <2>2, <3>2, RDictAssumption DEF ExpandAllowed
    <3>4. dictExpandIfNeeded(t).ht0 = NewTable(dictNextPower(DICT_HT_INITIAL_SIZE))
      BY <2>2, <3>3 DEF dictExpandIfNeeded, dictExpand, With
    <3> QED BY <3>4, NextPowerInitial, RDictAssumption DEF NewTable
  <2>3. CASE ~ dictIsRehashing(t) /\ t.ht0.size # 0
    BY <2>3 DEF dictExpandIfNeeded, dictExpand, With
  <2> QED BY <2>1, <2>2, <2>3
<1> QED BY <1>5, <1>6 DEF Prepared, t

\* A search meets every entry of the key, in whichever table it lives.
LEMMA LookupComplete ==
  ASSUME NEW s, DictOK(s), NEW k \in Keys
  PROVE  /\ Lookup(s, k) = {e \in s.ht0.table \cup s.ht1.table : e.key = k}
         /\ \A e, f \in Lookup(s, k) : e = f
         /\ Chain(s.ht0, k) = {e \in s.ht0.table : e.key = k}
         /\ Chain(s.ht1, k) = {e \in s.ht1.table : e.key = k}
         /\ s.ht0.size = 0 => Lookup(s, k) = {}
<1>1. /\ \A e \in s.ht0.table : e.idx = Slot(s.ht0, e.key) /\ s.ht0.size # 0
      /\ \A e \in s.ht1.table : e.idx = Slot(s.ht1, e.key)
  BY DEF DictOK, PlacementOf, WellPlaced
<1>2. /\ Chain(s.ht0, k) = {e \in s.ht0.table : e.key = k}
      /\ Chain(s.ht1, k) = {e \in s.ht1.table : e.key = k}
  BY <1>1 DEF Chain, Bucket
<1>3. \A e, f \in s.ht0.table \cup s.ht1.table : e.key = f.key => e = f
  BY DEF DictOK, OneHomeOf
<1>4. s.ht0.table \cap s.ht1.table = {}
  BY DEF DictOK, OneHomeOf
<1>5. ~ dictIsRehashing(s) => s.ht1.table = {}
  BY DEF DictOK, RehashFrontierOf, EmptyTable, NewTable
<1>6. s.ht0.size = 0 => ~ dictIsRehashing(s)
  BY DEF DictOK, RehashFrontierOf
<1>7. Lookup(s, k) = {e \in s.ht0.table \cup s.ht1.table : e.key = k}
  <2>1. CASE Chain(s.ht0, k) # {}
    <3>1. Chain(s.ht1, k) = {}
      BY <1>2, <1>3, <1>4, <2>1
    <3> QED BY <1>2, <2>1, <3>1 DEF Lookup
  <2>2. CASE Chain(s.ht0, k) = {}
    BY <1>2, <1>5, <2>2 DEF Lookup
  <2> QED BY <2>1, <2>2
<1>8. \A e, f \in Lookup(s, k) : e = f
  BY <1>3, <1>7
<1>9. s.ht0.size = 0 => Lookup(s, k) = {}
  BY <1>1, <1>5, <1>6, <1>7
<1> QED BY <1>2, <1>7, <1>8, <1>9

\* Linking an entry for an absent key keeps a table in order.
LEMMA LinkedTable ==
  ASSUME NEW ht \in Tables, ht.size # 0, WellPlaced(ht),
         IsFiniteSet(ht.table), ht.used = Cardinality(ht.table),
         NEW k \in Keys, NEW v \in Vals, \A e \in ht.table : e.key # k
  PROVE  /\ Linked(ht, k, v) \in Tables
         /\ WellPlaced(Linked(ht, k, v))
         /\ Linked(ht, k, v).used = Cardinality(Linked(ht, k, v).table)
<1> DEFINE x == [idx |-> Slot(ht, k), key |-> k, val |-> v]
           t == Linked(ht, k, v)
<1>1. t.size = ht.size /\ t.used = ht.used + 1 /\ t.table = ht.table \cup {x}
  BY DEF Linked
<1>2. x \in Entries
  BY SlotType DEF Entries
<1>3. x \notin ht.table
  OBVIOUS
<1>4. t \in Tables
  BY <1>2 DEF Tables, Linked
<1>5. WellPlaced(t)
  BY <1>1 DEF WellPlaced, Slot
<1>6. Cardinality(ht.table \cup {x}) = Cardinality(ht.table) + 1
  <2> HIDE DEF x
  <2> QED BY <1>3, FS_AddElement
<1> QED BY <1>1, <1>4, <1>5, <1>6

\* The insertion of dictAddRaw, into whichever table is the current one.
LEMMA InsertKeeps ==
  ASSUME NEW s, DictOK(s), s.ht0.size # 0, NEW k \in Keys, NEW v \in Vals,
         Lookup(s, k) = {}
  PROVE  DictOK(Insert(s, k, v))
<1>1. \A e \in s.ht0.table \cup s.ht1.table : e.key # k
  BY LookupComplete
<1>2. /\ s.ht0 \in Tables /\ s.ht1 \in Tables
      /\ s.rehashidx \in Nat \cup {-1} /\ s.iterators \in 0 .. MaxIterators
      /\ WellPlaced(s.ht0) /\ WellPlaced(s.ht1)
      /\ s.ht0.used = Cardinality(s.ht0.table) /\ s.ht1.used = Cardinality(s.ht1.table)
  BY DEF DictOK, Dicts, PlacementOf, UsedCountsOf
<1>3. IsFiniteSet(s.ht0.table) /\ IsFiniteSet(s.ht1.table)
  BY DictFinite
<1>4. OneHomeOf(s)
  BY DEF DictOK
<1> DEFINE x(ht) == [idx |-> Slot(ht, k), key |-> k, val |-> v]
<1>5. CASE dictIsRehashing(s)
  <2> DEFINE new == Linked(s.ht1, k, v)
             t == With(s, s.ht0, new, s.rehashidx)
  <2>1. s.ht1.size # 0
    BY <1>5 DEF DictOK, RehashFrontierOf
  <2>2. new \in Tables /\ WellPlaced(new) /\ new.used = Cardinality(new.table)
    BY <1>1, <1>2, <1>3, <2>1, LinkedTable
  <2>3. new.size = s.ht1.size /\ new.table = s.ht1.table \cup {x(s.ht1)}
    BY DEF Linked
  <2>4. t = Insert(s, k, v)
    BY <1>5 DEF Insert
  <2> HIDE DEF new
  <2>5. t.ht0 = s.ht0 /\ t.ht1 = new /\ t.rehashidx = s.rehashidx
    BY DEF With
  <2>6. t \in Dicts
    BY <1>2, <2>2 DEF With, Dicts
  <2> HIDE DEF t
  <2>7. PlacementOf(t) /\ UsedCountsOf(t)
    BY <1>2, <2>2, <2>5 DEF PlacementOf, UsedCountsOf
  <2>8. OneHomeOf(t)
    BY <1>1, <1>4, <2>3, <2>5 DEF OneHomeOf
  <2>9. RehashFrontierOf(t)
    BY <1>5, <2>1, <2>3, <2>5 DEF DictOK, RehashFrontierOf, dictIsRehashing
  <2> QED BY <2>4, <2>6, <2>7, <2>8, <2>9 DEF DictOK
<1>6. CASE ~ dictIsRehashing(s)
  <2> DEFINE new == Linked(s.ht0, k, v)
             t == With(s, new, s.ht1, s.rehashidx)
  <2>2. new \in Tables /\ WellPlaced(new) /\ new.used = Cardinality(new.table)
    BY <1>1, <1>2, <1>3, LinkedTable
  <2>3. new.table = s.ht0.table \cup {x(s.ht0)}
    BY DEF Linked
  <2>4. t = Insert(s, k, v)
    BY <1>6 DEF Insert
  <2> HIDE DEF new
  <2>5. t.ht0 = new /\ t.ht1 = s.ht1 /\ t.rehashidx = s.rehashidx
    BY DEF With
  <2>6. t \in Dicts
    BY <1>2, <2>2 DEF With, Dicts
  <2> HIDE DEF t
  <2>7. PlacementOf(t) /\ UsedCountsOf(t)
    BY <1>2, <2>2, <2>5 DEF PlacementOf, UsedCountsOf
  <2>8. OneHomeOf(t)
    BY <1>1, <1>4, <2>3, <2>5 DEF OneHomeOf
  <2>9. RehashFrontierOf(t)
    BY <1>6, <2>5 DEF DictOK, RehashFrontierOf, dictIsRehashing
  <2> QED BY <2>4, <2>6, <2>7, <2>8, <2>9 DEF DictOK
<1> QED BY <1>5, <1>6

\* Giving an entry another value leaves keys, buckets and counts alone.
LEMMA RevaluedTable ==
  ASSUME NEW ht \in Tables, WellPlaced(ht),
         \A e, f \in ht.table : e.key = f.key => e = f,
         IsFiniteSet(ht.table), ht.used = Cardinality(ht.table),
         NEW k \in Keys, NEW v \in Vals,
         NEW es, \A e \in ht.table : e \in es <=> e.key = k
  PROVE  LET t == Revalued(ht, es, v)
         IN  /\ t \in Tables /\ t.size = ht.size /\ t.used = ht.used
             /\ WellPlaced(t)
             /\ t.used = Cardinality(t.table)
             /\ \A x \in t.table : \E e \in ht.table : e.key = x.key /\ e.idx = x.idx
             /\ \A x, y \in t.table : x.key = y.key => x = y
<1> DEFINE T == ht.table
           w(e) == [idx |-> e.idx, key |-> e.key, val |-> v]
           t == Revalued(ht, es, v)
<1>1. T \in SUBSET Entries
  BY TableType
<1>2. \A e \in T : [e EXCEPT !.val = v] = w(e) /\ w(e) \in Entries
  BY <1>1 DEF Entries
<1>3. t.size = ht.size /\ t.used = ht.used
      /\ t.table = (T \ es) \cup {w(e) : e \in T \cap es}
  <2>1. t.table = (T \ es) \cup {[e EXCEPT !.val = v] : e \in T \cap es}
        /\ t.size = ht.size /\ t.used = ht.used
    BY DEF Revalued
  <2>2. {[e EXCEPT !.val = v] : e \in T \cap es} = {w(e) : e \in T \cap es}
    <3> HIDE DEF w, T
    <3> QED BY <1>2
  <2> QED BY <2>1, <2>2
<1>4. t.table \in SUBSET Entries
  BY <1>1, <1>2, <1>3
<1>5. t \in Tables
  BY <1>4 DEF Tables, Revalued
<1>6. \A x \in t.table : \E e \in T : e.key = x.key /\ e.idx = x.idx
  BY <1>3
<1>7. \A x, y \in t.table : x.key = y.key => x = y
  <2>1. \A x \in t.table : \/ x \in T /\ x.key # k
                           \/ \E e \in T : e.key = k /\ x = w(e)
    BY <1>3
  <2>2. \A e, f \in T : e.key = f.key => e = f
    OBVIOUS
  <2> HIDE DEF T, t
  <2> QED BY <2>1, <2>2
<1>8. WellPlaced(t)
  BY <1>3, <1>6 DEF WellPlaced, Slot
<1>9. Cardinality(t.table) = Cardinality(T)
  <2>1. CASE T \cap es = {}
    <3>1. t.table = T
      BY <1>3, <2>1
    <3> QED BY <3>1
  <2>2. CASE T \cap es # {}
    <3>1. PICK e \in T : e \in es
      BY <2>2
    <3>2. T \cap es = {e}
      BY <3>1
    <3>3. t.table = (T \ {e}) \cup {w(e)}
      <4>1. T \ es = T \ {e}
        BY <3>2
      <4>2. {w(f) : f \in T \cap es} = {w(e)}
        BY <3>2
      <4> QED BY <1>3, <4>1, <4>2
    <3>4. w(e) \notin T \ {e}
      <4> SUFFICES ASSUME w(e) \in T \ {e} PROVE FALSE
        OBVIOUS
      <4>1. w(e).key = e.key
        OBVIOUS
      <4> QED BY <4>1
    <3>5. IsFiniteSet(T \ {e}) /\ Cardinality(T \ {e}) = Cardinality(T) - 1
      BY <3>1, FS_RemoveElement
    <3>6. Cardinality((T \ {e}) \cup {w(e)}) = Cardinality(T \ {e}) + 1
      <4> HIDE DEF w
      <4> QED BY <3>4, <3>5, FS_AddElement
    <3>7. Cardinality(T) \in Nat
      BY FS_CardinalityType
    <3> QED BY <3>3, <3>5, <3>6, <3>7
  <2> QED BY <2>1, <2>2
<1> HIDE DEF t
<1>10. t.used = Cardinality(t.table)
  BY <1>3, <1>9
<1> QED BY <1>3, <1>5, <1>6, <1>7, <1>8, <1>10 DEF t

\* dictSetVal on the entry a search returned.
LEMMA SetValKeeps ==
  ASSUME NEW s, DictOK(s), NEW k \in Keys, NEW v \in Vals
  PROVE  DictOK(SetVal(s, k, v))
<1> DEFINE es == Lookup(s, k)
           n0 == Revalued(s.ht0, es, v)
           n1 == Revalued(s.ht1, es, v)
           t == With(s, n0, n1, s.rehashidx)
<1>1. /\ s.ht0 \in Tables /\ s.ht1 \in Tables
      /\ s.rehashidx \in Nat \cup {-1} /\ s.iterators \in 0 .. MaxIterators
      /\ WellPlaced(s.ht0) /\ WellPlaced(s.ht1)
      /\ s.ht0.used = Cardinality(s.ht0.table) /\ s.ht1.used = Cardinality(s.ht1.table)
  BY DEF DictOK, Dicts, PlacementOf, UsedCountsOf
<1>2. IsFiniteSet(s.ht0.table) /\ IsFiniteSet(s.ht1.table)
  BY DictFinite
<1>3. /\ \A e, f \in s.ht0.table \cup s.ht1.table : e.key = f.key => e = f
      /\ s.ht0.table \cap s.ht1.table = {}
  BY DEF DictOK, OneHomeOf
<1>4. /\ \A e \in s.ht0.table : e \in es <=> e.key = k
      /\ \A e \in s.ht1.table : e \in es <=> e.key = k
  BY LookupComplete
<1>5. /\ n0 \in Tables /\ n0.size = s.ht0.size /\ n0.used = s.ht0.used
      /\ WellPlaced(n0) /\ n0.used = Cardinality(n0.table)
      /\ \A x \in n0.table : \E e \in s.ht0.table : e.key = x.key /\ e.idx = x.idx
      /\ \A x, y \in n0.table : x.key = y.key => x = y
  <2> HIDE DEF es
  <2> QED BY <1>1, <1>2, <1>3, <1>4, RevaluedTable
<1>6. /\ n1 \in Tables /\ n1.size = s.ht1.size /\ n1.used = s.ht1.used
      /\ WellPlaced(n1) /\ n1.used = Cardinality(n1.table)
      /\ \A x \in n1.table : \E e \in s.ht1.table : e.key = x.key /\ e.idx = x.idx
      /\ \A x, y \in n1.table : x.key = y.key => x = y
  <2> HIDE DEF es
  <2> QED BY <1>1, <1>2, <1>3, <1>4, RevaluedTable
<1>7. t = SetVal(s, k, v)
  BY DEF SetVal
<1>8. s.ht1 = EmptyTable => n1 = EmptyTable
  BY DEF Revalued, EmptyTable, NewTable
<1> HIDE DEF es, n0, n1
<1>9. t.ht0 = n0 /\ t.ht1 = n1 /\ t.rehashidx = s.rehashidx
  BY DEF With
<1>10. t \in Dicts
  BY <1>1, <1>5, <1>6 DEF With, Dicts
<1> HIDE DEF t
<1>11. PlacementOf(t) /\ UsedCountsOf(t)
  BY <1>5, <1>6, <1>9 DEF PlacementOf, UsedCountsOf
<1>12. OneHomeOf(t)
  <2>1. \A x \in n0.table, y \in n1.table : x.key # y.key
    BY <1>3, <1>5, <1>6
  <2> QED BY <1>5, <1>6, <1>9, <2>1 DEF OneHomeOf
<1>13. RehashFrontierOf(t)
  <2>1. CASE dictIsRehashing(s)
    <3>1. /\ s.ht0.size # 0 /\ s.ht1.size # 0
          /\ \A e \in s.ht0.table : s.rehashidx <= e.idx
          /\ s.ht0.used > 0 => s.rehashidx < s.ht0.size
      BY <2>1 DEF DictOK, RehashFrontierOf
    <3>2. \A x \in n0.table : s.rehashidx <= x.idx
      BY <1>5, <3>1
    <3> QED BY <1>5, <1>6, <1>9, <2>1, <3>1, <3>2 DEF RehashFrontierOf, dictIsRehashing
  <2>2. CASE ~ dictIsRehashing(s)
    BY <1>8, <1>9, <2>2 DEF DictOK, RehashFrontierOf, dictIsRehashing
  <2> QED BY <2>1, <2>2
<1> QED BY <1>7, <1>10, <1>11, <1>12, <1>13 DEF DictOK

\* Taking the entry of a key out of the chain that holds it.
LEMMA UnlinkedTable ==
  ASSUME NEW ht \in Tables, WellPlaced(ht),
         \A e, f \in ht.table : e.key = f.key => e = f,
         IsFiniteSet(ht.table), ht.used = Cardinality(ht.table),
         NEW es \in SUBSET ht.table, es # {}, \A e, f \in es : e.key = f.key
  PROVE  LET t == Unlinked(ht, es)
         IN  /\ t \in Tables /\ t.size = ht.size /\ t.table = ht.table \ es
             /\ WellPlaced(t)
             /\ t.used = Cardinality(t.table)
             /\ t.used > 0 => ht.used > 0
<1> DEFINE t == Unlinked(ht, es)
<1>1. t.size = ht.size /\ t.used = ht.used - 1 /\ t.table = ht.table \ es
  BY DEF Unlinked
<1>2. PICK e \in es : es = {e}
  OBVIOUS
<1>3. /\ IsFiniteSet(ht.table \ {e})
      /\ Cardinality(ht.table \ {e}) = Cardinality(ht.table) - 1
  BY <1>2, FS_RemoveElement
<1>4. Cardinality(ht.table) \in Nat /\ Cardinality(ht.table \ {e}) \in Nat
  BY <1>3, FS_CardinalityType
<1>5. t.used = Cardinality(t.table) /\ t.used \in Nat
  BY <1>1, <1>2, <1>3, <1>4
<1>6. t \in Tables
  BY <1>1, <1>5, TableType DEF Tables, Unlinked
<1>7. WellPlaced(t)
  BY <1>1 DEF WellPlaced, Slot
<1>8. t.used > 0 => ht.used > 0
  BY <1>1, <1>4
<1> HIDE DEF t
<1> QED BY <1>1, <1>5, <1>6, <1>7, <1>8 DEF t

\* dictGenericDelete on a key that is present.
LEMMA UnlinkKeeps ==
  ASSUME NEW s, DictOK(s), NEW k \in Keys, Lookup(s, k) # {}
  PROVE  DictOK(Unlink(s, k))
<1>1. /\ s.ht0 \in Tables /\ s.ht1 \in Tables
      /\ s.rehashidx \in Nat \cup {-1} /\ s.iterators \in 0 .. MaxIterators
      /\ WellPlaced(s.ht0) /\ WellPlaced(s.ht1)
      /\ s.ht0.used = Cardinality(s.ht0.table) /\ s.ht1.used = Cardinality(s.ht1.table)
  BY DEF DictOK, Dicts, PlacementOf, UsedCountsOf
<1>2. IsFiniteSet(s.ht0.table) /\ IsFiniteSet(s.ht1.table)
  BY DictFinite
<1>3. /\ \A e, f \in s.ht0.table \cup s.ht1.table : e.key = f.key => e = f
      /\ s.ht0.table \cap s.ht1.table = {}
  BY DEF DictOK, OneHomeOf
<1>4. /\ Chain(s.ht0, k) = {e \in s.ht0.table : e.key = k}
      /\ Chain(s.ht1, k) = {e \in s.ht1.table : e.key = k}
      /\ Lookup(s, k) = {e \in s.ht0.table \cup s.ht1.table : e.key = k}
  BY LookupComplete
<1>5. CASE Chain(s.ht0, k) # {}
  <2> DEFINE c == Chain(s.ht0, k)
             n == Unlinked(s.ht0, c)
             t == With(s, n, s.ht1, s.rehashidx)
  <2>1. c \in SUBSET s.ht0.table /\ c # {} /\ \A e, f \in c : e.key = f.key
    BY <1>4, <1>5
  <2>2. t = Unlink(s, k)
    BY <1>5 DEF Unlink
  <2>3. /\ n \in Tables /\ n.size = s.ht0.size /\ n.table = s.ht0.table \ c
        /\ WellPlaced(n) /\ n.used = Cardinality(n.table)
        /\ n.used > 0 => s.ht0.used > 0
    <3> HIDE DEF c
    <3> QED BY <1>1, <1>2, <1>3, <2>1, UnlinkedTable
  <2> HIDE DEF n, c
  <2>4. t.ht0 = n /\ t.ht1 = s.ht1 /\ t.rehashidx = s.rehashidx
    BY DEF With
  <2>5. t \in Dicts
    BY <1>1, <2>3 DEF With, Dicts
  <2> HIDE DEF t
  <2>6. PlacementOf(t) /\ UsedCountsOf(t)
    BY <1>1, <2>3, <2>4 DEF PlacementOf, UsedCountsOf
  <2>7. OneHomeOf(t)
    BY <1>3, <2>3, <2>4 DEF OneHomeOf
  <2>8. RehashFrontierOf(t)
    <3>1. RehashFrontierOf(s)
      BY DEF DictOK
    <3> QED BY <2>3, <2>4, <3>1 DEF RehashFrontierOf, dictIsRehashing
  <2> QED BY <2>2, <2>5, <2>6, <2>7, <2>8 DEF DictOK
<1>6. CASE Chain(s.ht0, k) = {}
  <2> DEFINE c == Chain(s.ht1, k)
             n == Unlinked(s.ht1, c)
             t == With(s, s.ht0, n, s.rehashidx)
  <2>1. c \in SUBSET s.ht1.table /\ c # {} /\ \A e, f \in c : e.key = f.key
    BY <1>4, <1>6
  <2>2. t = Unlink(s, k)
    BY <1>6 DEF Unlink
  <2>3. /\ n \in Tables /\ n.size = s.ht1.size /\ n.table = s.ht1.table \ c
        /\ WellPlaced(n) /\ n.used = Cardinality(n.table)
    <3> HIDE DEF c
    <3> QED BY <1>1, <1>2, <1>3, <2>1, UnlinkedTable
  <2>4. dictIsRehashing(s)
    BY <2>1 DEF DictOK, RehashFrontierOf, EmptyTable, NewTable
  <2> HIDE DEF n, c
  <2>5. t.ht0 = s.ht0 /\ t.ht1 = n /\ t.rehashidx = s.rehashidx
    BY DEF With
  <2>6. t \in Dicts
    BY <1>1, <2>3 DEF With, Dicts
  <2> HIDE DEF t
  <2>7. PlacementOf(t) /\ UsedCountsOf(t)
    BY <1>1, <2>3, <2>5 DEF PlacementOf, UsedCountsOf
  <2>8. OneHomeOf(t)
    BY <1>3, <2>3, <2>5 DEF OneHomeOf
  <2>9. RehashFrontierOf(t)
    <3>1. RehashFrontierOf(s)
      BY DEF DictOK
    <3> QED BY <2>3, <2>4, <2>5, <3>1 DEF RehashFrontierOf, dictIsRehashing
  <2> QED BY <2>2, <2>6, <2>7, <2>8, <2>9 DEF DictOK
<1> QED BY <1>5, <1>6

-----------------------------------------------------------------------------
\* dictFind, for its side effect.
LEMMA ProbedKeeps ==
  ASSUME NEW s, DictOK(s)
  PROVE  DictOK(Probed(s))
BY StepKeeps DEF Probed

\* dictAdd, whether it stores or refuses.
LEMMA AddKeeps ==
  ASSUME NEW s, DictOK(s), NEW k \in Keys, NEW v \in Vals
  PROVE  DictOK(dictAdd(s, k, v))
BY PreparedKeeps, InsertKeeps DEF dictAdd

\* dictReplace: an addition, or a second search and a new value.
LEMMA ReplaceKeeps ==
  ASSUME NEW s, DictOK(s), NEW k \in Keys, NEW v \in Vals
  PROVE  DictOK(dictReplace(s, k, v))
<1>1. DictOK(Probed(Prepared(s)))
  BY PreparedKeeps, ProbedKeeps
<1> QED BY <1>1, AddKeeps, SetValKeeps DEF dictReplace

\* dictReplaceRaw and the assignment of its caller.
LEMMA ReplaceRawKeeps ==
  ASSUME NEW s, DictOK(s), NEW k \in Keys, NEW v \in Vals
  PROVE  DictOK(dictReplaceRaw(s, k, v))
BY ProbedKeeps, AddKeeps, SetValKeeps DEF dictReplaceRaw

\* dictDelete, whether the key is there or not.
LEMMA DeleteKeeps ==
  ASSUME NEW s, DictOK(s), NEW k \in Keys
  PROVE  DictOK(dictDelete(s, k))
BY ProbedKeeps, UnlinkKeeps DEF dictDelete, Found

\* Opening and closing a safe iterator touches no table.
LEMMA IteratorsKeep ==
  ASSUME NEW s, DictOK(s), NEW n \in 0 .. MaxIterators
  PROVE  DictOK([s EXCEPT !.iterators = n])
<1> DEFINE t == [s EXCEPT !.iterators = n]
<1>1. s \in Dicts
  BY DEF DictOK
<1>2. t \in Dicts /\ t.ht0 = s.ht0 /\ t.ht1 = s.ht1 /\ t.rehashidx = s.rehashidx
  BY <1>1 DEF Dicts
<1> HIDE DEF t
<1>3. DictOK(t)
  BY <1>2 DEF DictOK, PlacementOf, OneHomeOf, UsedCountsOf, RehashFrontierOf, dictIsRehashing
<1> QED BY <1>3 DEF t

-----------------------------------------------------------------------------
\* The inductive invariant of the specification.
IInv ==
  /\ DictOK(d)
  /\ dict_can_resize \in BOOLEAN
  /\ res \in {"OK", "ERR", "1", "0"} \cup Vals \cup {NoVal}

\* A new dictionary satisfies it.
LEMMA InitOK == Init => IInv
<1> SUFFICES ASSUME Init PROVE IInv
  OBVIOUS
<1>1. /\ d.ht0 = EmptyTable /\ d.ht1 = EmptyTable /\ d.rehashidx = -1
      /\ d = [ht0 |-> EmptyTable, ht1 |-> EmptyTable, rehashidx |-> -1, iterators |-> 0]
  BY DEF Init
<1>2. /\ EmptyTable \in Tables /\ WellPlaced(EmptyTable)
      /\ EmptyTable.used = Cardinality(EmptyTable.table) /\ EmptyTable.table = {}
  BY FreshTable DEF EmptyTable
<1>3. d \in Dicts
  BY <1>1, <1>2, RDictAssumption DEF Dicts
<1>4. PlacementOf(d) /\ OneHomeOf(d) /\ UsedCountsOf(d)
  BY <1>1, <1>2 DEF PlacementOf, OneHomeOf, UsedCountsOf
<1>5. RehashFrontierOf(d)
  BY <1>1 DEF RehashFrontierOf, dictIsRehashing
<1> QED BY <1>3, <1>4, <1>5 DEF Init, IInv, DictOK

\* Every call preserves it.
LEMMA NextOK == IInv /\ [Next]_vars => IInv'
<1> SUFFICES ASSUME IInv, [Next]_vars PROVE IInv'
  OBVIOUS
<1>1. DictOK(d)
  BY DEF IInv
<1>2. ASSUME NEW k \in Keys, NEW v \in Vals, Add(k, v) PROVE IInv'
  BY <1>1, <1>2, AddKeeps DEF IInv, Add
<1>3. ASSUME NEW k \in Keys, NEW v \in Vals, Replace(k, v) PROVE IInv'
  BY <1>1, <1>3, ReplaceKeeps DEF IInv, Replace
<1>4. ASSUME NEW k \in Keys, NEW v \in Vals, ReplaceRaw(k, v) PROVE IInv'
  BY <1>1, <1>4, ReplaceRawKeeps DEF IInv, ReplaceRaw
<1>5. ASSUME NEW k \in Keys, Delete(k) PROVE IInv'
  BY <1>1, <1>5, DeleteKeeps DEF IInv, Delete
<1>6. ASSUME NEW k \in Keys, Find(k) \/ FetchValue(k) PROVE IInv'
  <2>1. DictOK(Probed(d))
    BY <1>1, ProbedKeeps
  <2>2. \A e \in Lookup(Probed(d), k) : e.val \in Vals
    <3> DEFINE p == Probed(d)
    <3>1. p.ht0.table \in SUBSET Entries /\ p.ht1.table \in SUBSET Entries
      BY <2>1 DEF DictOK, Dicts, Tables
    <3>2. Lookup(p, k) \subseteq p.ht0.table \cup p.ht1.table
      BY <2>1, LookupComplete
    <3> QED BY <3>1, <3>2 DEF Entries
  <2>3. res' \in Vals \cup {NoVal}
    BY <1>6, <2>2 DEF Find, FetchValue, Found, ValueIn
  <2> QED BY <1>6, <2>1, <2>3 DEF IInv, Find, FetchValue
<1>7. ASSUME Resize PROVE IInv'
  <2> DEFINE n == Least(d.ht0.used, DICT_HT_INITIAL_SIZE)
  <2>1. d.ht0.used \in 0 .. Cardinality(Keys) /\ Cardinality(Keys) \in Nat
    BY <1>1, DictFinite, RDictAssumption, FS_CardinalityType
  <2>2. DICT_HT_INITIAL_SIZE \in Nat
    BY RDictAssumption
  <2>3. n \in Nat /\ n \in 0 .. 2 * Cardinality(Keys)
    BY <2>1, <2>2 DEF Least
  <2>4. DictOK(dictExpand(d, n))
    <3> HIDE DEF n
    <3> QED BY <1>1, <2>3, NextPower, ExpandKeeps
  <2> QED BY <1>7, <2>4 DEF IInv, Resize
<1>8. CASE EnableResize
  BY <1>8 DEF IInv, EnableResize
<1>9. CASE DisableResize
  BY <1>9 DEF IInv, DisableResize
<1>10. ASSUME StartIterator PROVE IInv'
  <2>1. d.iterators + 1 \in 0 .. MaxIterators
    BY <1>1, <1>10, RDictAssumption DEF StartIterator, DictOK, Dicts
  <2> QED BY <1>1, <1>10, <2>1, IteratorsKeep DEF IInv, StartIterator
<1>11. ASSUME ReleaseIterator PROVE IInv'
  <2>1. d.iterators - 1 \in 0 .. MaxIterators
    BY <1>1, <1>11, RDictAssumption DEF ReleaseIterator, DictOK, Dicts
  <2> QED BY <1>1, <1>11, <2>1, IteratorsKeep DEF IInv, ReleaseIterator
<1>12. CASE UNCHANGED vars
  BY <1>12 DEF IInv, vars
<1> QED
  BY <1>2, <1>3, <1>4, <1>5, <1>6, <1>7, <1>8, <1>9, <1>10, <1>11, <1>12
     DEF Next, KeyCall, CallOn, OtherCall

\* Every dictionary the calls of rdict.py can build is in order.
THEOREM StructureHolds == Spec => []IInv
BY InitOK, NextOK, PTL DEF Spec

\* The variables keep their types through every sequence of calls.
THEOREM TypeCorrect == Spec => []TypeOK
<1>1. IInv => TypeOK
  BY DEF IInv, TypeOK, DictOK
<1> QED BY <1>1, StructureHolds, PTL

\* Whatever was resized or rehashed, an entry sits where a search looks for it.
THEOREM PlacementHolds == Spec => []Placement
<1>1. IInv => Placement
  BY DEF IInv, Placement, DictOK
<1> QED BY <1>1, StructureHolds, PTL

\* No sequence of calls gives a key two entries.
THEOREM OneHomeHolds == Spec => []OneHome
<1>1. IInv => OneHome
  BY DEF IInv, OneHome, DictOK
<1> QED BY <1>1, StructureHolds, PTL

\* The counters that decide completion and growth never drift.
THEOREM UsedCountsHold == Spec => []UsedCounts
<1>1. IInv => UsedCounts
  BY DEF IInv, UsedCounts, DictOK
<1> QED BY <1>1, StructureHolds, PTL

\* The assertion of dictRehash never fails and its scan stays in the table.
THEOREM RehashFrontierHolds == Spec => []RehashFrontier
<1>1. IInv => RehashFrontier
  BY DEF IInv, RehashFrontier, DictOK
<1> QED BY <1>1, StructureHolds, PTL

-----------------------------------------------------------------------------
\* What a caller sees of a dictionary: the pairs of its two tables.
Held(s) == s.ht0.table \cup s.ht1.table
Holds(s, k, v) == \E e \in Held(s) : e.key = k /\ e.val = v

\* Two dictionaries that no caller can tell apart.
SamePairs(s, t) == \A k \in Keys, v \in Vals : Holds(t, k, v) <=> Holds(s, k, v)

\* The dictionary t is s with v under the key k.
HasPut(s, t, k, v) ==
  \A x \in Keys, w \in Vals :
    Holds(t, x, w) <=> IF x = k THEN w = v ELSE Holds(s, x, w)

\* The dictionary t is s without the key k.
HasDropped(s, t, k) ==
  \A x \in Keys, w \in Vals : Holds(t, x, w) <=> x # k /\ Holds(s, x, w)

\* Content is a function of the pairs.
LEMMA ContentPairs ==
  ASSUME NEW s, DictOK(s)
  PROVE  /\ DOMAIN Content(s) \subseteq Keys
         /\ \A k \in Keys : k \in DOMAIN Content(s) <=> Lookup(s, k) # {}
         /\ \A k \in Keys, v \in Vals :
              Holds(s, k, v) <=> k \in DOMAIN Content(s) /\ Content(s)[k] = v
         /\ \A k \in DOMAIN Content(s) : Content(s)[k] \in Vals
<1> DEFINE T == Held(s)
           one(k) == CHOOSE e \in T : e.key = k
<1>1. \A e \in T : e.key \in Keys /\ e.val \in Vals
  BY DEF DictOK, Dicts, Tables, Entries, Held
<1>2. \A e, f \in T : e.key = f.key => e = f
  BY DEF DictOK, OneHomeOf, Held
<1>3. \A k \in Keys : Lookup(s, k) = {e \in T : e.key = k}
  BY LookupComplete DEF Held
<1>4. HeldKeys(s) = {e.key : e \in T}
  BY DEF HeldKeys, Held
<1>5. Content(s) = [k \in HeldKeys(s) |-> one(k).val]
  BY DEF Content, Held
<1>6. \A k \in HeldKeys(s) : one(k) \in T /\ one(k).key = k
  <2> HIDE DEF T
  <2> QED BY <1>4
<1>7. \A e \in T : e.key \in HeldKeys(s) /\ one(e.key) = e
  <2> HIDE DEF T, one
  <2> QED BY <1>2, <1>4, <1>6
<1>8. \A k \in HeldKeys(s) : Content(s)[k] = one(k).val
  BY <1>5
<1> HIDE DEF T, one
<1>9. DOMAIN Content(s) = HeldKeys(s)
  BY <1>5
<1>10. \A k \in Keys : k \in HeldKeys(s) <=> Lookup(s, k) # {}
  BY <1>3, <1>4
<1>11. \A k \in Keys, v \in Vals : Holds(s, k, v) <=> k \in HeldKeys(s) /\ Content(s)[k] = v
  <2> SUFFICES ASSUME NEW k \in Keys, NEW v \in Vals
               PROVE  Holds(s, k, v) <=> k \in HeldKeys(s) /\ Content(s)[k] = v
    OBVIOUS
  <2>1. Holds(s, k, v) => k \in HeldKeys(s) /\ Content(s)[k] = v
    BY <1>7, <1>8 DEF Holds, T
  <2>2. k \in HeldKeys(s) /\ Content(s)[k] = v => Holds(s, k, v)
    BY <1>6, <1>8 DEF Holds, T
  <2> QED BY <2>1, <2>2
<1>12. \A k \in HeldKeys(s) : Content(s)[k] \in Vals /\ k \in Keys
  BY <1>1, <1>6, <1>8
<1> QED BY <1>9, <1>10, <1>11, <1>12

\* Content is a function on its own domain.
LEMMA ContentIsFunction ==
  ASSUME NEW s
  PROVE  Content(s) = [k \in DOMAIN Content(s) |-> Content(s)[k]]
BY DEF Content

\* The same pairs are the same map.
LEMMA SameContent ==
  ASSUME NEW s, DictOK(s), NEW t, DictOK(t), SamePairs(s, t)
  PROVE  Content(t) = Content(s)
<1>1. \A k \in Keys, v \in Vals :
        k \in DOMAIN Content(t) /\ Content(t)[k] = v <=> k \in DOMAIN Content(s) /\ Content(s)[k] = v
  BY ContentPairs DEF SamePairs
<1>2. /\ DOMAIN Content(s) \subseteq Keys /\ DOMAIN Content(t) \subseteq Keys
      /\ \A k \in DOMAIN Content(s) : Content(s)[k] \in Vals
      /\ \A k \in DOMAIN Content(t) : Content(t)[k] \in Vals
  BY ContentPairs
<1>3. DOMAIN Content(t) = DOMAIN Content(s)
  BY <1>1, <1>2
<1>4. \A k \in DOMAIN Content(s) : Content(t)[k] = Content(s)[k]
  BY <1>1, <1>2, <1>3
<1> QED BY <1>3, <1>4, ContentIsFunction

\* A pair that is put shows in the map as an assignment to its key.
LEMMA PutContent ==
  ASSUME NEW s, DictOK(s), NEW t, DictOK(t), NEW k \in Keys, NEW v \in Vals,
         HasPut(s, t, k, v)
  PROVE  Content(t) = [x \in DOMAIN Content(s) \cup {k} |-> IF x = k THEN v ELSE Content(s)[x]]
<1>1. \A x \in Keys, w \in Vals :
        x \in DOMAIN Content(t) /\ Content(t)[x] = w
          <=> IF x = k THEN w = v ELSE x \in DOMAIN Content(s) /\ Content(s)[x] = w
  BY ContentPairs DEF HasPut
<1>2. /\ DOMAIN Content(s) \subseteq Keys /\ DOMAIN Content(t) \subseteq Keys
      /\ \A x \in DOMAIN Content(s) : Content(s)[x] \in Vals
      /\ \A x \in DOMAIN Content(t) : Content(t)[x] \in Vals
  BY ContentPairs
<1>3. DOMAIN Content(t) = DOMAIN Content(s) \cup {k}
  BY <1>1, <1>2
<1>4. \A x \in DOMAIN Content(t) : Content(t)[x] = IF x = k THEN v ELSE Content(s)[x]
  BY <1>1, <1>2, <1>3
<1> QED BY <1>3, <1>4, ContentIsFunction

\* A key that is dropped leaves the domain of the map and nothing else.
LEMMA DroppedContent ==
  ASSUME NEW s, DictOK(s), NEW t, DictOK(t), NEW k \in Keys, HasDropped(s, t, k)
  PROVE  Content(t) = [x \in DOMAIN Content(s) \ {k} |-> Content(s)[x]]
<1>1. \A x \in Keys, w \in Vals :
        x \in DOMAIN Content(t) /\ Content(t)[x] = w
          <=> x # k /\ x \in DOMAIN Content(s) /\ Content(s)[x] = w
  BY ContentPairs DEF HasDropped
<1>2. /\ DOMAIN Content(s) \subseteq Keys /\ DOMAIN Content(t) \subseteq Keys
      /\ \A x \in DOMAIN Content(s) : Content(s)[x] \in Vals
      /\ \A x \in DOMAIN Content(t) : Content(t)[x] \in Vals
  BY ContentPairs
<1>3. DOMAIN Content(t) = DOMAIN Content(s) \ {k}
  BY <1>1, <1>2
<1>4. \A x \in DOMAIN Content(t) : Content(t)[x] = Content(s)[x]
  BY <1>1, <1>2, <1>3
<1> QED BY <1>3, <1>4, ContentIsFunction

-----------------------------------------------------------------------------
\* No pair is gained or lost by what happens beside a call: a rehash step, its
\* end, a growth.
LEMMA MoveSame ==
  ASSUME NEW s, DictOK(s), dictIsRehashing(s), NEW i
  PROVE  SamePairs(s, MoveBucket(s, i))
<1> DEFINE moved == Bucket(s.ht0, i)
           new == Rehashed(s.ht1, moved)
           t == MoveBucket(s, i)
<1>1. t.ht0.table = s.ht0.table \ moved /\ t.ht1.table = s.ht1.table \cup new
  BY DEF MoveBucket, With
<1>2. moved \subseteq s.ht0.table
  BY DEF Bucket
<1>3. s.ht0.table \in SUBSET Entries
  BY DEF DictOK, Dicts, Tables
<1>4. \A x \in new : \E e \in moved : e.key = x.key /\ e.val = x.val
  <2> HIDE DEF moved
  <2> QED BY <1>2, <1>3 DEF Rehashed, Entries
<1>5. \A e \in moved : \E x \in new : e.key = x.key /\ e.val = x.val
  <2> HIDE DEF moved
  <2> SUFFICES ASSUME NEW e \in moved PROVE \E x \in new : e.key = x.key /\ e.val = x.val
    OBVIOUS
  <2> DEFINE x == [e EXCEPT !.idx = Slot(s.ht1, e.key)]
  <2>1. x \in new
    BY DEF Rehashed
  <2>2. e \in Entries
    BY <1>2, <1>3
  <2>3. x.key = e.key /\ x.val = e.val
    BY <2>2 DEF Entries
  <2> QED BY <2>1, <2>3
<1> HIDE DEF moved, new, t
<1>6. SamePairs(s, t)
  BY <1>1, <1>2, <1>4, <1>5 DEF SamePairs, Holds, Held
<1> QED BY <1>6 DEF t

\* The end of a rehash swaps the tables and keeps the pairs.
LEMMA FinishSame ==
  ASSUME NEW s, DictOK(s), s.ht0.used = 0
  PROVE  SamePairs(s, FinishRehash(s))
<1>1. s.ht0.table = {}
  BY DictFinite
<1>2. FinishRehash(s).ht0 = s.ht1 /\ FinishRehash(s).ht1 = EmptyTable
  BY DEF FinishRehash, With
<1>3. EmptyTable.table = {}
  BY FreshTable DEF EmptyTable
<1> QED BY <1>1, <1>2, <1>3 DEF SamePairs, Holds, Held

\* One step of rehashing moves a bucket and keeps the pairs.
LEMMA StepSame ==
  ASSUME NEW s, DictOK(s)
  PROVE  SamePairs(s, dictRehashStep(s)) /\ dictRehashStep(s).iterators = s.iterators
<1>1. SamePairs(s, s)
  BY DEF SamePairs
<1>2. /\ FinishRehash(s).iterators = s.iterators
      /\ \A i : MoveBucket(s, i).iterators = s.iterators
  BY DEF FinishRehash, MoveBucket, With
<1>3. CASE dictRehashStep(s) = s
  BY <1>1, <1>3
<1>4. CASE dictIsRehashing(s) /\ dictRehashStep(s) = dictRehash(s)
  BY <1>2, <1>4, MoveSame, FinishSame DEF dictRehash
<1> QED BY <1>3, <1>4 DEF dictRehashStep

\* An expansion changes no table that holds entries.
LEMMA ExpandTables ==
  ASSUME NEW s, DictOK(s), NEW n
  PROVE  LET t == dictExpand(s, n)
         IN  t.ht0.table = s.ht0.table /\ t.ht1.table = s.ht1.table /\ t.iterators = s.iterators
<1> DEFINE t == dictExpand(s, n)
<1>1. s.ht0.size = 0 => s.ht0.table = {}
  BY DEF DictOK, PlacementOf, WellPlaced
<1>2. ~dictIsRehashing(s) => s.ht1.table = {}
  BY FreshTable DEF DictOK, RehashFrontierOf, EmptyTable
<1>3. NewTable(dictNextPower(n)).table = {}
  BY DEF NewTable
<1>4. CASE ~ExpandAllowed(s, n)
  BY <1>4 DEF dictExpand
<1>5. CASE ExpandAllowed(s, n) /\ s.ht0.size = 0
  BY <1>1, <1>3, <1>5 DEF dictExpand, With
<1>6. CASE ExpandAllowed(s, n) /\ s.ht0.size # 0
  BY <1>2, <1>3, <1>6 DEF dictExpand, With, ExpandAllowed
<1> QED BY <1>4, <1>5, <1>6

\* A new table starts empty.
LEMMA ExpandIfNeededTables ==
  ASSUME NEW s, DictOK(s)
  PROVE  LET t == dictExpandIfNeeded(s)
         IN  t.ht0.table = s.ht0.table /\ t.ht1.table = s.ht1.table /\ t.iterators = s.iterators
BY ExpandTables DEF dictExpandIfNeeded

\* What an insertion does before it looks at its bucket keeps the pairs.
LEMMA PreparedSame ==
  ASSUME NEW s, DictOK(s)
  PROVE  SamePairs(s, Prepared(s)) /\ Prepared(s).iterators = s.iterators
<1> DEFINE t == dictRehashStep(s)
<1>1. DictOK(t) /\ SamePairs(s, t) /\ t.iterators = s.iterators
  BY StepKeeps, StepSame
<1> HIDE DEF t
<1>2. /\ dictExpandIfNeeded(t).ht0.table = t.ht0.table
      /\ dictExpandIfNeeded(t).ht1.table = t.ht1.table
      /\ dictExpandIfNeeded(t).iterators = t.iterators
  BY <1>1, ExpandIfNeededTables
<1>3. SamePairs(s, dictExpandIfNeeded(t))
  BY <1>1, <1>2 DEF SamePairs, Holds, Held
<1> QED BY <1>1, <1>2, <1>3 DEF Prepared, t

\* The step of rehashing that every access makes keeps the pairs.
LEMMA ProbedSame ==
  ASSUME NEW s, DictOK(s)
  PROVE  SamePairs(s, Probed(s)) /\ Probed(s).iterators = s.iterators
<1>1. SamePairs(s, s)
  BY DEF SamePairs
<1> QED BY <1>1, StepSame DEF Probed

\* Keys are found in the one dictionary if they are in the other.
LEMMA LookupHolds ==
  ASSUME NEW s, DictOK(s), NEW k \in Keys
  PROVE  Lookup(s, k) # {} <=> \E v \in Vals : Holds(s, k, v)
<1>1. Lookup(s, k) = {e \in Held(s) : e.key = k}
  BY LookupComplete DEF Held
<1>2. \A e \in Held(s) : e.val \in Vals
  BY DEF DictOK, Dicts, Tables, Entries, Held
<1> QED BY <1>1, <1>2 DEF Holds

\* The entry that dictFind returns is a pair of the dictionary.
LEMMA FoundHolds ==
  ASSUME NEW s, DictOK(s), NEW k \in Keys
  PROVE  Found(s, k) <=> \E v \in Vals : Holds(s, k, v)
<1>1. s.ht0.size = 0 => Lookup(s, k) = {}
  BY LookupComplete
<1> QED BY <1>1, LookupHolds DEF Found

-----------------------------------------------------------------------------
\* What the three writes do to the pairs.
LEMMA InsertPuts ==
  ASSUME NEW s, DictOK(s), NEW k \in Keys, NEW v \in Vals, Lookup(s, k) = {}
  PROVE  HasPut(s, Insert(s, k, v), k, v)
<1> DEFINE t == Insert(s, k, v)
<1>1. \E e : Held(t) = Held(s) \cup {e} /\ e.key = k /\ e.val = v
  <2> DEFINE e(ht) == [idx |-> Slot(ht, k), key |-> k, val |-> v]
  <2>1. \A ht : Linked(ht, k, v).table = ht.table \cup {e(ht)} /\ e(ht).key = k /\ e(ht).val = v
    BY DEF Linked
  <2>2. \/ t.ht0 = s.ht0 /\ t.ht1 = Linked(s.ht1, k, v)
        \/ t.ht1 = s.ht1 /\ t.ht0 = Linked(s.ht0, k, v)
    BY DEF Insert, With
  <2> HIDE DEF e, t
  <2> QED BY <2>1, <2>2 DEF Held
<1>2. \A w \in Vals : ~Holds(s, k, w)
  BY LookupHolds
<1> HIDE DEF t
<1>3. HasPut(s, t, k, v)
  BY <1>1, <1>2 DEF HasPut, Holds
<1> QED BY <1>3 DEF t

\* dictSetVal on the entry of a key puts the value under it.
LEMMA SetValPuts ==
  ASSUME NEW s, DictOK(s), NEW k \in Keys, NEW v \in Vals, Lookup(s, k) # {}
  PROVE  HasPut(s, SetVal(s, k, v), k, v)
<1> DEFINE es == Lookup(s, k)
           t == SetVal(s, k, v)
           w(e) == [e EXCEPT !.val = v]
<1>1. es = {e \in Held(s) : e.key = k}
  BY LookupComplete DEF Held
<1>2. /\ t.ht0.table = (s.ht0.table \ es) \cup {w(e) : e \in s.ht0.table \cap es}
      /\ t.ht1.table = (s.ht1.table \ es) \cup {w(e) : e \in s.ht1.table \cap es}
  BY DEF SetVal, Revalued, With
<1>3. Held(t) = (Held(s) \ es) \cup {w(e) : e \in es}
  <2> HIDE DEF es, t, w
  <2> QED BY <1>1, <1>2 DEF Held
<1>4. \A e \in es : w(e).key = k /\ w(e).val = v
  <2>1. Held(s) \in SUBSET Entries
    BY DEF DictOK, Dicts, Tables, Held
  <2> HIDE DEF es
  <2> QED BY <1>1, <2>1 DEF Entries
<1> HIDE DEF es, t, w
<1>5. HasPut(s, t, k, v)
  <2> SUFFICES ASSUME NEW x \in Keys, NEW y \in Vals
               PROVE  Holds(t, x, y) <=> IF x = k THEN y = v ELSE Holds(s, x, y)
    BY DEF HasPut
  <2>1. CASE x = k
    <3>1. es # {}
      BY DEF es
    <3> QED BY <1>1, <1>3, <1>4, <2>1, <3>1 DEF Holds
  <2>2. CASE x # k
    BY <1>1, <1>3, <1>4, <2>2 DEF Holds
  <2> QED BY <2>1, <2>2
<1> QED BY <1>5 DEF t

\* An entry that is unlinked takes its key along.
LEMMA UnlinkDrops ==
  ASSUME NEW s, DictOK(s), NEW k \in Keys
  PROVE  HasDropped(s, Unlink(s, k), k)
<1> DEFINE t == Unlink(s, k)
<1>1. /\ Chain(s.ht0, k) = {e \in s.ht0.table : e.key = k}
      /\ Chain(s.ht1, k) = {e \in s.ht1.table : e.key = k}
  BY LookupComplete
<1>2. /\ \A e, f \in s.ht0.table \cup s.ht1.table : e.key = f.key => e = f
      /\ s.ht0.table \cap s.ht1.table = {}
  BY DEF DictOK, OneHomeOf
<1>3. Held(t) = {e \in Held(s) : e.key # k}
  <2>1. CASE Chain(s.ht0, k) # {}
    <3>1. t.ht0.table = s.ht0.table \ Chain(s.ht0, k) /\ t.ht1.table = s.ht1.table
      BY <2>1 DEF Unlink, Unlinked, With
    <3>2. Chain(s.ht1, k) = {}
      BY <1>1, <1>2, <2>1
    <3> HIDE DEF t
    <3> QED BY <1>1, <3>1, <3>2 DEF Held
  <2>2. CASE Chain(s.ht0, k) = {}
    <3>1. t.ht0.table = s.ht0.table /\ t.ht1.table = s.ht1.table \ Chain(s.ht1, k)
      BY <2>2 DEF Unlink, Unlinked, With
    <3> HIDE DEF t
    <3> QED BY <1>1, <2>2, <3>1 DEF Held
  <2> QED BY <2>1, <2>2
<1> HIDE DEF t
<1>4. HasDropped(s, t, k)
  BY <1>3 DEF HasDropped, Holds
<1> QED BY <1>4 DEF t

-----------------------------------------------------------------------------
\* The calls.
LEMMA AddIsAdd ==
  ASSUME NEW s, DictOK(s), NEW k \in Keys, NEW v \in Vals
  PROVE  /\ dictAdds(s, k) <=> k \notin DOMAIN Content(s)
         /\ dictAdds(s, k) => HasPut(s, dictAdd(s, k, v), k, v)
         /\ ~dictAdds(s, k) => SamePairs(s, dictAdd(s, k, v))
<1> DEFINE p == Prepared(s)
<1>1. DictOK(p) /\ SamePairs(s, p)
  BY PreparedKeeps, PreparedSame
<1>2. dictAdds(s, k) <=> Lookup(p, k) = {}
  BY DEF dictAdds
<1>3. dictAdd(s, k, v) = IF Lookup(p, k) # {} THEN p ELSE Insert(p, k, v)
  BY DEF dictAdd
<1> HIDE DEF p
<1>4. Lookup(p, k) = {} <=> Lookup(s, k) = {}
  BY <1>1, LookupHolds DEF SamePairs
<1>5. Lookup(p, k) = {} => HasPut(p, Insert(p, k, v), k, v)
  BY <1>1, InsertPuts
<1>6. Lookup(p, k) = {} => HasPut(s, Insert(p, k, v), k, v)
  BY <1>1, <1>5 DEF HasPut, SamePairs
<1> QED BY <1>1, <1>2, <1>3, <1>4, <1>6, ContentPairs

\* dictReplace puts, whether or not the key was there.
LEMMA ReplaceIsPut ==
  ASSUME NEW s, DictOK(s), NEW k \in Keys, NEW v \in Vals
  PROVE  HasPut(s, dictReplace(s, k, v), k, v)
<1>1. CASE dictAdds(s, k)
  BY <1>1, AddIsAdd DEF dictReplace
<1>2. CASE ~dictAdds(s, k)
  <2> DEFINE p == Probed(Prepared(s))
  <2>1. DictOK(Prepared(s)) /\ SamePairs(s, Prepared(s))
    BY PreparedKeeps, PreparedSame
  <2>2. DictOK(p) /\ SamePairs(Prepared(s), p)
    BY <2>1, ProbedKeeps, ProbedSame
  <2>3. Lookup(Prepared(s), k) # {}
    BY <1>2 DEF dictAdds
  <2>4. dictReplace(s, k, v) = SetVal(p, k, v)
    BY <1>2 DEF dictReplace
  <2> HIDE DEF p
  <2>5. Lookup(p, k) # {}
    BY <2>1, <2>2, <2>3, LookupHolds DEF SamePairs
  <2>6. HasPut(p, SetVal(p, k, v), k, v)
    BY <2>2, <2>5, SetValPuts
  <2> QED BY <2>1, <2>2, <2>4, <2>6 DEF HasPut, SamePairs
<1> QED BY <1>1, <1>2

\* dictReplaceRaw puts as well, with the assignment its caller makes.
LEMMA ReplaceRawIsPut ==
  ASSUME NEW s, DictOK(s), NEW k \in Keys, NEW v \in Vals
  PROVE  HasPut(s, dictReplaceRaw(s, k, v), k, v)
<1> DEFINE p == Probed(s)
<1>1. DictOK(p) /\ SamePairs(s, p)
  BY ProbedKeeps, ProbedSame
<1>2. dictReplaceRaw(s, k, v) = IF Found(p, k) THEN SetVal(p, k, v) ELSE dictAdd(p, k, v)
  BY DEF dictReplaceRaw
<1> HIDE DEF p
<1>3. Found(p, k) <=> Lookup(p, k) # {}
  BY <1>1, FoundHolds, LookupHolds
<1>4. Found(p, k) => HasPut(p, SetVal(p, k, v), k, v)
  BY <1>1, <1>3, SetValPuts
<1>5. ~Found(p, k) => HasPut(p, dictAdd(p, k, v), k, v)
  BY <1>1, <1>3, AddIsAdd, ContentPairs
<1>6. HasPut(p, dictReplaceRaw(s, k, v), k, v)
  BY <1>2, <1>4, <1>5
<1> QED BY <1>1, <1>6 DEF HasPut, SamePairs

\* dictDelete drops the key when it is there, and changes no pair otherwise.
LEMMA DeleteIsDrop ==
  ASSUME NEW s, DictOK(s), NEW k \in Keys
  PROVE  /\ Found(Probed(s), k) <=> k \in DOMAIN Content(s)
         /\ Found(Probed(s), k) => HasDropped(s, dictDelete(s, k), k)
         /\ ~Found(Probed(s), k) => SamePairs(s, dictDelete(s, k))
<1> DEFINE p == Probed(s)
<1>1. DictOK(p) /\ SamePairs(s, p)
  BY ProbedKeeps, ProbedSame
<1>2. dictDelete(s, k) = IF Found(p, k) THEN Unlink(p, k) ELSE p
  BY DEF dictDelete
<1> HIDE DEF p
<1>3. HasDropped(p, Unlink(p, k), k)
  BY <1>1, UnlinkDrops
<1>4. HasDropped(s, Unlink(p, k), k)
  BY <1>1, <1>3 DEF HasDropped, SamePairs
<1>5. Found(p, k) <=> k \in DOMAIN Content(s)
  <2>1. Found(p, k) <=> Lookup(s, k) # {}
    BY <1>1, FoundHolds, LookupHolds DEF SamePairs
  <2> QED BY <2>1, ContentPairs
<1> QED BY <1>1, <1>2, <1>4, <1>5 DEF p

\* The value a search answers is the one of the map.
LEMMA FindAnswers ==
  ASSUME NEW s, DictOK(s), NEW k \in Keys, Found(Probed(s), k)
  PROVE  ValueIn(Probed(s), k) = Content(s)[k]
<1> DEFINE p == Probed(s)
           e == CHOOSE e \in Lookup(p, k) : TRUE
<1>1. DictOK(p) /\ SamePairs(s, p)
  BY ProbedKeeps, ProbedSame
<1> HIDE DEF p
<1>2. Lookup(p, k) # {}
  BY <1>1, FoundHolds, LookupHolds DEF p
<1>3. e \in Lookup(p, k)
  BY <1>2
<1>4. Lookup(p, k) = {f \in Held(p) : f.key = k}
  BY <1>1, LookupComplete DEF Held
<1> HIDE DEF e
<1>5. e \in Held(p) /\ e.key = k /\ e.val \in Vals
  BY <1>1, <1>3, <1>4 DEF DictOK, Dicts, Tables, Entries, Held
<1>6. Holds(s, k, e.val)
  BY <1>1, <1>5 DEF Holds, SamePairs
<1> QED BY <1>5, <1>6, ContentPairs DEF e, p, ValueIn

-----------------------------------------------------------------------------
\* A call of the dictionary is a call of the map.
LEMMA CallOnMaps ==
  ASSUME IInv, NEW k \in Keys, CallOn(k), DictOK(d')
  PROVE  Abstract!Call(k)
<1>0. DictOK(d)
  BY DEF IInv
<1>1. ASSUME NEW v \in Vals, Add(k, v) PROVE Abstract!Add(k, v)
  <2>1. d' = dictAdd(d, k, v) /\ res' = (IF dictAdds(d, k) THEN "OK" ELSE "ERR")
    BY <1>1 DEF Add
  <2>2. CASE dictAdds(d, k)
    <3>1. HasPut(d, d', k, v) /\ k \notin DOMAIN Content(d)
      BY <1>0, <2>1, <2>2, AddIsAdd
    <3>2. Content(d') = [x \in DOMAIN Content(d) \cup {k} |-> IF x = k THEN v ELSE Content(d)[x]]
      BY <1>0, <3>1, PutContent
    <3> QED BY <2>1, <2>2, <3>1, <3>2 DEF Abstract!Add, Abstract!Put
  <2>3. CASE ~dictAdds(d, k)
    <3>1. SamePairs(d, d') /\ k \in DOMAIN Content(d)
      BY <1>0, <2>1, <2>3, AddIsAdd
    <3>2. Content(d') = Content(d)
      BY <1>0, <3>1, SameContent
    <3> QED BY <2>1, <2>3, <3>1, <3>2 DEF Abstract!Add
  <2> QED BY <2>2, <2>3
<1>2. ASSUME NEW v \in Vals, Replace(k, v) PROVE Abstract!Replace(k, v)
  <2>1. d' = dictReplace(d, k, v) /\ res' = (IF dictAdds(d, k) THEN "1" ELSE "0")
    BY <1>2 DEF Replace
  <2>2. Content(d') = [x \in DOMAIN Content(d) \cup {k} |-> IF x = k THEN v ELSE Content(d)[x]]
    BY <1>0, <2>1, ReplaceIsPut, PutContent
  <2> QED BY <1>0, <2>1, <2>2, AddIsAdd DEF Abstract!Replace, Abstract!Put
<1>3. ASSUME NEW v \in Vals, ReplaceRaw(k, v) PROVE Abstract!ReplaceRaw(k, v)
  <2>1. d' = dictReplaceRaw(d, k, v) /\ res' = v
    BY <1>3 DEF ReplaceRaw
  <2>2. Content(d') = [x \in DOMAIN Content(d) \cup {k} |-> IF x = k THEN v ELSE Content(d)[x]]
    BY <1>0, <2>1, ReplaceRawIsPut, PutContent
  <2> QED BY <2>1, <2>2 DEF Abstract!ReplaceRaw, Abstract!Put
<1>4. ASSUME Delete(k) PROVE Abstract!Delete(k)
  <2>1. d' = dictDelete(d, k) /\ res' = (IF Found(Probed(d), k) THEN "OK" ELSE "ERR")
    BY <1>4 DEF Delete
  <2>2. CASE Found(Probed(d), k)
    <3>1. HasDropped(d, d', k) /\ k \in DOMAIN Content(d)
      BY <1>0, <2>1, <2>2, DeleteIsDrop
    <3>2. Content(d') = [x \in DOMAIN Content(d) \ {k} |-> Content(d)[x]]
      BY <1>0, <3>1, DroppedContent
    <3> QED BY <2>1, <2>2, <3>1, <3>2 DEF Abstract!Delete, Abstract!Without
  <2>3. CASE ~Found(Probed(d), k)
    <3>1. SamePairs(d, d') /\ k \notin DOMAIN Content(d)
      BY <1>0, <2>1, <2>3, DeleteIsDrop
    <3>2. Content(d') = Content(d)
      BY <1>0, <3>1, SameContent
    <3> QED BY <2>1, <2>3, <3>1, <3>2 DEF Abstract!Delete
  <2> QED BY <2>2, <2>3
<1>5. ASSUME Find(k) PROVE Abstract!Find(k)
  <2>1. /\ d' = Probed(d)
        /\ res' = IF Found(Probed(d), k) THEN ValueIn(Probed(d), k) ELSE NoVal
    BY <1>5 DEF Find
  <2>2. Content(d') = Content(d)
    BY <1>0, <2>1, ProbedSame, SameContent
  <2>3. Found(Probed(d), k) <=> k \in DOMAIN Content(d)
    BY <1>0, DeleteIsDrop
  <2>4. res' = IF k \in DOMAIN Content(d) THEN Content(d)[k] ELSE NoVal
    BY <1>0, <2>1, <2>3, FindAnswers
  <2> QED BY <2>2, <2>4 DEF Abstract!Find
<1>6. ASSUME FetchValue(k) PROVE Abstract!FetchValue(k)
  <2>1. /\ d' = Probed(d)
        /\ res' = IF Found(Probed(d), k) /\ ValueIn(Probed(d), k) \notin Falsy
                  THEN ValueIn(Probed(d), k) ELSE NoVal
    BY <1>6 DEF FetchValue
  <2>2. Content(d') = Content(d)
    BY <1>0, <2>1, ProbedSame, SameContent
  <2>3. Found(Probed(d), k) <=> k \in DOMAIN Content(d)
    BY <1>0, DeleteIsDrop
  <2>4. res' = IF k \in DOMAIN Content(d) /\ Content(d)[k] \notin Falsy
               THEN Content(d)[k] ELSE NoVal
    BY <1>0, <2>1, <2>3, FindAnswers
  <2> QED BY <2>2, <2>4 DEF Abstract!FetchValue
<1> QED BY <1>1, <1>2, <1>3, <1>4, <1>5, <1>6 DEF CallOn, Abstract!Call

\* A call that is for no key changes nothing the caller of a map could see.
LEMMA OtherCallStutters ==
  ASSUME IInv, OtherCall, DictOK(d')
  PROVE  Content(d') = Content(d) /\ res' = res
<1>0. DictOK(d) /\ d \in Dicts
  BY DEF IInv, DictOK
<1>1. d'.ht0.table = d.ht0.table /\ d'.ht1.table = d.ht1.table /\ res' = res
  <2>1. CASE Resize
    BY <1>0, <2>1, ExpandTables DEF Resize
  <2>2. CASE EnableResize \/ DisableResize
    BY <2>2 DEF EnableResize, DisableResize
  <2>3. CASE StartIterator \/ ReleaseIterator
    BY <1>0, <2>3 DEF StartIterator, ReleaseIterator, Dicts
  <2> QED BY <2>1, <2>2, <2>3 DEF OtherCall
<1>2. SamePairs(d, d')
  BY <1>1 DEF SamePairs, Holds, Held
<1> QED BY <1>0, <1>1, <1>2, SameContent

\* The observed dictionary satisfies the invariant too.
LEMMA CallsKeep == CallsSpec => []IInv
<1>1. CallsInit => IInv
  BY InitOK DEF CallsInit
<1>2. IInv /\ [CallsNext]_<<vars, key>> => IInv'
  <2>1. [CallsNext]_<<vars, key>> => [Next]_vars
    BY DEF CallsNext, Next, KeyCall
  <2> QED BY <2>1, NextOK
<1> QED BY <1>1, <1>2, PTL DEF CallsSpec

\* Whatever rehash is under way, every answer of rdict.py is the answer of a map
\* on which the same calls were made.
THEOREM DictIsAMap == CallsSpec => RefinesDictMap
<1>1. CallsInit => Abstract!Init
  <2> SUFFICES ASSUME CallsInit PROVE Abstract!Init
    OBVIOUS
  <2>1. d.ht0.table = {} /\ d.ht1.table = {} /\ key = NoVal /\ res = NoVal
    BY DEF CallsInit, Init, EmptyTable, NewTable
  <2>2. HeldKeys(d) = {}
    BY <2>1 DEF HeldKeys
  <2>3. Content(d) = [k \in {} |-> NoVal]
    BY <2>2 DEF Content
  <2> QED BY <2>1, <2>3 DEF Abstract!Init
<1>2. IInv /\ [CallsNext]_<<vars, key>> => [Abstract!Next]_Abstract!vars
  <2> SUFFICES ASSUME IInv, [CallsNext]_<<vars, key>> PROVE [Abstract!Next]_Abstract!vars
    OBVIOUS
  <2>1. [Next]_vars
    BY DEF CallsNext, Next, KeyCall
  <2>2. DictOK(d')
    BY <2>1, NextOK DEF IInv
  <2>3. ASSUME NEW k \in Keys, CallOn(k), key' = k PROVE Abstract!Next
    BY <2>2, <2>3, CallOnMaps DEF Abstract!Next
  <2>4. CASE OtherCall /\ UNCHANGED key
    BY <2>2, <2>4, OtherCallStutters DEF Abstract!vars
  <2>5. CASE UNCHANGED <<vars, key>>
    BY <2>5 DEF Abstract!vars, vars
  <2> QED BY <2>3, <2>4, <2>5 DEF CallsNext
<1> QED BY <1>1, <1>2, CallsKeep, PTL DEF CallsSpec, RefinesDictMap, Abstract!Spec

-----------------------------------------------------------------------------
\* The dictionary t holds every entry of s whose key is still present where s
\* holds it.
Unmoved(s, t) == \A w \in Whereabouts(s) : w[3] \in HeldKeys(t) => w \in Whereabouts(t)

\* Under an open iterator no call rehashes, so what a call does to the tables is
\* to grow, to link, to overwrite or to unlink.
LEMMA HeldStill ==
  ASSUME NEW s, DictOK(s), s.iterators > 0
  PROVE  /\ Prepared(s).ht0.table = s.ht0.table /\ Prepared(s).ht1.table = s.ht1.table
         /\ Probed(s) = s
         /\ Prepared(s).iterators = s.iterators
<1>1. dictRehashStep(s) = s
  <2>1. s.iterators # 0
    BY DEF DictOK, Dicts
  <2> QED BY <2>1 DEF dictRehashStep
<1> QED BY <1>1, ExpandIfNeededTables DEF Prepared, Probed

\* Tables that only gain entries.
LEMMA GrownUnmoved ==
  ASSUME NEW s, NEW t,
         s.ht0.table \subseteq t.ht0.table, s.ht1.table \subseteq t.ht1.table
  PROVE  Unmoved(s, t)
BY DEF Unmoved, Whereabouts

\* A new entry leaves the others in their tables.
LEMMA InsertUnmoved ==
  ASSUME NEW s, NEW k \in Keys, NEW v \in Vals
  PROVE  /\ s.ht0.table \subseteq Insert(s, k, v).ht0.table
         /\ s.ht1.table \subseteq Insert(s, k, v).ht1.table
BY DEF Insert, With, Linked

\* The assignment of a value moves no entry.
LEMMA SetValUnmoved ==
  ASSUME NEW s, DictOK(s), NEW k \in Keys, NEW v \in Vals
  PROVE  Whereabouts(s) \subseteq Whereabouts(SetVal(s, k, v))
<1> DEFINE es == Lookup(s, k)
           t == SetVal(s, k, v)
           w(e) == [e EXCEPT !.val = v]
<1>1. /\ t.ht0.table = (s.ht0.table \ es) \cup {w(e) : e \in s.ht0.table \cap es}
      /\ t.ht1.table = (s.ht1.table \ es) \cup {w(e) : e \in s.ht1.table \cap es}
  BY DEF SetVal, Revalued, With
<1>2. \A e \in s.ht0.table \cup s.ht1.table : w(e).key = e.key /\ w(e).idx = e.idx
  BY DEF DictOK, Dicts, Tables, Entries
<1> HIDE DEF es, t, w
<1>3. /\ \A e \in s.ht0.table : \E f \in t.ht0.table : f.key = e.key /\ f.idx = e.idx
      /\ \A e \in s.ht1.table : \E f \in t.ht1.table : f.key = e.key /\ f.idx = e.idx
  BY <1>1, <1>2
<1>4. /\ \A e \in s.ht0.table : <<0, e.idx, e.key>> \in Whereabouts(t)
      /\ \A e \in s.ht1.table : <<1, e.idx, e.key>> \in Whereabouts(t)
  BY <1>3 DEF Whereabouts
<1>5. Whereabouts(s) \subseteq Whereabouts(t)
  BY <1>4 DEF Whereabouts
<1> QED BY <1>5 DEF t

\* The removal of a key moves no other entry.
LEMMA UnlinkUnmoved ==
  ASSUME NEW s, DictOK(s), NEW k \in Keys
  PROVE  Unmoved(s, Unlink(s, k))
<1> DEFINE t == Unlink(s, k)
<1>1. /\ Chain(s.ht0, k) = {e \in s.ht0.table : e.key = k}
      /\ Chain(s.ht1, k) = {e \in s.ht1.table : e.key = k}
  BY LookupComplete
<1>2. /\ t.ht0.table \subseteq s.ht0.table /\ t.ht1.table \subseteq s.ht1.table
      /\ \A e \in s.ht0.table : e.key # k => e \in t.ht0.table
      /\ \A e \in s.ht1.table : e.key # k => e \in t.ht1.table
      /\ \A e \in s.ht0.table \cup s.ht1.table : e.key = k => \/ e \notin t.ht0.table
                                                              \/ e \notin s.ht0.table
  BY <1>1 DEF Unlink, Unlinked, With
<1>3. k \notin HeldKeys(t)
  <2>1. HasDropped(s, t, k)
    BY UnlinkDrops
  <2>2. \A e \in Held(t) : e \in Held(s)
    BY <1>2 DEF Held
  <2>3. \A e \in Held(s) : e.val \in Vals /\ e.key \in Keys
    BY DEF DictOK, Dicts, Tables, Entries, Held
  <2> HIDE DEF t
  <2>4. \A e \in Held(t) : e.key # k
    BY <2>1, <2>2, <2>3 DEF HasDropped, Holds
  <2> QED BY <2>4 DEF HeldKeys, Held
<1> HIDE DEF t
<1>4. Unmoved(s, t)
  BY <1>2, <1>3 DEF Unmoved, Whereabouts
<1> QED BY <1>4 DEF t

\* Tables that a growth left alone.
LEMMA SameTables ==
  ASSUME NEW s, NEW p, p.ht0.table = s.ht0.table, p.ht1.table = s.ht1.table,
         NEW t, Unmoved(p, t)
  PROVE  Unmoved(s, t)
BY DEF Unmoved, Whereabouts

\* No insertion moves an entry while an iterator holds the rehash.
LEMMA AddUnmoved ==
  ASSUME NEW s, DictOK(s), s.iterators > 0, NEW k \in Keys, NEW v \in Vals
  PROVE  Unmoved(s, dictAdd(s, k, v))
<1> DEFINE p == Prepared(s)
<1>1. p.ht0.table = s.ht0.table /\ p.ht1.table = s.ht1.table
  BY HeldStill
<1>2. dictAdd(s, k, v) = p \/ dictAdd(s, k, v) = Insert(p, k, v)
  BY DEF dictAdd
<1> HIDE DEF p
<1> QED BY <1>1, <1>2, InsertUnmoved, GrownUnmoved

\* The assignment of a value, in the terms of the theorem.
LEMMA SetUnmoved ==
  ASSUME NEW s, DictOK(s), NEW k \in Keys, NEW v \in Vals
  PROVE  Unmoved(s, SetVal(s, k, v))
BY SetValUnmoved DEF Unmoved

\* While a safe iterator is open, no call moves an entry to another bucket or
\* table: what the iterator has passed stays behind it.
THEOREM EntriesFrozen == Spec => IteratorsFreezeEntries
<1>1. IInv /\ [Next]_vars
      => [d.iterators > 0 =>
            \A w \in Whereabouts(d) : w[3] \in HeldKeys(d') => w \in Whereabouts(d')]_vars
  <2> SUFFICES ASSUME IInv, Next, d.iterators > 0 PROVE Unmoved(d, d')
    BY DEF Unmoved
  <2>0. DictOK(d)
    BY DEF IInv
  <2>1. ASSUME NEW k \in Keys, NEW v \in Vals, Add(k, v) PROVE Unmoved(d, d')
    BY <2>0, <2>1, AddUnmoved DEF Add
  <2>2. ASSUME NEW k \in Keys, NEW v \in Vals, Replace(k, v) PROVE Unmoved(d, d')
    <3> DEFINE p == Prepared(d)
    <3>1. DictOK(p) /\ p.iterators = d.iterators
          /\ p.ht0.table = d.ht0.table /\ p.ht1.table = d.ht1.table
      BY <2>0, PreparedKeeps, HeldStill
    <3>2. Probed(p) = p
      <4> HIDE DEF p
      <4> QED BY <3>1, HeldStill
    <3>3. d' = dictAdd(d, k, v) \/ d' = SetVal(p, k, v)
      BY <2>2, <3>2 DEF Replace, dictReplace
    <3> HIDE DEF p
    <3> QED BY <2>0, <3>1, <3>3, AddUnmoved, SetUnmoved, SameTables
  <2>3. ASSUME NEW k \in Keys, NEW v \in Vals, ReplaceRaw(k, v) PROVE Unmoved(d, d')
    <3>1. Probed(d) = d
      BY <2>0, HeldStill
    <3>2. d' = SetVal(d, k, v) \/ d' = dictAdd(d, k, v)
      BY <2>3, <3>1 DEF ReplaceRaw, dictReplaceRaw
    <3> QED BY <2>0, <3>2, AddUnmoved, SetUnmoved
  <2>4. ASSUME NEW k \in Keys, Delete(k) PROVE Unmoved(d, d')
    <3>1. Probed(d) = d
      BY <2>0, HeldStill
    <3>2. d' = Unlink(d, k) \/ d' = d
      BY <2>4, <3>1 DEF Delete, dictDelete
    <3> QED BY <2>0, <3>2, UnlinkUnmoved, GrownUnmoved
  <2>5. ASSUME NEW k \in Keys, Find(k) \/ FetchValue(k) PROVE Unmoved(d, d')
    BY <2>0, <2>5, HeldStill, GrownUnmoved DEF Find, FetchValue
  <2>6. ASSUME OtherCall PROVE Unmoved(d, d')
    <3>1. d'.ht0.table = d.ht0.table /\ d'.ht1.table = d.ht1.table
      <4>1. CASE Resize
        BY <2>0, <4>1, ExpandTables DEF Resize
      <4>2. CASE EnableResize \/ DisableResize
        BY <4>2 DEF EnableResize, DisableResize
      <4>3. CASE StartIterator \/ ReleaseIterator
        BY <2>0, <4>3 DEF StartIterator, ReleaseIterator, DictOK, Dicts
      <4> QED BY <2>6, <4>1, <4>2, <4>3 DEF OtherCall
    <3> QED BY <3>1, GrownUnmoved
  <2> QED BY <2>1, <2>2, <2>3, <2>4, <2>5, <2>6 DEF Next, KeyCall, CallOn
<1> QED BY <1>1, StructureHolds, PTL DEF Spec, IteratorsFreezeEntries
=============================================================================
