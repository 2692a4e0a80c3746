-------------------------------- MODULE RDict --------------------------------
(***************************************************************************)
(* The hash table of rdict.py: two tables and an incremental rehash that   *)
(* moves one bucket at a time, inside the calls that read and write keys.  *)
(*                                                                         *)
(* A table keeps its chains as a set of entries that carry their bucket    *)
(* number; the order inside a chain is abstracted.  d.ht[0] and d.ht[1]    *)
(* are the fields ht0 and ht1, and h & sizemask is h % size, the sizes     *)
(* being powers of two.  Every call is one action: nothing runs between    *)
(* two statements of the single-threaded server.                           *)
(***************************************************************************)
EXTENDS Integers, FiniteSets

CONSTANTS
  Keys, Vals, NoVal,
  Falsy,                    \* the values Python takes for false: 0, '', b''
  Hash,                     \* dictType.hashFunction
  DICT_HT_INITIAL_SIZE,     \* 4 in the code
  dict_force_resize_ratio,  \* 5 in the code
  TableSizes,               \* what _dictNextPower may return
  MaxIterators              \* bound: safe iterators open at a time

ASSUME RDictAssumption ==
  /\ IsFiniteSet(Keys)
  /\ NoVal \notin Vals /\ Falsy \subseteq Vals
  /\ Hash \in [Keys -> Nat]
  /\ TableSizes \subseteq Nat \ {0}
  /\ DICT_HT_INITIAL_SIZE \in TableSizes
  /\ \A s \in TableSizes : DICT_HT_INITIAL_SIZE <= s
  /\ dict_force_resize_ratio \in Nat
  /\ MaxIterators \in Nat

\* The doubling loop reaches the need of every dictionary over Keys.
ASSUME SizesSuffice ==
  \A n \in 0 .. 2 * Cardinality(Keys) : \E s \in TableSizes : n <= s

VARIABLES
  d,                \* the rDict: [ht0, ht1, rehashidx, iterators]
  dict_can_resize,  \* the module's global
  res               \* what the last call answered

vars == <<d, dict_can_resize, res>>

-----------------------------------------------------------------------------
Entries == [idx : Nat, key : Keys, val : Vals]
Tables == [size : {0} \cup TableSizes, used : Nat, table : SUBSET Entries]
Dicts == [ht0 : Tables, ht1 : Tables, rehashidx : Nat \cup {-1},
          iterators : 0 .. MaxIterators]

NewTable(n) == [size |-> n, used |-> 0, table |-> {}]
EmptyTable == NewTable(0)

\* The dictionary s with other tables and another rehash index.
With(s, h0, h1, i) ==
  [ht0 |-> h0, ht1 |-> h1, rehashidx |-> i, iterators |-> s.iterators]

dictIsRehashing(s) == s.rehashidx # -1
Slot(ht, k) == Hash[k] % ht.size
Bucket(ht, i) == {e \in ht.table : e.idx = i}
Chain(ht, k) == {e \in Bucket(ht, Slot(ht, k)) : e.key = k}

\* The smallest size of the doubling sequence that holds n entries.
dictNextPower(n) ==
  CHOOSE s \in TableSizes : n <= s /\ \A r \in TableSizes : n <= r => s <= r

-----------------------------------------------------------------------------
\* One iteration of dictRehash: the completion test, the scan over empty
\* buckets, and the move of a whole bucket with its two counters.
FirstFullBucket(s) ==
  CHOOSE i \in {e.idx : e \in s.ht0.table} :
    /\ s.rehashidx <= i
    /\ \A e \in s.ht0.table : s.rehashidx <= e.idx => i <= e.idx

\* Mutant: the bucket number of the old table is kept.
RehashedInPlace(ht, es) == es

Rehashed(ht, es) == {[e EXCEPT !.idx = Slot(ht, e.key)] : e \in es}

MoveBucket(s, i) ==
  LET moved == Bucket(s.ht0, i)
      n == Cardinality(moved)
  IN  With(s, [size |-> s.ht0.size, used |-> s.ht0.used - n,
               table |-> s.ht0.table \ moved],
              [size |-> s.ht1.size, used |-> s.ht1.used + n,
               table |-> s.ht1.table \cup Rehashed(s.ht1, moved)],
              i + 1)

\* Mutant: completion is noticed, and nothing is done about it.
FinishForgotten(s) == s

FinishRehash(s) == With(s, s.ht1, EmptyTable, -1)

dictRehash(s) ==
  IF s.ht0.used = 0 THEN FinishRehash(s) ELSE MoveBucket(s, FirstFullBucket(s))

\* Mutant: _dictRehashStep without its test of the iterators.
StepDespiteIterators(s) == IF dictIsRehashing(s) THEN dictRehash(s) ELSE s

\* The guard of the callers and that of _dictRehashStep together.
dictRehashStep(s) ==
  IF dictIsRehashing(s) /\ s.iterators = 0 THEN dictRehash(s) ELSE s

-----------------------------------------------------------------------------
ExpandAllowed(s, n) == ~dictIsRehashing(s) /\ s.ht0.used <= n

dictExpand(s, n) ==
  IF ~ExpandAllowed(s, n) THEN s
  ELSE IF s.ht0.size = 0
       THEN With(s, NewTable(dictNextPower(n)), s.ht1, s.rehashidx)
       ELSE With(s, s.ht0, NewTable(dictNextPower(n)), 0)

Overfull(ht) ==
  /\ ht.used >= ht.size
  /\ dict_can_resize \/ (ht.used \div ht.size) > dict_force_resize_ratio

dictExpandIfNeeded(s) ==
  IF dictIsRehashing(s) THEN s
  ELSE IF s.ht0.size = 0 THEN dictExpand(s, DICT_HT_INITIAL_SIZE)
  ELSE IF Overfull(s.ht0) THEN dictExpand(s, 2 * s.ht0.used)
  ELSE s

-----------------------------------------------------------------------------
\* Mutant: the loop over the two tables stops after the first one.
LookupFirstTable(s, k) == Chain(s.ht0, k)

\* The entries a walk of the key's chains meets: table 0 first, and table 1
\* only while a rehash is under way.
Lookup(s, k) ==
  LET c0 == Chain(s.ht0, k)
  IN  IF c0 # {} THEN c0
      ELSE IF dictIsRehashing(s) THEN Chain(s.ht1, k) ELSE {}

Linked(ht, k, v) ==
  [size |-> ht.size, used |-> ht.used + 1,
   table |-> ht.table \cup {[idx |-> Slot(ht, k), key |-> k, val |-> v]}]

\* Mutant: new entries always go to table 0.
InsertFirstTable(s, k, v) == With(s, Linked(s.ht0, k, v), s.ht1, s.rehashidx)

Insert(s, k, v) ==
  IF dictIsRehashing(s) THEN With(s, s.ht0, Linked(s.ht1, k, v), s.rehashidx)
                        ELSE With(s, Linked(s.ht0, k, v), s.ht1, s.rehashidx)

Revalued(ht, es, v) ==
  [size |-> ht.size, used |-> ht.used,
   table |-> (ht.table \ es) \cup {[e EXCEPT !.val = v] : e \in ht.table \cap es}]

SetVal(s, k, v) ==
  With(s, Revalued(s.ht0, Lookup(s, k), v), Revalued(s.ht1, Lookup(s, k), v),
       s.rehashidx)

Unlinked(ht, es) ==
  [size |-> ht.size, used |-> ht.used - 1, table |-> ht.table \ es]

\* Mutant: the counter of table 0 is decremented whichever table held the entry.
UnlinkCountsFirst(s, k) ==
  With(s, Unlinked(s.ht0, Lookup(s, k)),
       [s.ht1 EXCEPT !.table = @ \ Lookup(s, k)], s.rehashidx)

Unlink(s, k) ==
  IF Chain(s.ht0, k) # {}
  THEN With(s, Unlinked(s.ht0, Chain(s.ht0, k)), s.ht1, s.rehashidx)
  ELSE With(s, s.ht0, Unlinked(s.ht1, Chain(s.ht1, k)), s.rehashidx)

\* The table as dictAddRaw leaves it before it looks the key up.
Prepared(s) == dictExpandIfNeeded(dictRehashStep(s))

\* dictFind: the side effect, and whether an entry comes back.
Probed(s) == IF s.ht0.size = 0 THEN s ELSE dictRehashStep(s)
Found(s, k) == s.ht0.size # 0 /\ Lookup(s, k) # {}

dictAdd(s, k, v) ==
  IF Lookup(Prepared(s), k) # {} THEN Prepared(s) ELSE Insert(Prepared(s), k, v)

dictAdds(s, k) == Lookup(Prepared(s), k) = {}

dictReplace(s, k, v) ==
  IF dictAdds(s, k) THEN dictAdd(s, k, v)
                    ELSE SetVal(Probed(Prepared(s)), k, v)

dictReplaceRaw(s, k, v) ==
  IF Found(Probed(s), k) THEN SetVal(Probed(s), k, v) ELSE dictAdd(Probed(s), k, v)

dictDelete(s, k) ==
  IF Found(Probed(s), k) THEN Unlink(Probed(s), k) ELSE Probed(s)

-----------------------------------------------------------------------------
Init ==
  /\ d = [ht0 |-> EmptyTable, ht1 |-> EmptyTable, rehashidx |-> -1, iterators |-> 0]
  /\ dict_can_resize \in BOOLEAN
  /\ res = NoVal

Add(k, v) ==
  /\ d' = dictAdd(d, k, v)
  /\ res' = IF dictAdds(d, k) THEN "OK" ELSE "ERR"
  /\ UNCHANGED dict_can_resize

Replace(k, v) ==
  /\ d' = dictReplace(d, k, v)
  /\ res' = IF dictAdds(d, k) THEN "1" ELSE "0"
  /\ UNCHANGED dict_can_resize

\* dictReplaceRaw, and its caller's assignment to the entry it returns.
ReplaceRaw(k, v) ==
  /\ d' = dictReplaceRaw(d, k, v)
  /\ res' = v
  /\ UNCHANGED dict_can_resize

Delete(k) ==
  /\ d' = dictDelete(d, k)
  /\ res' = IF Found(Probed(d), k) THEN "OK" ELSE "ERR"
  /\ UNCHANGED dict_can_resize

\* dictFind, and the value its caller reads in the entry.
ValueIn(s, k) == (CHOOSE e \in Lookup(s, k) : TRUE).val
Find(k) ==
  /\ d' = Probed(d)
  /\ res' = IF Found(Probed(d), k) THEN ValueIn(Probed(d), k) ELSE NoVal
  /\ UNCHANGED dict_can_resize

\* dictFetchValue: `he and dictGetVal(he) or None`.
FetchValue(k) ==
  /\ d' = Probed(d)
  /\ res' = IF Found(Probed(d), k) /\ ValueIn(Probed(d), k) \notin Falsy
            THEN ValueIn(Probed(d), k) ELSE NoVal
  /\ UNCHANGED dict_can_resize

Least(m, n) == IF m <= n THEN m ELSE n

Resize ==
  /\ dict_can_resize /\ ~dictIsRehashing(d)
  /\ d' = dictExpand(d, Least(d.ht0.used, DICT_HT_INITIAL_SIZE))
  /\ UNCHANGED <<dict_can_resize, res>>

EnableResize == dict_can_resize' = TRUE /\ UNCHANGED <<d, res>>
DisableResize == dict_can_resize' = FALSE /\ UNCHANGED <<d, res>>

\* What the first dictNext of a safe iterator, and its release, do to the dictionary.
StartIterator ==
  /\ d.iterators < MaxIterators
  /\ d' = [d EXCEPT !.iterators = d.iterators + 1]
  /\ UNCHANGED <<dict_can_resize, res>>

ReleaseIterator ==
  /\ d.iterators > 0
  /\ d' = [d EXCEPT !.iterators = d.iterators - 1]
  /\ UNCHANGED <<dict_can_resize, res>>

CallOn(k) ==
  \/ Delete(k)
  \/ Find(k)
  \/ FetchValue(k)
  \/ \E v \in Vals : Add(k, v) \/ Replace(k, v) \/ ReplaceRaw(k, v)
KeyCall == \E k \in Keys : CallOn(k)
OtherCall == Resize \/ EnableResize \/ DisableResize \/ StartIterator \/ ReleaseIterator

Next == KeyCall \/ OtherCall

Spec == Init /\ [][Next]_vars

-----------------------------------------------------------------------------
\* Every variable keeps its type through every call of rdict.py.
TypeOK ==
  /\ d \in Dicts
  /\ dict_can_resize \in BOOLEAN
  /\ res \in {"OK", "ERR", "1", "0"} \cup Vals \cup {NoVal}

WellPlaced(ht) == \A e \in ht.table : ht.size # 0 /\ e.idx = Slot(ht, e.key)
PlacementOf(s) == WellPlaced(s.ht0) /\ WellPlaced(s.ht1)
OneHomeOf(s) ==
  /\ \A e, f \in s.ht0.table \cup s.ht1.table : e.key = f.key => e = f
  /\ s.ht0.table \cap s.ht1.table = {}
UsedCountsOf(s) ==
  /\ s.ht0.used = Cardinality(s.ht0.table)
  /\ s.ht1.used = Cardinality(s.ht1.table)
RehashFrontierOf(s) ==
  IF dictIsRehashing(s)
  THEN /\ s.ht0.size # 0 /\ s.ht1.size # 0
       /\ \A e \in s.ht0.table : s.rehashidx <= e.idx
       /\ s.ht0.used > 0 => s.rehashidx < s.ht0.size
  ELSE s.ht1 = EmptyTable

\* An entry sits in the bucket where dictFind will look for its key, also
\* after a resize has changed the mask.
Placement == PlacementOf(d)

\* A key has one entry in the two tables together: neither a rehash step nor
\* an insertion in the middle of a rehash duplicates it.
OneHome == OneHomeOf(d)

\* The counter `used`, which decides completion and expansion, never drifts
\* from the entries of the table.
UsedCounts == UsedCountsOf(d)

\* Buckets below rehashidx are empty and the scan for the next full one cannot
\* leave the table (the assertion of dictRehash, and the loop after it).
RehashFrontier == RehashFrontierOf(d)

\* While a safe iterator is open no call moves an entry to another bucket or table.
Whereabouts(s) ==
  {<<0, e.idx, e.key>> : e \in s.ht0.table} \cup {<<1, e.idx, e.key>> : e \in s.ht1.table}
HeldKeys(s) == {e.key : e \in s.ht0.table \cup s.ht1.table}

IteratorsFreezeEntries ==
  [][d.iterators > 0 =>
       \A w \in Whereabouts(d) : w[3] \in HeldKeys(d') => w \in Whereabouts(d')]_vars

\* A rehash that finds its calls and no iterator comes to an end.
RehashEnds ==
  []<><<KeyCall>>_<<d, res>> /\ <>[](d.iterators = 0)
  => (dictIsRehashing(d) ~> ~dictIsRehashing(d))

=============================================================================
