-------------------------- MODULE BusRegionsProofs --------------------------
(***************************************************************************)
(* Lemmas about BusRegions: what map and unmap make of a region table and  *)
(* what resolution answers on a sorted one.                                *)
(*                                                                         *)
(* On a sorted table whose regions do not overlap, everything before the   *)
(* region that holds an address compares Less and everything behind it     *)
(* Greater, so the search can only find that region; and the cached index  *)
(* answers only when its region holds the address.                         *)
(***************************************************************************)
EXTENDS BusRegions, FiniteSetTheorems, TLAPS

-----------------------------------------------------------------------------
(* Regions                                                                 *)

\* start + size wraps into the address space.
LEMMA EndTyped ==
  ASSUME BusAssumption, NEW r \in Region
  PROVE  EndOf(r) \in Addr
<1>1. ASSUME NEW N \in Nat \ {0}, NEW x \in Nat PROVE x % N \in 0 .. N - 1
  BY SMT
<1>2. r.start + r.size \in Nat
  BY DEF Region, Addr
<1> QED
  BY <1>1, <1>2 DEF BusAssumption, EndOf, Addr

\* A region that fits into the address space ends where it should.
LEMMA EndExact ==
  ASSUME BusAssumption, NEW r \in Region, Fits(r)
  PROVE  EndOf(r) = r.start + r.size
<1>1. ASSUME NEW N \in Nat \ {0}, NEW x \in 0 .. N - 1 PROVE x % N = x
  BY SMT
<1>2. r.start + r.size \in 0 .. AddrLimit - 1
  BY DEF Region, Addr, BusAssumption, Fits
<1> QED
  BY <1>1, <1>2 DEF BusAssumption, EndOf

\* The three answers of the comparator, for a region that fits.
LEMMA CompareFits ==
  ASSUME BusAssumption, NEW r \in Region, Fits(r), NEW a \in Addr
  PROVE  /\ Compare(r, a) = "Greater" <=> a < r.start
         /\ Compare(r, a) = "Less"    <=> a >= r.start + r.size
         /\ Compare(r, a) = "Equal"   <=> Contains(r, a)
<1>1. /\ EndOf(r) = r.start + r.size
      /\ r.start \in Nat /\ r.size \in Nat /\ r.size > 0 /\ a \in Nat
  BY EndExact DEF Region, Addr, Fits, BusAssumption
<1>2. CASE a < r.start
  BY <1>1, <1>2 DEF Compare, Contains
<1>3. CASE a >= r.start /\ a >= EndOf(r)
  BY <1>1, <1>3 DEF Compare, Contains
<1>4. CASE a >= r.start /\ a < EndOf(r)
  BY <1>1, <1>4 DEF Compare, Contains
<1> QED
  BY <1>1, <1>2, <1>3, <1>4

-----------------------------------------------------------------------------
(* map and unmap keep the table well typed and sorted                      *)

\* push and sort_by_key.
LEMMA PushedAndSortedIsSorted ==
  ASSUME NEW rs \in Seq(Region), NEW r \in Region, NEW new \in PushedAndSorted(rs, r)
  PROVE  new \in Seq(Region) /\ Sorted(new)
<1> DEFINE pushed == Append(rs, r)
<1>1. pushed \in Seq(Region) /\ DOMAIN pushed = 1 .. Len(pushed) /\ Len(pushed) \in Nat
  OBVIOUS
<1>2. \A i \in DOMAIN pushed : pushed[i] \in Region
  BY <1>1
<1>3. PICK p \in [DOMAIN pushed -> DOMAIN pushed] :
        SortedBy(pushed, p) /\ new = [i \in DOMAIN pushed |-> pushed[p[i]]]
  BY DEF PushedAndSorted, Bijection, Injection
<1> HIDE DEF pushed
<1>4. new \in Seq(Region) /\ DOMAIN new = DOMAIN pushed
  BY <1>1, <1>2, <1>3
<1>5. \A i \in DOMAIN pushed : pushed[i].start \in Nat
  BY <1>2 DEF Region, Addr
<1>6. ASSUME NEW i \in DOMAIN new, NEW j \in DOMAIN new, i < j
      PROVE  new[i].start <= new[j].start
  <2>1. p[i] \in DOMAIN pushed /\ p[j] \in DOMAIN pushed
    BY <1>3, <1>4
  <2>2. \/ pushed[p[i]].start < pushed[p[j]].start
        \/ pushed[p[i]].start = pushed[p[j]].start /\ p[i] < p[j]
    BY <1>3, <1>4, <1>6 DEF SortedBy
  <2> QED
    BY <1>3, <1>4, <1>5, <2>1, <2>2
<1> QED
  BY <1>4, <1>6 DEF Sorted

\* No region is lost when another is mapped.
LEMMA PushedAndSortedKeepsAll ==
  ASSUME NEW rs \in Seq(Region), NEW r \in Region, NEW new \in PushedAndSorted(rs, r),
         NEW i \in DOMAIN rs
  PROVE  \E j \in DOMAIN new : new[j] = rs[i]
<1> DEFINE pushed == Append(rs, r)
<1>1. i \in DOMAIN pushed /\ pushed[i] = rs[i]
  OBVIOUS
<1>2. PICK p \in Bijection(DOMAIN pushed, DOMAIN pushed) :
        new = [j \in DOMAIN pushed |-> pushed[p[j]]]
  BY DEF PushedAndSorted
<1> HIDE DEF pushed
<1>3. PICK j \in DOMAIN pushed : p[j] = i
  BY <1>1, <1>2 DEF Bijection, Surjection
<1> QED
  BY <1>1, <1>2, <1>3

\* retain.
LEMMA RetainedIsSorted ==
  ASSUME NEW rs \in Seq(Region), NEW s, NEW new \in Retained(rs, s)
  PROVE  new \in Seq(Region) /\ (Sorted(rs) => Sorted(new))
<1> DEFINE keep == {i \in DOMAIN rs : rs[i].start # s}
           n    == Cardinality(keep)
<1>1. IsFiniteSet(keep)
  <2>1. IsFiniteSet(DOMAIN rs)
    <3>1. DOMAIN rs = 1 .. Len(rs) /\ Len(rs) \in Nat
      OBVIOUS
    <3> QED BY <3>1, FS_Interval
  <2> QED BY <2>1, FS_Subset
<1>2. n \in Nat
  BY <1>1, FS_CardinalityType
<1>3. PICK f \in [1 .. n -> keep] :
        /\ \A i, j \in 1 .. n : i < j => f[i] < f[j]
        /\ new = [i \in 1 .. n |-> rs[f[i]]]
  BY DEF Retained, Bijection, Injection
<1>4. \A i \in keep : i \in DOMAIN rs /\ rs[i] \in Region
  OBVIOUS
<1> HIDE DEF keep, n
<1>5. new \in Seq(Region) /\ DOMAIN new = 1 .. n
  BY <1>2, <1>3, <1>4
<1>6. ASSUME Sorted(rs), NEW i \in 1 .. n, NEW j \in 1 .. n, i < j
      PROVE  new[i].start <= new[j].start
  BY <1>3, <1>4, <1>6 DEF Sorted
<1> QED
  BY <1>5, <1>6 DEF Sorted

-----------------------------------------------------------------------------
(* Resolution on a sorted table                                            *)

\* On a sorted tidy table the search finds the region that holds the address:
\* what is before it ends before the address, what is behind it starts after.
LEMMA SearchFindsOwner ==
  ASSUME BusAssumption, NEW rs \in Seq(Region), Sorted(rs), Tidy(rs),
         NEW a \in Addr, NEW i \in Owners(rs, a)
  PROVE  SearchResults(rs, a) = {i}
<1>1. DOMAIN rs = 1 .. Len(rs) /\ Len(rs) \in Nat /\ i \in DOMAIN rs
  BY DEF Owners
<1>2. ASSUME NEW j \in DOMAIN rs
      PROVE  /\ rs[j] \in Region /\ Fits(rs[j])
             /\ rs[j].start \in Nat /\ rs[j].size \in Nat
  <2>1. rs[j] \in Region
    OBVIOUS
  <2> QED BY <2>1 DEF Tidy, Region, Addr
<1>3. a \in Nat /\ rs[i].start <= a /\ a < rs[i].start + rs[i].size
  BY DEF Owners, Addr, BusAssumption
<1>4. ASSUME NEW j \in DOMAIN rs, j < i PROVE Compare(rs[j], a) = "Less"
  <2>1. rs[j].start <= rs[i].start /\ Disjoint(rs[j], rs[i])
    BY <1>1, <1>4 DEF Sorted, Tidy
  <2>2. a >= rs[j].start + rs[j].size
    BY <1>1, <1>2, <1>3, <2>1 DEF Disjoint, Fits
  <2> QED BY <1>2, <2>2, CompareFits
<1>5. ASSUME NEW j \in DOMAIN rs, i < j PROVE Compare(rs[j], a) = "Greater"
  <2>1. rs[i].start <= rs[j].start /\ Disjoint(rs[i], rs[j])
    BY <1>1, <1>5 DEF Sorted, Tidy
  <2>2. a < rs[j].start
    BY <1>1, <1>2, <1>3, <2>1 DEF Disjoint, Fits
  <2> QED BY <1>2, <2>2, CompareFits
<1>6. Compare(rs[i], a) = "Equal"
  BY <1>1, <1>2, <1>3, EndExact, CompareFits DEF Contains
<1>7. Partitioned(rs, a)
  <2>1. i - 1 \in 0 .. Len(rs) /\ i \in 0 .. Len(rs) /\ i - 1 <= i
    BY <1>1
  <2>2. ASSUME NEW j \in DOMAIN rs
        PROVE  Compare(rs[j], a) = IF j <= i - 1 THEN "Less"
                                   ELSE IF j <= i THEN "Equal" ELSE "Greater"
    <3>1. CASE j < i  BY <1>1, <1>4, <3>1
    <3>2. CASE j = i  BY <1>1, <1>6, <3>2
    <3>3. CASE i < j  BY <1>1, <1>5, <3>3
    <3> QED BY <1>1, <3>1, <3>2, <3>3
  <2> QED BY <2>1, <2>2 DEF Partitioned
<1>8. Equals(rs, a) = {i}
  <2>1. ASSUME NEW j \in DOMAIN rs, Compare(rs[j], a) = "Equal" PROVE j = i
    BY <1>1, <1>4, <1>5, <2>1
  <2> QED BY <1>1, <1>6, <2>1 DEF Equals
<1> QED
  BY <1>7, <1>8 DEF SearchResults

\* The cached position and the bounds check agree with ownership.
LEMMA ContainsIsOwnership ==
  ASSUME BusAssumption, NEW rs \in Seq(Region), Tidy(rs), NEW a \in Addr, NEW j \in DOMAIN rs
  PROVE  Contains(rs[j], a) <=> j \in Owners(rs, a)
<1>1. rs[j] \in Region /\ Fits(rs[j]) /\ rs[j].start \in Nat /\ rs[j].size \in Nat
  <2>1. rs[j] \in Region
    OBVIOUS
  <2> QED BY <2>1 DEF Tidy, Region, Addr
<1>2. EndOf(rs[j]) = rs[j].start + rs[j].size
  BY <1>1, EndExact
<1>3. a \in Nat
  BY DEF Addr, BusAssumption
<1> QED
  BY <1>1, <1>2, <1>3 DEF Contains, Owners

\* An address has at most one owner in a tidy table.
LEMMA OwnerUnique ==
  ASSUME BusAssumption, NEW rs \in Seq(Region), Tidy(rs), NEW a \in Addr,
         NEW i \in Owners(rs, a), NEW j \in Owners(rs, a)
  PROVE  i = j
<1>1. /\ i \in DOMAIN rs /\ j \in DOMAIN rs /\ a \in Nat
      /\ rs[i].start <= a /\ a < rs[i].start + rs[i].size
      /\ rs[j].start <= a /\ a < rs[j].start + rs[j].size
  BY DEF Owners, Addr, BusAssumption
<1>2. /\ rs[i].start \in Nat /\ rs[i].size \in Nat
      /\ rs[j].start \in Nat /\ rs[j].size \in Nat
  <2>1. rs[i] \in Region /\ rs[j] \in Region
    BY <1>1
  <2> QED BY <2>1 DEF Region, Addr
<1>3. i # j => Disjoint(rs[i], rs[j])
  BY <1>1 DEF Tidy
<1> QED
  BY <1>1, <1>2, <1>3 DEF Disjoint

\* Whatever index earlier accesses left in the cache, resolution on a sorted
\* tidy table answers with the owner of the address, or faults if it has none.
LEMMA ResolvedIsOwner ==
  ASSUME BusAssumption, NEW rs \in Seq(Region), Sorted(rs), Tidy(rs), NEW l, NEW a \in Addr
  PROVE  /\ Owners(rs, a) = {} => Resolved(rs, l, a) = {0}
         /\ \A i \in Owners(rs, a) : Resolved(rs, l, a) = {i}
<1>1. ASSUME Owners(rs, a) = {} PROVE Resolved(rs, l, a) = {0}
  <2>1. ~Cached(rs, l, a)
    BY <1>1, ContainsIsOwnership DEF Cached
  <2>2. Equals(rs, a) = {}
    <3>1. ASSUME NEW j \in DOMAIN rs PROVE Compare(rs[j], a) # "Equal"
      <4>1. rs[j] \in Region /\ Fits(rs[j])
        BY DEF Tidy
      <4> QED BY <1>1, <4>1, CompareFits, ContainsIsOwnership
    <3> QED BY <3>1 DEF Equals
  <2> QED BY <2>1, <2>2 DEF Resolved, SearchResults
<1>2. ASSUME NEW i \in Owners(rs, a) PROVE Resolved(rs, l, a) = {i}
  <2>1. Cached(rs, l, a) => l = i
    BY ContainsIsOwnership, OwnerUnique DEF Cached
  <2>2. SearchResults(rs, a) = {i}
    BY SearchFindsOwner
  <2> QED BY <2>1, <2>2 DEF Resolved
<1> QED
  BY <1>1, <1>2

\* A position resolution returns is 0 or a region that holds the address.
LEMMA ResolvedPosition ==
  ASSUME BusAssumption, NEW rs \in Seq(Region), NEW l, NEW a \in Addr,
         NEW pos \in Resolved(rs, l, a), pos # 0
  PROVE  pos \in DOMAIN rs /\ Contains(rs[pos], a)
<1>1. CASE Cached(rs, l, a)
  BY <1>1 DEF Resolved, Cached
<1>2. CASE ~Cached(rs, l, a)
  <2>1. pos \in DOMAIN rs /\ Compare(rs[pos], a) = "Equal"
    BY <1>2 DEF Resolved, SearchResults, Equals
  <2>2. rs[pos] \in Region
    BY <2>1
  <2>3. rs[pos].start \in Nat /\ EndOf(rs[pos]) \in Nat /\ a \in Nat
    BY <2>2, EndTyped DEF Region, Addr, BusAssumption
  <2> QED BY <2>1, <2>3 DEF Compare, Contains
<1> QED BY <1>1, <1>2

\* What an access transfers lies inside the buffer.
LEMMA BytesDoneBound ==
  ASSUME BusAssumption, NEW r \in Region, NEW off \in Nat, NEW n \in 1 .. 4
  PROVE  /\ BytesDone(r, off, n) \in 0 .. n
         /\ off + BytesDone(r, off, n) <= MaxLen \/ BytesDone(r, off, n) = 0
BY DEF BytesDone, Region, BusAssumption

-----------------------------------------------------------------------------
\* Dropping buffers leaves well-typed buffers.
LEMMA SurvivingIsTyped ==
  ASSUME BusAssumption, NEW heap \in [Buf -> Content], NEW rs
  PROVE  Surviving(heap, rs) \in [Buf -> Content]
<1>1. Zeroed \in Content
  BY DEF Zeroed, Content, BusAssumption
<1> QED
  BY <1>1 DEF Surviving
-----------------------------------------------------------------------------
(* What is in the table after map and unmap                                *)

\* The numbers of a region in the table.
LEMMA RegionNumbers ==
  ASSUME BusAssumption, NEW rs \in Seq(Region), NEW i \in DOMAIN rs
  PROVE  /\ rs[i] \in Region
         /\ rs[i].start \in Addr /\ rs[i].start \in Nat /\ rs[i].size \in Nat
         /\ rs[i].len \in 0 .. MaxLen /\ rs[i].len \in Nat /\ rs[i].kind \in Kind
         /\ rs[i].kind = "ram" => rs[i].buf \in Buf
<1>1. rs[i] \in Region
  OBVIOUS
<1> QED
  BY <1>1 DEF Region, Addr, BusAssumption

\* map puts the new region at one position k and moves the others, each to a
\* position of its own.
LEMMA AfterMap ==
  ASSUME NEW rs \in Seq(Region), NEW r \in Region, NEW new \in PushedAndSorted(rs, r)
  PROVE  /\ new \in Seq(Region) /\ DOMAIN new = 1 .. Len(rs) + 1
         /\ \E k \in DOMAIN new, place \in [DOMAIN rs -> DOMAIN new] :
               /\ new[k] = r
               /\ \A i \in DOMAIN rs : place[i] # k /\ new[place[i]] = rs[i]
               /\ \A i, j \in DOMAIN rs : place[i] = place[j] => i = j
               /\ \A j \in DOMAIN new : j = k \/ \E i \in DOMAIN rs : j = place[i]
<1> DEFINE n == Len(rs) + 1
           pushed == Append(rs, r)
<1>1. /\ DOMAIN pushed = 1 .. n /\ DOMAIN rs = 1 .. Len(rs) /\ Len(rs) \in Nat
      /\ pushed[n] = r /\ \A i \in DOMAIN rs : pushed[i] = rs[i]
  OBVIOUS
<1>2. PICK p \in Bijection(1 .. n, 1 .. n) : new = [j \in 1 .. n |-> pushed[p[j]]]
  BY <1>1 DEF PushedAndSorted
<1>3. /\ p \in [1 .. n -> 1 .. n]
      /\ \A i, j \in 1 .. n : p[i] = p[j] => i = j
      /\ \A i \in 1 .. n : \E j \in 1 .. n : p[j] = i
  BY <1>2 DEF Bijection, Injection, Surjection, IsInjective
<1> HIDE DEF pushed
<1>4. new \in Seq(Region) /\ DOMAIN new = 1 .. n
  BY <1>2, PushedAndSortedIsSorted
<1>5. n \in Nat /\ n \in 1 .. n /\ DOMAIN rs = 1 .. n - 1 /\ DOMAIN rs \subseteq 1 .. n
  BY <1>1
<1> HIDE DEF n
<1> DEFINE place == [i \in DOMAIN rs |-> CHOOSE j \in 1 .. n : p[j] = i]
<1>6. ASSUME NEW i \in DOMAIN rs PROVE place[i] \in 1 .. n /\ p[place[i]] = i
  <2>1. \E j \in 1 .. n : p[j] = i
    BY <1>3, <1>5
  <2> QED BY <2>1
<1>7. PICK k \in 1 .. n : p[k] = n
  BY <1>3, <1>5
<1>8. place \in [DOMAIN rs -> 1 .. n]
  BY <1>6
<1> HIDE DEF place
<1>9. new[k] = r
  BY <1>1, <1>2, <1>7
<1>10. ASSUME NEW i \in DOMAIN rs PROVE place[i] # k /\ new[place[i]] = rs[i]
  <2>1. place[i] \in 1 .. n /\ p[place[i]] = i /\ i # n
    BY <1>6, <1>5
  <2>2. new[place[i]] = pushed[i]
    BY <1>2, <2>1
  <2> QED BY <1>1, <1>7, <2>1, <2>2
<1>11. ASSUME NEW j \in 1 .. n PROVE j = k \/ \E i \in DOMAIN rs : j = place[i]
  <2>1. CASE p[j] = n
    BY <1>3, <1>7, <2>1
  <2>2. CASE p[j] # n
    <3>1. p[j] \in DOMAIN rs
      BY <1>3, <1>5, <2>2
    <3> QED BY <1>3, <1>6, <3>1
  <2> QED BY <2>1, <2>2
<1>12. ASSUME NEW i \in DOMAIN rs, NEW j \in DOMAIN rs, place[i] = place[j] PROVE i = j
  BY <1>6, <1>12
<1> QED
  BY <1>4, <1>7, <1>8, <1>9, <1>10, <1>11, <1>12 DEF n

\* unmap keeps exactly the regions that start elsewhere.
LEMMA AfterUnmap ==
  ASSUME NEW rs \in Seq(Region), NEW s, NEW new \in Retained(rs, s)
  PROVE  /\ new \in Seq(Region)
         /\ \E from \in [DOMAIN new -> DOMAIN rs] :
               /\ \A j \in DOMAIN new : new[j] = rs[from[j]] /\ new[j].start # s
               /\ \A i, j \in DOMAIN new : from[i] = from[j] => i = j
               /\ \A i \in DOMAIN rs : rs[i].start # s => \E j \in DOMAIN new : from[j] = i
<1> DEFINE keep == {i \in DOMAIN rs : rs[i].start # s}
           n    == Cardinality(keep)
<1>1. PICK f \in Bijection(1 .. n, keep) : new = [i \in 1 .. n |-> rs[f[i]]]
  BY DEF Retained
<1>2. /\ f \in [1 .. n -> keep]
      /\ \A i, j \in 1 .. n : f[i] = f[j] => i = j
      /\ \A i \in keep : \E j \in 1 .. n : f[j] = i
  BY <1>1 DEF Bijection, Injection, Surjection, IsInjective
<1>3. new \in Seq(Region) /\ DOMAIN new = 1 .. n
  BY <1>1, RetainedIsSorted
<1>4. \A i \in keep : i \in DOMAIN rs /\ rs[i].start # s
  OBVIOUS
<1>5. \A i \in DOMAIN rs : rs[i].start # s => i \in keep
  OBVIOUS
<1> HIDE DEF keep, n
<1>6. f \in [DOMAIN new -> DOMAIN rs]
  BY <1>2, <1>3, <1>4
<1>7. \A j \in DOMAIN new : new[j] = rs[f[j]] /\ new[j].start # s
  BY <1>1, <1>2, <1>3, <1>4
<1>8. \A i \in DOMAIN rs : rs[i].start # s => \E j \in DOMAIN new : f[j] = i
  BY <1>2, <1>3, <1>5
<1>9. \A i, j \in DOMAIN new : f[i] = f[j] => i = j
  BY <1>2, <1>3
<1> QED
  BY <1>3, <1>6, <1>7, <1>8, <1>9

\* A region mapped into a table that is tidy afterwards fits and is apart from
\* the regions already there, and the table was tidy before.
LEMMA TidyBeforeMap ==
  ASSUME NEW rs \in Seq(Region), NEW r \in Region, NEW new \in PushedAndSorted(rs, r),
         Tidy(new)
  PROVE  /\ Tidy(rs) /\ Fits(r)
         /\ \A i \in DOMAIN rs : Disjoint(rs[i], r)
<1>1. PICK k \in DOMAIN new, place \in [DOMAIN rs -> DOMAIN new] :
        /\ new[k] = r
        /\ \A i \in DOMAIN rs : place[i] # k /\ new[place[i]] = rs[i]
        /\ \A i, j \in DOMAIN rs : place[i] = place[j] => i = j
  BY AfterMap
<1>2. \A i \in DOMAIN rs : Fits(rs[i]) /\ Disjoint(rs[i], r)
  BY <1>1 DEF Tidy
<1>3. \A i, j \in DOMAIN rs : i # j => Disjoint(rs[i], rs[j])
  BY <1>1 DEF Tidy
<1> QED
  BY <1>1, <1>2, <1>3 DEF Tidy

\* unmap leaves a tidy table tidy.
LEMMA TidyAfterUnmap ==
  ASSUME NEW rs \in Seq(Region), NEW s, NEW new \in Retained(rs, s), Tidy(rs)
  PROVE  Tidy(new)
<1>1. PICK from \in [DOMAIN new -> DOMAIN rs] :
        /\ \A j \in DOMAIN new : new[j] = rs[from[j]]
        /\ \A i, j \in DOMAIN new : from[i] = from[j] => i = j
  BY AfterUnmap
<1> QED
  BY <1>1 DEF Tidy

\* Regions of a tidy table start at different addresses.
LEMMA StartsDiffer ==
  ASSUME BusAssumption, NEW rs \in Seq(Region), Tidy(rs), NEW i \in DOMAIN rs,
         NEW j \in DOMAIN rs, rs[i].start = rs[j].start
  PROVE  i = j
<1>1. /\ rs[i].start \in Nat /\ rs[i].size \in Nat /\ rs[i].size > 0
      /\ rs[j].start \in Nat /\ rs[j].size \in Nat /\ rs[j].size > 0
      /\ i # j => Disjoint(rs[i], rs[j])
  BY RegionNumbers DEF Tidy, Fits
<1> QED
  BY <1>1 DEF Disjoint

\* Nobody owns the topmost address of a tidy table.
LEMMA OwnedIsBelowTop ==
  ASSUME BusAssumption, NEW rs \in Seq(Region), Tidy(rs), NEW a \in Addr, NEW i \in Owners(rs, a)
  PROVE  a + 1 < AddrLimit
<1>1. i \in DOMAIN rs /\ a < rs[i].start + rs[i].size
  BY DEF Owners
<1>2. rs[i].start \in Nat /\ rs[i].size \in Nat /\ rs[i].start + rs[i].size < AddrLimit
  BY <1>1, RegionNumbers DEF Tidy, Fits
<1> QED
  BY <1>1, <1>2 DEF Addr, BusAssumption

-----------------------------------------------------------------------------
(* Each RAM has its buffer to itself                                       *)

BuffersDistinct(rs) ==
    \A i, j \in DOMAIN rs :
        rs[i].kind = "ram" /\ rs[j].kind = "ram" /\ rs[i].buf = rs[j].buf => i = j

\* The buffer of a RAM in the table is taken.
LEMMA BufferTaken ==
  ASSUME NEW rs \in Seq(Region), NEW i \in DOMAIN rs, rs[i].kind = "ram"
  PROVE  rs[i].buf \in BuffersOf(rs)
<1>1. rs[i] \in Region
  OBVIOUS
<1> QED
  BY <1>1 DEF Region, BuffersOf

\* map gives a RAM a buffer that no region has.
LEMMA MapKeepsBuffersDistinct ==
  ASSUME NEW rs \in Seq(Region), NEW r \in Region, NEW new \in PushedAndSorted(rs, r),
         BuffersDistinct(rs), r.kind = "ram" => r.buf \notin BuffersOf(rs)
  PROVE  BuffersDistinct(new)
<1>1. PICK k \in DOMAIN new, place \in [DOMAIN rs -> DOMAIN new] :
        /\ new[k] = r
        /\ \A i \in DOMAIN rs : place[i] # k /\ new[place[i]] = rs[i]
        /\ \A i, j \in DOMAIN rs : place[i] = place[j] => i = j
        /\ \A j \in DOMAIN new : j = k \/ \E i \in DOMAIN rs : j = place[i]
  BY AfterMap
<1>2. ASSUME NEW i \in DOMAIN rs, rs[i].kind = "ram", r.kind = "ram"
      PROVE  rs[i].buf # r.buf
  BY <1>2, BufferTaken
<1>3. ASSUME NEW i \in DOMAIN new, NEW j \in DOMAIN new,
             new[i].kind = "ram", new[j].kind = "ram", new[i].buf = new[j].buf
      PROVE  i = j
  <2>1. CASE i = k \/ j = k
    BY <1>1, <1>2, <1>3, <2>1
  <2>2. CASE i # k /\ j # k
    <3>1. PICK x \in DOMAIN rs, y \in DOMAIN rs : i = place[x] /\ j = place[y]
      BY <1>1, <2>2
    <3> QED BY <1>1, <1>3, <3>1 DEF BuffersDistinct
  <2> QED BY <2>1, <2>2
<1> QED
  BY <1>3 DEF BuffersDistinct

\* unmap only takes regions away.
LEMMA UnmapKeepsBuffersDistinct ==
  ASSUME NEW rs \in Seq(Region), NEW s, NEW new \in Retained(rs, s), BuffersDistinct(rs)
  PROVE  BuffersDistinct(new)
<1>1. PICK from \in [DOMAIN new -> DOMAIN rs] :
        /\ \A j \in DOMAIN new : new[j] = rs[from[j]]
        /\ \A i, j \in DOMAIN new : from[i] = from[j] => i = j
  BY AfterUnmap
<1> QED
  BY <1>1 DEF BuffersDistinct
=============================================================================
