--------------------------- MODULE PageTableProofs ---------------------------
(***************************************************************************)
(* Proofs about PageTable: walk and page_map of src/vm/ptable.rs build a   *)
(* tree of tables, and what the tables translate is the address space that *)
(* AddressSpace specifies.                                                 *)
(***************************************************************************)
EXTENDS PageTable, FiniteSetTheorems, TLAPS

-----------------------------------------------------------------------------
(* Division. *)

(* The sizes of pages, tables and addresses. *)
LEMMA Sizes ==
  PAGE_SIZE \in Nat \ {0} /\ PTE_TOP \in Nat \ {0} /\ USIZE \in Nat
BY PageTableAssumption

(* Quotient and remainder are determined by n * q + r. *)
LEMMA Quotient ==
  ASSUME NEW n \in Nat \ {0}, NEW q \in Int, NEW r \in 0..(n - 1)
  PROVE  (n * q + r) \div n = q /\ (n * q + r) % n = r
OBVIOUS

(* Every number is the quotient times the divisor, plus the remainder. *)
LEMMA QuotientOf ==
  ASSUME NEW n \in Nat \ {0}, NEW a \in Nat
  PROVE  /\ a \div n \in Nat /\ a % n \in 0..(n - 1)
         /\ a = n * (a \div n) + (a % n)
OBVIOUS

(* Two numbers with the same quotient and remainder are the same. *)
LEMMA SameDigits ==
  ASSUME NEW n \in Nat \ {0}, NEW a \in Nat, NEW b \in Nat,
         a \div n = b \div n, a % n = b % n
  PROVE  a = b
BY QuotientOf

(* PageAlignDown keeps the page. *)
LEMMA AlignDown ==
  ASSUME NEW a \in Nat
  PROVE  /\ PageAlignDown(a) \in Nat /\ PageAlignDown(a) <= a
         /\ PageAlignDown(a) \div PAGE_SIZE = a \div PAGE_SIZE
         /\ Aligned(PageAlignDown(a))
<1>. DEFINE q == a \div PAGE_SIZE
            r == a % PAGE_SIZE
<1>1. q \in Nat /\ r \in 0..(PAGE_SIZE - 1) /\ a = PAGE_SIZE * q + r
  BY Sizes, QuotientOf
<1>. HIDE DEF q, r
<1>2. PageAlignDown(a) = PAGE_SIZE * q + 0
  BY <1>1, Sizes DEF PageAlignDown, r
<1>3. (PAGE_SIZE * q + 0) \div PAGE_SIZE = q /\ (PAGE_SIZE * q + 0) % PAGE_SIZE = 0
  BY <1>1, Sizes, Quotient
<1>4. PAGE_SIZE * q \in Nat
  BY <1>1, Sizes
<1>. QED
  BY <1>1, <1>2, <1>3, <1>4, Sizes DEF Aligned, q

(* One page on. *)
LEMMA NextPage ==
  ASSUME NEW a \in Nat
  PROVE  /\ (a + PAGE_SIZE) \div PAGE_SIZE = (a \div PAGE_SIZE) + 1
         /\ Aligned(a) => Aligned(a + PAGE_SIZE)
<1>. DEFINE q == a \div PAGE_SIZE
            r == a % PAGE_SIZE
<1>1. q \in Nat /\ r \in 0..(PAGE_SIZE - 1) /\ a = PAGE_SIZE * q + r
  BY Sizes, QuotientOf
<1>. HIDE DEF q, r
<1>2. a + PAGE_SIZE = PAGE_SIZE * (q + 1) + r
  BY <1>1, Sizes
<1>3. (PAGE_SIZE * (q + 1) + r) \div PAGE_SIZE = q + 1 /\ (PAGE_SIZE * (q + 1) + r) % PAGE_SIZE = r
  BY <1>1, Sizes, Quotient
<1>. QED
  BY <1>2, <1>3 DEF Aligned, q, r

(* An aligned address is its page's. *)
LEMMA PageOfAligned ==
  ASSUME NEW a \in Nat, Aligned(a)
  PROVE  a \div PAGE_SIZE \in Nat /\ (a \div PAGE_SIZE) * PAGE_SIZE = a
BY Sizes, QuotientOf DEF Aligned

(* Aligned addresses are ordered as their pages. *)
LEMMA AlignedOrder ==
  ASSUME NEW a \in Nat, NEW b \in Nat, Aligned(a), Aligned(b)
  PROVE  a <= b <=> a \div PAGE_SIZE <= b \div PAGE_SIZE
BY Sizes DEF Aligned

(* Addresses below VA_TOP are those of the virtual pages. *)
LEMMA PageBelowTop ==
  ASSUME NEW a \in Nat, Aligned(a)
  PROVE  /\ VPages \in Nat
         /\ a < VA_TOP <=> a \div PAGE_SIZE \in 0..(VPages - 1)
         /\ ~(a < VA_TOP) => a \div PAGE_SIZE >= VPages
<1>1. VPages \in Nat /\ VA_TOP = PAGE_SIZE * VPages /\ VA_TOP \in Nat
  BY Sizes DEF VPages, VA_TOP
<1>2. ASSUME NEW n \in Nat PROVE a < PAGE_SIZE * n <=> a \div PAGE_SIZE < n
  BY Sizes DEF Aligned
<1>3. a \div PAGE_SIZE \in Nat
  BY PageOfAligned
<1>. QED
  BY <1>1, <1>2, <1>3

(* The indexes of a page at the three levels are the digits of its number. *)
LEMMA VpnDigits ==
  ASSUME NEW v \in Nat
  PROVE  /\ vpn(v * PAGE_SIZE, 0) = v % PTE_TOP
         /\ vpn(v * PAGE_SIZE, 1) = (v \div PTE_TOP) % PTE_TOP
         /\ vpn(v * PAGE_SIZE, 2) = ((v \div PTE_TOP) \div PTE_TOP) % PTE_TOP
<1>. DEFINE a == v * PAGE_SIZE
<1>1. a \in Nat /\ a \div PAGE_SIZE = v
  BY Sizes
<1>2. ASSUME NEW m \in Nat \ {0}, NEW n \in Nat \ {0}, NEW x \in Nat
      PROVE  x \div (m * n) = (x \div m) \div n
  OBVIOUS
<1>3. PAGE_SIZE * PTE_TOP \in Nat \ {0}
  BY Sizes
<1>. HIDE DEF a
<1>4. a \div (PAGE_SIZE * PTE_TOP) = v \div PTE_TOP
  BY <1>1, <1>2, Sizes
<1>5. a \div (PAGE_SIZE * PTE_TOP * PTE_TOP) = (v \div PTE_TOP) \div PTE_TOP
  <2>. DEFINE m == PAGE_SIZE * PTE_TOP
  <2>1. m \in Nat \ {0} /\ a \div m = v \div PTE_TOP
    BY <1>3, <1>4
  <2>. HIDE DEF m
  <2>2. a \div (m * PTE_TOP) = (a \div m) \div PTE_TOP
    BY <1>1, <1>2, <2>1, Sizes
  <2>. QED
    BY <2>1, <2>2 DEF m
<1>6. Span(0) = PAGE_SIZE /\ Span(1) = PAGE_SIZE * PTE_TOP
      /\ Span(2) = PAGE_SIZE * PTE_TOP * PTE_TOP
  BY DEF Span
<1>. QED
  BY <1>1, <1>4, <1>5, <1>6 DEF vpn, a

(* vpn gives an index into a table. *)
LEMMA VpnIndex ==
  ASSUME NEW v \in Nat, NEW l \in 0..2
  PROVE  vpn(v * PAGE_SIZE, l) \in Indexes
<1>1. ASSUME NEW x \in Nat PROVE x % PTE_TOP \in Indexes /\ x \div PTE_TOP \in Nat
  BY Sizes DEF Indexes
<1>2. l = 0 \/ l = 1 \/ l = 2
  OBVIOUS
<1>. QED
  BY <1>1, <1>2, VpnDigits

(* Two virtual pages that have the three indexes in common are one. *)
LEMMA VpnInjective ==
  ASSUME NEW v \in 0..(VPages - 1), NEW w \in 0..(VPages - 1),
         \A l \in 0..2 : vpn(v * PAGE_SIZE, l) = vpn(w * PAGE_SIZE, l)
  PROVE  v = w
<1>. USE Sizes
<1>1. VPages = PTE_TOP * PTE_TOP * PTE_TOP /\ VPages \in Nat
  BY DEF VPages
<1>2. ASSUME NEW x \in Nat, x < PTE_TOP * PTE_TOP * PTE_TOP
      PROVE  ((x \div PTE_TOP) \div PTE_TOP) % PTE_TOP = (x \div PTE_TOP) \div PTE_TOP
  <2>1. x \div PTE_TOP \in Nat /\ x \div PTE_TOP < PTE_TOP * PTE_TOP
    BY <1>2
  <2>2. (x \div PTE_TOP) \div PTE_TOP \in Nat /\ (x \div PTE_TOP) \div PTE_TOP < PTE_TOP
    BY <2>1
  <2>. QED
    BY <2>2
<1>3. v \in Nat /\ w \in Nat /\ v \div PTE_TOP \in Nat /\ w \div PTE_TOP \in Nat
  <2>1. v \in Nat /\ w \in Nat
    OBVIOUS
  <2>. QED
    BY <2>1, QuotientOf
<1>4. /\ v % PTE_TOP = w % PTE_TOP
      /\ (v \div PTE_TOP) % PTE_TOP = (w \div PTE_TOP) % PTE_TOP
      /\ ((v \div PTE_TOP) \div PTE_TOP) % PTE_TOP = ((w \div PTE_TOP) \div PTE_TOP) % PTE_TOP
  <2>1. \A l \in {0, 1, 2} : vpn(v * PAGE_SIZE, l) = vpn(w * PAGE_SIZE, l)
    OBVIOUS
  <2>. QED
    BY <1>3, <2>1, VpnDigits
<1>5. (v \div PTE_TOP) \div PTE_TOP = (w \div PTE_TOP) \div PTE_TOP
  BY <1>1, <1>2, <1>3, <1>4
<1>6. v \div PTE_TOP = w \div PTE_TOP
  BY <1>3, <1>4, <1>5, SameDigits
<1>. QED
  BY <1>3, <1>4, <1>6, SameDigits

-----------------------------------------------------------------------------
(* Entries. *)

FlagSets == {PTE_READ, PTE_READ + PTE_WRITE, PTE_READ + PTE_EXEC}

(* The entry walk stores for a new table leads back to that table. *)
LEMMA PointerEntry ==
  ASSUME NEW a \in Nat, Aligned(a)
  PROVE  /\ PointerTo(a) \in Nat /\ Valid(PointerTo(a)) /\ Flags(PointerTo(a)) = PTE_VALID
         /\ pte_to_phy(PointerTo(a)) = a
<1>1. a \div PAGE_SIZE \in Nat /\ (a \div PAGE_SIZE) * PAGE_SIZE = a
  BY PageOfAligned
<1>. DEFINE k == a \div PAGE_SIZE
<1>. HIDE DEF k
<1>2. /\ k * 1024 + 1 \in Nat /\ (k * 1024 + 1) % 2 = 1 /\ (k * 1024 + 1) % 1024 = 1
      /\ (k * 1024 + 1) \div 1024 = k
  BY <1>1 DEF k
<1>3. PointerTo(a) = k * 1024 + 1
  BY DEF PointerTo, phy_to_pte, PTE_VALID, k
<1>. QED
  BY <1>1, <1>2, <1>3 DEF Valid, Flags, pte_to_phy, PTE_VALID, k

(* The entry page_map stores for a page. *)
LEMMA LeafEntryParts ==
  ASSUME NEW a \in Nat, NEW f \in FlagSets
  PROVE  /\ LeafEntry(a, f) \in Nat /\ Valid(LeafEntry(a, f))
         /\ Flags(LeafEntry(a, f)) = f + 1 /\ Flags(LeafEntry(a, f)) # PTE_VALID
         /\ Flags(LeafEntry(a, f)) - PTE_VALID = f
         /\ LeafEntry(a, f) \div 1024 = a \div PAGE_SIZE
<1>. DEFINE k == a \div PAGE_SIZE
<1>1. k \in Nat
  BY Sizes, QuotientOf
<1>2. f = 2 \/ f = 6 \/ f = 10
  BY DEF FlagSets, PTE_READ, PTE_WRITE, PTE_EXEC
<1>3. LeafEntry(a, f) = k * 1024 + f + 1
  BY DEF LeafEntry, phy_to_pte, PTE_VALID
<1>. HIDE DEF k
<1>4. /\ k * 1024 + f + 1 \in Nat /\ (k * 1024 + f + 1) % 2 = 1
      /\ (k * 1024 + f + 1) % 1024 = f + 1 /\ (k * 1024 + f + 1) \div 1024 = k
  BY <1>1, <1>2
<1>5. f + 1 # 1 /\ (f + 1) - 1 = f
  BY <1>2
<1>6. LeafEntry(a, f) \div 1024 = k /\ LeafEntry(a, f) % 1024 = f + 1
      /\ LeafEntry(a, f) % 2 = 1 /\ LeafEntry(a, f) \in Nat
  BY <1>3, <1>4
<1>. QED
  BY <1>5, <1>6 DEF Valid, Flags, PTE_VALID, k

(* A zero entry is neither a pointer nor a leaf. *)
LEMMA ZeroEntry ==
  /\ ~Valid(0) /\ ~Pointer(0) /\ ~Leaf(0)
  /\ ZeroPage \in [Indexes -> Nat] /\ \A i \in Indexes : ZeroPage[i] = 0
BY DEF Valid, Pointer, Leaf, PTE_VALID, ZeroPage

(* What the callers of page_map pass. *)
CallOK(c) ==
  /\ c.va \in 0..(USIZE - 1) /\ c.pa \in Nat /\ c.size \in Nat
  /\ c.flag \in FlagSets
  /\ c.size = 0 => Aligned(c.va) /\ c.va # 0
  /\ c.va + c.size <= USIZE

(* The calls of the model are such calls. *)
LEMMA CallsOK == \A c \in Calls : CallOK(c)
BY PageTableAssumption DEF CallOK, FlagSets

(* page_map works on the pages that hold the bytes asked for; with no byte *)
(* asked for, the wrapping size - 1 gives the page before.                 *)
LEMMA RequestedPages ==
  ASSUME NEW c, CallOK(c)
  PROVE  /\ PageAlignDown(c.va) \in Nat /\ Aligned(PageAlignDown(c.va))
         /\ LastPage(c) \in 0..(USIZE - 1) /\ Aligned(LastPage(c))
         /\ PageAlignDown(c.va) \div PAGE_SIZE = PageRequest(c).next
         /\ LastPage(c) \div PAGE_SIZE = PageRequest(c).last
         /\ c.pa \div PAGE_SIZE = PageRequest(c).frame
         /\ c.flag = PageRequest(c).flags
<1>. DEFINE va == c.va
            n == c.size
            e == (va + ((n - 1) % USIZE)) % USIZE
<1>1. /\ va \in 0..(USIZE - 1) /\ n \in Nat /\ va + n <= USIZE /\ va \in Nat /\ USIZE \in Nat
      /\ n = 0 => Aligned(va) /\ va # 0
  BY Sizes DEF CallOK
<1>. HIDE DEF va, n
<1>2. e = va + n - 1 /\ va + n - 1 \in 0..(USIZE - 1)
  BY <1>1
<1>3. e \in Nat /\ e \in 0..(USIZE - 1)
  BY <1>2, <1>1
<1>4. LastPage(c) = PageAlignDown(e)
  BY DEF LastPage, va, n
<1>. HIDE DEF e
<1>5. /\ PageAlignDown(e) \in Nat /\ PageAlignDown(e) <= e
      /\ PageAlignDown(e) \div PAGE_SIZE = e \div PAGE_SIZE
      /\ Aligned(PageAlignDown(e))
  BY <1>3, AlignDown
<1>6. /\ PageAlignDown(va) \in Nat /\ Aligned(PageAlignDown(va))
      /\ PageAlignDown(va) \div PAGE_SIZE = va \div PAGE_SIZE
  BY <1>1, AlignDown
<1>7. e \div PAGE_SIZE = IF n = 0 THEN (va \div PAGE_SIZE) - 1 ELSE (va + n - 1) \div PAGE_SIZE
  <2>1. CASE n = 0
    <3>1. e = va - 1 /\ va # 0 /\ va % PAGE_SIZE = 0
      BY <1>1, <1>2, <2>1 DEF Aligned
    <3>2. (va - 1) \div PAGE_SIZE = (va \div PAGE_SIZE) - 1
      BY <1>1, <3>1, Sizes
    <3>. QED
      BY <2>1, <3>1, <3>2
  <2>. QED
    BY <1>2, <2>1
<1>. QED
  BY <1>1, <1>3, <1>4, <1>5, <1>6, <1>7 DEF PageRequest, va, n

-----------------------------------------------------------------------------
(* The tree. *)

(* lev, up and at give the level of every table, and the table and the     *)
(* index of the entry that points to it.  An entry above the last level is *)
(* invalid or points to a table that has it as its place; one of the last  *)
(* level is invalid or a translation.                                      *)
Tree(lev, up, at) ==
  /\ lev \in [DOMAIN tables -> 0..2]
  /\ up \in [DOMAIN tables \ {root} -> DOMAIN tables]
  /\ at \in [DOMAIN tables \ {root} -> Indexes]
  /\ \A t \in DOMAIN tables : lev[t] = 2 <=> t = root
  /\ \A t \in DOMAIN tables \ {root} :
       /\ lev[up[t]] = lev[t] + 1
       /\ tables[up[t]][at[t]] = PointerTo(t)
  /\ \A t \in DOMAIN tables : \A i \in Indexes :
       Valid(tables[t][i]) =>
         IF lev[t] = 0 THEN Flags(tables[t][i]) # PTE_VALID
         ELSE \E s \in DOMAIN tables \ {root} : up[s] = t /\ at[s] = i

TablesInv ==
  /\ tables \in [DOMAIN tables -> [Indexes -> Nat]]
  /\ DOMAIN tables \subseteq Nat \ {0} /\ \A t \in DOMAIN tables : Aligned(t)
  /\ IsFiniteSet(DOMAIN tables)
  /\ avail \subseteq Nat \ {0} /\ \A a \in avail : Aligned(a)
  /\ avail \cap DOMAIN tables = {}

(* Before the root table there is none; then they are a tree under it. *)
TreeInv ==
  /\ root = 0 => DOMAIN tables = {}
  /\ root # 0 => root \in DOMAIN tables /\ \E lev, up, at : Tree(lev, up, at)

(* The entry walk follows leads one level down, to a table with one place. *)
LEMMA Descend ==
  ASSUME TablesInv, NEW lev, NEW up, NEW at, Tree(lev, up, at),
         NEW t \in DOMAIN tables, lev[t] # 0, NEW i \in Indexes, Valid(tables[t][i])
  PROVE  LET s == pte_to_phy(tables[t][i])
         IN  /\ s \in DOMAIN tables \ {root} /\ lev[s] = lev[t] - 1
             /\ up[s] = t /\ at[s] = i
             /\ tables[t][i] = PointerTo(s) /\ Pointer(tables[t][i])
<1>1. PICK s \in DOMAIN tables \ {root} : up[s] = t /\ at[s] = i
  BY DEF Tree
<1>2. tables[t][i] = PointerTo(s) /\ lev[t] = lev[s] + 1
  BY <1>1 DEF Tree
<1>3. lev[s] \in 0..2
  BY DEF Tree
<1>4. s \in Nat /\ Aligned(s)
  BY DEF TablesInv
<1>5. pte_to_phy(tables[t][i]) = s /\ Pointer(tables[t][i])
  BY <1>2, <1>4, PointerEntry DEF Pointer
<1>. QED
  BY <1>1, <1>2, <1>3, <1>5

(* The entries and tables that a walk for page v meets. *)
Top(v)      == Lookup(root, v, 2)
MiddleOf(v) == pte_to_phy(Top(v))
Mid(v)      == Lookup(MiddleOf(v), v, 1)
LastOf(v)   == pte_to_phy(Mid(v))
Low(v)      == Lookup(LastOf(v), v, 0)

(* A walk from the root for page v meets valid entries that are pointers, to *)
(* tables one level down whose place is the index of v.                    *)
LEMMA Path ==
  ASSUME TablesInv, root \in DOMAIN tables, NEW lev, NEW up, NEW at, Tree(lev, up, at),
         NEW v \in Nat
  PROVE  /\ \A l \in 0..2 : vpn(v * PAGE_SIZE, l) \in Indexes
         /\ Top(v) \in Nat /\ lev[root] = 2
         /\ Valid(Top(v)) =>
              /\ Pointer(Top(v)) /\ Mid(v) \in Nat
              /\ MiddleOf(v) \in DOMAIN tables \ {root} /\ lev[MiddleOf(v)] = 1
              /\ up[MiddleOf(v)] = root /\ at[MiddleOf(v)] = vpn(v * PAGE_SIZE, 2)
         /\ Valid(Top(v)) /\ Valid(Mid(v)) =>
              /\ Pointer(Mid(v)) /\ Low(v) \in Nat
              /\ LastOf(v) \in DOMAIN tables \ {root} /\ lev[LastOf(v)] = 0
              /\ up[LastOf(v)] = MiddleOf(v) /\ at[LastOf(v)] = vpn(v * PAGE_SIZE, 1)
              /\ Valid(Low(v)) => Leaf(Low(v))
         /\ LeafOf(v) = IF Valid(Top(v)) /\ Valid(Mid(v)) THEN Low(v) ELSE 0
<1>1. \A l \in 0..2 : vpn(v * PAGE_SIZE, l) \in Indexes
  BY VpnIndex
<1>2. \A t \in DOMAIN tables : \A i \in Indexes : tables[t][i] \in Nat
  BY DEF TablesInv
<1>3. lev[root] = 2
  BY DEF Tree
<1>4. Top(v) \in Nat
  BY <1>1, <1>2 DEF Top, Lookup
<1>5. Valid(Top(v)) =>
              /\ Pointer(Top(v))
              /\ MiddleOf(v) \in DOMAIN tables \ {root} /\ lev[MiddleOf(v)] = 1
              /\ up[MiddleOf(v)] = root /\ at[MiddleOf(v)] = vpn(v * PAGE_SIZE, 2)
  BY <1>1, <1>3, Descend DEF Top, MiddleOf, Lookup
<1>6. Valid(Top(v)) => Mid(v) \in Nat
  BY <1>1, <1>2, <1>5 DEF Mid, Lookup
<1>7. Valid(Top(v)) /\ Valid(Mid(v)) =>
              /\ Pointer(Mid(v))
              /\ LastOf(v) \in DOMAIN tables \ {root} /\ lev[LastOf(v)] = 0
              /\ up[LastOf(v)] = MiddleOf(v) /\ at[LastOf(v)] = vpn(v * PAGE_SIZE, 1)
  BY <1>1, <1>5, Descend DEF Mid, LastOf, Lookup
<1>8. Valid(Top(v)) /\ Valid(Mid(v)) => Low(v) \in Nat /\ (Valid(Low(v)) => Leaf(Low(v)))
  BY <1>1, <1>2, <1>7 DEF Low, Lookup, Leaf, Tree
<1>9. LeafOf(v) = IF Valid(Top(v)) /\ Valid(Mid(v)) THEN Low(v) ELSE 0
  <2>1. root # 0
    BY DEF TablesInv
  <2>2. /\ Pointer(Top(v)) <=> Valid(Top(v))
        /\ Valid(Top(v)) => (Pointer(Mid(v)) <=> Valid(Mid(v)))
    BY <1>5, <1>7 DEF Pointer
  <2>. QED
    BY <2>1, <2>2 DEF LeafOf, Top, MiddleOf, Mid, LastOf, Low
<1>. QED
  BY <1>1, <1>3, <1>4, <1>5, <1>6, <1>7, <1>8, <1>9

(* The step of walk that links page pg to entry i of table t. *)
LinkTable(t, i, pg) ==
  /\ avail' = avail \ {pg} /\ root' = root
  /\ tables' = [s \in DOMAIN tables \cup {pg} |->
                  IF s = pg THEN ZeroPage
                  ELSE IF s = t THEN [tables[s] EXCEPT ![i] = PointerTo(pg)]
                  ELSE tables[s]]

(* walk adds a table: the tree grows, and no translation changes. *)
LEMMA AddTable ==
  ASSUME TablesInv, root \in DOMAIN tables, NEW lev, NEW up, NEW at, Tree(lev, up, at),
         NEW t \in DOMAIN tables, lev[t] # 0, NEW i \in Indexes, ~Valid(tables[t][i]),
         NEW pg \in avail, LinkTable(t, i, pg)
  PROVE  /\ TablesInv' /\ TreeInv'
         /\ \A v \in Nat : LeafOf(v)' = LeafOf(v)
         /\ DOMAIN tables' = DOMAIN tables \cup {pg}
         /\ \A s \in DOMAIN tables : \A j \in Indexes :
              tables'[s][j] = IF s = t /\ j = i THEN PointerTo(pg) ELSE tables[s][j]
<1>. DEFINE e == PointerTo(pg)
<1>1. pg \in Nat \ {0} /\ Aligned(pg) /\ pg \notin DOMAIN tables
  BY DEF TablesInv
<1>2. e \in Nat /\ Valid(e) /\ Flags(e) = PTE_VALID /\ pte_to_phy(e) = pg
  BY <1>1, PointerEntry
<1>. HIDE DEF e
<1>3. DOMAIN tables' = DOMAIN tables \cup {pg} /\ root' = root /\ avail' = avail \ {pg}
  BY DEF LinkTable
<1>4. tables \in [DOMAIN tables -> [Indexes -> Nat]]
  BY DEF TablesInv
<1>5. tables'[pg] = ZeroPage /\ tables'[t] = [tables[t] EXCEPT ![i] = e]
      /\ \A s \in DOMAIN tables \ {t} : tables'[s] = tables[s]
  BY <1>1 DEF e, LinkTable
<1>6. \A s \in DOMAIN tables : \A j \in Indexes :
        tables'[s][j] = IF s = t /\ j = i THEN e ELSE tables[s][j]
  BY <1>4, <1>5
<1>7. \A j \in Indexes : tables'[pg][j] = 0
  BY <1>5, ZeroEntry
<1>8. TablesInv'
  <2>1. \A s \in DOMAIN tables' : tables'[s] \in [Indexes -> Nat]
    BY <1>2, <1>3, <1>4, <1>5, ZeroEntry
  <2>2. tables' \in [DOMAIN tables' -> [Indexes -> Nat]]
    <3>1. tables' = [s \in DOMAIN tables' |-> tables'[s]]
      BY DEF LinkTable
    <3>. QED
      BY <2>1, <3>1
  <2>3. IsFiniteSet(DOMAIN tables')
    BY <1>3, FS_AddElement DEF TablesInv
  <2>. QED
    BY <1>1, <1>3, <2>2, <2>3 DEF TablesInv
<1>9. PICK L, U, A :
        /\ L = [s \in DOMAIN tables \cup {pg} |-> IF s = pg THEN lev[t] - 1 ELSE lev[s]]
        /\ U = [s \in (DOMAIN tables \cup {pg}) \ {root} |-> IF s = pg THEN t ELSE up[s]]
        /\ A = [s \in (DOMAIN tables \cup {pg}) \ {root} |-> IF s = pg THEN i ELSE at[s]]
  OBVIOUS
<1>10. /\ lev \in [DOMAIN tables -> 0..2]
       /\ up \in [DOMAIN tables \ {root} -> DOMAIN tables]
       /\ at \in [DOMAIN tables \ {root} -> Indexes]
       /\ \A s \in DOMAIN tables : lev[s] = 2 <=> s = root
       /\ lev[t] \in {1, 2}
  BY DEF Tree
<1>11. /\ L \in [DOMAIN tables' -> 0..2]
       /\ U \in [DOMAIN tables' \ {root} -> DOMAIN tables']
       /\ A \in [DOMAIN tables' \ {root} -> Indexes]
  BY <1>3, <1>9, <1>10
<1>12. /\ L[pg] = lev[t] - 1 /\ U[pg] = t /\ A[pg] = i
       /\ \A s \in DOMAIN tables : L[s] = lev[s]
       /\ \A s \in DOMAIN tables \ {root} : U[s] = up[s] /\ A[s] = at[s]
  BY <1>1, <1>9
<1>13. \A s \in DOMAIN tables' : L[s] = 2 <=> s = root
  BY <1>1, <1>3, <1>10, <1>12
<1>14. \A s \in DOMAIN tables' \ {root} :
         L[U[s]] = L[s] + 1 /\ tables'[U[s]][A[s]] = PointerTo(s)
  <2>. SUFFICES ASSUME NEW s \in DOMAIN tables' \ {root}
               PROVE  L[U[s]] = L[s] + 1 /\ tables'[U[s]][A[s]] = PointerTo(s)
    OBVIOUS
  <2>1. CASE s = pg
    BY <1>6, <1>10, <1>12, <2>1 DEF e
  <2>2. CASE s # pg
    <3>1. s \in DOMAIN tables \ {root}
      BY <1>3, <2>2
    <3>2. lev[up[s]] = lev[s] + 1 /\ tables[up[s]][at[s]] = PointerTo(s) /\ Valid(PointerTo(s))
      BY <3>1, PointerEntry DEF Tree, TablesInv
    <3>3. up[s] \in DOMAIN tables /\ at[s] \in Indexes
      BY <1>10, <3>1
    <3>4. ~(up[s] = t /\ at[s] = i)
      BY <3>2
    <3>. QED
      BY <1>6, <1>12, <3>1, <3>2, <3>3, <3>4
  <2>. QED
    BY <2>1, <2>2
<1>15. \A s \in DOMAIN tables' : \A j \in Indexes :
         Valid(tables'[s][j]) =>
           IF L[s] = 0 THEN Flags(tables'[s][j]) # PTE_VALID
           ELSE \E q \in DOMAIN tables' \ {root} : U[q] = s /\ A[q] = j
  <2>. SUFFICES ASSUME NEW s \in DOMAIN tables', NEW j \in Indexes, Valid(tables'[s][j])
               PROVE  IF L[s] = 0 THEN Flags(tables'[s][j]) # PTE_VALID
                      ELSE \E q \in DOMAIN tables' \ {root} : U[q] = s /\ A[q] = j
    OBVIOUS
  <2>1. s # pg /\ s \in DOMAIN tables
    BY <1>3, <1>7, ZeroEntry
  <2>2. CASE s = t /\ j = i
    BY <1>1, <1>3, <1>12, <2>1, <2>2
  <2>3. CASE ~(s = t /\ j = i)
    <3>1. Valid(tables[s][j]) /\ tables'[s][j] = tables[s][j] /\ L[s] = lev[s]
      BY <1>6, <1>12, <2>1, <2>3
    <3>2. IF lev[s] = 0 THEN Flags(tables[s][j]) # PTE_VALID
          ELSE \E q \in DOMAIN tables \ {root} : up[q] = s /\ at[q] = j
      BY <2>1, <3>1 DEF Tree
    <3>. QED
      BY <1>3, <1>12, <3>1, <3>2
  <2>. QED
    BY <2>2, <2>3
<1>16. Tree(L, U, A)'
  BY <1>3, <1>11, <1>13, <1>14, <1>15 DEF Tree
<1>17. TreeInv'
  BY <1>3, <1>16 DEF TreeInv, TablesInv
<1>18. ASSUME NEW v \in Nat PROVE LeafOf(v)' = LeafOf(v)
  <2>1. /\ \A l \in 0..2 : vpn(v * PAGE_SIZE, l) \in Indexes
        /\ lev[root] = 2
        /\ Valid(Top(v)) =>
             MiddleOf(v) \in DOMAIN tables \ {root} /\ lev[MiddleOf(v)] = 1
        /\ Valid(Top(v)) /\ Valid(Mid(v)) =>
             LastOf(v) \in DOMAIN tables \ {root} /\ lev[LastOf(v)] = 0
        /\ LeafOf(v) = IF Valid(Top(v)) /\ Valid(Mid(v)) THEN Low(v) ELSE 0
    BY Path
  <2>2. /\ Pointer(Top(v)) <=> Valid(Top(v))
        /\ Valid(Top(v)) => (Pointer(Mid(v)) <=> Valid(Mid(v)))
    BY Path DEF Pointer
  <2>. DEFINE d == vpn(v * PAGE_SIZE, 2)
              f == vpn(v * PAGE_SIZE, 1)
              g == vpn(v * PAGE_SIZE, 0)
  <2>3. d \in Indexes /\ f \in Indexes /\ g \in Indexes
    BY <2>1
  <2>4. /\ Top(v) = tables[root][d] /\ Top(v)' = tables'[root][d]
        /\ Mid(v) = tables[MiddleOf(v)][f] /\ Mid(v)' = tables'[MiddleOf(v)'][f]
        /\ Low(v) = tables[LastOf(v)][g] /\ Low(v)' = tables'[LastOf(v)'][g]
        /\ MiddleOf(v)' = pte_to_phy(Top(v)') /\ LastOf(v)' = pte_to_phy(Mid(v)')
        /\ MiddleOf(v) = pte_to_phy(Top(v)) /\ LastOf(v) = pte_to_phy(Mid(v))
    BY <1>3 DEF Top, Mid, Low, Lookup, MiddleOf, LastOf
  <2>7. LeafOf(v)' = IF Pointer(Top(v)') /\ Pointer(Mid(v)') THEN Low(v)' ELSE 0
    <3>1. root' # 0
      BY <1>3 DEF TablesInv
    <3>. QED
      BY <3>1 DEF LeafOf, Top, Mid, Low, MiddleOf, LastOf
  <2>. HIDE DEF d, f, g
  <2>5. CASE root = t /\ d = i
    <3>1. ~Valid(Top(v)) /\ MiddleOf(v)' = pg
      BY <1>2, <1>6, <2>3, <2>4, <2>5
    <3>2. ~Pointer(Mid(v)')
      BY <1>7, <2>3, <2>4, <3>1, ZeroEntry
    <3>. QED
      BY <2>1, <2>7, <3>1, <3>2
  <2>6. CASE ~(root = t /\ d = i)
    <3>1. Top(v)' = Top(v) /\ MiddleOf(v)' = MiddleOf(v)
      BY <1>6, <2>3, <2>4, <2>6
    <3>2. CASE Valid(Top(v)) /\ MiddleOf(v) = t /\ f = i
      <4>1. ~Valid(Mid(v)) /\ LastOf(v)' = pg
        BY <1>2, <1>6, <2>3, <2>4, <3>1, <3>2
      <4>2. Low(v)' = 0
        BY <1>7, <2>3, <2>4, <4>1
      <4>. QED
        BY <2>1, <2>7, <4>1, <4>2
    <3>3. CASE Valid(Top(v)) /\ ~(MiddleOf(v) = t /\ f = i)
      <4>1. Mid(v)' = Mid(v) /\ LastOf(v)' = LastOf(v)
        BY <1>6, <2>1, <2>3, <2>4, <3>1, <3>3
      <4>2. CASE Valid(Mid(v))
        <5>1. LastOf(v) # t
          BY <2>1, <3>3, <4>2
        <5>2. Low(v)' = Low(v)
          BY <1>6, <2>1, <2>3, <2>4, <3>3, <4>1, <4>2, <5>1
        <5>. QED
          BY <2>1, <2>2, <2>7, <3>1, <3>3, <4>1, <4>2, <5>2
      <4>3. CASE ~Valid(Mid(v))
        BY <2>1, <2>2, <2>7, <3>3, <4>1, <4>3
      <4>. QED
        BY <4>2, <4>3
    <3>4. CASE ~Valid(Top(v))
      BY <2>1, <2>2, <2>7, <3>1, <3>4
    <3>. QED
      BY <3>2, <3>3, <3>4
  <2>. QED
    BY <2>5, <2>6
<1>. QED
  BY <1>3, <1>6, <1>8, <1>17, <1>18 DEF e

(* The step of page_map that stores e into entry i of table t. *)
StoreLeaf(t, i, e) ==
  tables' = [tables EXCEPT ![t][i] = e] /\ avail' = avail /\ root' = root

(* page_map maps page w: the tree is as it was, and no other translation   *)
(* changes, because no other page has the same three indexes.              *)
LEMMA MapLeaf ==
  ASSUME TablesInv, root \in DOMAIN tables, NEW lev, NEW up, NEW at, Tree(lev, up, at),
         NEW w \in 0..(VPages - 1), Valid(Top(w)), Valid(Mid(w)),
         NEW e \in Nat, Valid(e), Flags(e) # PTE_VALID,
         StoreLeaf(LastOf(w), vpn(w * PAGE_SIZE, 0), e)
  PROVE  /\ TablesInv' /\ TreeInv' /\ DOMAIN tables' = DOMAIN tables
         /\ LeafOf(w)' = e
         /\ \A v \in 0..(VPages - 1) : v # w => LeafOf(v)' = LeafOf(v)
<1>. DEFINE t == LastOf(w)
            i == vpn(w * PAGE_SIZE, 0)
<1>1. /\ i \in Indexes /\ t \in DOMAIN tables /\ lev[t] = 0 /\ t # root
      /\ MiddleOf(w) \in DOMAIN tables \ {root} /\ lev[MiddleOf(w)] = 1
      /\ up[MiddleOf(w)] = root /\ at[MiddleOf(w)] = vpn(w * PAGE_SIZE, 2)
      /\ up[t] = MiddleOf(w) /\ at[t] = vpn(w * PAGE_SIZE, 1)
  <2>1. w \in Nat
    OBVIOUS
  <2>. QED
    BY <2>1, Path
<1>2. StoreLeaf(t, i, e)
  OBVIOUS
<1>. HIDE DEF t, i
<1>3. tables \in [DOMAIN tables -> [Indexes -> Nat]]
  BY DEF TablesInv
<1>4. DOMAIN tables' = DOMAIN tables /\ root' = root /\ avail' = avail
      /\ tables' \in [DOMAIN tables' -> [Indexes -> Nat]]
  <2>. DEFINE r == [tables[t] EXCEPT ![i] = e]
  <2>1. r \in [Indexes -> Nat]
    BY <1>1, <1>3
  <2>2. tables' = [tables EXCEPT ![t] = r] /\ root' = root /\ avail' = avail
    BY <1>2 DEF StoreLeaf
  <2>. HIDE DEF r
  <2>. QED
    BY <1>1, <1>3, <2>1, <2>2
<1>5. \A s \in DOMAIN tables : \A j \in Indexes :
        tables'[s][j] = IF s = t /\ j = i THEN e ELSE tables[s][j]
  BY <1>1, <1>2, <1>3 DEF StoreLeaf
<1>6. TablesInv'
  BY <1>4 DEF TablesInv
<1>7. /\ lev \in [DOMAIN tables -> 0..2]
      /\ up \in [DOMAIN tables \ {root} -> DOMAIN tables]
      /\ at \in [DOMAIN tables \ {root} -> Indexes]
      /\ \A s \in DOMAIN tables : lev[s] = 2 <=> s = root
  BY DEF Tree
<1>8. \A s \in DOMAIN tables \ {root} :
        lev[up[s]] = lev[s] + 1 /\ tables'[up[s]][at[s]] = PointerTo(s)
  <2>. SUFFICES ASSUME NEW s \in DOMAIN tables \ {root}
               PROVE  lev[up[s]] = lev[s] + 1 /\ tables'[up[s]][at[s]] = PointerTo(s)
    OBVIOUS
  <2>1. lev[up[s]] = lev[s] + 1 /\ tables[up[s]][at[s]] = PointerTo(s)
    BY DEF Tree
  <2>2. up[s] # t /\ up[s] \in DOMAIN tables /\ at[s] \in Indexes
    BY <1>1, <1>7, <2>1
  <2>. QED
    BY <1>5, <2>1, <2>2
<1>9. \A s \in DOMAIN tables : \A j \in Indexes :
        Valid(tables'[s][j]) =>
          IF lev[s] = 0 THEN Flags(tables'[s][j]) # PTE_VALID
          ELSE \E q \in DOMAIN tables \ {root} : up[q] = s /\ at[q] = j
  BY <1>1, <1>5 DEF Tree
<1>10. Tree(lev, up, at)'
  BY <1>4, <1>7, <1>8, <1>9 DEF Tree
<1>11. TreeInv'
  BY <1>4, <1>10 DEF TreeInv, TablesInv
<1>12. ASSUME NEW v \in 0..(VPages - 1)
       PROVE  LeafOf(v)' = IF v = w THEN e ELSE LeafOf(v)
  <2>1. v \in Nat
    OBVIOUS
  <2>2. /\ \A l \in 0..2 : vpn(v * PAGE_SIZE, l) \in Indexes
        /\ lev[root] = 2
        /\ Valid(Top(v)) =>
              /\ Pointer(Top(v))
              /\ MiddleOf(v) \in DOMAIN tables \ {root} /\ lev[MiddleOf(v)] = 1
              /\ up[MiddleOf(v)] = root /\ at[MiddleOf(v)] = vpn(v * PAGE_SIZE, 2)
        /\ Valid(Top(v)) /\ Valid(Mid(v)) =>
              /\ Pointer(Mid(v))
              /\ LastOf(v) \in DOMAIN tables \ {root} /\ lev[LastOf(v)] = 0
              /\ up[LastOf(v)] = MiddleOf(v) /\ at[LastOf(v)] = vpn(v * PAGE_SIZE, 1)
        /\ LeafOf(v) = IF Valid(Top(v)) /\ Valid(Mid(v)) THEN Low(v) ELSE 0
    BY <2>1, Path
  <2>. DEFINE d == vpn(v * PAGE_SIZE, 2)
              f == vpn(v * PAGE_SIZE, 1)
              g == vpn(v * PAGE_SIZE, 0)
  <2>3. d \in Indexes /\ f \in Indexes /\ g \in Indexes
    BY <2>2
  <2>4. /\ Top(v) = tables[root][d] /\ Top(v)' = tables'[root][d]
        /\ Mid(v) = tables[MiddleOf(v)][f] /\ Mid(v)' = tables'[MiddleOf(v)'][f]
        /\ Low(v) = tables[LastOf(v)][g] /\ Low(v)' = tables'[LastOf(v)'][g]
        /\ MiddleOf(v)' = pte_to_phy(Top(v)') /\ LastOf(v)' = pte_to_phy(Mid(v)')
        /\ MiddleOf(v) = pte_to_phy(Top(v)) /\ LastOf(v) = pte_to_phy(Mid(v))
    BY <1>4 DEF Top, Mid, Low, Lookup, MiddleOf, LastOf
  <2>5. LeafOf(v)' = IF Pointer(Top(v)') /\ Pointer(Mid(v)') THEN Low(v)' ELSE 0
    <3>1. root' # 0
      BY <1>4 DEF TablesInv
    <3>. QED
      BY <3>1 DEF LeafOf, Top, Mid, Low, MiddleOf, LastOf
  <2>6. v = w => Valid(Top(v)) /\ Valid(Mid(v)) /\ LastOf(v) = t /\ g = i
    BY DEF t, i
  <2>7. d = vpn(w * PAGE_SIZE, 2) /\ f = vpn(w * PAGE_SIZE, 1) /\ g = i => v = w
    <3>. SUFFICES ASSUME d = vpn(w * PAGE_SIZE, 2), f = vpn(w * PAGE_SIZE, 1), g = i PROVE v = w
      OBVIOUS
    <3>1. \A l \in 0..2 : vpn(v * PAGE_SIZE, l) = vpn(w * PAGE_SIZE, l)
      <4>1. \A l \in 0..2 : l = 0 \/ l = 1 \/ l = 2
        OBVIOUS
      <4>. QED
        BY <4>1 DEF i
    <3>. QED
      BY <3>1, VpnInjective
  <2>. HIDE DEF d, f, g
  <2>8. Top(v)' = Top(v) /\ MiddleOf(v)' = MiddleOf(v)
    BY <1>1, <1>5, <2>3, <2>4
  <2>9. CASE Valid(Top(v)) /\ Valid(Mid(v))
    <3>1. MiddleOf(v) # t
      BY <1>1, <2>2, <2>9
    <3>2. Mid(v)' = Mid(v) /\ LastOf(v)' = LastOf(v)
      BY <1>5, <2>2, <2>3, <2>4, <2>8, <2>9, <3>1
    <3>3. LastOf(v) = t /\ g = i <=> v = w
      <4>1. LastOf(v) = t => d = vpn(w * PAGE_SIZE, 2) /\ f = vpn(w * PAGE_SIZE, 1)
        BY <1>1, <2>2, <2>9 DEF d, f
      <4>. QED
        BY <2>6, <2>7, <4>1
    <3>4. Low(v)' = IF v = w THEN e ELSE Low(v)
      BY <1>5, <2>2, <2>3, <2>4, <2>9, <3>2, <3>3
    <3>. QED
      BY <2>2, <2>5, <2>8, <2>9, <3>2, <3>4
  <2>10. CASE Valid(Top(v)) /\ ~Valid(Mid(v))
    <3>1. MiddleOf(v) # t
      BY <1>1, <2>2, <2>10
    <3>2. Mid(v)' = Mid(v)
      BY <1>5, <2>2, <2>3, <2>4, <2>8, <2>10, <3>1
    <3>. QED
      BY <2>2, <2>5, <2>6, <2>10, <3>2 DEF Pointer
  <2>11. CASE ~Valid(Top(v))
    BY <2>2, <2>5, <2>6, <2>8, <2>11 DEF Pointer
  <2>. QED
    BY <2>9, <2>10, <2>11
<1>. QED
  BY <1>4, <1>6, <1>11, <1>12

-----------------------------------------------------------------------------
(* The inductive invariant. *)

CurrentPage == start \div PAGE_SIZE

(* walk is on the path of the page that page_map has come to. *)
WalkState ==
  /\ start <= end /\ start < VA_TOP
  /\ \/ level = 2 /\ table = root
     \/ level = 1 /\ Valid(Top(CurrentPage)) /\ table = MiddleOf(CurrentPage)
     \/ /\ level = 0 /\ Valid(Top(CurrentPage)) /\ Valid(Mid(CurrentPage))
        /\ table = LastOf(CurrentPage)

CallInv ==
  /\ pc \in {"root", "idle", "loop", "walk", "panicked"}
  /\ result \in {"none", "ok", "err"}
  /\ start \in Nat /\ end \in 0..(USIZE - 1) /\ phys \in Nat
  /\ Aligned(start) /\ Aligned(end)
  /\ level \in 0..2 /\ table \in DOMAIN tables \cup {0}
  /\ pc \in {"loop", "walk"} => flag \in FlagSets /\ result = "none"
  /\ pc = "root" => root = 0 /\ result = "none"
  /\ pc \in {"idle", "loop", "walk"} => root # 0
  /\ pc = "walk" => WalkState

PageTableInv == TablesInv /\ TreeInv /\ CallInv /\ FailureExplained

(* The map that the hardware sees. *)
SpaceMap == [v \in Mapped |-> Translate(v)]

(* The translations depend on the leaves only. *)
LEMMA SameLeaves ==
  ASSUME \A v \in 0..(VPages - 1) : LeafOf(v)' = LeafOf(v)
  PROVE  Mapped' = Mapped /\ SpaceMap' = SpaceMap
<1>1. Mapped' = Mapped
  BY DEF Mapped
<1>2. \A v \in Mapped : Translate(v)' = Translate(v)
  BY DEF Translate, Mapped
<1>. QED
  BY <1>1, <1>2 DEF SpaceMap

(* What depends on the tables only. *)
LEMMA SameTables ==
  ASSUME tables' = tables, root' = root
  PROVE  /\ \A v : LeafOf(v)' = LeafOf(v) /\ Top(v)' = Top(v) /\ Mid(v)' = Mid(v)
         /\ \A v : MiddleOf(v)' = MiddleOf(v) /\ LastOf(v)' = LastOf(v)
         /\ Mapped' = Mapped /\ SpaceMap' = SpaceMap
         /\ TreeInv => TreeInv'
         /\ TablesInv /\ avail' = avail => TablesInv'
<1>1. \A v : LeafOf(v)' = LeafOf(v)
  BY DEF LeafOf, Lookup
<1>2. \A v : /\ Top(v)' = Top(v) /\ Mid(v)' = Mid(v)
             /\ MiddleOf(v)' = MiddleOf(v) /\ LastOf(v)' = LastOf(v)
  BY DEF Top, Mid, MiddleOf, LastOf, Lookup
<1>3. Mapped' = Mapped /\ SpaceMap' = SpaceMap
  BY <1>1, SameLeaves
<1>4. TreeInv => TreeInv'
  <2>1. \A lev, up, at : Tree(lev, up, at)' <=> Tree(lev, up, at)
    BY DEF Tree
  <2>. QED
    BY <2>1 DEF TreeInv
<1>5. TablesInv /\ avail' = avail => TablesInv'
  BY DEF TablesInv
<1>. QED
  BY <1>1, <1>2, <1>3, <1>4, <1>5

(* A non-empty set of pages has a lowest one. *)
LEMMA LowestIsMember ==
  ASSUME NEW S \in SUBSET Nat, S # {}
  PROVE  Lowest(S) \in S
<1>1. \E x \in S : \A y \in S : ~(<<y, x>> \in OpToRel(<, Nat))
  BY NatLessThanWellFounded, WFMin, Zenon
<1>. DEFINE Less == {ss \in Nat \X Nat : ss[1] < ss[2]}
<1>2. OpToRel(<, Nat) = Less
  BY Zenon DEF OpToRel
<1>3. \E x \in S : \A y \in S : <<y, x>> \notin Less
  BY <1>1, <1>2, Zenon
<1>4. \A x, y \in Nat : y < x => <<y, x>> \in Less
  OBVIOUS
<1>. HIDE DEF Less
<1>5. PICK x \in S : \A y \in S : <<y, x>> \notin Less
  BY <1>3
<1>6. \A y \in S : x <= y
  <2>. SUFFICES ASSUME NEW y \in S PROVE ~(y < x)
    OBVIOUS
  <2>. QED
    BY <1>4, <1>5
<1>. QED
  BY <1>6 DEF Lowest

(* What is known where walk reads an entry. *)
LEMMA WalkAt ==
  ASSUME PageTableInv, pc = "walk"
  PROVE  /\ root \in DOMAIN tables /\ \E lev, up, at : Tree(lev, up, at)
         /\ \A lev, up, at : Tree(lev, up, at) => lev[table] = level
         /\ table \in DOMAIN tables /\ level \in 0..2 /\ vpn(start, level) \in Indexes
         /\ CurrentPage \in 0..(VPages - 1) /\ CurrentPage \in Nat
         /\ CurrentPage * PAGE_SIZE = start
         /\ level = 2 => Entry = Top(CurrentPage) /\ table = root
         /\ level = 1 => /\ Valid(Top(CurrentPage)) /\ Entry = Mid(CurrentPage)
                         /\ table = MiddleOf(CurrentPage)
         /\ level = 0 => /\ Valid(Top(CurrentPage)) /\ Valid(Mid(CurrentPage))
                         /\ Entry = Low(CurrentPage) /\ table = LastOf(CurrentPage)
<1>. DEFINE v == CurrentPage
<1>1. TablesInv /\ TreeInv /\ CallInv /\ WalkState /\ root # 0
  BY DEF PageTableInv, CallInv
<1>2. start \in Nat /\ Aligned(start) /\ start < VA_TOP /\ level \in 0..2
  BY <1>1 DEF CallInv, WalkState
<1>3. v \in Nat /\ v * PAGE_SIZE = start /\ v \in 0..(VPages - 1)
  BY <1>2, PageOfAligned, PageBelowTop DEF CurrentPage
<1>4. root \in DOMAIN tables /\ \E lev, up, at : Tree(lev, up, at)
  BY <1>1 DEF TreeInv
<1>. HIDE DEF v
<1>5. \/ level = 2 /\ table = root
      \/ level = 1 /\ Valid(Top(v)) /\ table = MiddleOf(v)
      \/ level = 0 /\ Valid(Top(v)) /\ Valid(Mid(v)) /\ table = LastOf(v)
  BY <1>1 DEF WalkState, v
<1>6. Entry = Lookup(table, v, level)
  BY <1>3 DEF Entry, Lookup
<1>7. /\ level = 2 => Entry = Top(v)
      /\ level = 1 => Entry = Mid(v)
      /\ level = 0 => Entry = Low(v)
  BY <1>5, <1>6 DEF Top, Mid, Low
<1>8. ASSUME NEW lev, NEW up, NEW at, Tree(lev, up, at)
      PROVE  lev[table] = level /\ table \in DOMAIN tables
  <2>1. /\ lev[root] = 2
        /\ Valid(Top(v)) => MiddleOf(v) \in DOMAIN tables /\ lev[MiddleOf(v)] = 1
        /\ Valid(Top(v)) /\ Valid(Mid(v)) => LastOf(v) \in DOMAIN tables /\ lev[LastOf(v)] = 0
    BY <1>1, <1>3, <1>4, <1>8, Path
  <2>. QED
    BY <1>4, <1>5, <2>1
<1>9. vpn(start, level) \in Indexes
  BY <1>2, <1>3, VpnIndex
<1>. QED
  BY <1>2, <1>3, <1>4, <1>5, <1>7, <1>8, <1>9 DEF v

-----------------------------------------------------------------------------
(* The steps.  Each lemma also says what the step does to the map. *)

(* No table and no translation before the root table. *)
LEMMA StartInv ==
  ASSUME NEW pool, pool \subseteq Nat \ {0}, \A a \in pool : Aligned(a), Start(pool)
  PROVE  PageTableInv /\ Mapped = {}
<1>1. DOMAIN tables = {} /\ avail = pool /\ root = 0 /\ pc = "root" /\ result = "none"
      /\ start = 0 /\ end = 0 /\ phys = 0 /\ level = 0 /\ table = 0 /\ flag = 0
  BY DEF Start
<1>2. tables \in [DOMAIN tables -> [Indexes -> Nat]]
  BY DEF Start
<1>3. Aligned(0) /\ 0 \in 0..(USIZE - 1)
  <2>1. USIZE > 2 * VA_TOP /\ USIZE \in Nat
    BY PageTableAssumption
  <2>2. VA_TOP \in Nat
    BY Sizes DEF VA_TOP
  <2>. QED
    BY <2>1, <2>2, Sizes DEF Aligned
<1>4. TablesInv
  BY <1>1, <1>2, FS_EmptySet DEF TablesInv
<1>5. CallInv
  BY <1>1, <1>3 DEF CallInv
<1>6. TreeInv /\ FailureExplained
  BY <1>1 DEF TreeInv, FailureExplained
<1>7. \A v : ~Leaf(LeafOf(v))
  BY <1>1, ZeroEntry DEF LeafOf
<1>. QED
  BY <1>4, <1>5, <1>6, <1>7 DEF PageTableInv, Mapped

(* The root table. *)
LEMMA AllocRootInv ==
  ASSUME PageTableInv, AllocRoot
  PROVE  PageTableInv' /\ SpaceMap' = SpaceMap
<1>1. /\ pc = "root" /\ root = 0 /\ result = "none" /\ TablesInv /\ TreeInv /\ CallInv
      /\ DOMAIN tables = {}
      /\ UNCHANGED <<start, end, phys, flag, table, level, result>>
  BY DEF PageTableInv, CallInv, TreeInv, AllocRoot, mapVars, walkVars
<1>2. CASE avail = {}
  <2>1. pc' = "panicked" /\ UNCHANGED <<tables, avail, root>>
    BY <1>2 DEF AllocRoot, memory
  <2>2. TablesInv' /\ TreeInv' /\ SpaceMap' = SpaceMap
    BY <1>1, <2>1, SameTables
  <2>3. CallInv'
    BY <1>1, <2>1 DEF CallInv
  <2>. QED
    BY <1>1, <2>2, <2>3 DEF PageTableInv, FailureExplained
<1>3. CASE avail # {}
  <2>. DEFINE pg == Lowest(avail)
  <2>1. pc' = "idle" /\ root' = pg /\ avail' = avail \ {pg}
    BY <1>3 DEF AllocRoot, TakeTable
  <2>2. pg \in avail
    BY <1>1, <1>3, LowestIsMember DEF TablesInv
  <2>3. tables' = [t \in {pg} |-> ZeroPage]
    BY <1>1, <1>3 DEF AllocRoot, TakeTable
  <2>. HIDE DEF pg
  <2>4. pg \in Nat \ {0} /\ Aligned(pg)
    BY <1>1, <2>2 DEF TablesInv
  <2>5. DOMAIN tables' = {pg} /\ tables'[pg] = ZeroPage
        /\ tables' \in [DOMAIN tables' -> [Indexes -> Nat]]
    BY <2>3, ZeroEntry
  <2>6. TablesInv'
    <3>1. IsFiniteSet({pg})
      BY FS_Singleton
    <3>2. avail' \subseteq Nat \ {0} /\ (\A a \in avail' : Aligned(a)) /\ avail' \cap {pg} = {}
      BY <1>1, <2>1 DEF TablesInv
    <3>. QED
      BY <2>4, <2>5, <3>1, <3>2 DEF TablesInv, Aligned
  <2>7. PICK p : p = pg
    OBVIOUS
  <2>8. Tree([t \in {p} |-> 2], [t \in {} |-> p], [t \in {} |-> 0])'
    BY <2>1, <2>5, <2>7, ZeroEntry DEF Tree
  <2>9. TreeInv'
    <3>1. \E lev, up, at : Tree(lev, up, at)'
      BY <2>8
    <3>. QED
      BY <2>1, <2>4, <2>5, <3>1 DEF TreeInv
  <2>10. ASSUME NEW v \in 0..(VPages - 1) PROVE LeafOf(v)' = LeafOf(v)
    <3>1. LeafOf(v) = 0
      BY <1>1 DEF LeafOf
    <3>2. v \in Nat /\ vpn(v * PAGE_SIZE, 2) \in Indexes
      BY VpnIndex
    <3>3. Top(v)' = 0
      BY <2>1, <2>5, <3>2, ZeroEntry DEF Top, Lookup
    <3>4. LeafOf(v)' = 0
      BY <3>3, ZeroEntry DEF LeafOf, Top
    <3>. QED
      BY <3>1, <3>4
  <2>11. SpaceMap' = SpaceMap
    BY <2>10, SameLeaves
  <2>12. CallInv'
    BY <1>1, <2>1, <2>4, <2>5 DEF CallInv
  <2>. QED
    BY <1>1, <2>6, <2>9, <2>11, <2>12 DEF PageTableInv, FailureExplained
<1>. QED
  BY <1>2, <1>3

(* page_map is called. *)
LEMMA PageMapInv ==
  ASSUME PageTableInv, NEW c, CallOK(c), page_map(c)
  PROVE  PageTableInv' /\ SpaceMap' = SpaceMap
<1>1. /\ pc = "idle" /\ pc' = "loop" /\ result' = "none"
      /\ start' = PageAlignDown(c.va) /\ end' = LastPage(c) /\ phys' = c.pa /\ flag' = c.flag
      /\ UNCHANGED <<tables, avail, root, table, level>>
  BY DEF page_map, memory, walkVars
<1>2. TablesInv' /\ TreeInv' /\ SpaceMap' = SpaceMap
  BY <1>1, SameTables DEF PageTableInv
<1>3. /\ start' \in Nat /\ Aligned(start)' /\ end' \in 0..(USIZE - 1) /\ Aligned(end)'
      /\ phys' \in Nat /\ flag' \in FlagSets
  BY <1>1, RequestedPages DEF CallOK, Aligned
<1>4. CallInv'
  BY <1>1, <1>3 DEF PageTableInv, CallInv
<1>. QED
  BY <1>1, <1>2, <1>4 DEF PageTableInv, FailureExplained

(* An empty range panics before anything is stored. *)
LEMMA PageMapEmptyInv ==
  ASSUME PageTableInv, NEW c, page_map_empty(c)
  PROVE  PageTableInv' /\ SpaceMap' = SpaceMap
<1>1. /\ pc = "idle" /\ pc' = "panicked" /\ result' = "none"
      /\ UNCHANGED <<tables, avail, root, start, end, phys, flag, table, level>>
  BY DEF page_map_empty, memory, mapVars, walkVars
<1>2. TablesInv' /\ TreeInv' /\ SpaceMap' = SpaceMap
  BY <1>1, SameTables DEF PageTableInv
<1>3. CallInv'
  BY <1>1 DEF PageTableInv, CallInv
<1>. QED
  BY <1>1, <1>2, <1>3 DEF PageTableInv, FailureExplained

(* page_map returns. *)
LEMMA MapDoneInv ==
  ASSUME PageTableInv, MapDone
  PROVE  PageTableInv' /\ SpaceMap' = SpaceMap
<1>1. /\ pc = "loop" /\ pc' = "idle" /\ result' = "ok"
      /\ UNCHANGED <<tables, avail, root, start, end, phys, flag, table, level>>
  BY DEF MapDone, Return, memory, mapVars, walkVars
<1>2. TablesInv' /\ TreeInv' /\ SpaceMap' = SpaceMap
  BY <1>1, SameTables DEF PageTableInv
<1>3. CallInv'
  BY <1>1 DEF PageTableInv, CallInv
<1>. QED
  BY <1>1, <1>2, <1>3 DEF PageTableInv, FailureExplained

(* walk begins at the root, or panics beyond VA_TOP. *)
LEMMA WalkEnterInv ==
  ASSUME PageTableInv, WalkEnter
  PROVE  PageTableInv' /\ SpaceMap' = SpaceMap
<1>1. /\ pc = "loop" /\ start <= end /\ table' = root /\ level' = 2
      /\ pc' = IF start < VA_TOP THEN "walk" ELSE "panicked"
      /\ UNCHANGED <<tables, avail, root, start, end, phys, flag, result>>
  BY DEF WalkEnter, memory, mapVars
<1>2. TablesInv' /\ TreeInv' /\ SpaceMap' = SpaceMap
  BY <1>1, SameTables DEF PageTableInv
<1>3. pc' = "walk" => WalkState'
  BY <1>1 DEF WalkState
<1>4. table' \in DOMAIN tables'
  BY <1>1 DEF PageTableInv, CallInv, TreeInv
<1>5. CallInv'
  BY <1>1, <1>3, <1>4 DEF PageTableInv, CallInv
<1>6. FailureExplained'
  BY <1>1 DEF PageTableInv, CallInv, FailureExplained
<1>. QED
  BY <1>2, <1>5, <1>6 DEF PageTableInv

(* walk follows a pointer. *)
LEMMA WalkDownInv ==
  ASSUME PageTableInv, WalkDown
  PROVE  PageTableInv' /\ SpaceMap' = SpaceMap
<1>. DEFINE v == CurrentPage
<1>1. /\ pc = "walk" /\ level > 0 /\ Valid(Entry)
      /\ table' = pte_to_phy(Entry) /\ level' = level - 1
      /\ UNCHANGED <<tables, avail, root, pc, start, end, phys, flag, result>>
  BY DEF WalkDown, memory, mapVars
<1>2. /\ root \in DOMAIN tables /\ \E lev, up, at : Tree(lev, up, at)
      /\ level \in 0..2 /\ v \in Nat
      /\ level = 2 => Entry = Top(v)
      /\ level = 1 => Valid(Top(v)) /\ Entry = Mid(v)
  BY <1>1, WalkAt
<1>3. TablesInv' /\ TreeInv' /\ SpaceMap' = SpaceMap
      /\ Top(v)' = Top(v) /\ Mid(v)' = Mid(v) /\ MiddleOf(v)' = MiddleOf(v)
      /\ LastOf(v)' = LastOf(v) /\ Mapped' = Mapped
  <2>1. CurrentPage' = CurrentPage
    BY <1>1 DEF CurrentPage
  <2>. HIDE DEF v
  <2>2. TablesInv' /\ TreeInv' /\ SpaceMap' = SpaceMap /\ Mapped' = Mapped
    BY <1>1, SameTables DEF PageTableInv
  <2>3. v' = v
    BY <2>1 DEF v
  <2>4. Top(v)' = Top(v) /\ Mid(v)' = Mid(v) /\ MiddleOf(v)' = MiddleOf(v)
        /\ LastOf(v)' = LastOf(v)
    BY <1>1, <2>3 DEF Top, Mid, MiddleOf, LastOf, Lookup
  <2>. QED
    BY <2>2, <2>4
<1>4. WalkState'
  <2>1. start <= end /\ start < VA_TOP
    BY <1>1 DEF PageTableInv, CallInv, WalkState
  <2>2. level = 1 \/ level = 2
    BY <1>1, <1>2
  <2>3. level = 2 => level' = 1 /\ Valid(Top(v)') /\ table' = MiddleOf(v)'
    BY <1>1, <1>2, <1>3 DEF MiddleOf
  <2>4. level = 1 => level' = 0 /\ Valid(Top(v)') /\ Valid(Mid(v)') /\ table' = LastOf(v)'
    BY <1>1, <1>2, <1>3 DEF LastOf
  <2>. QED
    BY <1>1, <2>1, <2>2, <2>3, <2>4 DEF WalkState
<1>5. table' \in DOMAIN tables' /\ level' \in 0..2
  <2>1. PICK lev, up, at : Tree(lev, up, at)
    BY <1>2
  <2>2. /\ Valid(Top(v)) => MiddleOf(v) \in DOMAIN tables
        /\ Valid(Top(v)) /\ Valid(Mid(v)) => LastOf(v) \in DOMAIN tables
    BY <1>2, <2>1, Path DEF PageTableInv
  <2>. QED
    BY <1>1, <1>2, <2>2 DEF MiddleOf, LastOf
<1>6. CallInv'
  BY <1>1, <1>4, <1>5 DEF PageTableInv, CallInv
<1>7. FailureExplained'
  BY <1>1 DEF PageTableInv, CallInv, FailureExplained
<1>. QED
  BY <1>3, <1>6, <1>7 DEF PageTableInv

(* walk adds a table and goes on to it. *)
LEMMA WalkAllocInv ==
  ASSUME PageTableInv, WalkAlloc
  PROVE  PageTableInv' /\ SpaceMap' = SpaceMap
<1>. DEFINE i == vpn(start, level)
            pg == Lowest(avail)
<1>1. /\ pc = "walk" /\ level > 0 /\ ~Valid(Entry) /\ avail # {}
      /\ table' = pg /\ level' = level - 1
      /\ UNCHANGED <<root, pc, start, end, phys, flag, result>>
  BY DEF WalkAlloc, mapVars
<1>2. LinkTable(table, i, pg)
  BY DEF WalkAlloc, TakeTable, LinkTable
<1>3. PICK v \in 0..(VPages - 1) : v = CurrentPage
  BY <1>1, WalkAt
<1>4. /\ root \in DOMAIN tables /\ \E lev, up, at : Tree(lev, up, at)
      /\ \A lev, up, at : Tree(lev, up, at) => lev[table] = level
      /\ table \in DOMAIN tables /\ level \in 0..2 /\ i \in Indexes
      /\ v \in Nat /\ v * PAGE_SIZE = start
      /\ level = 2 => table = root
      /\ level = 1 => Valid(Top(v)) /\ table = MiddleOf(v)
  BY <1>1, <1>3, WalkAt
<1>5. PICK lev, up, at : Tree(lev, up, at)
  BY <1>4
<1>6. TablesInv /\ pg \in avail
  BY <1>1, LowestIsMember DEF PageTableInv, TablesInv
<1>7. ~Valid(tables[table][i]) /\ lev[table] # 0 /\ lev[table] = level /\ lev[root] = 2
  <2>1. lev[table] = level
    BY <1>4, <1>5
  <2>2. lev[root] = 2
    BY <1>4, <1>5 DEF Tree
  <2>. QED
    BY <1>1, <1>4, <2>1, <2>2 DEF Entry
<1>. HIDE DEF i, pg
<1>8. /\ TablesInv' /\ TreeInv'
      /\ \A w \in Nat : LeafOf(w)' = LeafOf(w)
      /\ DOMAIN tables' = DOMAIN tables \cup {pg}
      /\ \A s \in DOMAIN tables : \A j \in Indexes :
           tables'[s][j] = IF s = table /\ j = i THEN PointerTo(pg) ELSE tables[s][j]
  <2>1. root \in DOMAIN tables /\ table \in DOMAIN tables /\ i \in Indexes
    BY <1>4
  <2>. QED
    BY <1>2, <1>5, <1>6, <1>7, <2>1, AddTable
<1>9. SpaceMap' = SpaceMap
  BY <1>8, SameLeaves
<1>10. Valid(PointerTo(pg)) /\ pte_to_phy(PointerTo(pg)) = pg
  BY <1>6, PointerEntry DEF TablesInv
<1>11. vpn(v * PAGE_SIZE, 2) \in Indexes /\ vpn(v * PAGE_SIZE, 1) \in Indexes
  BY <1>4, VpnIndex
<1>12. WalkState'
  <2>1. start <= end /\ start < VA_TOP
    BY <1>1 DEF PageTableInv, CallInv, WalkState
  <2>2. CurrentPage' = v
    BY <1>1, <1>3 DEF CurrentPage
  <2>3. CASE level = 2
    <3>1. i = vpn(v * PAGE_SIZE, 2)
      BY <1>4, <2>3 DEF i
    <3>2. Top(v)' = PointerTo(pg)
      BY <1>1, <1>4, <1>8, <1>11, <2>3, <3>1 DEF Top, Lookup
    <3>3. level' = 1 /\ Valid(Top(v)') /\ table' = MiddleOf(v)'
      BY <1>1, <1>10, <2>3, <3>2 DEF MiddleOf
    <3>. QED
      BY <1>1, <2>1, <2>2, <3>3 DEF WalkState
  <2>4. CASE level = 1
    <3>1. i = vpn(v * PAGE_SIZE, 1) /\ table # root
      BY <1>4, <1>7, <2>4 DEF i
    <3>2. Top(v)' = Top(v) /\ MiddleOf(v)' = MiddleOf(v)
      BY <1>1, <1>4, <1>8, <1>11, <3>1 DEF Top, MiddleOf, Lookup
    <3>3. Mid(v)' = PointerTo(pg)
      BY <1>4, <1>8, <1>11, <2>4, <3>1, <3>2 DEF Mid, Lookup
    <3>4. level' = 0 /\ Valid(Top(v)') /\ Valid(Mid(v)') /\ table' = LastOf(v)'
      BY <1>1, <1>4, <1>10, <2>4, <3>2, <3>3 DEF LastOf
    <3>. QED
      BY <1>1, <2>1, <2>2, <3>4 DEF WalkState
  <2>. QED
    BY <1>1, <1>4, <2>3, <2>4
<1>13. CallInv'
  <2>1. table' \in DOMAIN tables' /\ level' \in 0..2
    BY <1>1, <1>4, <1>8
  <2>. QED
    BY <1>1, <1>12, <2>1 DEF PageTableInv, CallInv
<1>14. FailureExplained'
  BY <1>1 DEF PageTableInv, CallInv, FailureExplained
<1>. QED
  BY <1>8, <1>9, <1>13, <1>14 DEF PageTableInv

(* No page for a table. *)
LEMMA WalkFailsInv ==
  ASSUME PageTableInv, WalkFails
  PROVE  PageTableInv' /\ SpaceMap' = SpaceMap
<1>1. /\ pc = "walk" /\ avail = {} /\ pc' = "idle" /\ result' = "err"
      /\ UNCHANGED <<tables, avail, root, start, end, phys, flag, table, level>>
  BY DEF WalkFails, Return, memory, mapVars, walkVars
<1>2. TablesInv' /\ TreeInv' /\ SpaceMap' = SpaceMap
  BY <1>1, SameTables DEF PageTableInv
<1>3. CallInv'
  BY <1>1 DEF PageTableInv, CallInv
<1>. QED
  BY <1>1, <1>2, <1>3 DEF PageTableInv, FailureExplained

(* The page is mapped already. *)
LEMMA MapFailsInv ==
  ASSUME PageTableInv, MapFails
  PROVE  PageTableInv' /\ SpaceMap' = SpaceMap
<1>. DEFINE v == CurrentPage
<1>1. /\ pc = "walk" /\ level = 0 /\ Valid(Entry) /\ pc' = "idle" /\ result' = "err"
      /\ UNCHANGED <<tables, avail, root, start, end, phys, flag, table, level>>
  BY DEF MapFails, Taken, Return, memory, mapVars, walkVars
<1>2. TablesInv' /\ TreeInv' /\ SpaceMap' = SpaceMap /\ Mapped' = Mapped
  BY <1>1, SameTables DEF PageTableInv
<1>3. CallInv'
  BY <1>1 DEF PageTableInv, CallInv
<1>4. /\ root \in DOMAIN tables /\ \E lev, up, at : Tree(lev, up, at)
      /\ v \in 0..(VPages - 1) /\ v \in Nat
      /\ Valid(Top(v)) /\ Valid(Mid(v)) /\ Valid(Low(v))
  BY <1>1, WalkAt
<1>5. PICK lev, up, at : Tree(lev, up, at)
  BY <1>4
<1>6. Leaf(LeafOf(v))
  BY <1>4, <1>5, Path DEF PageTableInv
<1>7. FailureExplained'
  BY <1>1, <1>2, <1>4, <1>6 DEF FailureExplained, Mapped, CurrentPage
<1>. QED
  BY <1>2, <1>3, <1>7 DEF PageTableInv

(* A page is mapped: the map has one page more. *)
LEMMA MapPageInv ==
  ASSUME PageTableInv, MapPage
  PROVE  /\ PageTableInv'
         /\ CurrentPage \in 0..(VPages - 1) \ Mapped
         /\ SpaceMap' = [v \in Mapped \cup {CurrentPage} |->
                           IF v = CurrentPage THEN <<phys \div PAGE_SIZE, flag>>
                           ELSE SpaceMap[v]]
<1>. DEFINE e == LeafEntry(phys, flag)
<1>1. /\ pc = "walk" /\ level = 0 /\ ~Valid(Entry)
      /\ tables' = [tables EXCEPT ![table][vpn(start, 0)] = e]
      /\ start' = start + PAGE_SIZE /\ phys' = phys + PAGE_SIZE /\ pc' = "loop"
      /\ UNCHANGED <<avail, root, end, flag, table, level, result>>
  BY DEF MapPage, Taken, walkVars
<1>2. PICK w \in 0..(VPages - 1) : w = CurrentPage
  BY <1>1, WalkAt
<1>3. /\ root \in DOMAIN tables /\ \E lev, up, at : Tree(lev, up, at)
      /\ w \in Nat /\ w * PAGE_SIZE = start
      /\ Valid(Top(w)) /\ Valid(Mid(w)) /\ Entry = Low(w) /\ table = LastOf(w)
  BY <1>1, <1>2, WalkAt
<1>4. PICK lev, up, at : Tree(lev, up, at)
  BY <1>3
<1>5. TablesInv /\ CallInv /\ phys \in Nat /\ flag \in FlagSets /\ start \in Nat
      /\ Aligned(start)
  BY <1>1 DEF PageTableInv, CallInv
<1>6. /\ e \in Nat /\ Valid(e) /\ Flags(e) # PTE_VALID /\ Flags(e) - PTE_VALID = flag
      /\ e \div 1024 = phys \div PAGE_SIZE
  BY <1>5, LeafEntryParts
<1>. HIDE DEF e
<1>7. StoreLeaf(LastOf(w), vpn(w * PAGE_SIZE, 0), e)
  BY <1>1, <1>3 DEF StoreLeaf
<1>8. /\ TablesInv' /\ TreeInv' /\ DOMAIN tables' = DOMAIN tables
      /\ LeafOf(w)' = e
      /\ \A v \in 0..(VPages - 1) : v # w => LeafOf(v)' = LeafOf(v)
  BY <1>3, <1>4, <1>5, <1>6, <1>7, MapLeaf
<1>9. LeafOf(w) = Low(w) /\ ~Leaf(LeafOf(w))
  BY <1>1, <1>3, <1>4, <1>5, Path DEF Leaf
<1>10. w \notin Mapped /\ Mapped' = Mapped \cup {w}
  BY <1>6, <1>8, <1>9 DEF Mapped, Leaf
<1>11. Translate(w)' = <<phys \div PAGE_SIZE, flag>>
       /\ \A v \in Mapped : Translate(v)' = Translate(v)
  BY <1>6, <1>8, <1>10 DEF Translate, Mapped
<1>12. SpaceMap' = [v \in Mapped \cup {w} |->
                      IF v = w THEN <<phys \div PAGE_SIZE, flag>> ELSE SpaceMap[v]]
  BY <1>10, <1>11 DEF SpaceMap
<1>13. start' \in Nat /\ Aligned(start)' /\ phys' \in Nat
  BY <1>1, <1>5, NextPage, Sizes DEF Aligned
<1>14. CallInv'
  BY <1>1, <1>5, <1>8, <1>13 DEF CallInv
<1>15. FailureExplained'
  BY <1>1, <1>5 DEF CallInv, FailureExplained
<1>. QED
  BY <1>2, <1>8, <1>10, <1>12, <1>14, <1>15 DEF PageTableInv

(* A stuttering step. *)
LEMMA PageTableStutter ==
  ASSUME PageTableInv, UNCHANGED vars
  PROVE  PageTableInv' /\ SpaceMap' = SpaceMap
<1>1. UNCHANGED <<tables, avail, root, pc, start, end, phys, flag, table, level, result>>
  BY DEF vars, memory, mapVars, walkVars
<1>2. TablesInv' /\ TreeInv' /\ SpaceMap' = SpaceMap /\ Mapped' = Mapped
  BY <1>1, SameTables DEF PageTableInv
<1>3. WalkState' <=> WalkState
  BY <1>1 DEF WalkState, CurrentPage, Top, Mid, MiddleOf, LastOf, Lookup
<1>4. CallInv'
  BY <1>1, <1>3 DEF PageTableInv, CallInv
<1>. QED
  BY <1>1, <1>2, <1>4 DEF PageTableInv, FailureExplained

(* Every step of the functions of ptable.rs keeps the invariant. *)
LEMMA WorkInv ==
  ASSUME PageTableInv, Work
  PROVE  PageTableInv'
BY AllocRootInv, MapDoneInv, WalkEnterInv, WalkDownInv, WalkAllocInv, WalkFailsInv,
   MapFailsInv, MapPageInv DEF Work

(* Every step keeps the invariant. *)
LEMMA PageTableStep ==
  ASSUME PageTableInv, [Next]_vars
  PROVE  PageTableInv'
<1>1. ASSUME NEW c \in Calls, page_map(c) \/ page_map_empty(c) PROVE PageTableInv'
  BY <1>1, CallsOK, PageMapInv, PageMapEmptyInv
<1>2. CASE Panicked \/ UNCHANGED vars
  BY <1>2, PageTableStutter DEF Panicked
<1>. QED
  BY <1>1, <1>2, WorkInv DEF Next

(* The initial states. *)
LEMMA PageTableInit == Init => PageTableInv /\ Mapped = {}
<1>. SUFFICES ASSUME Init PROVE PageTableInv /\ Mapped = {}
  OBVIOUS
<1>1. PICK p \in Pools : Start(p)
  BY DEF Init
<1>2. p \subseteq Nat \ {0} /\ \A a \in p : Aligned(a)
  BY PageTableAssumption
<1>. QED
  BY <1>1, <1>2, StartInv

-----------------------------------------------------------------------------
(* The invariant holds whatever the sizes of pages and tables, the calls   *)
(* and the pool.                                                           *)
THEOREM PageTableInvHolds == Spec => []PageTableInv
<1>1. Init => PageTableInv
  BY PageTableInit
<1>2. PageTableInv /\ [Next]_vars => PageTableInv'
  BY PageTableStep
<1>. QED
  BY <1>1, <1>2, PTL DEF Spec

(* Tables and entries are numbers the hardware can read, and the locals of *)
(* page_map and walk stay page-aligned.                                    *)
THEOREM PageTableTypeOK == Spec => []TypeOK
<1>1. PageTableInv => TypeOK
  BY DEF PageTableInv, TablesInv, TreeInv, CallInv, TypeOK
<1>. QED
  BY <1>1, PageTableInvHolds, PTL

(* page_map fails only for want of a page, or because the page is mapped.  *)
THEOREM PageTableFailureExplained == Spec => []FailureExplained
<1>1. PageTableInv => FailureExplained
  BY DEF PageTableInv
<1>. QED
  BY <1>1, PageTableInvHolds, PTL

(* The tables of each level, and the number of entries that point to them. *)
LEMMA TreeLevels ==
  ASSUME TablesInv, root \in DOMAIN tables, NEW lev, NEW up, NEW at, Tree(lev, up, at)
  PROVE  LET middle == Children({root})
             last   == Children(middle)
             above  == ValidIn({root} \cup middle)
         IN  /\ middle = {t \in DOMAIN tables : lev[t] = 1}
             /\ last = {t \in DOMAIN tables : lev[t] = 0}
             /\ \A ti \in above : Pointer(tables[ti[1]][ti[2]])
             /\ Cardinality(above) = Cardinality(DOMAIN tables) - 1
<1>. DEFINE ofLevel(l) == {t \in DOMAIN tables : lev[t] = l}
            upper == {root} \cup ofLevel(1)
            above == ValidIn(upper)
<1>1. /\ lev \in [DOMAIN tables -> 0..2]
      /\ up \in [DOMAIN tables \ {root} -> DOMAIN tables]
      /\ at \in [DOMAIN tables \ {root} -> Indexes]
      /\ \A t \in DOMAIN tables : lev[t] = 2 <=> t = root
      /\ \A t \in DOMAIN tables \ {root} :
           lev[up[t]] = lev[t] + 1 /\ tables[up[t]][at[t]] = PointerTo(t)
  BY DEF Tree
<1>2. \A t \in DOMAIN tables : Valid(PointerTo(t)) /\ pte_to_phy(PointerTo(t)) = t
  BY PointerEntry DEF TablesInv
<1>3. ASSUME NEW ts, NEW l \in {1, 2}, ts = ofLevel(l) PROVE Children(ts) = ofLevel(l - 1)
  <2>1. ASSUME NEW s \in Children(ts) PROVE s \in ofLevel(l - 1)
    <3>1. PICK ti \in ts \X Indexes :
            Valid(tables[ti[1]][ti[2]]) /\ s = pte_to_phy(tables[ti[1]][ti[2]])
      BY <2>1 DEF Children, ValidIn
    <3>2. ti[1] \in DOMAIN tables /\ lev[ti[1]] = l /\ ti[2] \in Indexes
      BY <1>3, <3>1
    <3>. QED
      BY <3>1, <3>2, Descend
  <2>2. ASSUME NEW s \in ofLevel(l - 1) PROVE s \in Children(ts)
    <3>1. s \in DOMAIN tables \ {root} /\ lev[s] = l - 1
      BY <1>1
    <3>2. up[s] \in ts /\ at[s] \in Indexes /\ Valid(tables[up[s]][at[s]])
          /\ pte_to_phy(tables[up[s]][at[s]]) = s
      BY <1>1, <1>2, <1>3, <3>1
    <3>. DEFINE ti == <<up[s], at[s]>>
    <3>3. ti \in ts \X Indexes /\ ti[1] = up[s] /\ ti[2] = at[s]
      BY <3>2
    <3>. HIDE DEF ti
    <3>. QED
      BY <3>2, <3>3 DEF Children, ValidIn
  <2>. QED
    BY <2>1, <2>2
<1>4. {root} = ofLevel(2)
  BY <1>1
<1>5. Children({root}) = ofLevel(1) /\ Children(ofLevel(1)) = ofLevel(0)
  <2>1. Children({root}) = ofLevel(2 - 1)
    BY <1>3, <1>4
  <2>2. Children(ofLevel(1)) = ofLevel(1 - 1)
    BY <1>3
  <2>. QED
    BY <2>1, <2>2
<1>6. upper \subseteq DOMAIN tables /\ \A t \in upper : lev[t] # 0
  BY <1>1
<1>7. \A t \in DOMAIN tables : lev[t] # 0 => t \in upper
  BY <1>1
<1>. HIDE DEF upper
<1>8. ASSUME NEW ti \in above
      PROVE  /\ Pointer(tables[ti[1]][ti[2]])
             /\ \E s \in DOMAIN tables \ {root} : <<up[s], at[s]>> = ti
  <2>1. ti \in upper \X Indexes /\ Valid(tables[ti[1]][ti[2]])
    BY DEF ValidIn
  <2>2. ti = <<ti[1], ti[2]>> /\ ti[1] \in DOMAIN tables /\ lev[ti[1]] # 0 /\ ti[2] \in Indexes
    BY <1>6, <2>1
  <2>. QED
    BY <2>1, <2>2, Descend
<1>9. Cardinality(above) = Cardinality(DOMAIN tables) - 1
  <2>. DEFINE D == DOMAIN tables \ {root}
              f == [s \in D |-> <<up[s], at[s]>>]
  <2>1. ASSUME NEW s \in D PROVE <<up[s], at[s]>> \in above
    <3>1. up[s] \in upper /\ at[s] \in Indexes /\ Valid(tables[up[s]][at[s]])
      <4>1. lev[up[s]] # 0 /\ up[s] \in DOMAIN tables
        BY <1>1
      <4>. QED
        BY <1>1, <1>2, <1>7, <4>1
    <3>. QED
      BY <3>1 DEF ValidIn
  <2>2. \A r, s \in D : f[r] = f[s] => r = s
    <3>. SUFFICES ASSUME NEW r \in D, NEW s \in D, <<up[r], at[r]>> = <<up[s], at[s]>>
                 PROVE  r = s
      OBVIOUS
    <3>1. PointerTo(r) = PointerTo(s)
      BY <1>1
    <3>. QED
      BY <1>2, <3>1
  <2>3. \A ti \in above : \E s \in D : f[s] = ti
    BY <1>8
  <2>. HIDE DEF above
  <2>4. f \in Bijection(D, above)
    BY <2>1, <2>2, <2>3 DEF Bijection, Injection, IsInjective, Surjection
  <2>5. IsFiniteSet(D) /\ Cardinality(D) = Cardinality(DOMAIN tables) - 1
    BY FS_RemoveElement DEF TablesInv
  <2>6. ExistsBijection(D, above)
    BY <2>4 DEF ExistsBijection
  <2>7. Cardinality(above) = Cardinality(D)
    BY <2>5, <2>6, FS_Bijection
  <2>. QED
    BY <2>5, <2>7
<1>. QED
  BY <1>5, <1>8, <1>9 DEF upper

(* The tables are a tree under the root at every step, also after page_map *)
(* has failed: no page is lost or shared.                                  *)
THEOREM PageTableTree == Spec => []TablesAreATree
<1>1. PageTableInv => TablesAreATree
  <2>. SUFFICES ASSUME TablesInv, TreeInv, root # 0 PROVE TablesAreATree
    BY DEF PageTableInv, TablesAreATree
  <2>1. root \in DOMAIN tables /\ \E lev, up, at : Tree(lev, up, at)
    BY DEF TreeInv
  <2>2. PICK lev, up, at : Tree(lev, up, at)
    BY <2>1
  <2>. DEFINE middle == Children({root})
              last   == Children(middle)
              above  == ValidIn({root} \cup middle)
  <2>3. /\ middle = {t \in DOMAIN tables : lev[t] = 1}
        /\ last = {t \in DOMAIN tables : lev[t] = 0}
        /\ \A ti \in above : Pointer(tables[ti[1]][ti[2]])
        /\ Cardinality(above) = Cardinality(DOMAIN tables) - 1
    BY <2>1, <2>2, TreeLevels
  <2>4. \A t \in DOMAIN tables : lev[t] \in 0..2 /\ (lev[t] = 2 <=> t = root)
    BY <2>2 DEF Tree
  <2>. HIDE DEF middle, last, above
  <2>5. /\ DOMAIN tables = {root} \cup middle \cup last
        /\ middle \cap last = {} /\ root \notin middle \cup last
    BY <2>1, <2>3, <2>4
  <2>6. avail \cap DOMAIN tables = {}
    BY DEF TablesInv
  <2>. QED
    BY <2>3, <2>5, <2>6 DEF TablesAreATree, middle, last, above
<1>. QED
  BY <1>1, PageTableInvHolds, PTL


-----------------------------------------------------------------------------
(* The refinement of AddressSpace. *)

(* What is left of the call of page_map under way, in pages. *)
SpaceTodo ==
  [next  |-> start \div PAGE_SIZE, last |-> end \div PAGE_SIZE,
   frame |-> phys \div PAGE_SIZE, flags |-> flag]

(* How far the caller sees the call to be. *)
SpaceOutcome ==
  CASE pc = "panicked" -> "panicked"
    [] pc \in {"loop", "walk"} -> "busy"
    [] OTHER -> result

(* The operations of AddressSpace, in terms of the three. *)
LEMMA SpaceOperations ==
  /\ \A r : Space!Request(r) <=>
       /\ SpaceOutcome \in {"none", "ok", "err"}
       /\ SpaceTodo' = r /\ SpaceOutcome' = "busy" /\ SpaceMap' = SpaceMap
  /\ Space!MapOne <=>
       /\ SpaceOutcome = "busy"
       /\ SpaceTodo.next <= SpaceTodo.last
       /\ SpaceTodo.next \in 0..(VPages - 1) \ DOMAIN SpaceMap
       /\ SpaceMap' = [v \in DOMAIN SpaceMap \cup {SpaceTodo.next} |->
                         IF v = SpaceTodo.next THEN <<SpaceTodo.frame, SpaceTodo.flags>>
                         ELSE SpaceMap[v]]
       /\ SpaceTodo' = [SpaceTodo EXCEPT !.next = @ + 1, !.frame = @ + 1]
       /\ SpaceOutcome' = "busy"
  /\ Space!Finish <=>
       /\ SpaceOutcome = "busy" /\ SpaceTodo.next > SpaceTodo.last
       /\ SpaceOutcome' = "ok" /\ UNCHANGED <<SpaceMap, SpaceTodo>>
  /\ Space!Stop <=>
       /\ SpaceOutcome = "busy" /\ SpaceTodo.next <= SpaceTodo.last
       /\ SpaceOutcome' = "err" /\ UNCHANGED <<SpaceMap, SpaceTodo>>
  /\ Space!Panic <=>
       /\ SpaceOutcome # "panicked" /\ (SpaceOutcome = "busy" => SpaceTodo.next >= VPages)
       /\ SpaceOutcome' = "panicked" /\ UNCHANGED <<SpaceMap, SpaceTodo>>
<1>1. \A r : Space!Request(r) <=>
       /\ SpaceOutcome \in {"none", "ok", "err"}
       /\ SpaceTodo' = r /\ SpaceOutcome' = "busy" /\ SpaceMap' = SpaceMap
  BY Zenon DEF Space!Request, SpaceMap, SpaceTodo, SpaceOutcome
<1>2. Space!MapOne <=>
       /\ SpaceOutcome = "busy"
       /\ SpaceTodo.next <= SpaceTodo.last
       /\ SpaceTodo.next \in 0..(VPages - 1) \ DOMAIN SpaceMap
       /\ SpaceMap' = [v \in DOMAIN SpaceMap \cup {SpaceTodo.next} |->
                         IF v = SpaceTodo.next THEN <<SpaceTodo.frame, SpaceTodo.flags>>
                         ELSE SpaceMap[v]]
       /\ SpaceTodo' = [SpaceTodo EXCEPT !.next = @ + 1, !.frame = @ + 1]
       /\ SpaceOutcome' = "busy"
  BY Zenon DEF Space!MapOne, SpaceMap, SpaceTodo, SpaceOutcome
<1>3. Space!Finish <=>
       /\ SpaceOutcome = "busy" /\ SpaceTodo.next > SpaceTodo.last
       /\ SpaceOutcome' = "ok" /\ UNCHANGED <<SpaceMap, SpaceTodo>>
  BY Zenon DEF Space!Finish, SpaceMap, SpaceTodo, SpaceOutcome
<1>4. Space!Stop <=>
       /\ SpaceOutcome = "busy" /\ SpaceTodo.next <= SpaceTodo.last
       /\ SpaceOutcome' = "err" /\ UNCHANGED <<SpaceMap, SpaceTodo>>
  BY Zenon DEF Space!Stop, SpaceMap, SpaceTodo, SpaceOutcome
<1>5. Space!Panic <=>
       /\ SpaceOutcome # "panicked" /\ (SpaceOutcome = "busy" => SpaceTodo.next >= VPages)
       /\ SpaceOutcome' = "panicked" /\ UNCHANGED <<SpaceMap, SpaceTodo>>
  BY Zenon DEF Space!Panic, SpaceMap, SpaceTodo, SpaceOutcome
<1>. QED
  BY <1>1, <1>2, <1>3, <1>4, <1>5, Zenon

(* The pages of the call under way, and when it has left the range of the  *)
(* address space.                                                          *)
LEMMA TodoPages ==
  ASSUME CallInv
  PROVE  /\ SpaceTodo.next = start \div PAGE_SIZE /\ SpaceTodo.last = end \div PAGE_SIZE
         /\ SpaceTodo.frame = phys \div PAGE_SIZE /\ SpaceTodo.flags = flag
         /\ SpaceTodo.next \in Nat /\ SpaceTodo.last \in Nat
         /\ start <= end <=> SpaceTodo.next <= SpaceTodo.last
         /\ ~(start < VA_TOP) => SpaceTodo.next >= VPages
<1>1. /\ SpaceTodo.next = start \div PAGE_SIZE /\ SpaceTodo.last = end \div PAGE_SIZE
      /\ SpaceTodo.frame = phys \div PAGE_SIZE /\ SpaceTodo.flags = flag
  BY DEF SpaceTodo
<1>2. start \in Nat /\ end \in Nat /\ Aligned(start) /\ Aligned(end)
  BY Sizes DEF CallInv
<1>. QED
  BY <1>1, <1>2, PageOfAligned, AlignedOrder, PageBelowTop

(* A call asks for the pages that hold its bytes. *)
LEMMA PageMapRequests ==
  ASSUME PageTableInv, NEW c \in Calls, page_map(c)
  PROVE  Space!Request(PageRequest(c))
<1>1. /\ pc = "idle" /\ pc' = "loop"
      /\ start' = PageAlignDown(c.va) /\ end' = LastPage(c) /\ phys' = c.pa /\ flag' = c.flag
  BY DEF page_map
<1>2. CallOK(c)
  BY CallsOK
<1>3. SpaceMap' = SpaceMap
  BY <1>2, PageMapInv
<1>4. /\ PageAlignDown(c.va) \div PAGE_SIZE = PageRequest(c).next
      /\ LastPage(c) \div PAGE_SIZE = PageRequest(c).last
      /\ c.pa \div PAGE_SIZE = PageRequest(c).frame
      /\ c.flag = PageRequest(c).flags
  BY <1>2, RequestedPages
<1>5. PageRequest(c) = [next |-> PageRequest(c).next, last |-> PageRequest(c).last,
                        frame |-> PageRequest(c).frame, flags |-> PageRequest(c).flags]
  BY DEF PageRequest
<1>6. SpaceTodo' = PageRequest(c)
  BY <1>1, <1>4, <1>5 DEF SpaceTodo
<1>7. SpaceOutcome \in {"none", "ok", "err"} /\ SpaceOutcome' = "busy"
  BY <1>1 DEF SpaceOutcome, PageTableInv, CallInv
<1>. QED
  BY <1>3, <1>6, <1>7, SpaceOperations

(* Storing a leaf maps the next page of the call. *)
LEMMA MapPageMapsOne ==
  ASSUME PageTableInv, MapPage
  PROVE  Space!MapOne
<1>1. /\ pc = "walk" /\ pc' = "loop" /\ start' = start + PAGE_SIZE
      /\ phys' = phys + PAGE_SIZE /\ end' = end /\ flag' = flag
  BY DEF MapPage
<1>2. CallInv /\ start <= end /\ start \in Nat /\ phys \in Nat
  BY <1>1 DEF PageTableInv, CallInv, WalkState
<1>3. /\ SpaceTodo.next = start \div PAGE_SIZE /\ SpaceTodo.frame = phys \div PAGE_SIZE
      /\ SpaceTodo.flags = flag /\ SpaceTodo.next <= SpaceTodo.last
  BY <1>2, TodoPages
<1>4. DOMAIN SpaceMap = Mapped /\ CurrentPage = SpaceTodo.next
  BY <1>3 DEF SpaceMap, CurrentPage
<1>5. /\ CurrentPage \in 0..(VPages - 1) \ Mapped
      /\ SpaceMap' = [v \in Mapped \cup {CurrentPage} |->
                        IF v = CurrentPage THEN <<phys \div PAGE_SIZE, flag>>
                        ELSE SpaceMap[v]]
  BY MapPageInv
<1>6. /\ SpaceTodo.next \in 0..(VPages - 1) \ DOMAIN SpaceMap
      /\ SpaceMap' = [v \in DOMAIN SpaceMap \cup {SpaceTodo.next} |->
                        IF v = SpaceTodo.next THEN <<SpaceTodo.frame, SpaceTodo.flags>>
                        ELSE SpaceMap[v]]
  BY <1>3, <1>4, <1>5, Zenon
<1>7. SpaceTodo' = [SpaceTodo EXCEPT !.next = @ + 1, !.frame = @ + 1]
  <2>1. /\ start' \div PAGE_SIZE = (start \div PAGE_SIZE) + 1
        /\ phys' \div PAGE_SIZE = (phys \div PAGE_SIZE) + 1
    BY <1>1, <1>2, NextPage
  <2>2. SpaceTodo' = [next |-> SpaceTodo.next + 1, last |-> SpaceTodo.last,
                      frame |-> SpaceTodo.frame + 1, flags |-> SpaceTodo.flags]
    BY <1>1, <1>3, <2>1 DEF SpaceTodo
  <2>3. PICK a, b, c, d : SpaceTodo = [next |-> a, last |-> b, frame |-> c, flags |-> d]
    BY DEF SpaceTodo
  <2>4. PICK r : r = SpaceTodo
    OBVIOUS
  <2>5. r.next = a /\ r.last = b /\ r.frame = c /\ r.flags = d
    BY <2>3, <2>4
  <2>6. PICK u : u = [r EXCEPT !.next = a + 1]
    OBVIOUS
  <2>7. u = [next |-> a + 1, last |-> b, frame |-> c, flags |-> d]
    BY <2>3, <2>4, <2>6
  <2>8. [u EXCEPT !.frame = c + 1] = [next |-> a + 1, last |-> b, frame |-> c + 1, flags |-> d]
    BY <2>7
  <2>9. [r EXCEPT !.next = @ + 1, !.frame = @ + 1] = [u EXCEPT !.frame = c + 1]
    BY <2>5, <2>6
  <2>. QED
    BY <2>2, <2>4, <2>5, <2>8, <2>9, Zenon
<1>8. SpaceOutcome = "busy" /\ SpaceOutcome' = "busy"
  BY <1>1 DEF SpaceOutcome
<1>. QED
  BY <1>3, <1>6, <1>7, <1>8, SpaceOperations

(* Every other step ends the call, or changes nothing that the hardware or *)
(* the caller sees.                                                        *)
LEMMA OtherStepsOfSpace ==
  ASSUME PageTableInv,
         \/ AllocRoot \/ MapDone \/ WalkEnter \/ WalkDown \/ WalkAlloc
         \/ WalkFails \/ MapFails \/ \E c \in Calls : page_map_empty(c)
  PROVE  \/ Space!Finish \/ Space!Stop \/ Space!Panic
         \/ UNCHANGED <<SpaceMap, SpaceTodo, SpaceOutcome>>
<1>1. UNCHANGED <<start, end, phys, flag>>
  BY DEF AllocRoot, MapDone, WalkEnter, WalkDown, WalkAlloc, WalkFails, MapFails,
         page_map_empty, mapVars
<1>2. SpaceTodo' = SpaceTodo
  BY <1>1 DEF SpaceTodo
<1>3. SpaceMap' = SpaceMap
  BY AllocRootInv, MapDoneInv, WalkEnterInv, WalkDownInv, WalkAllocInv, WalkFailsInv,
     MapFailsInv, PageMapEmptyInv
<1>4. CallInv
  BY DEF PageTableInv
<1>5. CASE AllocRoot
  <2>1. pc = "root" /\ pc' \in {"idle", "panicked"} /\ result' = result /\ result = "none"
    BY <1>4, <1>5 DEF AllocRoot, CallInv
  <2>2. SpaceOutcome = "none" /\ SpaceOutcome' \in {"none", "panicked"}
    BY <2>1 DEF SpaceOutcome
  <2>. QED
    BY <1>2, <1>3, <2>2, SpaceOperations
<1>6. CASE MapDone
  <2>1. SpaceOutcome = "busy" /\ SpaceOutcome' = "ok" /\ ~(start <= end)
    BY <1>4, <1>6 DEF MapDone, Return, SpaceOutcome, CallInv
  <2>2. SpaceTodo.next > SpaceTodo.last
    BY <1>4, <2>1, TodoPages
  <2>. QED
    BY <1>2, <1>3, <2>1, <2>2, SpaceOperations
<1>7. CASE WalkEnter
  <2>1. SpaceOutcome = "busy"
    BY <1>7 DEF WalkEnter, SpaceOutcome
  <2>2. SpaceOutcome' = IF start < VA_TOP THEN "busy" ELSE "panicked"
    BY <1>7 DEF WalkEnter, SpaceOutcome
  <2>3. ~(start < VA_TOP) => SpaceTodo.next >= VPages
    BY <1>4, TodoPages
  <2>. QED
    BY <1>2, <1>3, <2>1, <2>2, <2>3, SpaceOperations
<1>8. CASE WalkDown \/ WalkAlloc
  <2>1. pc = "walk" /\ pc' = pc
    BY <1>8 DEF WalkDown, WalkAlloc
  <2>. QED
    BY <1>2, <1>3, <2>1 DEF SpaceOutcome
<1>9. CASE WalkFails \/ MapFails
  <2>1. pc = "walk" /\ pc' = "idle" /\ result' = "err"
    BY <1>9 DEF WalkFails, MapFails, Return
  <2>2. SpaceOutcome = "busy" /\ SpaceOutcome' = "err"
    BY <2>1 DEF SpaceOutcome
  <2>3. start <= end
    BY <1>4, <2>1 DEF CallInv, WalkState
  <2>4. SpaceTodo.next <= SpaceTodo.last
    BY <1>4, <2>3, TodoPages
  <2>. QED
    BY <1>2, <1>3, <2>2, <2>4, SpaceOperations
<1>10. ASSUME NEW c \in Calls, page_map_empty(c) PROVE Space!Panic
  <2>1. pc = "idle" /\ pc' = "panicked" /\ result \in {"none", "ok", "err"}
    BY <1>4, <1>10 DEF page_map_empty, CallInv
  <2>2. SpaceOutcome \in {"none", "ok", "err"} /\ SpaceOutcome' = "panicked"
    BY <2>1 DEF SpaceOutcome
  <2>. QED
    BY <1>2, <1>3, <2>2, SpaceOperations
<1>. QED
  BY <1>5, <1>6, <1>7, <1>8, <1>9, <1>10

(* The page tables implement the address space: page_map extends the       *)
(* translation a page at a time, in order, and no step of it, not a        *)
(* failing one either, changes the translation of a page already mapped.   *)
THEOREM PageTableRefines == Spec => RefinesAddressSpace
<1>1. Init => Space!Init
  <2>. SUFFICES ASSUME Init PROVE Space!Init
    OBVIOUS
  <2>1. Mapped = {}
    BY PageTableInit
  <2>2. pc = "root" /\ result = "none"
    BY DEF Init, Start
  <2>. QED
    BY <2>1, <2>2 DEF Space!Init
<1>2. ASSUME PageTableInv, [Next]_vars
      PROVE  Space!Next \/ UNCHANGED <<SpaceMap, SpaceTodo, SpaceOutcome>>
  <2>. USE <1>2
  <2>1. ASSUME NEW c \in Calls, page_map(c) PROVE Space!Next
    BY <2>1, PageMapRequests DEF Space!Next
  <2>2. CASE MapPage
    BY <2>2, MapPageMapsOne DEF Space!Next
  <2>3. CASE \/ AllocRoot \/ MapDone \/ WalkEnter \/ WalkDown \/ WalkAlloc
             \/ WalkFails \/ MapFails \/ \E c \in Calls : page_map_empty(c)
    BY <2>3, OtherStepsOfSpace DEF Space!Next
  <2>4. CASE UNCHANGED vars
    <3>1. UNCHANGED <<pc, start, end, phys, flag, result>>
      BY <2>4 DEF vars, mapVars
    <3>2. SpaceMap' = SpaceMap
      BY <2>4, PageTableStutter
    <3>. QED
      BY <3>1, <3>2 DEF SpaceTodo, SpaceOutcome
  <2>. QED
    BY <2>1, <2>2, <2>3, <2>4 DEF Next, Work, Panicked
<1>3. PageTableInv /\ [Next]_vars => [Space!Next]_(Space!vars)
  BY <1>2, Zenon DEF Space!vars, SpaceMap, SpaceTodo, SpaceOutcome
<1>. QED
  BY <1>1, <1>3, PageTableInvHolds, PTL DEF Spec, RefinesAddressSpace, Space!Spec
=============================================================================
