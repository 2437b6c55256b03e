--------------------------- MODULE KernelMapProofs ---------------------------
(***************************************************************************)
(* Proofs about KernelMap: kpage_init (src/vm/ptable.rs) makes its calls   *)
(* in the order of their addresses, so that what is mapped at any step is  *)
(* the memory map of memlayout.md up to the page page_map has come to.     *)
(***************************************************************************)
EXTENDS KernelMap, PageTableProofs, SequenceTheorems

-----------------------------------------------------------------------------
(* The layout in pages. *)

UartPage   == Page(UART_BASE)
TextPage   == Page(DRAM_BASE)
RodataPage == TextPage + layout.text
DataPage   == RodataPage + layout.rodata
StackPage  == DataPage + layout.data
IntPage    == StackPage + 3 * NHART
BssPage    == IntPage + 4 * NHART + 1
HeapPage   == BssPage + layout.bss
RamEnd     == TextPage + layout.ram

(* What the assumptions say about the layout. *)
LEMMA LayoutPages ==
  ASSUME layout \in Layouts
  PROVE  /\ layout.text \in Nat /\ layout.rodata \in Nat /\ layout.data \in Nat
         /\ layout.bss \in Nat /\ layout.ram \in Nat /\ NHART \in Nat \ {0}
         /\ UartPage \in Nat \ {0} /\ TextPage \in Nat /\ UartPage < TextPage
         /\ HeapPage + 1 < RamEnd /\ RamEnd <= VPages /\ VPages \in Nat
         /\ UART_BASE = Bytes(UartPage) /\ DRAM_BASE = Bytes(TextPage)
<1>1. /\ UART_BASE \in Nat /\ DRAM_BASE \in Nat /\ Aligned(UART_BASE) /\ Aligned(DRAM_BASE)
      /\ NHART \in Nat \ {0} /\ 0 < UART_BASE /\ UART_BASE + PAGE_SIZE <= DRAM_BASE
      /\ layout \in [text : Nat, rodata : Nat, data : Nat, bss : Nat, ram : Nat]
      /\ DRAM_BASE + Bytes(layout.ram) <= VA_TOP
      /\ layout.ram > layout.text + layout.rodata + layout.data + 7 * NHART + 1 + layout.bss + 1
  BY KernelMapAssumption
<1>2. /\ layout.text \in Nat /\ layout.rodata \in Nat /\ layout.data \in Nat
      /\ layout.bss \in Nat /\ layout.ram \in Nat
  BY <1>1
<1>3. /\ UartPage \in Nat /\ UartPage * PAGE_SIZE = UART_BASE
      /\ TextPage \in Nat /\ TextPage * PAGE_SIZE = DRAM_BASE
  BY <1>1, PageOfAligned DEF UartPage, TextPage, Page
<1>4. PAGE_SIZE \in Nat \ {0}
  BY Sizes
<1>5. UartPage # 0
  BY <1>1, <1>3, <1>4
<1>6. UartPage < TextPage
  BY <1>1, <1>3, <1>4
<1>7. HeapPage + 1 < RamEnd
  BY <1>1, <1>2, <1>3 DEF RodataPage, DataPage, StackPage, IntPage, BssPage, HeapPage, RamEnd
<1>8. RamEnd <= VPages /\ VPages \in Nat
  <2>1. VPages \in Nat /\ VA_TOP = PAGE_SIZE * VPages
    BY Sizes DEF VPages, VA_TOP
  <2>2. RamEnd \in Nat /\ RamEnd * PAGE_SIZE <= PAGE_SIZE * VPages
    BY <1>1, <1>2, <1>3, <1>4, <2>1 DEF RamEnd, Bytes
  <2>. QED
    BY <1>4, <2>1, <2>2
<1>. QED
  BY <1>1, <1>2, <1>3, <1>5, <1>6, <1>7, <1>8 DEF Bytes

(* The page of an address so many pages on. *)
LEMMA PageOfBytes ==
  ASSUME NEW n \in Nat
  PROVE  Bytes(n) \in Nat /\ Page(Bytes(n)) = n /\ Aligned(Bytes(n))
<1>1. Bytes(n) = PAGE_SIZE * n + 0 /\ Bytes(n) \in Nat
  BY Sizes DEF Bytes
<1>. QED
  BY <1>1, Quotient, Sizes DEF Page, Aligned

(* Sums and differences of whole pages. *)
LEMMA BytesSum ==
  ASSUME NEW m \in Nat, NEW n \in Nat
  PROVE  /\ Bytes(m) + Bytes(n) = Bytes(m + n)
         /\ m <= n => Bytes(n) - Bytes(m) = Bytes(n - m)
         /\ Bytes(1) = PAGE_SIZE
BY Sizes DEF Bytes

(* The addresses of the linker script. *)
LEMMA Addresses ==
  ASSUME layout \in Layouts
  PROVE  /\ text_end = Bytes(RodataPage) /\ rodata_end = Bytes(DataPage)
         /\ data_end = Bytes(StackPage) /\ stacks_start = Bytes(StackPage)
         /\ stacks_end = Bytes(IntPage) /\ intstacks_start = Bytes(IntPage)
         /\ intstacks_end = Bytes(IntPage + 4 * NHART)
         /\ bss_start = Bytes(BssPage) /\ bss_end = Bytes(HeapPage)
         /\ dram_end = Bytes(RamEnd)
         /\ RodataPage \in Nat /\ DataPage \in Nat /\ StackPage \in Nat /\ IntPage \in Nat
         /\ BssPage \in Nat /\ HeapPage \in Nat /\ RamEnd \in Nat
<1>1. /\ layout.text \in Nat /\ layout.rodata \in Nat /\ layout.data \in Nat
      /\ layout.bss \in Nat /\ layout.ram \in Nat /\ NHART \in Nat
      /\ TextPage \in Nat /\ DRAM_BASE = Bytes(TextPage)
  BY LayoutPages
<1>2. /\ RodataPage \in Nat /\ DataPage \in Nat /\ StackPage \in Nat /\ IntPage \in Nat
      /\ BssPage \in Nat /\ HeapPage \in Nat /\ RamEnd \in Nat
  BY <1>1 DEF RodataPage, DataPage, StackPage, IntPage, BssPage, HeapPage, RamEnd
<1>3. text_end = Bytes(RodataPage) /\ dram_end = Bytes(RamEnd)
  BY <1>1, BytesSum DEF text_end, dram_end, RodataPage, RamEnd
<1>4. rodata_end = Bytes(DataPage)
  BY <1>1, <1>2, <1>3, BytesSum DEF rodata_end, DataPage
<1>5. data_end = Bytes(StackPage) /\ stacks_start = Bytes(StackPage)
  BY <1>1, <1>2, <1>4, BytesSum DEF data_end, stacks_start, StackPage
<1>6. stacks_end = Bytes(IntPage) /\ intstacks_start = Bytes(IntPage)
  BY <1>1, <1>2, <1>5, BytesSum DEF stacks_end, intstacks_start, IntPage
<1>7. intstacks_end = Bytes(IntPage + 4 * NHART)
  BY <1>1, <1>2, <1>6, BytesSum DEF intstacks_end
<1>8. bss_start = Bytes(BssPage)
  <2>1. IntPage + 4 * NHART \in Nat
    BY <1>1, <1>2
  <2>. QED
    BY <1>7, <2>1, BytesSum DEF bss_start, BssPage
<1>9. bss_end = Bytes(HeapPage)
  BY <1>1, <1>2, <1>8, BytesSum DEF bss_end, HeapPage
<1>. QED
  BY <1>2, <1>3, <1>4, <1>5, <1>6, <1>7, <1>8, <1>9


-----------------------------------------------------------------------------
(* The calls of kpage_init in pages. *)

NCalls == 6 + 3 * NHART

(* The first page of call k, the page behind its last, and its flag. *)
FirstPage(k) ==
  IF k = 1 THEN UartPage
  ELSE IF k = 2 THEN TextPage
  ELSE IF k = 3 THEN RodataPage
  ELSE IF k = 4 THEN DataPage
  ELSE IF k <= 4 + NHART THEN StackPage + 3 * (k - 5) + 1
  ELSE IF k <= 4 + 3 * NHART THEN IntPage + 2 * (k - 4 - NHART) - 1
  ELSE IF k = 5 + 3 * NHART THEN BssPage
  ELSE HeapPage

EndPage(k) ==
  IF k = 0 THEN 0
  ELSE IF k = 1 THEN UartPage + 1
  ELSE IF k = 2 THEN RodataPage
  ELSE IF k = 3 THEN DataPage
  ELSE IF k = 4 THEN StackPage
  ELSE IF k <= 4 + NHART THEN StackPage + 3 * (k - 5) + 3
  ELSE IF k <= 4 + 3 * NHART THEN IntPage + 2 * (k - 4 - NHART)
  ELSE IF k = 5 + 3 * NHART THEN HeapPage
  ELSE RamEnd

CallFlag(k) == IF k = 2 THEN RX ELSE IF k = 3 THEN PTE_READ ELSE RW

PageCall(k) == Same(Bytes(FirstPage(k)), Bytes(EndPage(k) - FirstPage(k)), CallFlag(k))

(* The calls are 1:1 and in the order of their pages. *)
LEMMA CallsOrdered ==
  ASSUME layout \in Layouts, NEW k \in 1..NCalls
  PROVE  /\ FirstPage(k) \in Nat /\ EndPage(k) \in Nat /\ EndPage(k - 1) \in Nat
         /\ EndPage(k - 1) <= FirstPage(k) /\ FirstPage(k) <= EndPage(k)
         /\ EndPage(k) <= RamEnd /\ FirstPage(k) # 0
         /\ NCalls \in Nat /\ EndPage(NCalls) = RamEnd
<1>1. /\ layout.text \in Nat /\ layout.rodata \in Nat /\ layout.data \in Nat
      /\ layout.bss \in Nat /\ layout.ram \in Nat /\ NHART \in Nat \ {0}
      /\ UartPage \in Nat \ {0} /\ TextPage \in Nat /\ UartPage < TextPage
      /\ HeapPage + 1 < RamEnd
  BY LayoutPages
<1>2. NCalls \in Nat /\ EndPage(NCalls) = RamEnd
  BY <1>1 DEF NCalls, EndPage
<1>3. k \in Nat /\ 1 <= k /\ k <= 6 + 3 * NHART
  BY <1>1 DEF NCalls
<1>4. /\ RodataPage \in Nat /\ DataPage \in Nat /\ StackPage \in Nat /\ IntPage \in Nat
      /\ BssPage \in Nat /\ HeapPage \in Nat /\ RamEnd \in Nat
      /\ TextPage <= RodataPage /\ RodataPage <= DataPage /\ DataPage <= StackPage
      /\ IntPage = StackPage + 3 * NHART /\ BssPage = IntPage + 4 * NHART + 1
      /\ BssPage <= HeapPage
  BY <1>1 DEF RodataPage, DataPage, StackPage, IntPage, BssPage, HeapPage, RamEnd
<1>. QED
  BY <1>1, <1>2, <1>3, <1>4 DEF FirstPage, EndPage

(* kpage_init, call by call. *)
LEMMA KpageInitCalls ==
  ASSUME layout \in Layouts
  PROVE  /\ Len(kpage_init) = NCalls
         /\ \A k \in 1..NCalls : kpage_init[k] = PageCall(k)
<1>. DEFINE a == << Same(UART_BASE, PAGE_SIZE, RW),
                    Same(DRAM_BASE, text_end - DRAM_BASE, RX),
                    RodataCall,
                    Same(rodata_end, data_end - rodata_end, RW) >>
            b == [s \in 1..NHART |-> StackCall(s - 1)]
            c == [j \in 1..(2 * NHART) |-> IF j % 2 = 1 THEN m_intstack((j - 1) \div 2)
                                           ELSE s_intstack((j - 1) \div 2)]
            d == << Same(bss_start, bss_end - bss_start, RW), HeapCall >>
            S == {Same(x, n, f) : x \in Int, n \in Int, f \in Nat}
<1>1. /\ NHART \in Nat \ {0} /\ UartPage \in Nat /\ TextPage \in Nat
      /\ UART_BASE = Bytes(UartPage) /\ DRAM_BASE = Bytes(TextPage)
      /\ layout.text \in Nat /\ layout.rodata \in Nat /\ layout.data \in Nat
      /\ layout.bss \in Nat /\ HeapPage + 1 < RamEnd
  BY LayoutPages
<1>2. /\ text_end = Bytes(RodataPage) /\ rodata_end = Bytes(DataPage)
      /\ data_end = Bytes(StackPage) /\ stacks_start = Bytes(StackPage)
      /\ intstacks_start = Bytes(IntPage)
      /\ bss_start = Bytes(BssPage) /\ bss_end = Bytes(HeapPage)
      /\ dram_end = Bytes(RamEnd)
      /\ RodataPage \in Nat /\ DataPage \in Nat /\ StackPage \in Nat /\ IntPage \in Nat
      /\ BssPage \in Nat /\ HeapPage \in Nat /\ RamEnd \in Nat
  BY Addresses
<1>3. /\ \A n \in Nat : Bytes(n) \in Nat
      /\ \A m, n \in Nat : /\ Bytes(m) + Bytes(n) = Bytes(m + n)
                           /\ m <= n => Bytes(n) - Bytes(m) = Bytes(n - m)
      /\ Bytes(1) = PAGE_SIZE
  BY PageOfBytes, BytesSum
<1>4. RW \in Nat /\ RX \in Nat /\ PTE_READ \in Nat
  BY DEF RW, RX, PTE_READ, PTE_WRITE, PTE_EXEC
<1>5. Len(a) = 4 /\ Len(b) = NHART /\ Len(c) = 2 * NHART /\ Len(d) = 2
  BY <1>1
<1>6. a[1] = PageCall(1) /\ a[2] = PageCall(2) /\ a[3] = PageCall(3) /\ a[4] = PageCall(4)
  <2>1. /\ FirstPage(1) = UartPage /\ EndPage(1) - FirstPage(1) = 1
        /\ FirstPage(2) = TextPage /\ EndPage(2) = RodataPage
        /\ FirstPage(3) = RodataPage /\ EndPage(3) = DataPage
        /\ FirstPage(4) = DataPage /\ EndPage(4) = StackPage
    BY <1>1 DEF FirstPage, EndPage
  <2>2. CallFlag(1) = RW /\ CallFlag(2) = RX /\ CallFlag(3) = PTE_READ /\ CallFlag(4) = RW
    BY DEF CallFlag
  <2>3. TextPage <= RodataPage /\ RodataPage <= DataPage /\ DataPage <= StackPage
    BY <1>1, <1>2 DEF RodataPage, DataPage, StackPage
  <2>4. /\ text_end - DRAM_BASE = Bytes(RodataPage - TextPage)
        /\ rodata_end - text_end = Bytes(DataPage - RodataPage)
        /\ data_end - rodata_end = Bytes(StackPage - DataPage)
    BY <1>1, <1>2, <1>3, <2>3
  <2>. QED
    BY <1>1, <1>2, <1>3, <2>1, <2>2, <2>4 DEF PageCall, RodataCall
<1>7. ASSUME NEW s \in 1..NHART PROVE b[s] = PageCall(4 + s)
  <2>1. s \in Nat /\ b[s] = StackCall(s - 1) /\ s - 1 \in Nat
    OBVIOUS
  <2>2. /\ FirstPage(4 + s) = StackPage + (1 + (s - 1) * 3)
        /\ EndPage(4 + s) - FirstPage(4 + s) = 2 /\ CallFlag(4 + s) = RW
    BY <1>1, <1>2, <2>1 DEF FirstPage, EndPage, CallFlag
  <2>3. stacks_start + Bytes(1 + (s - 1) * 3) = Bytes(StackPage + (1 + (s - 1) * 3))
    <3>1. 1 + (s - 1) * 3 \in Nat
      BY <2>1
    <3>. QED
      BY <1>2, <1>3, <3>1
  <2>. QED
    BY <2>1, <2>2, <2>3 DEF StackCall, PageCall
<1>8. ASSUME NEW j \in 1..(2 * NHART) PROVE c[j] = PageCall(4 + NHART + j)
  <2>. DEFINE i == (j - 1) \div 2
  <2>1. j \in Nat /\ c[j] = IF j % 2 = 1 THEN m_intstack(i) ELSE s_intstack(i)
    BY <1>1
  <2>2. /\ FirstPage(4 + NHART + j) = IntPage + (2 * j - 1)
        /\ EndPage(4 + NHART + j) - FirstPage(4 + NHART + j) = 1
        /\ CallFlag(4 + NHART + j) = RW
    BY <1>1, <1>2, <2>1 DEF FirstPage, EndPage, CallFlag
  <2>3. IF j % 2 = 1 THEN 1 + i * 4 = 2 * j - 1 ELSE 1 + i * 4 + 2 = 2 * j - 1
    BY <2>1
  <2>4. intstacks_start + Bytes(2 * j - 1) = Bytes(IntPage + (2 * j - 1))
    <3>1. 2 * j - 1 \in Nat
      BY <2>1
    <3>. QED
      BY <1>2, <1>3, <3>1
  <2>5. PageCall(4 + NHART + j) = Same(intstacks_start + Bytes(2 * j - 1), PAGE_SIZE, RW)
    BY <1>3, <2>2, <2>4 DEF PageCall
  <2>. QED
    BY <2>1, <2>3, <2>5 DEF m_intstack, s_intstack
<1>9. d[1] = PageCall(5 + 3 * NHART) /\ d[2] = PageCall(6 + 3 * NHART)
  <2>1. /\ FirstPage(5 + 3 * NHART) = BssPage /\ EndPage(5 + 3 * NHART) = HeapPage
        /\ FirstPage(6 + 3 * NHART) = HeapPage /\ EndPage(6 + 3 * NHART) = RamEnd
        /\ CallFlag(5 + 3 * NHART) = RW /\ CallFlag(6 + 3 * NHART) = RW
    BY <1>1 DEF FirstPage, EndPage, CallFlag
  <2>2. BssPage <= HeapPage /\ HeapPage <= RamEnd
    BY <1>1, <1>2 DEF HeapPage
  <2>3. /\ bss_end - bss_start = Bytes(HeapPage - BssPage)
        /\ dram_end - bss_end = Bytes(RamEnd - HeapPage)
    BY <1>2, <1>3, <2>2
  <2>. QED
    BY <1>2, <2>1, <2>3 DEF PageCall, HeapCall
<1>10. ASSUME NEW k \in 1..NCalls PROVE PageCall(k) \in S
  <2>1. FirstPage(k) \in Nat /\ EndPage(k) - FirstPage(k) \in Nat
    BY CallsOrdered
  <2>2. Bytes(FirstPage(k)) \in Int /\ Bytes(EndPage(k) - FirstPage(k)) \in Int
    BY <1>3, <2>1
  <2>3. CallFlag(k) \in Nat
    BY <1>4 DEF CallFlag
  <2>. QED
    BY <2>2, <2>3 DEF PageCall
<1>. HIDE DEF S
<1>11. a \in Seq(S)
  BY <1>1, <1>6, <1>10 DEF NCalls
<1>12. b \in Seq(S)
  <2>1. \A s \in 1..NHART : b[s] \in S
    BY <1>1, <1>7, <1>10 DEF NCalls
  <2>. QED
    BY <1>1, <2>1
<1>13. c \in Seq(S)
  <2>1. \A j \in 1..(2 * NHART) : c[j] \in S
    BY <1>1, <1>8, <1>10 DEF NCalls
  <2>. QED
    BY <1>1, <2>1
<1>14. d \in Seq(S)
  BY <1>1, <1>9, <1>10 DEF NCalls
<1>15. kpage_init = a \o b \o c \o d
  BY DEF kpage_init
<1>. HIDE DEF a, b, c, d
<1>16. /\ a \o b \in Seq(S) /\ Len(a \o b) = 4 + NHART
       /\ \A k \in 1..(4 + NHART) : (a \o b)[k] = PageCall(k)
  <2>1. /\ a \o b \in Seq(S) /\ Len(a \o b) = 4 + NHART
        /\ \A k \in 1..(4 + NHART) : (a \o b)[k] = IF k <= 4 THEN a[k] ELSE b[k - 4]
    <3>1. /\ a \o b \in Seq(S) /\ Len(a \o b) = Len(a) + Len(b)
          /\ \A k \in 1..(Len(a) + Len(b)) :
               (a \o b)[k] = IF k <= Len(a) THEN a[k] ELSE b[k - Len(a)]
      BY <1>11, <1>12, ConcatProperties, Zenon
    <3>. QED
      BY <1>5, <3>1, Zenon
  <2>2. ASSUME NEW k \in 1..(4 + NHART) PROVE (a \o b)[k] = PageCall(k)
    <3>1. CASE k <= 4
      <4>1. k = 1 \/ k = 2 \/ k = 3 \/ k = 4
        BY <3>1
      <4>. QED
        BY <1>6, <2>1, <3>1, <4>1
    <3>2. CASE ~(k <= 4)
      <4>1. k - 4 \in 1..NHART /\ 4 + (k - 4) = k
        BY <1>1, <3>2
      <4>2. b[k - 4] = PageCall(4 + (k - 4))
        BY <1>7, <4>1
      <4>. QED
        BY <2>1, <3>2, <4>1, <4>2
    <3>. QED
      BY <3>1, <3>2
  <2>. QED
    BY <2>1, <2>2
<1>17. PICK ab : /\ ab \in Seq(S) /\ Len(ab) = 4 + NHART /\ ab = a \o b
                 /\ \A k \in 1..(4 + NHART) : ab[k] = PageCall(k)
  BY <1>16, Zenon
<1>18. /\ ab \o c \in Seq(S) /\ Len(ab \o c) = 4 + 3 * NHART
       /\ \A k \in 1..(4 + 3 * NHART) : (ab \o c)[k] = PageCall(k)
  <2>1. /\ ab \o c \in Seq(S) /\ Len(ab \o c) = 4 + 3 * NHART
        /\ \A k \in 1..(4 + 3 * NHART) :
             (ab \o c)[k] = IF k <= 4 + NHART THEN ab[k] ELSE c[k - (4 + NHART)]
    <3>0. ab \in Seq(S)
      BY <1>17
    <3>1. /\ ab \o c \in Seq(S) /\ Len(ab \o c) = Len(ab) + Len(c)
          /\ \A k \in 1..(Len(ab) + Len(c)) :
               (ab \o c)[k] = IF k <= Len(ab) THEN ab[k] ELSE c[k - Len(ab)]
      BY <1>13, <3>0, ConcatProperties, Zenon
    <3>2. Len(ab) = 4 + NHART /\ Len(ab) + Len(c) = 4 + 3 * NHART
      BY <1>1, <1>5, <1>17
    <3>. QED
      BY <3>1, <3>2, Zenon
  <2>2. ASSUME NEW k \in 1..(4 + 3 * NHART) PROVE (ab \o c)[k] = PageCall(k)
    <3>1. CASE k <= 4 + NHART
      BY <1>1, <1>16, <1>17, <2>1, <3>1
    <3>2. CASE ~(k <= 4 + NHART)
      <4>1. k - (4 + NHART) \in 1..(2 * NHART) /\ 4 + NHART + (k - (4 + NHART)) = k
        BY <1>1, <3>2
      <4>2. c[k - (4 + NHART)] = PageCall(4 + NHART + (k - (4 + NHART)))
        BY <1>8, <4>1
      <4>. QED
        BY <2>1, <3>2, <4>1, <4>2
    <3>. QED
      BY <3>1, <3>2
  <2>. QED
    BY <2>1, <2>2
<1>19. PICK abc : /\ abc \in Seq(S) /\ Len(abc) = 4 + 3 * NHART /\ abc = ab \o c
                  /\ \A k \in 1..(4 + 3 * NHART) : abc[k] = PageCall(k)
  BY <1>18, Zenon
<1>20. /\ Len(abc \o d) = NCalls
       /\ \A k \in 1..NCalls :
            (abc \o d)[k] = IF k <= 4 + 3 * NHART THEN abc[k] ELSE d[k - (4 + 3 * NHART)]
  <2>0. abc \in Seq(S)
    BY <1>19
  <2>1. /\ abc \o d \in Seq(S) /\ Len(abc \o d) = Len(abc) + Len(d)
        /\ \A k \in 1..(Len(abc) + Len(d)) :
             (abc \o d)[k] = IF k <= Len(abc) THEN abc[k] ELSE d[k - Len(abc)]
    BY <1>14, <2>0, ConcatProperties, Zenon
  <2>2. Len(abc) = 4 + 3 * NHART /\ Len(abc) + Len(d) = NCalls
    BY <1>1, <1>5, <1>19 DEF NCalls
  <2>. QED
    BY <2>1, <2>2, Zenon
<1>21. ASSUME NEW k \in 1..NCalls PROVE (abc \o d)[k] = PageCall(k)
  <2>1. CASE k <= 4 + 3 * NHART
    BY <1>1, <1>18, <1>19, <1>20, <2>1
  <2>2. CASE ~(k <= 4 + 3 * NHART)
    <3>1. k = 5 + 3 * NHART \/ k = 6 + 3 * NHART
      BY <1>1, <2>2 DEF NCalls
    <3>2. CASE k = 5 + 3 * NHART
      <4>1. k - (4 + 3 * NHART) = 1
        BY <1>1, <3>2
      <4>. QED
        BY <1>9, <1>20, <2>2, <3>2, <4>1
    <3>3. CASE k = 6 + 3 * NHART
      <4>1. k - (4 + 3 * NHART) = 2
        BY <1>1, <3>3
      <4>. QED
        BY <1>9, <1>20, <2>2, <3>3, <4>1
    <3>. QED
      BY <3>1, <3>2, <3>3
  <2>. QED
    BY <2>1, <2>2
<1>. QED
  BY <1>15, <1>17, <1>19, <1>20, <1>21


-----------------------------------------------------------------------------
(* The memory map in pages. *)
LEMMA PermissionPages ==
  ASSUME layout \in Layouts
  PROVE  \A v \in Nat : Permission(v) =
           IF v = UartPage THEN RW
           ELSE IF v \in TextPage..(RodataPage - 1) THEN RX
           ELSE IF v \in RodataPage..(DataPage - 1) THEN PTE_READ
           ELSE IF v \in DataPage..(StackPage - 1) THEN RW
           ELSE IF v \in StackPage..(IntPage - 1)
                THEN IF (v - StackPage) % 3 = 0 THEN 0 ELSE RW
           ELSE IF v \in IntPage..((IntPage + 4 * NHART) - 1)
                THEN IF (v - IntPage) % 2 = 0 THEN 0 ELSE RW
           ELSE IF v \in BssPage..(RamEnd - 1) THEN RW
           ELSE 0
<1>1. /\ Page(UART_BASE) = UartPage /\ Page(DRAM_BASE) = TextPage
  BY DEF UartPage, TextPage
<1>2. /\ Page(text_end) = RodataPage /\ Page(rodata_end) = DataPage
      /\ Page(data_end) = StackPage /\ Page(stacks_start) = StackPage
      /\ Page(stacks_end) = IntPage /\ Page(intstacks_start) = IntPage
      /\ Page(intstacks_end) = IntPage + 4 * NHART
      /\ Page(bss_start) = BssPage /\ Page(dram_end) = RamEnd
  <2>1. IntPage + 4 * NHART \in Nat
    BY Addresses, LayoutPages
  <2>. QED
    BY <2>1, Addresses, PageOfBytes
<1>3. Between(DRAM_BASE, text_end) = TextPage..(RodataPage - 1)
  BY <1>1, <1>2 DEF Between
<1>4. Between(text_end, rodata_end) = RodataPage..(DataPage - 1)
  BY <1>1, <1>2 DEF Between
<1>5. Between(rodata_end, data_end) = DataPage..(StackPage - 1)
  BY <1>1, <1>2 DEF Between
<1>6. Between(stacks_start, stacks_end) = StackPage..(IntPage - 1)
  BY <1>1, <1>2 DEF Between
<1>7. Between(intstacks_start, intstacks_end) = IntPage..((IntPage + 4 * NHART) - 1)
  BY <1>1, <1>2 DEF Between
<1>8. Between(bss_start, dram_end) = BssPage..(RamEnd - 1)
  BY <1>1, <1>2 DEF Between
<1>. QED
  BY <1>1, <1>2, <1>3, <1>4, <1>5, <1>6, <1>7, <1>8, Zenon DEF Permission

(* kpage_init gives every page the permission of the memory map, and skips *)
(* only what the memory map leaves out.                                    *)
LEMMA PermissionOfCalls ==
  ASSUME layout \in Layouts, NEW k \in 1..NCalls, NEW v \in Nat
  PROVE  /\ FirstPage(k) <= v /\ v < EndPage(k) => Permission(v) = CallFlag(k)
         /\ EndPage(k - 1) <= v /\ v < FirstPage(k) => Permission(v) = 0
<1>1. /\ NHART \in Nat \ {0} /\ UartPage \in Nat \ {0} /\ TextPage \in Nat
      /\ UartPage < TextPage /\ HeapPage + 1 < RamEnd
      /\ layout.text \in Nat /\ layout.rodata \in Nat /\ layout.data \in Nat
      /\ layout.bss \in Nat
  BY LayoutPages
<1>2. k \in Nat /\ 1 <= k /\ k <= 6 + 3 * NHART
  BY <1>1 DEF NCalls
<1>3. /\ RodataPage \in Nat /\ DataPage \in Nat /\ StackPage \in Nat /\ IntPage \in Nat
      /\ BssPage \in Nat /\ HeapPage \in Nat /\ RamEnd \in Nat
      /\ TextPage <= RodataPage /\ RodataPage <= DataPage /\ DataPage <= StackPage
      /\ IntPage = StackPage + 3 * NHART /\ BssPage = IntPage + 4 * NHART + 1
      /\ BssPage <= HeapPage
  BY <1>1, Addresses DEF RodataPage, DataPage, StackPage, IntPage, BssPage, HeapPage
<1>4. CASE k <= 4
  <2>1. k = 1 \/ k = 2 \/ k = 3 \/ k = 4
    BY <1>2, <1>4
  <2>. QED
    BY <1>1, <1>2, <1>3, <2>1, PermissionPages DEF FirstPage, EndPage, CallFlag
<1>5. CASE 5 <= k /\ k <= 4 + NHART
  <2>. DEFINE s == k - 5
  <2>1. s \in Nat /\ s < NHART
    BY <1>1, <1>2, <1>5
  <2>2. FirstPage(k) = StackPage + 3 * s + 1 /\ EndPage(k) = StackPage + 3 * s + 3
        /\ EndPage(k - 1) = StackPage + 3 * s /\ CallFlag(k) = RW
    BY <1>1, <1>2, <1>3, <1>5 DEF FirstPage, EndPage, CallFlag
  <2>. HIDE DEF s
  <2>3. StackPage + 3 * s + 3 <= IntPage
    BY <1>1, <1>3, <2>1
  <2>4. CASE v = StackPage + 3 * s
    <3>1. (v - StackPage) % 3 = 0
      BY <1>3, <2>1, <2>4
    <3>. QED
      BY <1>1, <1>3, <2>1, <2>2, <2>3, <2>4, <3>1, PermissionPages
  <2>5. CASE v = StackPage + 3 * s + 1 \/ v = StackPage + 3 * s + 2
    <3>1. (v - StackPage) % 3 # 0
      BY <1>3, <2>1, <2>5
    <3>. QED
      BY <1>1, <1>3, <2>1, <2>2, <2>3, <2>5, <3>1, PermissionPages
  <2>. QED
    BY <1>3, <2>1, <2>2, <2>4, <2>5
<1>6. CASE 5 + NHART <= k /\ k <= 4 + 3 * NHART
  <2>. DEFINE j == k - 4 - NHART
  <2>1. j \in Nat /\ 1 <= j /\ j <= 2 * NHART
    BY <1>1, <1>2, <1>6
  <2>2. FirstPage(k) = IntPage + 2 * j - 1 /\ EndPage(k) = IntPage + 2 * j
        /\ EndPage(k - 1) = IntPage + 2 * j - 2 /\ CallFlag(k) = RW
    BY <1>1, <1>2, <1>3, <1>6 DEF FirstPage, EndPage, CallFlag
  <2>. HIDE DEF j
  <2>3. IntPage + 2 * j <= IntPage + 4 * NHART
    BY <1>1, <1>3, <2>1
  <2>4. CASE v = IntPage + 2 * j - 2
    <3>1. (v - IntPage) % 2 = 0
      BY <1>3, <2>1, <2>4
    <3>. QED
      BY <1>1, <1>3, <2>1, <2>2, <2>3, <2>4, <3>1, PermissionPages
  <2>5. CASE v = IntPage + 2 * j - 1
    <3>1. (v - IntPage) % 2 # 0
      BY <1>3, <2>1, <2>5
    <3>. QED
      BY <1>1, <1>3, <2>1, <2>2, <2>3, <2>5, <3>1, PermissionPages
  <2>. QED
    BY <1>3, <2>1, <2>2, <2>4, <2>5
<1>7. CASE 5 + 3 * NHART <= k
  <2>1. k = 5 + 3 * NHART \/ k = 6 + 3 * NHART
    BY <1>1, <1>2, <1>7
  <2>2. EndPage(4 + 3 * NHART) = IntPage + 4 * NHART
    BY <1>1, <1>3 DEF EndPage
  <2>3. CASE k = 5 + 3 * NHART
    <3>1. EndPage(k - 1) = IntPage + 4 * NHART /\ FirstPage(k) = BssPage
          /\ EndPage(k) = HeapPage /\ CallFlag(k) = RW
      BY <1>1, <1>3, <2>2, <2>3 DEF FirstPage, EndPage, CallFlag
    <3>. QED
      BY <1>1, <1>3, <3>1, PermissionPages
  <2>4. CASE k = 6 + 3 * NHART
    <3>1. EndPage(k - 1) = HeapPage /\ FirstPage(k) = HeapPage
          /\ EndPage(k) = RamEnd /\ CallFlag(k) = RW
      BY <1>1, <1>3, <2>4 DEF FirstPage, EndPage, CallFlag
    <3>. QED
      BY <1>1, <1>3, <3>1, PermissionPages
  <2>. QED
    BY <2>1, <2>3, <2>4
<1>. QED
  BY <1>1, <1>2, <1>4, <1>5, <1>6, <1>7

(* Nothing lies behind the RAM, and every page has one of three            *)
(* permissions or none.                                                    *)
LEMMA PermissionRange ==
  ASSUME layout \in Layouts, NEW v \in Nat
  PROVE  Permission(v) \in {0, RW, RX, PTE_READ} /\ (v >= RamEnd => Permission(v) = 0)
<1>1. /\ NHART \in Nat \ {0} /\ UartPage \in Nat \ {0} /\ TextPage \in Nat
      /\ UartPage < TextPage /\ HeapPage + 1 < RamEnd
      /\ layout.text \in Nat /\ layout.rodata \in Nat /\ layout.data \in Nat
      /\ layout.bss \in Nat
  BY LayoutPages
<1>2. /\ RodataPage \in Nat /\ DataPage \in Nat /\ StackPage \in Nat /\ IntPage \in Nat
      /\ BssPage \in Nat /\ HeapPage \in Nat /\ RamEnd \in Nat
      /\ TextPage <= RodataPage /\ RodataPage <= DataPage /\ DataPage <= StackPage
      /\ IntPage = StackPage + 3 * NHART /\ BssPage = IntPage + 4 * NHART + 1
      /\ BssPage <= HeapPage
  BY <1>1, Addresses DEF RodataPage, DataPage, StackPage, IntPage, BssPage, HeapPage
<1>. QED
  BY <1>1, <1>2, PermissionPages


-----------------------------------------------------------------------------
(* The inductive invariant. *)

(* The memory map below page n. *)
Known(n) == {v \in 0..(VPages - 1) : v < n /\ Permission(v) # 0}
Identity(n) == [v \in Known(n) |-> <<v, Permission(v)>>]

(* A table that a walk for a page of the memory map meets. *)
OnPath(t) ==
  \E v \in 0..(VPages - 1) :
    /\ Permission(v) # 0 /\ Valid(Top(v))
    /\ t = MiddleOf(v) \/ (Valid(Mid(v)) /\ t = LastOf(v))

(* The pages that vm::init gives to the pool. *)
Pool == {a \in bss_end..(dram_end - 1) : Aligned(a)}

(* page_map has come through the calls up to step, or is in the last one.  *)
StepInv ==
  /\ step \in 0..NCalls
  /\ pc = "root" => step = 0
  /\ pc \in {"root", "idle"} /\ result # "err" => CurrentPage = EndPage(step)
  /\ pc \in {"loop", "walk"} =>
       /\ step # 0 /\ phys = start /\ flag = CallFlag(step)
       /\ FirstPage(step) <= CurrentPage /\ CurrentPage <= EndPage(step)
       /\ Page(end) = EndPage(step) - 1
  /\ pc = "panicked" => EmptySection

(* Every page of the pool is free, a table or the small pool. *)
PagesInv ==
  /\ boot = "pool" => avail = {}
  /\ boot = "galloc" => avail = Pool
  /\ boot \in {"pool", "galloc"} => pc = "root"
  /\ boot \notin {"pool", "galloc"} => small \in Pool /\ avail \cup DOMAIN tables = Pool \ {small}

BootInv ==
  /\ boot \in {"pool", "galloc", "kpage_init", "test_palloc", "test_galloc", "done", "panicked"}
  /\ boot \in {"pool", "galloc", "kpage_init"} => satp = 0
  /\ satp # 0 => pc = "idle" /\ result # "err" /\ step = NCalls

KernelInv ==
  /\ PageTableInv /\ layout \in Layouts
  /\ SpaceMap = Identity(CurrentPage)
  /\ \A t \in DOMAIN tables \ {root} : OnPath(t)
  /\ StepInv /\ PagesInv /\ BootInv /\ PanicExplained

(* What depends on the layout only. *)
LEMMA LayoutKept ==
  ASSUME layout' = layout
  PROVE  /\ \A v : Permission(v)' = Permission(v)
         /\ \A k : FirstPage(k)' = FirstPage(k) /\ EndPage(k)' = EndPage(k)
         /\ \A n : Identity(n)' = Identity(n)
         /\ Pool' = Pool /\ (EmptySection' <=> EmptySection)
         /\ (ShortOfPages' <=> ShortOfPages)
<1>1. \A v : Permission(v)' = Permission(v)
  BY Zenon DEF Permission, Between, text_end, rodata_end, data_end, stacks_start, stacks_end,
     intstacks_start, intstacks_end, bss_start, dram_end
<1>2. \A k : FirstPage(k)' = FirstPage(k) /\ EndPage(k)' = EndPage(k)
  BY Zenon DEF FirstPage, EndPage, TextPage, RodataPage, DataPage, StackPage, IntPage,
     BssPage, HeapPage, RamEnd
<1>3. ASSUME NEW n PROVE Identity(n)' = Identity(n)
  <2>1. Known(n)' = Known(n)
    BY <1>1 DEF Known
  <2>. QED
    BY <1>1, <2>1 DEF Identity
<1>4. bss_end' = bss_end /\ dram_end' = dram_end
  BY Zenon DEF bss_end, bss_start, intstacks_end, intstacks_start, stacks_end, stacks_start,
     data_end, rodata_end, text_end, dram_end
<1>5. Pool' = Pool
  BY <1>4, Zenon DEF Pool
<1>6. EmptySection' <=> EmptySection
  BY Zenon DEF EmptySection
<1>7. PagesNeeded' = PagesNeeded
  <2>. DEFINE used == {v \in 0..(VPages - 1) : Permission(v) # 0}
  <2>1. used' = used
    BY <1>1
  <2>. HIDE DEF used
  <2>. QED
    BY <2>1, Zenon DEF PagesNeeded, used
<1>8. ShortOfPages' <=> ShortOfPages
  BY <1>4, <1>7, Zenon DEF ShortOfPages
<1>. QED
  BY <1>1, <1>2, <1>3, <1>5, <1>6, <1>8


-----------------------------------------------------------------------------
(* The steps of page_map within a call of kpage_init. *)

(* Tables stay on their paths while the tables stay as they are. *)
LEMMA OnPathKept ==
  ASSUME layout' = layout, tables' = tables, root' = root,
         \A t \in DOMAIN tables \ {root} : OnPath(t)
  PROVE  \A t \in DOMAIN tables' \ {root'} : OnPath(t)'
<1>1. \A v : /\ Top(v)' = Top(v) /\ Mid(v)' = Mid(v)
             /\ MiddleOf(v)' = MiddleOf(v) /\ LastOf(v)' = LastOf(v)
             /\ Permission(v)' = Permission(v)
  BY SameTables, LayoutKept
<1>. QED
  BY <1>1 DEF OnPath

(* A step that changes no translation and takes pages for tables only. *)
LEMMA UnseenStep ==
  ASSUME KernelInv, boot = "kpage_init", UNCHANGED bootVars, PageTableInv',
         SpaceMap' = SpaceMap, start' = start, StepInv',
         avail' \cup DOMAIN tables' = avail \cup DOMAIN tables,
         \A t \in DOMAIN tables' \ {root'} : OnPath(t)'
  PROVE  KernelInv'
<1>1. UNCHANGED <<layout, boot, step, small, satp>>
  BY DEF bootVars
<1>2. layout' \in Layouts /\ satp = 0
  BY <1>1 DEF KernelInv, BootInv
<1>3. SpaceMap' = Identity(CurrentPage)'
  <2>1. PICK n : n = CurrentPage
    OBVIOUS
  <2>2. CurrentPage' = n /\ SpaceMap = Identity(n)
    BY <2>1 DEF CurrentPage, KernelInv
  <2>3. Identity(n)' = Identity(n)
    BY <1>1, LayoutKept
  <2>4. Identity(CurrentPage)' = Identity(n)'
    BY <2>2, Zenon DEF Identity, Known
  <2>. QED
    BY <2>2, <2>3, <2>4
<1>4. PagesInv'
  BY <1>1, LayoutKept DEF KernelInv, PagesInv
<1>5. BootInv' /\ PanicExplained'
  BY <1>1, <1>2 DEF KernelInv, BootInv, PanicExplained
<1>. QED
  BY <1>2, <1>3, <1>4, <1>5 DEF KernelInv

(* Steps that leave the tables alone. *)
LEMMA SameTablesStep ==
  ASSUME KernelInv, boot = "kpage_init", UNCHANGED bootVars, UNCHANGED <<tables, avail, root>>,
         start' = start, PageTableInv', StepInv'
  PROVE  KernelInv'
<1>1. SpaceMap' = SpaceMap
  BY SameTables
<1>2. \A t \in DOMAIN tables' \ {root'} : OnPath(t)'
  BY OnPathKept DEF KernelInv, bootVars
<1>. QED
  BY <1>1, <1>2, UnseenStep

(* The call under way: its pages have its permission in the memory map,    *)
(* and lie in the address space.                                           *)
LEMMA CurrentCall ==
  ASSUME KernelInv, pc \in {"loop", "walk"}
  PROVE  /\ step \in 1..NCalls /\ CurrentPage \in Nat
         /\ FirstPage(step) \in Nat /\ EndPage(step) \in Nat /\ EndPage(step) <= VPages
         /\ start <= end <=> CurrentPage < EndPage(step)
         /\ start <= end => /\ Permission(CurrentPage) = CallFlag(step)
                            /\ CallFlag(step) # 0 /\ start < VA_TOP
<1>1. layout \in Layouts /\ step \in 1..NCalls
  BY LayoutPages DEF KernelInv, StepInv, NCalls
<1>2. /\ FirstPage(step) \in Nat /\ EndPage(step) \in Nat /\ EndPage(step) <= VPages
      /\ VPages \in Nat
  BY <1>1, CallsOrdered, LayoutPages, Addresses
<1>3. start \in Nat /\ end \in Nat /\ Aligned(start) /\ Aligned(end)
  BY Sizes DEF KernelInv, PageTableInv, CallInv
<1>4. start <= end <=> CurrentPage <= Page(end)
  BY <1>3, AlignedOrder DEF CurrentPage, Page
<1>5. Page(end) = EndPage(step) - 1 /\ FirstPage(step) <= CurrentPage
  BY DEF KernelInv, StepInv
<1>6. CurrentPage \in Nat
  BY <1>3, PageOfAligned DEF CurrentPage
<1>7. start <= end <=> CurrentPage < EndPage(step)
  BY <1>2, <1>4, <1>5, <1>6
<1>8. CurrentPage < EndPage(step) => Permission(CurrentPage) = CallFlag(step)
  BY <1>1, <1>5, <1>6, PermissionOfCalls
<1>9. CallFlag(step) # 0
  BY DEF CallFlag, RW, RX, PTE_READ, PTE_WRITE, PTE_EXEC
<1>10. CurrentPage < EndPage(step) => start < VA_TOP
  <2>1. CurrentPage < EndPage(step) => CurrentPage \in 0..(VPages - 1)
    BY <1>2, <1>6
  <2>. QED
    BY <1>3, <2>1, PageBelowTop DEF CurrentPage
<1>. QED
  BY <1>1, <1>2, <1>6, <1>7, <1>8, <1>9, <1>10

(* Which call is under way, while step stands. *)
LEMMA CallKept ==
  ASSUME layout' = layout, step' = step
  PROVE  /\ FirstPage(step)' = FirstPage(step) /\ EndPage(step)' = EndPage(step)
         /\ CallFlag(step)' = CallFlag(step)
<1>1. PICK k : k = step
  OBVIOUS
<1>2. FirstPage(step)' = FirstPage(k)' /\ EndPage(step)' = EndPage(k)'
  BY <1>1, Zenon DEF FirstPage, EndPage
<1>3. FirstPage(k)' = FirstPage(k) /\ EndPage(k)' = EndPage(k)
  BY LayoutKept
<1>4. CallFlag(step)' = CallFlag(step)
  BY Zenon DEF CallFlag
<1>. QED
  BY <1>1, <1>2, <1>3, <1>4

(* page_map returns: it has come to the end of the call's pages, or fails. *)
LEMMA ReturnStep ==
  ASSUME KernelInv, boot = "kpage_init", UNCHANGED bootVars,
         MapDone \/ WalkFails \/ MapFails
  PROVE  KernelInv'
<1>1. /\ pc \in {"loop", "walk"} /\ pc' = "idle"
      /\ UNCHANGED <<tables, avail, root, start, end, phys, flag>>
      /\ MapDone => result' = "ok" /\ start > end
      /\ ~MapDone => result' = "err"
  BY DEF MapDone, WalkFails, MapFails, Return, memory, mapVars
<1>2. PageTableInv /\ StepInv
  BY DEF KernelInv
<1>3. PageTableInv'
  BY <1>2, MapDoneInv, WalkFailsInv, MapFailsInv
<1>4. layout' = layout /\ step' = step
  BY DEF bootVars
<1>5. MapDone => CurrentPage = EndPage(step)
  <2>. SUFFICES ASSUME MapDone PROVE CurrentPage = EndPage(step)
    OBVIOUS
  <2>1. ~(start <= end)
    BY <1>1, <1>2, Sizes DEF PageTableInv, CallInv
  <2>2. CurrentPage \in Nat /\ EndPage(step) \in Nat /\ ~(CurrentPage < EndPage(step))
    BY <1>1, <2>1, CurrentCall
  <2>. QED
    BY <1>1, <1>2, <2>2 DEF StepInv
<1>6. EndPage(step)' = EndPage(step) /\ CurrentPage' = CurrentPage
  BY <1>1, <1>4, CallKept DEF CurrentPage
<1>7. StepInv'
  BY <1>1, <1>2, <1>4, <1>5, <1>6 DEF StepInv
<1>. QED
  BY <1>1, <1>3, <1>7, SameTablesStep


(* walk begins, and never for an address behind the address space. *)
LEMMA WalkEnterStep ==
  ASSUME KernelInv, boot = "kpage_init", UNCHANGED bootVars, WalkEnter
  PROVE  KernelInv'
<1>1. /\ pc = "loop" /\ start <= end
      /\ pc' = IF start < VA_TOP THEN "walk" ELSE "panicked"
      /\ UNCHANGED <<tables, avail, root, start, end, phys, flag, result>>
  BY DEF WalkEnter, memory, mapVars
<1>2. PageTableInv /\ StepInv
  BY DEF KernelInv
<1>3. PageTableInv' /\ pc' = "walk"
  BY <1>1, <1>2, WalkEnterInv, CurrentCall
<1>4. layout' = layout /\ step' = step
  BY DEF bootVars
<1>5. StepInv'
  BY <1>1, <1>2, <1>3, <1>4, CallKept DEF StepInv, CurrentPage, Page
<1>. QED
  BY <1>1, <1>3, <1>5, SameTablesStep

(* walk follows an entry. *)
LEMMA WalkDownStep ==
  ASSUME KernelInv, boot = "kpage_init", UNCHANGED bootVars, WalkDown
  PROVE  KernelInv'
<1>1. pc = "walk" /\ UNCHANGED <<tables, avail, root, pc, start, end, phys, flag, result>>
  BY DEF WalkDown, memory, mapVars
<1>2. PageTableInv /\ StepInv
  BY DEF KernelInv
<1>3. PageTableInv'
  BY <1>2, WalkDownInv
<1>4. layout' = layout /\ step' = step
  BY DEF bootVars
<1>5. StepInv'
  BY <1>1, <1>2, <1>4, CallKept DEF StepInv, CurrentPage, Page
<1>. QED
  BY <1>1, <1>3, <1>5, SameTablesStep

(* The paths of a tree stay where an entry changes that was not in use, or *)
(* that is of the last level.                                              *)
LEMMA PathsKept ==
  ASSUME TablesInv, root \in DOMAIN tables, NEW lev, NEW up, NEW at, Tree(lev, up, at),
         root' = root, layout' = layout,
         \A s \in DOMAIN tables : \A j \in Indexes :
           lev[s] # 0 /\ Valid(tables[s][j]) => tables'[s][j] = tables[s][j],
         NEW t, OnPath(t)
  PROVE  OnPath(t)'
<1>1. PICK v \in 0..(VPages - 1) :
        /\ Permission(v) # 0 /\ Valid(Top(v))
        /\ t = MiddleOf(v) \/ (Valid(Mid(v)) /\ t = LastOf(v))
  BY DEF OnPath
<1>2. v \in Nat
  OBVIOUS
<1>3. /\ \A l \in 0..2 : vpn(v * PAGE_SIZE, l) \in Indexes
      /\ lev[root] = 2 /\ MiddleOf(v) \in DOMAIN tables /\ lev[MiddleOf(v)] = 1
  BY <1>1, <1>2, Path
<1>. DEFINE d == vpn(v * PAGE_SIZE, 2)
            f == vpn(v * PAGE_SIZE, 1)
<1>4. /\ Top(v) = tables[root][d] /\ Top(v)' = tables'[root][d]
      /\ Mid(v) = tables[MiddleOf(v)][f] /\ Mid(v)' = tables'[MiddleOf(v)'][f]
      /\ MiddleOf(v)' = pte_to_phy(Top(v)') /\ LastOf(v)' = pte_to_phy(Mid(v)')
      /\ MiddleOf(v) = pte_to_phy(Top(v)) /\ LastOf(v) = pte_to_phy(Mid(v))
  BY DEF Top, Mid, Lookup, MiddleOf, LastOf
<1>5. d \in Indexes /\ f \in Indexes
  BY <1>3
<1>. HIDE DEF d, f
<1>6. Top(v)' = Top(v) /\ MiddleOf(v)' = MiddleOf(v)
  BY <1>1, <1>3, <1>4, <1>5
<1>7. Valid(Mid(v)) => Mid(v)' = Mid(v) /\ LastOf(v)' = LastOf(v)
  BY <1>3, <1>4, <1>5, <1>6
<1>8. Permission(v)' = Permission(v)
  BY LayoutKept
<1>. QED
  BY <1>1, <1>6, <1>7, <1>8 DEF OnPath

(* walk takes a page for a table on the path of a page it has to map. *)
LEMMA WalkAllocStep ==
  ASSUME KernelInv, boot = "kpage_init", UNCHANGED bootVars, WalkAlloc
  PROVE  KernelInv'
<1>0. PICK pg : pg = Lowest(avail)
  OBVIOUS
<1>1. /\ pc = "walk" /\ level > 0 /\ ~Valid(Entry) /\ avail # {}
      /\ table' = pg /\ level' = level - 1
      /\ UNCHANGED <<root, pc, start, end, phys, flag, result>>
  BY <1>0 DEF WalkAlloc, mapVars
<1>2. LinkTable(table, vpn(start, level), pg)
  BY <1>0 DEF WalkAlloc, TakeTable, LinkTable
<1>3. PageTableInv /\ StepInv /\ TablesInv
  BY DEF KernelInv, PageTableInv
<1>4. PageTableInv' /\ SpaceMap' = SpaceMap
  BY <1>3, WalkAllocInv
<1>5. layout' = layout /\ step' = step
  BY DEF bootVars
<1>6. StepInv'
  BY <1>1, <1>3, <1>5, CallKept DEF StepInv, CurrentPage, Page
<1>7. pg \in avail
  BY <1>0, <1>1, <1>3, LowestIsMember DEF TablesInv
<1>8. DOMAIN tables' = DOMAIN tables \cup {pg} /\ avail' = avail \ {pg}
  BY <1>2 DEF LinkTable
<1>9. avail' \cup DOMAIN tables' = avail \cup DOMAIN tables
  BY <1>7, <1>8
<1>10. OnPath(pg)'
  <2>1. PICK v \in 0..(VPages - 1) : v = CurrentPage
    BY <1>1, <1>3, WalkAt
  <2>2. Permission(v) # 0
    <3>1. start <= end
      BY <1>1, <1>3 DEF PageTableInv, CallInv, WalkState
    <3>. QED
      BY <1>1, <2>1, <3>1, CurrentCall
  <2>3. Permission(v)' # 0
    BY <1>5, <2>2, LayoutKept
  <2>4. CurrentPage' = v
    BY <1>1, <2>1 DEF CurrentPage
  <2>5. level' = 1 \/ level' = 0
    BY <1>1, <1>3 DEF PageTableInv, CallInv
  <2>6. WalkState'
    BY <1>1, <1>4 DEF PageTableInv, CallInv
  <2>7. \/ level' = 1 /\ Valid(Top(CurrentPage)') /\ table' = MiddleOf(CurrentPage)'
        \/ /\ level' = 0 /\ Valid(Top(CurrentPage)') /\ Valid(Mid(CurrentPage)')
           /\ table' = LastOf(CurrentPage)'
    BY <2>5, <2>6 DEF WalkState
  <2>8. /\ Top(CurrentPage)' = Top(v)' /\ Mid(CurrentPage)' = Mid(v)'
        /\ MiddleOf(CurrentPage)' = MiddleOf(v)' /\ LastOf(CurrentPage)' = LastOf(v)'
    BY <2>4, Zenon DEF Top, Mid, MiddleOf, LastOf, Lookup
  <2>. QED
    BY <1>1, <2>3, <2>7, <2>8 DEF OnPath
<1>11. ASSUME NEW t \in DOMAIN tables \ {root} PROVE OnPath(t)'
  <2>1. /\ root \in DOMAIN tables /\ \E lev, up, at : Tree(lev, up, at)
        /\ table \in DOMAIN tables /\ vpn(start, level) \in Indexes
        /\ \A lev, up, at : Tree(lev, up, at) => lev[table] = level
    BY <1>1, <1>3, WalkAt
  <2>2. PICK lev, up, at : Tree(lev, up, at)
    BY <2>1
  <2>3. PICK e, i : e = table /\ i = vpn(start, level)
    OBVIOUS
  <2>4. LinkTable(e, i, pg) /\ ~Valid(tables[e][i]) /\ e \in DOMAIN tables /\ i \in Indexes
        /\ lev[e] # 0
    BY <1>1, <1>2, <2>1, <2>2, <2>3 DEF Entry
  <2>5. ASSUME NEW s \in DOMAIN tables, NEW j \in Indexes, Valid(tables[s][j])
        PROVE  tables'[s][j] = tables[s][j]
    <3>1. tables[s] \in [Indexes -> Nat] /\ s # pg
      BY <1>3, <1>7 DEF TablesInv
    <3>2. tables'[s] = IF s = e THEN [tables[s] EXCEPT ![i] = PointerTo(pg)] ELSE tables[s]
      BY <2>4, <3>1 DEF LinkTable
    <3>3. ~(s = e /\ j = i)
      BY <2>4, <2>5
    <3>. QED
      BY <3>1, <3>2, <3>3
  <2>6. \A s \in DOMAIN tables : \A j \in Indexes :
          lev[s] # 0 /\ Valid(tables[s][j]) => tables'[s][j] = tables[s][j]
    BY <2>5
  <2>7. OnPath(t)
    BY DEF KernelInv
  <2>. QED
    BY <1>1, <1>3, <1>5, <2>1, <2>2, <2>6, <2>7, PathsKept
<1>12. \A t \in DOMAIN tables' \ {root'} : OnPath(t)'
  BY <1>1, <1>8, <1>10, <1>11
<1>. QED
  BY <1>1, <1>4, <1>6, <1>9, <1>12, UnseenStep


(* The pages of the pool are those behind the kernel; there are two.       *)
LEMMA PoolPages ==
  ASSUME layout \in Layouts
  PROVE  /\ HeapPage \in Nat /\ RamEnd \in Nat /\ HeapPage + 1 < RamEnd
         /\ \A a \in Pool : /\ a \in Nat \ {0} /\ Aligned(a) /\ a = Bytes(Page(a))
                            /\ Page(a) \in HeapPage..(RamEnd - 1)
         /\ \A n \in HeapPage..(RamEnd - 1) : Bytes(n) \in Pool /\ Page(Bytes(n)) = n
<1>1. /\ HeapPage \in Nat /\ RamEnd \in Nat /\ bss_end = Bytes(HeapPage)
      /\ dram_end = Bytes(RamEnd) /\ HeapPage + 1 < RamEnd
  BY Addresses, LayoutPages
<1>2. HeapPage # 0
  BY <1>1, Addresses, LayoutPages DEF HeapPage, BssPage
<1>3. ASSUME NEW a \in Pool
      PROVE  /\ a \in Nat \ {0} /\ Aligned(a) /\ a = Bytes(Page(a))
             /\ Page(a) \in HeapPage..(RamEnd - 1)
  <2>1. Bytes(HeapPage) \in Nat /\ Bytes(RamEnd) \in Nat
    BY <1>1, PageOfBytes
  <2>2. /\ a \in Nat /\ Aligned(a) /\ Bytes(HeapPage) <= a /\ ~(Bytes(RamEnd) <= a)
    BY <1>1, <2>1 DEF Pool
  <2>3. Page(a) \in Nat /\ a = Bytes(Page(a))
    BY <2>2, PageOfAligned DEF Page, Bytes
  <2>4. HeapPage <= Page(a) /\ ~(RamEnd <= Page(a))
    BY <1>1, <2>1, <2>2, AlignedOrder, PageOfBytes DEF Page
  <2>5. a # 0
    BY <1>1, <1>2, <2>3, <2>4, Sizes DEF Bytes
  <2>. QED
    BY <1>1, <2>2, <2>3, <2>4, <2>5
<1>4. ASSUME NEW n \in HeapPage..(RamEnd - 1) PROVE Bytes(n) \in Pool /\ Page(Bytes(n)) = n
  <2>1. n \in Nat /\ HeapPage <= n /\ ~(RamEnd <= n)
    BY <1>1
  <2>2. /\ Bytes(n) \in Nat /\ Page(Bytes(n)) = n /\ Aligned(Bytes(n))
        /\ Bytes(HeapPage) \in Nat /\ Page(Bytes(HeapPage)) = HeapPage /\ Aligned(Bytes(HeapPage))
        /\ Bytes(RamEnd) \in Nat /\ Page(Bytes(RamEnd)) = RamEnd /\ Aligned(Bytes(RamEnd))
    BY <1>1, <2>1, PageOfBytes
  <2>3. Bytes(HeapPage) <= Bytes(n) /\ ~(Bytes(RamEnd) <= Bytes(n))
    BY <2>1, <2>2, AlignedOrder DEF Page
  <2>. QED
    BY <1>1, <2>2, <2>3 DEF Pool
<1>. QED
  BY <1>1, <1>3, <1>4

(* The root table can always be had. *)
LEMMA AllocRootStep ==
  ASSUME KernelInv, boot = "kpage_init", UNCHANGED bootVars, AllocRoot
  PROVE  KernelInv'
<1>1. PageTableInv /\ StepInv /\ TablesInv /\ layout \in Layouts /\ PagesInv
  BY DEF KernelInv, PageTableInv
<1>2. /\ pc = "root" /\ DOMAIN tables = {} /\ UNCHANGED <<start, end, phys, flag, result>>
  BY <1>1 DEF AllocRoot, mapVars, PageTableInv, CallInv, TreeInv
<1>3. small \in Pool /\ avail = Pool \ {small}
  BY <1>1, <1>2 DEF PagesInv
<1>4. avail # {}
  <2>1. /\ HeapPage \in HeapPage..(RamEnd - 1) /\ HeapPage + 1 \in HeapPage..(RamEnd - 1)
        /\ HeapPage # HeapPage + 1
    BY <1>1, PoolPages
  <2>2. Bytes(HeapPage) \in Pool /\ Bytes(HeapPage + 1) \in Pool
        /\ Bytes(HeapPage) # Bytes(HeapPage + 1)
    BY <1>1, <2>1, PoolPages
  <2>. QED
    BY <1>3, <2>2
<1>5. PICK pg : pg = Lowest(avail)
  OBVIOUS
<1>6. /\ pc' = "idle" /\ root' = pg /\ avail' = avail \ {pg}
      /\ DOMAIN tables' = DOMAIN tables \cup {pg}
  BY <1>4, <1>5 DEF AllocRoot, TakeTable
<1>7. pg \in avail
  BY <1>1, <1>4, <1>5, LowestIsMember DEF TablesInv
<1>8. PageTableInv' /\ SpaceMap' = SpaceMap
  BY <1>1, AllocRootInv
<1>9. layout' = layout /\ step' = step
  BY DEF bootVars
<1>10. StepInv'
  BY <1>1, <1>2, <1>6, <1>9, CallKept DEF StepInv, CurrentPage
<1>11. avail' \cup DOMAIN tables' = avail \cup DOMAIN tables
  BY <1>6, <1>7
<1>12. \A t \in DOMAIN tables' \ {root'} : OnPath(t)'
  BY <1>2, <1>6
<1>. QED
  BY <1>2, <1>8, <1>10, <1>11, <1>12, UnseenStep

(* page_map maps the next page of the memory map to itself. *)
LEMMA MapPageStep ==
  ASSUME KernelInv, boot = "kpage_init", UNCHANGED bootVars, MapPage
  PROVE  KernelInv'
<1>1. PageTableInv /\ StepInv /\ TablesInv /\ layout \in Layouts
  BY DEF KernelInv, PageTableInv
<1>2. /\ pc = "walk" /\ pc' = "loop" /\ level = 0
      /\ tables' = [tables EXCEPT ![table][vpn(start, 0)] = LeafEntry(phys, flag)]
      /\ start' = start + PAGE_SIZE /\ phys' = phys + PAGE_SIZE
      /\ UNCHANGED <<avail, root, end, flag, result>>
  BY DEF MapPage
<1>3. UNCHANGED <<layout, boot, step, small, satp>>
  BY DEF bootVars
<1>4. PICK n : n = CurrentPage
  OBVIOUS
<1>5. /\ n \in Nat /\ n \in 0..(VPages - 1) /\ n < EndPage(step) /\ EndPage(step) \in Nat
      /\ FirstPage(step) \in Nat /\ Permission(n) = CallFlag(step) /\ Permission(n) # 0
  <2>1. start <= end
    BY <1>1, <1>2 DEF PageTableInv, CallInv, WalkState
  <2>. QED
    BY <1>1, <1>2, <1>4, <2>1, CurrentCall, WalkAt
<1>6. start \in Nat /\ phys = start /\ flag = CallFlag(step) /\ start \div PAGE_SIZE = n
  BY <1>1, <1>2, <1>4 DEF PageTableInv, CallInv, StepInv, CurrentPage
<1>7. CurrentPage' = n + 1
  BY <1>2, <1>6, NextPage DEF CurrentPage
<1>8. /\ PageTableInv'
      /\ n \notin Mapped
      /\ SpaceMap' = [v \in Mapped \cup {n} |->
                        IF v = n THEN <<phys \div PAGE_SIZE, flag>> ELSE SpaceMap[v]]
  BY <1>1, <1>4, MapPageInv
<1>9. SpaceMap' = Identity(CurrentPage)'
  <2>1. SpaceMap = Identity(n)
    BY <1>4 DEF KernelInv
  <2>2. Mapped = Known(n)
    BY <2>1 DEF SpaceMap, Identity
  <2>3. Known(n) \cup {n} = Known(n + 1)
    BY <1>5 DEF Known
  <2>4. SpaceMap' = [v \in Known(n + 1) |-> IF v = n THEN <<n, Permission(n)>> ELSE Identity(n)[v]]
    BY <1>5, <1>6, <1>8, <2>1, <2>2, <2>3, Zenon
  <2>5. \A v \in Known(n + 1) :
          (IF v = n THEN <<n, Permission(n)>> ELSE Identity(n)[v]) = <<v, Permission(v)>>
    BY <2>3 DEF Identity
  <2>6. SpaceMap' = Identity(n + 1)
    BY <2>4, <2>5 DEF Identity
  <2>7. Identity(n + 1)' = Identity(n + 1)
    BY <1>3, LayoutKept
  <2>8. Identity(CurrentPage)' = Identity(n + 1)'
    BY <1>7, Zenon DEF Identity, Known
  <2>. QED
    BY <2>6, <2>7, <2>8
<1>10. StepInv'
  <2>1. FirstPage(step) <= n + 1 /\ n + 1 <= EndPage(step)
    BY <1>1, <1>2, <1>4, <1>5 DEF StepInv
  <2>2. phys' = start' /\ Page(end)' = EndPage(step) - 1
    BY <1>1, <1>2, <1>6 DEF StepInv, Page
  <2>. QED
    BY <1>1, <1>2, <1>3, <1>6, <1>7, <2>1, <2>2, CallKept DEF StepInv
<1>11. DOMAIN tables' = DOMAIN tables
  BY <1>2
<1>12. ASSUME NEW t \in DOMAIN tables' \ {root'} PROVE OnPath(t)'
  <2>1. /\ root \in DOMAIN tables /\ \E lev, up, at : Tree(lev, up, at)
        /\ \A lev, up, at : Tree(lev, up, at) => lev[table] = level
    BY <1>1, <1>2, WalkAt
  <2>2. PICK lev, up, at : Tree(lev, up, at)
    BY <2>1
  <2>3. lev[table] = 0
    BY <1>2, <2>1, <2>2
  <2>4. \A s \in DOMAIN tables : s # table => tables'[s] = tables[s]
    BY <1>2
  <2>5. \A s \in DOMAIN tables : \A j \in Indexes :
          lev[s] # 0 /\ Valid(tables[s][j]) => tables'[s][j] = tables[s][j]
    BY <2>3, <2>4
  <2>6. OnPath(t)
    BY <1>2, <1>11 DEF KernelInv
  <2>. QED
    BY <1>1, <1>2, <1>3, <2>1, <2>2, <2>5, <2>6, PathsKept
<1>13. PagesInv' /\ BootInv' /\ PanicExplained' /\ layout' \in Layouts
  <2>1. PagesInv /\ BootInv /\ satp = 0
    BY DEF KernelInv, BootInv
  <2>2. PagesInv'
    BY <1>2, <1>3, <1>11, <2>1, LayoutKept DEF PagesInv
  <2>3. BootInv' /\ PanicExplained'
    BY <1>3, <2>1 DEF BootInv, PanicExplained
  <2>. QED
    BY <1>1, <1>3, <2>2, <2>3
<1>. QED
  BY <1>8, <1>9, <1>10, <1>12, <1>13 DEF KernelInv


-----------------------------------------------------------------------------
(* The calls themselves. *)

(* page_map is called with sane arguments, and an empty range comes from   *)
(* an empty section.                                                       *)
LEMMA CallSane ==
  ASSUME layout \in Layouts, NEW k \in 1..NCalls
  PROVE  LET c == kpage_init[k]
         IN  /\ CallOK(c) /\ c.pa = c.va /\ PageAlignDown(c.va) = c.va /\ c.flag = CallFlag(k)
             /\ PageRequest(c).next = FirstPage(k) /\ PageRequest(c).last = EndPage(k) - 1
             /\ c.size = 0 => EmptySection
<1>. DEFINE c == kpage_init[k]
            f == FirstPage(k)
            e == EndPage(k)
<1>1. /\ f \in Nat \ {0} /\ e \in Nat /\ f <= e /\ e <= VPages /\ VPages \in Nat
      /\ HeapPage + 1 < RamEnd /\ NHART \in Nat \ {0} /\ k \in Nat /\ 1 <= k /\ k <= NCalls
  BY CallsOrdered, LayoutPages, Addresses
<1>2. c = Same(Bytes(f), Bytes(e - f), CallFlag(k))
  BY KpageInitCalls DEF PageCall
<1>3. c.va = Bytes(f) /\ c.pa = Bytes(f) /\ c.size = Bytes(e - f) /\ c.flag = CallFlag(k)
  BY <1>2 DEF Same
<1>. HIDE DEF c, f, e
<1>4. /\ Bytes(f) \in Nat /\ Page(Bytes(f)) = f /\ Aligned(Bytes(f)) /\ e - f \in Nat
      /\ Bytes(e - f) \in Nat /\ Bytes(f) + Bytes(e - f) = Bytes(e) /\ Bytes(e) \in Nat
  <2>1. e - f \in Nat /\ f + (e - f) = e
    BY <1>1
  <2>2. Bytes(f) \in Nat /\ Page(Bytes(f)) = f /\ Aligned(Bytes(f)) /\ Bytes(e) \in Nat
    BY <1>1, PageOfBytes
  <2>3. Bytes(e - f) \in Nat
    BY <2>1, PageOfBytes
  <2>4. Bytes(f) + Bytes(e - f) = Bytes(f + (e - f))
    BY <1>1, <2>1, BytesSum
  <2>. QED
    BY <2>1, <2>2, <2>3, <2>4
<1>5. Bytes(f) # 0 /\ (Bytes(e - f) = 0 <=> e = f)
  BY <1>1, <1>4, Sizes DEF Bytes
<1>6. Bytes(e) <= VA_TOP /\ VA_TOP \in Nat /\ VA_TOP < USIZE /\ USIZE \in Nat
  <2>1. VA_TOP = PAGE_SIZE * VPages /\ VA_TOP \in Nat
    BY Sizes DEF VPages, VA_TOP
  <2>2. USIZE \in Nat /\ USIZE > 2 * VA_TOP
    BY PageTableAssumption
  <2>3. Bytes(e) <= PAGE_SIZE * VPages
    BY <1>1, Sizes DEF Bytes
  <2>. QED
    BY <2>1, <2>2, <2>3
<1>7. CallFlag(k) \in FlagSets
  BY DEF CallFlag, FlagSets, RW, RX
<1>8. CallOK(c)
  <2>1. c.va \in 0..(USIZE - 1) /\ c.va + c.size <= USIZE
    BY <1>3, <1>4, <1>6
  <2>. QED
    BY <1>3, <1>4, <1>5, <1>7, <2>1 DEF CallOK
<1>9. PageAlignDown(c.va) = c.va
  BY <1>3, <1>4 DEF PageAlignDown, Aligned
<1>10. PageRequest(c).next = f
  BY <1>3, <1>4 DEF PageRequest, Page
<1>11. PageRequest(c).last = e - 1
  <2>1. CASE e = f
    <3>1. c.size = 0 /\ c.va \div PAGE_SIZE = f
      BY <1>3, <1>4, <1>5, <2>1 DEF Page
    <3>. QED
      BY <2>1, <3>1 DEF PageRequest
  <2>2. CASE e # f
    <3>1. c.size # 0 /\ c.va + c.size - 1 = Bytes(e) - 1
      BY <1>3, <1>4, <1>5, <2>2
    <3>2. Bytes(e) - 1 = PAGE_SIZE * (e - 1) + (PAGE_SIZE - 1)
      BY <1>1, Sizes DEF Bytes
    <3>3. (Bytes(e) - 1) \div PAGE_SIZE = e - 1
      <4>1. e - 1 \in Int /\ PAGE_SIZE - 1 \in 0..(PAGE_SIZE - 1)
        BY <1>1, Sizes
      <4>. QED
        BY <3>2, <4>1, Quotient, Sizes
    <3>. QED
      BY <3>1, <3>3 DEF PageRequest
  <2>. QED
    BY <2>1, <2>2
<1>12. c.size = 0 => EmptySection
  <2>. SUFFICES ASSUME e = f PROVE EmptySection
    BY <1>3, <1>5
  <2>1. /\ layout.text \in Nat /\ layout.rodata \in Nat /\ layout.data \in Nat
        /\ layout.bss \in Nat /\ UartPage \in Nat /\ TextPage \in Nat
        /\ StackPage \in Nat /\ IntPage \in Nat /\ BssPage \in Nat /\ HeapPage \in Nat
        /\ RamEnd \in Nat /\ RodataPage \in Nat /\ DataPage \in Nat
    BY LayoutPages, Addresses
  <2>2. \/ layout.text = 0 \/ layout.rodata = 0 \/ layout.data = 0 \/ layout.bss = 0
    BY <1>1, <2>1
       DEF e, f, FirstPage, EndPage, NCalls, RodataPage, DataPage, StackPage, HeapPage
  <2>. QED
    BY <2>2 DEF EmptySection
<1>. QED
  BY <1>3, <1>8, <1>9, <1>10, <1>11, <1>12 DEF c, f, e

(* kpage_init makes its next call: between the last one and this the       *)
(* memory map is empty.                                                    *)
LEMMA MapNextStep ==
  ASSUME KernelInv, MapNext
  PROVE  KernelInv'
<1>. DEFINE k == step + 1
            c == kpage_init[k]
<1>1. PageTableInv /\ StepInv /\ TablesInv /\ layout \in Layouts /\ PagesInv /\ BootInv
  BY DEF KernelInv, PageTableInv
<1>2. /\ boot = "kpage_init" /\ result # "err" /\ pc = "idle" /\ step' = k
      /\ page_map(c) \/ page_map_empty(c)
      /\ UNCHANGED <<layout, boot, small, satp, tables, avail, root>>
  BY DEF MapNext, page_map, page_map_empty, memory
<1>3. step \in 0..NCalls /\ k \in 1..NCalls /\ k - 1 = step /\ NCalls \in Nat
  <2>1. Len(kpage_init) = NCalls /\ step < Len(kpage_init)
    BY <1>1, KpageInitCalls DEF MapNext
  <2>2. NCalls \in Nat /\ step \in 0..NCalls
    BY <1>1, LayoutPages DEF StepInv, NCalls
  <2>. QED
    BY <2>1, <2>2
<1>4. /\ CallOK(c) /\ c.pa = c.va /\ PageAlignDown(c.va) = c.va /\ c.flag = CallFlag(k)
      /\ PageRequest(c).next = FirstPage(k) /\ PageRequest(c).last = EndPage(k) - 1
      /\ c.size = 0 => EmptySection
  BY <1>1, <1>3, CallSane
<1>5. CurrentPage = EndPage(step)
  BY <1>1, <1>2 DEF StepInv
<1>6. SpaceMap' = SpaceMap /\ \A t \in DOMAIN tables' \ {root'} : OnPath(t)'
  BY <1>2, SameTables, OnPathKept DEF KernelInv
<1>8. PICK i \in 1..NCalls : i = k
  BY <1>3
<1>9. satp = 0 /\ satp' = 0
  BY <1>1, <1>2 DEF BootInv
<1>10. BootInv' /\ PanicExplained' /\ layout' \in Layouts
  BY <1>1, <1>2, <1>9 DEF BootInv, PanicExplained
<1>11. PagesInv'
  BY <1>1, <1>2, LayoutKept DEF PagesInv
<1>. HIDE DEF c
<1>12. CASE page_map(c)
  <2>1. /\ pc' = "loop" /\ start' = PageAlignDown(c.va) /\ end' = LastPage(c)
        /\ phys' = c.pa /\ flag' = c.flag
    BY <1>12 DEF page_map
  <2>2. PageTableInv'
    BY <1>1, <1>4, <1>12, PageMapInv
  <2>3. /\ PageAlignDown(c.va) \div PAGE_SIZE = PageRequest(c).next
        /\ LastPage(c) \div PAGE_SIZE = PageRequest(c).last
    BY <1>4, RequestedPages
  <2>4. /\ CurrentPage' = FirstPage(k) /\ Page(end)' = EndPage(k) - 1
        /\ phys' = start' /\ flag' = CallFlag(k)
    BY <1>4, <2>1, <2>3 DEF CurrentPage, Page
  <2>5. /\ FirstPage(k) \in Nat /\ EndPage(k) \in Nat /\ EndPage(step) \in Nat
        /\ EndPage(step) <= FirstPage(k) /\ FirstPage(k) <= EndPage(k)
    BY <1>1, <1>3, CallsOrdered
  <2>6. StepInv'
    <3>1. /\ FirstPage(step)' = FirstPage(i)' /\ EndPage(step)' = EndPage(i)'
          /\ CallFlag(step)' = CallFlag(i)
      BY <1>2, <1>8, Zenon DEF FirstPage, EndPage, CallFlag
    <3>2. FirstPage(i)' = FirstPage(i) /\ EndPage(i)' = EndPage(i)
      BY <1>2, LayoutKept
    <3>3. step' \in 0..NCalls /\ step' # 0
      BY <1>2, <1>3
    <3>. QED
      BY <1>8, <2>1, <2>4, <2>5, <3>1, <3>2, <3>3 DEF StepInv
  <2>7. SpaceMap' = Identity(CurrentPage)'
    <3>1. PICK m, n : m = EndPage(step) /\ n = FirstPage(k)
      OBVIOUS
    <3>2. m \in Nat /\ n \in Nat /\ m <= n
      BY <2>5, <3>1
    <3>3. \A v \in Nat : m <= v /\ v < n => Permission(v) = 0
      BY <1>1, <1>3, <3>1, PermissionOfCalls
    <3>4. Known(m) = Known(n)
      BY <3>2, <3>3 DEF Known
    <3>5. Identity(m) = Identity(n)
      BY <3>4, Zenon DEF Identity
    <3>6. SpaceMap = Identity(m)
      BY <1>5, <3>1, Zenon DEF KernelInv
    <3>7. Identity(n)' = Identity(n)
      BY <1>2, LayoutKept
    <3>8. CurrentPage' = n
      BY <2>4, <3>1
    <3>9. Identity(CurrentPage)' = Identity(n)'
      BY <3>8, Zenon DEF Identity, Known
    <3>. QED
      BY <1>6, <3>5, <3>6, <3>7, <3>9, Zenon
  <2>. QED
    BY <1>6, <1>10, <1>11, <2>2, <2>6, <2>7 DEF KernelInv
<1>13. CASE page_map_empty(c)
  <2>1. pc' = "panicked" /\ start' = start /\ EmptySection
    BY <1>4, <1>13 DEF page_map_empty, mapVars
  <2>2. PageTableInv'
    BY <1>1, <1>13, PageMapEmptyInv
  <2>3. StepInv'
    <3>1. EmptySection'
      BY <1>2, <2>1, LayoutKept
    <3>2. step' \in 0..NCalls
      BY <1>2, <1>3
    <3>. QED
      BY <2>1, <3>1, <3>2 DEF StepInv
  <2>4. SpaceMap' = Identity(CurrentPage)'
    <3>1. PICK n : n = CurrentPage
      OBVIOUS
    <3>2. CurrentPage' = n /\ SpaceMap = Identity(n)
      BY <2>1, <3>1 DEF CurrentPage, KernelInv
    <3>3. Identity(n)' = Identity(n)
      BY <1>2, LayoutKept
    <3>4. Identity(CurrentPage)' = Identity(n)'
      BY <3>2, Zenon DEF Identity, Known
    <3>. QED
      BY <1>6, <3>2, <3>3, <3>4
  <2>. QED
    BY <1>6, <1>10, <1>11, <2>2, <2>3, <2>4 DEF KernelInv
<1>. QED
  BY <1>2, <1>12, <1>13


-----------------------------------------------------------------------------
(* Counting pages. *)

(* The pages of the memory map, and the regions of a table of the last and *)
(* of the middle level that hold one.                                      *)
Used    == {v \in 0..(VPages - 1) : Permission(v) # 0}
Regions == {v \div PTE_TOP : v \in Used}
Blocks  == {v \div (PTE_TOP * PTE_TOP) : v \in Used}

(* No more values than arguments. *)
LEMMA ImageCount ==
  ASSUME NEW f, NEW S, IsFiniteSet(S), f = [x \in S |-> f[x]]
  PROVE  /\ IsFiniteSet({f[x] : x \in S}) /\ Cardinality({f[x] : x \in S}) \in Nat
         /\ Cardinality(S) \in Nat /\ Cardinality({f[x] : x \in S}) <= Cardinality(S)
<1>1. f \in Surjection(S, {f[x] : x \in S})
  BY DEF Surjection
<1>2. IsFiniteSet({f[x] : x \in S}) /\ Cardinality({f[x] : x \in S}) <= Cardinality(S)
  BY <1>1, FS_Surjection, Zenon
<1>. QED
  BY <1>2, FS_CardinalityType

(* There are no more tables than the pages of the memory map need: each is *)
(* on the path of one, and two pages of a region share their path.         *)
LEMMA TablesCounted ==
  ASSUME KernelInv
  PROVE  /\ IsFiniteSet(DOMAIN tables) /\ Cardinality(DOMAIN tables) \in Nat
         /\ Cardinality(Regions) \in Nat /\ Cardinality(Blocks) \in Nat
         /\ Cardinality(DOMAIN tables) <= 1 + Cardinality(Regions) + Cardinality(Blocks)
<1>1. TablesInv /\ layout \in Layouts /\ \A t \in DOMAIN tables \ {root} : OnPath(t)
  BY DEF KernelInv, PageTableInv
<1>2. PTE_TOP \in Nat \ {0} /\ VPages \in Nat /\ PTE_TOP * PTE_TOP \in Nat \ {0}
  BY <1>1, Sizes, LayoutPages
<1>3. IsFiniteSet(Regions) /\ IsFiniteSet(Blocks)
  <2>1. ASSUME NEW n \in Nat \ {0}, NEW v \in Nat PROVE v \div n \in Nat /\ v \div n <= v
    OBVIOUS
  <2>2. Regions \in SUBSET (0..(VPages - 1)) /\ Blocks \in SUBSET (0..(VPages - 1))
    <3>1. ASSUME NEW n \in Nat \ {0}, NEW v \in Used PROVE v \div n \in 0..(VPages - 1)
      <4>1. v \in Nat /\ v <= VPages - 1
        BY <1>2 DEF Used
      <4>. QED
        BY <1>2, <2>1, <4>1
    <3>. QED
      BY <1>2, <3>1 DEF Regions, Blocks
  <2>3. IsFiniteSet(0..(VPages - 1))
    BY <1>2, FS_Interval
  <2>. QED
    BY <2>2, <2>3, FS_Subset
<1>4. PICK g, h :
        /\ g = [x \in Blocks |-> pte_to_phy(tables[root][x % PTE_TOP])]
        /\ h = [x \in Regions |->
                  pte_to_phy(tables[pte_to_phy(tables[root][(x \div PTE_TOP) % PTE_TOP])][x % PTE_TOP])]
  OBVIOUS
<1>. DEFINE G == {g[x] : x \in Blocks}
            H == {h[x] : x \in Regions}
<1>5. /\ g = [x \in Blocks |-> g[x]] /\ h = [x \in Regions |-> h[x]]
      /\ \A x \in Blocks : g[x] = pte_to_phy(tables[root][x % PTE_TOP])
      /\ \A x \in Regions : h[x] =
           pte_to_phy(tables[pte_to_phy(tables[root][(x \div PTE_TOP) % PTE_TOP])][x % PTE_TOP])
  BY <1>4
<1>6. /\ IsFiniteSet(G) /\ Cardinality(G) \in Nat /\ Cardinality(Blocks) \in Nat
      /\ Cardinality(G) <= Cardinality(Blocks)
      /\ IsFiniteSet(H) /\ Cardinality(H) \in Nat /\ Cardinality(Regions) \in Nat
      /\ Cardinality(H) <= Cardinality(Regions)
  BY <1>3, <1>5, ImageCount
<1>7. ASSUME NEW t \in DOMAIN tables, t # root PROVE t \in G \cup H
  <2>1. PICK v \in Used :
          /\ Valid(Top(v))
          /\ t = MiddleOf(v) \/ (Valid(Mid(v)) /\ t = LastOf(v))
    BY <1>1, <1>7 DEF OnPath, Used
  <2>2. v \in Nat
    BY DEF Used
  <2>. DEFINE x == v \div PTE_TOP
              y == v \div (PTE_TOP * PTE_TOP)
  <2>3. y = x \div PTE_TOP
    BY <1>2, <2>2
  <2>4. x \in Regions /\ y \in Blocks
    BY DEF Regions, Blocks
  <2>5. vpn(v * PAGE_SIZE, 2) = y % PTE_TOP /\ vpn(v * PAGE_SIZE, 1) = x % PTE_TOP
    BY <2>2, <2>3, VpnDigits
  <2>. HIDE DEF x, y
  <2>6. /\ MiddleOf(v) = pte_to_phy(tables[root][y % PTE_TOP])
        /\ LastOf(v) = pte_to_phy(tables[MiddleOf(v)][x % PTE_TOP])
    BY <2>5, Zenon DEF MiddleOf, LastOf, Top, Mid, Lookup
  <2>7. MiddleOf(v) = g[y] /\ LastOf(v) = h[x]
    BY <1>5, <2>3, <2>4, <2>6, Zenon
  <2>. QED
    BY <2>1, <2>4, <2>7
<1>. HIDE DEF G, H
<1>8. DOMAIN tables \subseteq (G \cup H) \cup {root}
  BY <1>7
<1>9. /\ IsFiniteSet(G \cup H) /\ Cardinality(G \cup H) \in Nat
      /\ Cardinality(G \cup H) <= Cardinality(G) + Cardinality(H)
  <2>1. /\ IsFiniteSet(G \cup H)
        /\ Cardinality(G \cup H) = Cardinality(G) + Cardinality(H) - Cardinality(G \cap H)
    BY <1>6, FS_Union
  <2>2. Cardinality(G \cap H) \in Nat /\ Cardinality(G \cup H) \in Nat
    BY <1>6, <2>1, FS_Intersection, FS_CardinalityType
  <2>. QED
    BY <1>6, <2>1, <2>2
<1>10. /\ IsFiniteSet((G \cup H) \cup {root}) /\ Cardinality((G \cup H) \cup {root}) \in Nat
       /\ Cardinality((G \cup H) \cup {root}) <= Cardinality(G \cup H) + 1
  <2>1. /\ IsFiniteSet((G \cup H) \cup {root})
        /\ Cardinality((G \cup H) \cup {root}) =
             IF root \in G \cup H THEN Cardinality(G \cup H) ELSE Cardinality(G \cup H) + 1
    BY <1>9, FS_AddElement, Zenon
  <2>. QED
    BY <1>9, <2>1
<1>11. /\ IsFiniteSet(DOMAIN tables) /\ Cardinality(DOMAIN tables) \in Nat
       /\ Cardinality(DOMAIN tables) <= Cardinality((G \cup H) \cup {root})
  BY <1>8, <1>10, FS_Subset, FS_CardinalityType
<1>. QED
  BY <1>6, <1>9, <1>10, <1>11

(* Once the small pool has its page, few free pages mean a small RAM. *)
LEMMA FewPages ==
  ASSUME KernelInv, boot \notin {"pool", "galloc"}
  PROVE  /\ IsFiniteSet(avail) /\ Cardinality(avail) \in Nat
         /\ Cardinality(avail) <= 6 => ShortOfPages
<1>1. /\ TablesInv /\ layout \in Layouts /\ small \in Pool
      /\ avail \cup DOMAIN tables = Pool \ {small} /\ avail \cap DOMAIN tables = {}
  BY DEF KernelInv, PageTableInv, PagesInv, TablesInv
<1>2. /\ HeapPage \in Nat /\ RamEnd \in Nat /\ HeapPage + 1 < RamEnd
      /\ bss_end = Bytes(HeapPage) /\ dram_end = Bytes(RamEnd)
  BY <1>1, PoolPages, Addresses
<1>3. Page(dram_end - bss_end) = RamEnd - HeapPage
  <2>1. RamEnd - HeapPage \in Nat /\ dram_end - bss_end = Bytes(RamEnd - HeapPage)
    BY <1>2, BytesSum
  <2>. QED
    BY <2>1, PageOfBytes
<1>4. IsFiniteSet(Pool) /\ Cardinality(Pool) = RamEnd - HeapPage
  <2>. DEFINE R == HeapPage..(RamEnd - 1)
  <2>1. PICK f : f = [n \in R |-> Bytes(n)]
    OBVIOUS
  <2>2. \A n \in R : f[n] = Bytes(n) /\ Bytes(n) \in Pool /\ Page(Bytes(n)) = n
    BY <1>1, <2>1, PoolPages
  <2>3. \A a \in Pool : \E n \in R : f[n] = a
    BY <1>1, <2>2, PoolPages
  <2>4. IsFiniteSet(R) /\ Cardinality(R) = RamEnd - HeapPage
    <3>1. /\ HeapPage \in Int /\ RamEnd - 1 \in Int /\ ~(HeapPage > RamEnd - 1)
          /\ (RamEnd - 1) - HeapPage + 1 = RamEnd - HeapPage
      BY <1>2
    <3>2. /\ IsFiniteSet(R)
          /\ Cardinality(R) = IF HeapPage > RamEnd - 1 THEN 0 ELSE (RamEnd - 1) - HeapPage + 1
      BY <3>1, FS_Interval, Zenon
    <3>. QED
      BY <3>1, <3>2
  <2>. HIDE DEF R
  <2>5. f \in [R -> Pool]
    BY <2>1, <2>2
  <2>6. \A m, n \in R : f[m] = f[n] => m = n
    BY <2>2
  <2>7. ExistsBijection(R, Pool)
    BY <2>3, <2>5, <2>6 DEF ExistsBijection, Bijection, Injection, IsInjective, Surjection
  <2>. QED
    BY <2>4, <2>7, FS_Bijection
<1>5. IsFiniteSet(Pool \ {small}) /\ Cardinality(Pool \ {small}) = RamEnd - HeapPage - 1
  BY <1>1, <1>4, FS_RemoveElement
<1>6. IsFiniteSet(avail) /\ Cardinality(avail) \in Nat
  BY <1>1, <1>5, FS_Subset, FS_CardinalityType
<1>7. /\ IsFiniteSet(DOMAIN tables) /\ Cardinality(DOMAIN tables) \in Nat
      /\ Cardinality(Regions) \in Nat /\ Cardinality(Blocks) \in Nat
      /\ Cardinality(DOMAIN tables) <= 1 + Cardinality(Regions) + Cardinality(Blocks)
  BY TablesCounted
<1>8. RamEnd - HeapPage - 1 = Cardinality(avail) + Cardinality(DOMAIN tables)
  <2>1. Cardinality(avail \cup DOMAIN tables) =
          Cardinality(avail) + Cardinality(DOMAIN tables) - Cardinality(avail \cap DOMAIN tables)
    BY <1>6, <1>7, FS_Union
  <2>2. Cardinality(avail \cap DOMAIN tables) = 0
    BY <1>1, FS_EmptySet
  <2>3. Cardinality(avail \cup DOMAIN tables) = RamEnd - HeapPage - 1
    BY <1>1, <1>5, Zenon
  <2>. QED
    BY <1>6, <1>7, <2>1, <2>2, <2>3
<1>9. PagesNeeded = 1 + Cardinality(Regions) + Cardinality(Blocks) + 1 + 7
  BY Zenon DEF PagesNeeded, Regions, Blocks, Used
<1>10. Cardinality(avail) <= 6 => RamEnd - HeapPage < PagesNeeded
  BY <1>2, <1>6, <1>7, <1>8, <1>9
<1>. QED
  BY <1>3, <1>6, <1>10 DEF ShortOfPages


-----------------------------------------------------------------------------
(* The steps of vm::init and main around kpage_init. *)

(* Steps before the root table: the pool fills, the small pool takes a     *)
(* page.                                                                   *)
LEMMA PoolStep ==
  ASSUME KernelInv, pc = "root", avail' \subseteq Pool,
         UNCHANGED <<tables, root, pc, start, end, phys, flag, table, level, result>>,
         UNCHANGED <<layout, step, satp>>, PagesInv', BootInv', PanicExplained'
  PROVE  KernelInv'
<1>1. PageTableInv /\ TablesInv /\ TreeInv /\ CallInv /\ StepInv /\ layout \in Layouts
  BY DEF KernelInv, PageTableInv
<1>2. DOMAIN tables = {} /\ result = "none"
  BY <1>1 DEF CallInv, TreeInv
<1>3. SpaceMap' = SpaceMap /\ TreeInv'
  BY <1>1, SameTables
<1>4. \A a \in avail' : a \in Nat \ {0} /\ Aligned(a)
  BY <1>1, PoolPages
<1>5. TablesInv'
  BY <1>1, <1>2, <1>4 DEF TablesInv
<1>6. CallInv'
  BY <1>1 DEF CallInv
<1>7. FailureExplained'
  BY <1>2 DEF FailureExplained
<1>8. StepInv'
  BY <1>1, CallKept DEF StepInv, CurrentPage
<1>9. SpaceMap' = Identity(CurrentPage)'
  <2>1. PICK n : n = CurrentPage
    OBVIOUS
  <2>2. CurrentPage' = n /\ SpaceMap = Identity(n)
    BY <2>1 DEF CurrentPage, KernelInv
  <2>3. Identity(n)' = Identity(n)
    BY LayoutKept
  <2>4. Identity(CurrentPage)' = Identity(n)'
    BY <2>2, Zenon DEF Identity, Known
  <2>. QED
    BY <1>3, <2>2, <2>3, <2>4
<1>10. \A t \in DOMAIN tables' \ {root'} : OnPath(t)'
  BY <1>2
<1>. QED
  BY <1>1, <1>3, <1>5, <1>6, <1>7, <1>8, <1>9, <1>10 DEF KernelInv, PageTableInv

(* Steps that leave page tables and pool alone. *)
LEMMA BootStep ==
  ASSUME KernelInv, UNCHANGED vars, UNCHANGED <<layout, step>>,
         PagesInv', BootInv', PanicExplained'
  PROVE  KernelInv'
<1>1. UNCHANGED <<tables, avail, root, pc, start, end, phys, flag, table, level, result>>
  BY DEF vars, memory, mapVars, walkVars
<1>2. PageTableInv /\ StepInv /\ layout \in Layouts
  BY DEF KernelInv
<1>3. PageTableInv' /\ SpaceMap' = SpaceMap
  BY <1>2, PageTableStutter
<1>4. StepInv'
  BY <1>1, <1>2, CallKept, LayoutKept DEF StepInv, CurrentPage, Page
<1>5. SpaceMap' = Identity(CurrentPage)'
  <2>1. PICK n : n = CurrentPage
    OBVIOUS
  <2>2. CurrentPage' = n /\ SpaceMap = Identity(n)
    BY <1>1, <2>1 DEF CurrentPage, KernelInv
  <2>3. Identity(n)' = Identity(n)
    BY LayoutKept
  <2>4. Identity(CurrentPage)' = Identity(n)'
    BY <2>2, Zenon DEF Identity, Known
  <2>. QED
    BY <1>3, <2>2, <2>3, <2>4
<1>6. \A t \in DOMAIN tables' \ {root'} : OnPath(t)'
  BY <1>1, OnPathKept DEF KernelInv
<1>. QED
  BY <1>2, <1>3, <1>4, <1>5, <1>6 DEF KernelInv

(* PagePool::new and Galloc::new. *)
LEMMA NewPoolStep ==
  ASSUME KernelInv, NewPool \/ NewGalloc
  PROVE  KernelInv'
<1>1. PagesInv /\ BootInv /\ PanicExplained /\ layout \in Layouts
      /\ TablesInv /\ TreeInv /\ CallInv
  BY DEF KernelInv, PageTableInv
<1>2. /\ UNCHANGED <<tables, root, pc, start, end, phys, flag, table, level, result>>
      /\ UNCHANGED <<layout, step, satp>>
  BY DEF NewPool, NewGalloc, mapVars, walkVars
<1>3. Pool' = Pool
  BY <1>2, LayoutKept
<1>4. pc = "root" /\ satp = 0 /\ DOMAIN tables = {}
  <2>1. boot \in {"pool", "galloc"}
    BY DEF NewPool, NewGalloc
  <2>2. pc = "root" /\ satp = 0
    BY <1>1, <2>1 DEF PagesInv, BootInv
  <2>. QED
    BY <1>1, <2>2 DEF CallInv, TreeInv
<1>5. CASE NewPool
  <2>1. boot' = "galloc" /\ avail' = Pool
    BY <1>5 DEF NewPool, Pool
  <2>. QED
    BY <1>2, <1>3, <1>4, <2>1, PoolStep DEF PagesInv, BootInv, PanicExplained
<1>6. CASE NewGalloc
  <2>1. boot' = "kpage_init" /\ small' = Lowest(avail) /\ avail' = avail \ {small'}
        /\ avail = Pool
    BY <1>1, <1>6 DEF NewGalloc, PagesInv
  <2>2. avail # {}
    <3>1. HeapPage \in HeapPage..(RamEnd - 1)
      BY <1>1, PoolPages
    <3>. QED
      BY <1>1, <2>1, <3>1, PoolPages
  <2>3. small' \in Pool
    BY <1>1, <2>1, <2>2, LowestIsMember DEF TablesInv
  <2>4. PagesInv'
    BY <1>2, <1>3, <1>4, <2>1, <2>3 DEF PagesInv
  <2>5. BootInv' /\ PanicExplained'
    BY <1>2, <1>4, <2>1 DEF BootInv, PanicExplained
  <2>6. avail' \subseteq Pool
    BY <2>1
  <2>. QED
    BY <1>2, <1>4, <2>4, <2>5, <2>6, PoolStep
<1>. QED
  BY <1>5, <1>6

(* vm::init panics for want of pages or over an empty section; a failure   *)
(* because a page is mapped already does not happen.                       *)
LEMMA InitFailsStep ==
  ASSUME KernelInv, InitFails
  PROVE  KernelInv'
<1>1. PagesInv /\ BootInv /\ StepInv /\ FailureExplained /\ SpaceMap = Identity(CurrentPage)
  BY DEF KernelInv, PageTableInv
<1>2. /\ boot = "kpage_init" /\ boot' = "panicked"
      /\ result = "err" \/ pc = "panicked"
      /\ UNCHANGED vars /\ UNCHANGED <<layout, step, small, satp>>
  BY DEF InitFails
<1>3. UNCHANGED <<tables, avail, pc, result>>
  BY <1>2 DEF vars, memory
<1>4. result = "err" => ShortOfPages
  <2>. SUFFICES ASSUME result = "err" PROVE ShortOfPages
    OBVIOUS
  <2>1. Mapped = Known(CurrentPage)
    BY <1>1 DEF SpaceMap, Identity
  <2>2. CurrentPage \notin Known(CurrentPage)
    BY DEF Known
  <2>3. avail = {}
    BY <1>1, <2>1, <2>2 DEF FailureExplained, CurrentPage
  <2>4. Cardinality(avail) = 0
    BY <2>3, FS_EmptySet
  <2>5. boot \notin {"pool", "galloc"} /\ Cardinality(avail) <= 6
    BY <1>2, <2>4
  <2>. QED
    BY <2>5, FewPages
<1>5. pc = "panicked" => EmptySection
  BY <1>1 DEF StepInv
<1>6. ShortOfPages \/ (EmptySection /\ pc = "panicked")
  BY <1>2, <1>4, <1>5
<1>7. (ShortOfPages <=> ShortOfPages') /\ (EmptySection <=> EmptySection') /\ Pool' = Pool
  BY <1>2, LayoutKept
<1>8. PanicExplained'
  BY <1>3, <1>6, <1>7 DEF PanicExplained
<1>9. PagesInv'
  BY <1>1, <1>2, <1>3, <1>7 DEF PagesInv
<1>10. BootInv'
  BY <1>1, <1>2, <1>3 DEF BootInv
<1>. QED
  BY <1>2, <1>8, <1>9, <1>10, BootStep

(* satp is written when the last call has returned. *)
LEMMA WriteSatpStep ==
  ASSUME KernelInv, write_satp
  PROVE  KernelInv'
<1>1. PagesInv /\ BootInv /\ layout \in Layouts
  BY DEF KernelInv
<1>2. /\ boot = "kpage_init" /\ boot' = "test_palloc" /\ pc = "idle" /\ result # "err"
      /\ step = NCalls /\ UNCHANGED vars /\ UNCHANGED <<layout, step, small>>
  BY <1>1, KpageInitCalls DEF write_satp
<1>3. UNCHANGED <<tables, avail, pc, result>>
  BY <1>2 DEF vars, memory
<1>4. PagesInv' /\ BootInv' /\ PanicExplained'
  BY <1>1, <1>2, <1>3, LayoutKept DEF PagesInv, BootInv, PanicExplained
<1>. QED
  BY <1>2, <1>4, BootStep

(* The tests of main panic for want of pages only. *)
LEMMA TestsStep ==
  ASSUME KernelInv, test_palloc \/ test_galloc
  PROVE  KernelInv'
<1>1. PagesInv /\ BootInv
  BY DEF KernelInv
<1>2. /\ boot \in {"test_palloc", "test_galloc"}
      /\ boot' \in {"test_galloc", "done", "panicked"}
      /\ boot' = "panicked" => ~(Cardinality(avail) >= 7) \/ ~(Cardinality(avail) >= 3)
      /\ UNCHANGED vars /\ UNCHANGED <<layout, step, small, satp>>
  BY DEF test_palloc, test_galloc
<1>3. UNCHANGED <<tables, avail, pc, result>>
  BY <1>2 DEF vars, memory
<1>4. boot' = "panicked" => ShortOfPages
  BY <1>2, FewPages
<1>5. PagesInv' /\ BootInv' /\ PanicExplained'
  BY <1>1, <1>2, <1>3, <1>4, LayoutKept DEF PagesInv, BootInv, PanicExplained
<1>. QED
  BY <1>2, <1>5, BootStep

(* Every step of the boot keeps the invariant. *)
LEMMA KernelStep ==
  ASSUME KernelInv, [KNext]_kvars
  PROVE  KernelInv'
<1>1. CASE MapWork
  <2>1. boot = "kpage_init" /\ Work /\ UNCHANGED bootVars
    BY <1>1 DEF MapWork
  <2>. QED
    BY <2>1, AllocRootStep, ReturnStep, WalkEnterStep, WalkDownStep, WalkAllocStep,
       MapPageStep DEF Work
<1>2. CASE UNCHANGED kvars
  <2>1. UNCHANGED vars /\ UNCHANGED <<layout, boot, step, small, satp>>
    BY <1>2 DEF kvars, bootVars
  <2>2. UNCHANGED <<tables, avail, pc, result>>
    BY <2>1 DEF vars, memory
  <2>3. PagesInv' /\ BootInv' /\ PanicExplained'
    BY <2>1, <2>2, LayoutKept DEF KernelInv, PagesInv, BootInv, PanicExplained
  <2>. QED
    BY <2>1, <2>3, BootStep
<1>. QED
  BY <1>1, <1>2, NewPoolStep, MapNextStep, InitFailsStep, WriteSatpStep, TestsStep
     DEF KNext, Boot, Stopped

(* Nothing is mapped and no page taken at the start. *)
LEMMA KernelInit == KInit => KernelInv
<1>. SUFFICES ASSUME KInit PROVE KernelInv
  OBVIOUS
<1>1. /\ Start({}) /\ layout \in Layouts /\ boot = "pool" /\ step = 0 /\ satp = 0
  BY DEF KInit
<1>2. PageTableInv /\ Mapped = {}
  BY <1>1, StartInv
<1>3. DOMAIN tables = {} /\ avail = {} /\ pc = "root" /\ result = "none" /\ start = 0
  BY <1>1 DEF Start
<1>4. CurrentPage = 0
  BY <1>3, Sizes DEF CurrentPage
<1>5. SpaceMap = Identity(CurrentPage)
  <2>1. Known(0) = {}
    BY <1>1, LayoutPages DEF Known
  <2>. QED
    BY <1>2, <1>4, <2>1 DEF SpaceMap, Identity
<1>6. NCalls \in Nat
  BY <1>1, LayoutPages DEF NCalls
<1>7. StepInv /\ PagesInv /\ BootInv /\ PanicExplained
  BY <1>1, <1>3, <1>4, <1>6 DEF StepInv, PagesInv, BootInv, PanicExplained, EndPage
<1>. QED
  BY <1>1, <1>2, <1>3, <1>5, <1>7 DEF KernelInv


-----------------------------------------------------------------------------
(* The invariant of the boot: whichever layout the kernel is linked to,    *)
(* the page tables hold, at every step of kpage_init, the memory map below *)
(* the page it has come to.                                                *)
THEOREM KernelInvHolds == KSpec => []KernelInv
<1>1. KInit => KernelInv
  BY KernelInit
<1>2. KernelInv /\ [KNext]_kvars => KernelInv'
  BY KernelStep
<1>. QED
  BY <1>1, <1>2, PTL DEF KSpec

(* Once satp is written, the memory map is complete. *)
LEMMA MapOnceOn ==
  ASSUME KernelInv, satp # 0
  PROVE  \A v \in 0..(VPages - 1) :
           /\ v \in Mapped <=> Permission(v) # 0
           /\ v \in Mapped => Translate(v) = <<v, Permission(v)>>
<1>1. layout \in Layouts /\ SpaceMap = Identity(CurrentPage) /\ StepInv /\ BootInv
  BY DEF KernelInv
<1>2. NHART \in Nat \ {0} /\ VPages \in Nat
  BY <1>1, LayoutPages
<1>3. NCalls \in 1..NCalls
  BY <1>2 DEF NCalls
<1>4. CurrentPage = RamEnd
  <2>1. pc = "idle" /\ result # "err" /\ step = NCalls
    BY <1>1 DEF BootInv
  <2>. QED
    BY <1>1, <1>3, <2>1, CallsOrdered DEF StepInv
<1>5. RamEnd \in Nat
  BY <1>1, Addresses
<1>. SUFFICES ASSUME NEW v \in 0..(VPages - 1)
              PROVE  /\ v \in Mapped <=> Permission(v) # 0
                     /\ v \in Mapped => Translate(v) = <<v, Permission(v)>>
  OBVIOUS
<1>6. v \in Known(RamEnd) <=> Permission(v) # 0
  BY <1>1, <1>2, <1>5, PermissionRange DEF Known
<1>7. Mapped = Known(RamEnd)
  BY <1>1, <1>4 DEF SpaceMap, Identity
<1>8. ASSUME v \in Mapped PROVE Translate(v) = <<v, Permission(v)>>
  <2>1. SpaceMap[v] = Translate(v)
    BY <1>8 DEF SpaceMap
  <2>2. Identity(RamEnd)[v] = <<v, Permission(v)>>
    BY <1>7, <1>8 DEF Identity
  <2>. QED
    BY <1>1, <1>4, <2>1, <2>2
<1>. QED
  BY <1>6, <1>7, <1>8

(* From the write of satp on, the tables map every page of the kernel to   *)
(* itself with the permissions of its section and nothing else, for every  *)
(* layout, number of harts and size of the tables.                         *)
THEOREM KernelMapExactHolds == KSpec => []KernelMapExact
<1>1. KernelInv => KernelMapExact
  BY MapOnceOn DEF KernelMapExact
<1>. QED
  BY <1>1, KernelInvHolds, PTL

(* n pages that may be written below top, with an unmapped one at each end. *)
LEMMA StackIsGuarded ==
  ASSUME KernelInv, satp # 0, NEW top, NEW n \in Nat,
         Page(top) \in 0..(VPages - 1), n + 1 <= Page(top),
         \A i \in 1..n : Permission(Page(top) - i) = RW,
         Permission(Page(top)) = 0, Permission(Page(top) - n - 1) = 0
  PROVE  GuardedStack(top, n)
<1>1. VPages \in Nat /\ RW # 0
  BY LayoutPages DEF KernelInv, RW, PTE_READ, PTE_WRITE
<1>2. ASSUME NEW i \in 1..n
      PROVE  Page(top) - i \in Mapped /\ Translate(Page(top) - i)[2] = RW
  <2>1. Page(top) - i \in 0..(VPages - 1) /\ Permission(Page(top) - i) = RW
    BY <1>1
  <2>2. Page(top) - i \in Mapped
        /\ Translate(Page(top) - i) = <<Page(top) - i, Permission(Page(top) - i)>>
    BY <1>1, <2>1, MapOnceOn
  <2>. QED
    BY <2>1, <2>2
<1>3. Page(top) \notin Mapped
  BY MapOnceOn
<1>4. Page(top) - n - 1 \notin Mapped
  <2>1. Page(top) - n - 1 \in 0..(VPages - 1)
    BY <1>1
  <2>. QED
    BY <2>1, MapOnceOn
<1>. QED
  BY <1>2, <1>3, <1>4 DEF GuardedStack

(* The memory map around the stacks that _entry gives to hart h: counted   *)
(* from the top of a region by _entry, from its bottom by the memory map.  *)
LEMMA PermissionOfStacks ==
  ASSUME layout \in Layouts, NEW h \in 0..(NHART - 1)
  PROVE  LET p == IntPage - 3 * h
             m == IntPage + 4 * (NHART - h)
         IN  /\ p \in Nat /\ 3 <= p /\ p < RamEnd
             /\ Permission(p) = 0 /\ Permission(p - 3) = 0
             /\ Permission(p - 1) = RW /\ Permission(p - 2) = RW
             /\ m \in Nat /\ 4 <= m /\ m < RamEnd
             /\ Permission(m) = 0 /\ Permission(m - 1) = RW
             /\ Permission(m - 2) = 0 /\ Permission(m - 3) = RW /\ Permission(m - 4) = 0
<1>1. /\ NHART \in Nat \ {0} /\ UartPage \in Nat \ {0} /\ TextPage \in Nat
      /\ UartPage < TextPage /\ HeapPage + 1 < RamEnd
      /\ layout.text \in Nat /\ layout.rodata \in Nat /\ layout.data \in Nat
      /\ layout.bss \in Nat
  BY LayoutPages
<1>2. /\ RodataPage \in Nat /\ DataPage \in Nat /\ StackPage \in Nat /\ IntPage \in Nat
      /\ BssPage \in Nat /\ HeapPage \in Nat /\ RamEnd \in Nat
      /\ TextPage <= RodataPage /\ RodataPage <= DataPage /\ DataPage <= StackPage
      /\ IntPage = StackPage + 3 * NHART /\ BssPage = IntPage + 4 * NHART + 1
      /\ BssPage <= HeapPage
  BY <1>1, Addresses DEF RodataPage, DataPage, StackPage, IntPage, BssPage, HeapPage
<1>3. PICK s : s = NHART - h
  OBVIOUS
<1>4. s \in Nat \ {0} /\ s <= NHART /\ h = NHART - s
  BY <1>1, <1>3
<1>5. IntPage - 3 * h = StackPage + 3 * s /\ IntPage + 4 * (NHART - h) = IntPage + 4 * s
  BY <1>1, <1>2, <1>4
<1>6. ASSUME NEW v \in Nat, StackPage <= v, v < IntPage
      PROVE  Permission(v) = IF (v - StackPage) % 3 = 0 THEN 0 ELSE RW
  BY <1>1, <1>2, <1>6, PermissionPages
<1>7. ASSUME NEW v \in Nat, IntPage <= v, v < IntPage + 4 * NHART
      PROVE  Permission(v) = IF (v - IntPage) % 2 = 0 THEN 0 ELSE RW
  BY <1>1, <1>2, <1>7, PermissionPages
<1>8. Permission(IntPage + 4 * NHART) = 0
  BY <1>1, <1>2, PermissionPages
<1>9. /\ StackPage + 3 * s \in Nat /\ StackPage + 3 * s <= IntPage
      /\ StackPage <= (StackPage + 3 * s) - 3 /\ IntPage < RamEnd
  BY <1>1, <1>2, <1>4
<1>10. /\ Permission((StackPage + 3 * s) - 3) = 0
       /\ Permission((StackPage + 3 * s) - 1) = RW
       /\ Permission((StackPage + 3 * s) - 2) = RW
  <2>1. /\ (((StackPage + 3 * s) - 3) - StackPage) % 3 = 0
        /\ (((StackPage + 3 * s) - 1) - StackPage) % 3 # 0
        /\ (((StackPage + 3 * s) - 2) - StackPage) % 3 # 0
    BY <1>2, <1>4
  <2>2. /\ (StackPage + 3 * s) - 3 \in Nat /\ (StackPage + 3 * s) - 1 \in Nat
        /\ (StackPage + 3 * s) - 2 \in Nat
    BY <1>2, <1>9
  <2>. QED
    BY <1>2, <1>6, <1>9, <2>1, <2>2
<1>11. Permission(StackPage + 3 * s) = 0
  <2>1. CASE s = NHART
    <3>1. StackPage + 3 * s = IntPage /\ (IntPage - IntPage) % 2 = 0
      BY <1>2, <2>1
    <3>. QED
      BY <1>1, <1>2, <1>7, <3>1
  <2>2. CASE s # NHART
    <3>1. ((StackPage + 3 * s) - StackPage) % 3 = 0 /\ StackPage + 3 * s < IntPage
      BY <1>1, <1>2, <1>4, <2>2
    <3>. QED
      BY <1>2, <1>4, <1>6, <1>9, <3>1
  <2>. QED
    BY <2>1, <2>2
<1>12. /\ IntPage + 4 * s \in Nat /\ IntPage + 4 * s <= IntPage + 4 * NHART
       /\ IntPage <= (IntPage + 4 * s) - 4 /\ IntPage + 4 * NHART < RamEnd
  BY <1>1, <1>2, <1>4
<1>13. /\ Permission((IntPage + 4 * s) - 1) = RW /\ Permission((IntPage + 4 * s) - 2) = 0
       /\ Permission((IntPage + 4 * s) - 3) = RW /\ Permission((IntPage + 4 * s) - 4) = 0
  <2>1. /\ (((IntPage + 4 * s) - 1) - IntPage) % 2 # 0
        /\ (((IntPage + 4 * s) - 2) - IntPage) % 2 = 0
        /\ (((IntPage + 4 * s) - 3) - IntPage) % 2 # 0
        /\ (((IntPage + 4 * s) - 4) - IntPage) % 2 = 0
    BY <1>2, <1>4
  <2>2. \A i \in 1..4 : /\ (IntPage + 4 * s) - i \in Nat /\ IntPage <= (IntPage + 4 * s) - i
                        /\ (IntPage + 4 * s) - i < IntPage + 4 * NHART
    BY <1>1, <1>2, <1>12
  <2>3. \A i \in 1..4 : Permission((IntPage + 4 * s) - i)
                        = IF (((IntPage + 4 * s) - i) - IntPage) % 2 = 0 THEN 0 ELSE RW
    BY <1>7, <2>2
  <2>4. 1 \in 1..4 /\ 2 \in 1..4 /\ 3 \in 1..4 /\ 4 \in 1..4
    OBVIOUS
  <2>. QED
    BY <2>1, <2>3, <2>4
<1>14. Permission(IntPage + 4 * s) = 0
  <2>1. CASE s = NHART
    BY <1>8, <2>1
  <2>2. CASE s # NHART
    <3>1. ((IntPage + 4 * s) - IntPage) % 2 = 0 /\ IntPage + 4 * s < IntPage + 4 * NHART
      BY <1>1, <1>2, <1>4, <2>2
    <3>. QED
      BY <1>2, <1>4, <1>7, <1>12, <3>1
  <2>. QED
    BY <2>1, <2>2
<1>15. /\ StackPage + 3 * s \in Nat /\ 3 <= StackPage + 3 * s /\ StackPage + 3 * s < RamEnd
       /\ IntPage + 4 * s \in Nat /\ 4 <= IntPage + 4 * s /\ IntPage + 4 * s < RamEnd
  BY <1>1, <1>2, <1>4, <1>9, <1>12
<1>. QED
  BY <1>5, <1>10, <1>11, <1>13, <1>14, <1>15, Zenon

(* Each stack that _entry gave a hart lies, mapped read-write, between two *)
(* unmapped pages from the write of satp on, for every number of harts.    *)
THEOREM KernelStacksGuarded == KSpec => []StacksGuarded
<1>1. KernelInv => StacksGuarded
  <2>. SUFFICES ASSUME KernelInv, satp # 0, NEW h \in 0..(NHART - 1)
                PROVE  /\ GuardedStack(stacks_end - h * Bytes(3), 2)
                       /\ GuardedStack(intstacks_end - h * Bytes(4), 1)
                       /\ GuardedStack((intstacks_end - h * Bytes(4)) - Bytes(2), 1)
    BY DEF StacksGuarded
  <2>. DEFINE p == IntPage - 3 * h
              m == IntPage + 4 * (NHART - h)
  <2>1. layout \in Layouts
    BY DEF KernelInv
  <2>2. /\ NHART \in Nat /\ VPages \in Nat /\ RamEnd <= VPages /\ RamEnd \in Nat
        /\ IntPage \in Nat
    BY <2>1, LayoutPages, Addresses
  <2>3. /\ p \in Nat /\ 3 <= p /\ p < RamEnd
        /\ Permission(p) = 0 /\ Permission(p - 3) = 0
        /\ Permission(p - 1) = RW /\ Permission(p - 2) = RW
        /\ m \in Nat /\ 4 <= m /\ m < RamEnd
        /\ Permission(m) = 0 /\ Permission(m - 1) = RW
        /\ Permission(m - 2) = 0 /\ Permission(m - 3) = RW /\ Permission(m - 4) = 0
    BY <2>1, PermissionOfStacks
  <2>4. /\ stacks_end - h * Bytes(3) = Bytes(p)
        /\ intstacks_end - h * Bytes(4) = Bytes(m)
        /\ (intstacks_end - h * Bytes(4)) - Bytes(2) = Bytes(m - 2)
    <3>1. stacks_end = Bytes(IntPage) /\ intstacks_end = Bytes(IntPage + 4 * NHART)
      BY <2>1, Addresses
    <3>2. h \in Nat /\ PAGE_SIZE \in Nat
      BY <2>2, Sizes
    <3>. QED
      BY <2>2, <3>1, <3>2 DEF Bytes
  <2>5. Page(Bytes(p)) = p /\ Page(Bytes(m)) = m /\ Page(Bytes(m - 2)) = m - 2
    <3>1. m - 2 \in Nat
      BY <2>3
    <3>. HIDE DEF m, p
    <3>. QED
      BY <2>3, <3>1, PageOfBytes
  <2>. HIDE DEF m, p
  <2>6. GuardedStack(Bytes(p), 2)
    <3>1. \A i \in 1..2 : Permission(p - i) = RW
      BY <2>3
    <3>2. p - 2 - 1 = p - 3 /\ p \in 0..(VPages - 1) /\ 2 + 1 <= p
      BY <2>2, <2>3
    <3>. QED
      BY <2>3, <2>5, <3>1, <3>2, StackIsGuarded
  <2>7. GuardedStack(Bytes(m), 1)
    <3>1. \A i \in 1..1 : Permission(m - i) = RW
      BY <2>3
    <3>2. m - 1 - 1 = m - 2 /\ m \in 0..(VPages - 1) /\ 1 + 1 <= m
      BY <2>2, <2>3
    <3>. QED
      BY <2>3, <2>5, <3>1, <3>2, StackIsGuarded
  <2>8. GuardedStack(Bytes(m - 2), 1)
    <3>1. (m - 2) - 1 = m - 3 /\ (m - 2) - 1 - 1 = m - 4
          /\ m - 2 \in 0..(VPages - 1) /\ 1 + 1 <= m - 2
      BY <2>2, <2>3
    <3>2. \A i \in 1..1 : Permission((m - 2) - i) = RW
      BY <2>3, <3>1
    <3>. QED
      BY <2>3, <2>5, <3>1, <3>2, StackIsGuarded
  <2>. QED
    BY <2>4, <2>6, <2>7, <2>8
<1>. QED
  BY <1>1, KernelInvHolds, PTL

(* With the tables on, the kernel still reaches, to write to them, every   *)
(* table, every page the pool can hand out and the small pool.             *)
THEOREM KernelPoolReachable == KSpec => []PoolStaysReachable
<1>1. KernelInv => PoolStaysReachable
  <2>. SUFFICES ASSUME KernelInv, satp # 0, NEW t \in DOMAIN tables \cup avail \cup {small}
                PROVE  Page(t) \in Mapped /\ Translate(Page(t)) = <<Page(t), RW>>
    BY DEF PoolStaysReachable
  <2>1. layout \in Layouts /\ PagesInv /\ BootInv
    BY DEF KernelInv
  <2>2. t \in Pool
    <3>1. boot \notin {"pool", "galloc"}
      BY <2>1 DEF BootInv
    <3>. QED
      BY <2>1, <3>1 DEF PagesInv
  <2>3. Page(t) \in HeapPage..(RamEnd - 1) /\ HeapPage \in Nat /\ RamEnd \in Nat
    BY <2>1, <2>2, PoolPages
  <2>4. RamEnd <= VPages /\ VPages \in Nat /\ NHART \in Nat \ {0}
    BY <2>1, LayoutPages
  <2>5. Permission(Page(t)) = RW /\ RW # 0
    <3>1. NCalls \in 1..NCalls
      BY <2>4 DEF NCalls
    <3>2. FirstPage(NCalls) = HeapPage /\ EndPage(NCalls) = RamEnd /\ CallFlag(NCalls) = RW
      BY <2>4 DEF NCalls, FirstPage, EndPage, CallFlag
    <3>. QED
      BY <2>1, <2>3, <3>1, <3>2, PermissionOfCalls DEF RW, PTE_READ, PTE_WRITE
  <2>. QED
    BY <2>3, <2>4, <2>5, MapOnceOn
<1>. QED
  BY <1>1, KernelInvHolds, PTL

(* The boot panics only for want of pages or over an empty section: no     *)
(* call of kpage_init meets a page that an earlier one has mapped.         *)
THEOREM KernelPanicExplained == KSpec => []PanicExplained
<1>1. KernelInv => PanicExplained
  BY DEF KernelInv
<1>. QED
  BY <1>1, KernelInvHolds, PTL
=============================================================================
