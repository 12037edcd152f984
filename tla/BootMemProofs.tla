--------------------------- MODULE BootMemProofs ---------------------------
(***************************************************************************)
(* Proofs about the memory the boot loader finds and hands out, for every  *)
(* memory map a BIOS may report, every image and every size of a page.     *)
(***************************************************************************)
EXTENDS BootMem, SequenceTheorems, FiniteSetTheorems, TLAPS

Region == [base : Nat, size : Nat]
Report == [base : Nat, size : 0..(WRAP - 1), type : Nat]

\* The BIOS's map is one of those assumed, and the lists hold regions.
Lists ==
  /\ e820 \in E820 /\ e \in Nat \ {0}
  /\ mem_map \in Seq(Region) /\ mem_free \in Seq(Region)
  /\ given \subseteq Nat

\* What memory_detect has seen is what it has put into gBootParams.mem_map.
Seen ==
  \A x \in BytesIn(mem_map) :
    \E h \in DOMAIN e820 : h < e /\ x \in Bytes(e820[h])

\* While the list is read nothing is handed out.
Reading == pc = "detect" => given = {}

\* A region of gBootParams.mem_free is whole pages above lomem.
Whole(reg) ==
  /\ reg.base % PAGE = 0 /\ reg.size % PAGE = 0
  /\ reg.base >= LOMEM /\ reg.size < WRAP

Regions ==
  /\ \A r \in DOMAIN mem_free : Whole(mem_free[r])
  /\ \A r, q \in DOMAIN mem_free : r # q => Bytes(mem_free[r]) \cap Bytes(mem_free[q]) = {}

MemInv == Lists /\ Seen /\ Reading /\ (WholePages => Regions /\ Tracked)
----------------------------------------------------------------------------
(* Bytes, pages and regions *)

\* Sums and differences of whole pages are whole pages.
LEMMA WholeSums ==
  ASSUME NEW a \in Int, NEW b \in Int, NEW P \in Nat \ {0}, a % P = 0, b % P = 0
  PROVE  (a + b) % P = 0 /\ (a - b) % P = 0
<1>1. a = P * (a \div P) /\ a \div P \in Int
  BY Z3
<1>2. b = P * (b \div P) /\ b \div P \in Int
  BY Z3
<1>3. PICK k \in Int, l \in Int : a = P * k /\ b = P * l
  BY <1>1, <1>2
<1>4. a + b = P * (k + l) /\ a - b = P * (k - l)
  BY <1>3, Z3
<1>5. \A q \in Int : (P * q) % P = 0
  BY Z3
<1>6. k + l \in Int /\ k - l \in Int
  OBVIOUS
<1> QED
  BY <1>4, <1>5, <1>6

\* The number of a page gives its first byte back.
LEMMA WholeBase ==
  ASSUME NEW a \in Nat, NEW P \in Nat \ {0}, a % P = 0
  PROVE  a \div P \in Nat /\ (a \div P) * P = a
  BY Z3

\* A number of bytes that is whole pages and not none is a page at least.
LEMMA WholeAtLeast ==
  ASSUME NEW a \in Nat, NEW P \in Nat \ {0}, a % P = 0, a # 0
  PROVE  a >= P
  BY Z3

\* A size less than 2^64 does not wrap.
LEMMA NoWrap ==
  ASSUME NEW a \in Nat, NEW w \in Nat, a < w
  PROVE  a % w = a
  BY Z3

\* A byte of a list is a byte of one of its regions.
LEMMA InRegions ==
  ASSUME NEW regs, NEW x
  PROVE  x \in BytesIn(regs) <=> \E r \in DOMAIN regs : x \in Bytes(regs[r])
  BY DEF BytesIn

\* The bytes of a region are the interval it names.
LEMMA InBytes ==
  ASSUME NEW b \in Int, NEW z \in Int, NEW reg, reg.base = b, reg.size = z, NEW x
  PROVE  x \in Bytes(reg) <=> x \in Int /\ b <= x /\ x < b + z
  BY DEF Bytes

\* A region that is appended adds its bytes (memory.c:30-46).
LEMMA BytesAppend ==
  ASSUME NEW regs \in Seq(Region), NEW g \in Region, NEW x
  PROVE  x \in BytesIn(Append(regs, g)) <=> x \in BytesIn(regs) \/ x \in Bytes(g)
<1>1. /\ DOMAIN Append(regs, g) = DOMAIN regs \cup {Len(regs) + 1}
      /\ \A r \in DOMAIN regs : Append(regs, g)[r] = regs[r]
      /\ Append(regs, g)[Len(regs) + 1] = g
  OBVIOUS
<1>2. x \in BytesIn(Append(regs, g)) <=>
        \E r \in DOMAIN Append(regs, g) : x \in Bytes(Append(regs, g)[r])
  BY InRegions
<1>3. x \in BytesIn(regs) <=> \E r \in DOMAIN regs : x \in Bytes(regs[r])
  BY InRegions
<1> QED
  BY <1>1, <1>2, <1>3, Zenon

\* The bytes of the pages handed out.
LEMMA InGiven ==
  ASSUME NEW x
  PROVE  x \in GivenBytes <=> \E p \in given : x \in (p * PAGE)..(p * PAGE + PAGE - 1)
  BY DEF GivenBytes
----------------------------------------------------------------------------
(* The steps *)

\* Tracked, a byte at a time.
LEMMA TrackedBytes ==
  Tracked <=>
    (WholePages =>
       \A x : /\ x \in BytesIn(mem_free) \/ x \in GivenBytes <=> x \in BytesIn(mem_map) /\ x >= LOMEM
              /\ ~(x \in BytesIn(mem_free) /\ x \in GivenBytes))
  BY DEF Tracked

\* Before the BIOS is asked nothing is known and nothing handed out.
LEMMA InitMem == Init => MemInv
<1> SUFFICES ASSUME Init PROVE MemInv
  OBVIOUS
<1>1. mem_map = <<>> /\ mem_free = <<>> /\ given = {} /\ e = 1 /\ e820 \in E820
  BY DEF Init
<1>2. Lists
  BY <1>1 DEF Lists
<1>3. \A x : x \notin BytesIn(<<>>)
  BY InRegions
<1>4. \A x : x \notin GivenBytes
  BY <1>1, InGiven
<1>5. Seen /\ Reading
  BY <1>1, <1>3 DEF Seen, Reading
<1>6. Regions
  BY <1>1 DEF Regions
<1>7. Tracked
  BY <1>1, <1>3, <1>4 DEF Tracked
<1> QED
  BY <1>2, <1>5, <1>6, <1>7 DEF MemInv

\* Addresses and sizes are 64 bits wide.
LEMMA ReportFacts ==
  ASSUME NEW m \in Report
  PROVE  m.base \in Nat /\ m.size \in Nat /\ m.size < WRAP
  BY BootAssumption DEF Report

\* The part of a whole-page region above lomem is whole pages of it (memory.c:36-43).
LEMMA ClippedFacts ==
  ASSUME NEW m \in Report, m.base + m.size > LOMEM
  PROVE  /\ Clipped(m) \in Region
         /\ \A x : x \in Bytes(Clipped(m)) <=> x \in Bytes(m) /\ x >= LOMEM
         /\ m.base % PAGE = 0 /\ m.size % PAGE = 0 => Whole(Clipped(m))
<1>1. PICK b \in Nat, z \in Nat : b = m.base /\ z = m.size /\ z < WRAP
  BY BootAssumption DEF Report
<1>2. PICK c : c = Clipped(m)
  OBVIOUS
<1>3. CASE b < LOMEM
  <2>1. c = [base |-> LOMEM, size |-> z - (LOMEM - b)]
    BY <1>1, <1>2, <1>3 DEF Clipped
  <2>2. PICK l \in Nat : l = z - (LOMEM - b)
    BY <1>1, <1>3, BootAssumption
  <2>3. c.base = LOMEM /\ c.size = l /\ c \in Region
    BY <2>1, <2>2, BootAssumption DEF Region
  <2>4. ASSUME NEW x PROVE x \in Bytes(c) <=> x \in Bytes(m) /\ x >= LOMEM
    <3>1. x \in Bytes(c) <=> x \in Int /\ LOMEM <= x /\ x < LOMEM + l
      BY <2>3, InBytes, BootAssumption
    <3>2. x \in Bytes(m) <=> x \in Int /\ b <= x /\ x < b + z
      BY <1>1, InBytes
    <3> QED
      BY <3>1, <3>2, <2>2, <1>3, BootAssumption
  <2>5. ASSUME m.base % PAGE = 0, m.size % PAGE = 0 PROVE Whole(c)
    <3>1. PICK k \in Int : k = LOMEM - b /\ k % PAGE = 0
      <4>1. PICK P \in Nat \ {0}, t \in Int : P = PAGE /\ t = LOMEM /\ t % P = 0
        BY BootAssumption
      <4>2. b % P = 0
        BY <1>1, <2>5, <4>1
      <4>3. (t + b) % P = 0 /\ (t - b) % P = 0
        <5>1. b \in Int
          BY <1>1
        <5> QED
          BY <4>1, <4>2, <5>1, WholeSums, Zenon
      <4> QED
        BY <4>1, <4>3
    <3>2. (z - k) % PAGE = 0
      <4>1. PICK P \in Nat \ {0} : P = PAGE
        BY BootAssumption
      <4>2. z \in Int /\ z % P = 0 /\ k % P = 0
        BY <1>1, <2>5, <3>1, <4>1
      <4>3. (z + k) % P = 0 /\ (z - k) % P = 0
        BY <4>2, WholeSums, Zenon
      <4> QED
        BY <4>1, <4>3
    <3>3. l % PAGE = 0 /\ l < WRAP
      <4>1. PICK lm \in Nat, w \in Nat : lm = LOMEM /\ w = WRAP
        BY BootAssumption
      <4>2. l = z - k
        BY <2>2, <3>1
      <4>3. l < w
        BY <1>1, <1>3, <2>2, <4>1
      <4> QED
        BY <3>2, <4>1, <4>2, <4>3
    <3> QED
      BY <2>3, <3>3, BootAssumption DEF Whole
  <2> QED
    BY <1>2, <2>3, <2>4, <2>5, Zenon
<1>4. CASE ~(b < LOMEM)
  <2>1. c = [base |-> b, size |-> z]
    BY <1>1, <1>2, <1>4 DEF Clipped
  <2>2. c.base = b /\ c.size = z /\ c \in Region
    BY <2>1 DEF Region
  <2>3. ASSUME NEW x PROVE x \in Bytes(c) <=> x \in Bytes(m) /\ x >= LOMEM
    <3>1. x \in Bytes(c) <=> x \in Int /\ b <= x /\ x < b + z
      BY <2>2, InBytes
    <3>2. x \in Bytes(m) <=> x \in Int /\ b <= x /\ x < b + z
      BY <1>1, InBytes
    <3> QED
      BY <3>1, <3>2, <1>4, BootAssumption
  <2>4. ASSUME m.base % PAGE = 0, m.size % PAGE = 0 PROVE Whole(c)
    BY <1>1, <1>4, <2>2, <2>4, BootAssumption DEF Whole
  <2> QED
    BY <1>2, <2>2, <2>3, <2>4, Zenon
<1> QED
  BY <1>3, <1>4

\* An entry of the BIOS's map is a report, and shares no byte with another.
LEMMA EntryFacts ==
  ASSUME e820 \in E820
  PROVE  /\ \A h \in DOMAIN e820 : e820[h] \in Report
         /\ \A h, g \in DOMAIN e820 : h # g => Bytes(e820[h]) \cap Bytes(e820[g]) = {}
<1>1. e820 \in Seq(Report)
  BY BootAssumption DEF Report
<1>2. ASSUME NEW h \in DOMAIN e820 PROVE e820[h] \in Report
  BY <1>1
<1>3. ASSUME NEW h \in DOMAIN e820, NEW g \in DOMAIN e820, h # g
      PROVE  Bytes(e820[h]) \cap Bytes(e820[g]) = {}
  <2>1. \/ e820[h].base + e820[h].size <= e820[g].base
        \/ e820[g].base + e820[g].size <= e820[h].base
    BY <1>3, BootAssumption
  <2>2. PICK b \in Nat, z \in Nat : e820[h].base = b /\ e820[h].size = z
    BY <1>2, ReportFacts
  <2>3. PICK c \in Nat, k \in Nat : e820[g].base = c /\ e820[g].size = k
    BY <1>2, ReportFacts
  <2>4. ASSUME NEW x, x \in Bytes(e820[h]), x \in Bytes(e820[g]) PROVE FALSE
    <3>1. x \in Int /\ b <= x /\ x < b + z
      BY <2>2, <2>4, InBytes
    <3>2. x \in Int /\ c <= x /\ x < c + k
      BY <2>3, <2>4, InBytes
    <3> QED
      BY <2>1, <2>2, <2>3, <3>1, <3>2
  <2> QED
    BY <2>4, Zenon
<1> QED
  BY <1>2, <1>3

\* memory_detect keeps what it reports and what it gives away in step
\* (memory.c:18-48).
LEMMA DetectEntryKeeps == MemInv /\ DetectEntry => MemInv'
<1> SUFFICES ASSUME MemInv, DetectEntry PROVE MemInv'
  OBVIOUS
<1>1. /\ e820 \in E820 /\ e \in Nat \ {0} /\ e \in DOMAIN e820
      /\ mem_map \in Seq(Region) /\ mem_free \in Seq(Region) /\ given = {}
      /\ e820' = e820 /\ e' = e + 1 /\ given' = {}
  BY DEF MemInv, Lists, Reading, DetectEntry
<1>2. PICK m \in Report : m = e820[e]
  BY <1>1, EntryFacts
<1>3. PICK g \in Region : g = [base |-> m.base, size |-> m.size]
  <2>1. m.base \in Nat /\ m.size \in Nat
    BY ReportFacts
  <2> QED
    BY <2>1 DEF Region
<1>4. /\ mem_map' = IF Usable(m) THEN Append(mem_map, g) ELSE mem_map
      /\ mem_free' = IF Usable(m) /\ m.base + m.size > LOMEM
                     THEN Append(mem_free, Clipped(m)) ELSE mem_free
  BY <1>2, <1>3 DEF DetectEntry
<1>5. \A x : x \in Bytes(g) <=> x \in Bytes(m)
  BY <1>3 DEF Bytes
<1>6. m.base + m.size > LOMEM =>
        /\ Clipped(m) \in Region
        /\ \A x : x \in Bytes(Clipped(m)) <=> x \in Bytes(m) /\ x >= LOMEM
        /\ m.base % PAGE = 0 /\ m.size % PAGE = 0 => Whole(Clipped(m))
  BY ClippedFacts
<1>7. Lists'
  <2>1. mem_map' \in Seq(Region)
    BY <1>1, <1>4
  <2>2. mem_free' \in Seq(Region)
    BY <1>1, <1>4, <1>6
  <2> QED
    BY <1>1, <2>1, <2>2 DEF Lists
<1>8. \A x : x \in BytesIn(mem_map') <=> x \in BytesIn(mem_map) \/ (Usable(m) /\ x \in Bytes(m))
  <2>1. CASE Usable(m)
    BY <1>1, <1>4, <1>5, <2>1, BytesAppend, Zenon
  <2>2. CASE ~Usable(m)
    BY <1>4, <2>2, Zenon
  <2> QED
    BY <2>1, <2>2
<1>9. Seen'
  <2> SUFFICES ASSUME NEW x \in BytesIn(mem_map')
               PROVE  \E h \in DOMAIN e820 : h < e + 1 /\ x \in Bytes(e820[h])
    BY <1>1, Zenon DEF Seen, BytesIn, Bytes
  <2>1. CASE x \in BytesIn(mem_map)
    <3>1. PICK h \in DOMAIN e820 : h < e /\ x \in Bytes(e820[h])
      BY <2>1 DEF MemInv, Seen
    <3>2. e820 \in Seq(Report)
      BY <1>1, BootAssumption DEF Report
    <3>3. h \in Nat
      BY <3>2
    <3>4. h < e + 1
      BY <1>1, <3>1, <3>3
    <3> QED
      BY <3>1, <3>4
  <2>2. CASE x \in Bytes(m)
    <3>1. e < e + 1
      BY <1>1
    <3> QED
      BY <1>1, <1>2, <2>2, <3>1
  <2> QED
    BY <1>8, <2>1, <2>2
<1>10. Reading'
  BY <1>1 DEF Reading
<1>11. ASSUME WholePages PROVE Regions' /\ Tracked'
  <2>1. Regions /\ Tracked
    BY <1>11 DEF MemInv
  <2>2. \A x : x \notin GivenBytes /\ x \notin GivenBytes'
    BY <1>1, Zenon DEF GivenBytes
  <2>3. \A x : x \in BytesIn(mem_free) <=> x \in BytesIn(mem_map) /\ x >= LOMEM
    BY <1>11, <2>1, <2>2, TrackedBytes, Zenon
  <2>4. \A x : x \in BytesIn(mem_map) => x \notin Bytes(m)
    <3> SUFFICES ASSUME NEW x \in BytesIn(mem_map), x \in Bytes(m) PROVE FALSE
      OBVIOUS
    <3>1. PICK h \in DOMAIN e820 : h < e /\ x \in Bytes(e820[h])
      BY DEF MemInv, Seen
    <3>2. h # e
      BY <1>1, <3>1
    <3>3. Bytes(e820[h]) \cap Bytes(e820[e]) = {}
      BY <1>1, <3>2, EntryFacts
    <3> QED
      BY <1>2, <3>1, <3>3
  <2>5. Usable(m) /\ m.base + m.size > LOMEM => m.base % PAGE = 0 /\ m.size % PAGE = 0
    BY <1>1, <1>2, <1>11 DEF WholePages
  <2>6. ~(m.base + m.size > LOMEM) => \A x \in Bytes(m) : ~(x >= LOMEM)
    <3>1. PICK b \in Nat, z \in Nat : b = m.base /\ z = m.size
      BY ReportFacts
    <3>2. \A x : x \in Bytes(m) <=> x \in Int /\ b <= x /\ x < b + z
      BY <3>1, InBytes
    <3> QED
      BY <3>1, <3>2, BootAssumption
  <2>7. CASE Usable(m) /\ m.base + m.size > LOMEM
    <3>1. PICK c \in Region : c = Clipped(m)
      BY <1>6, <2>7
    <3>2. /\ \A x : x \in Bytes(c) <=> x \in Bytes(m) /\ x >= LOMEM
          /\ Whole(c)
      BY <1>6, <2>5, <2>7, <3>1, Zenon
    <3>3. mem_free' = Append(mem_free, c)
      BY <1>4, <2>7, <3>1, Zenon
    <3>4. \A x : x \in BytesIn(mem_free') <=> x \in BytesIn(mem_free) \/ x \in Bytes(c)
      BY <1>1, <3>3, BytesAppend, Zenon
    <3>5. \A x : x \in BytesIn(mem_free') <=> x \in BytesIn(mem_map') /\ x >= LOMEM
      BY <1>8, <2>3, <2>7, <3>2, <3>4, Zenon
    <3>6. Tracked'
      <4>1. \A x : /\ x \in BytesIn(mem_free') \/ x \in GivenBytes'
                       <=> x \in BytesIn(mem_map') /\ x >= LOMEM
                   /\ ~(x \in BytesIn(mem_free') /\ x \in GivenBytes')
        BY <2>2, <3>5, Zenon
      <4>2. Tracked' <=>
              (WholePages' =>
                 \A x : /\ x \in BytesIn(mem_free') \/ x \in GivenBytes'
                           <=> x \in BytesIn(mem_map') /\ x >= LOMEM
                       /\ ~(x \in BytesIn(mem_free') /\ x \in GivenBytes'))
        BY DEF Tracked, BytesIn, GivenBytes, Bytes
      <4> QED
        BY <4>1, <4>2, Zenon
    <3>7. Regions'
      <4>1. /\ DOMAIN mem_free' = DOMAIN mem_free \cup {Len(mem_free) + 1}
            /\ \A r \in DOMAIN mem_free : mem_free'[r] = mem_free[r]
            /\ mem_free'[Len(mem_free) + 1] = c
        BY <1>1, <3>3
      <4>2. \A r \in DOMAIN mem_free : Bytes(mem_free[r]) \cap Bytes(c) = {}
        <5> SUFFICES ASSUME NEW r \in DOMAIN mem_free, NEW x, x \in Bytes(mem_free[r]),
                            x \in Bytes(c)
                     PROVE  FALSE
          OBVIOUS
        <5>1. x \in BytesIn(mem_free)
          BY InRegions
        <5> QED
          BY <2>3, <2>4, <3>2, <5>1, Zenon
      <4>3. \A r \in DOMAIN mem_free' : Whole(mem_free'[r])
        BY <2>1, <3>2, <4>1, Zenon DEF Regions
      <4>4. ASSUME NEW r \in DOMAIN mem_free', NEW q \in DOMAIN mem_free', r # q
            PROVE  Bytes(mem_free'[r]) \cap Bytes(mem_free'[q]) = {}
        <5>1. CASE r \in DOMAIN mem_free /\ q \in DOMAIN mem_free
          BY <2>1, <4>1, <4>4, <5>1, Zenon DEF Regions
        <5>2. CASE r = Len(mem_free) + 1 /\ q \in DOMAIN mem_free
          <6>1. Bytes(c) \cap Bytes(mem_free[q]) = {}
            BY <4>2, <5>2
          <6> QED
            BY <4>1, <5>2, <6>1, Zenon
        <5>3. CASE q = Len(mem_free) + 1 /\ r \in DOMAIN mem_free
          BY <4>1, <4>2, <5>3, Zenon
        <5> QED
          BY <4>1, <4>4, <5>1, <5>2, <5>3, Zenon
      <4> QED
        BY <4>3, <4>4 DEF Regions, Whole, Bytes
    <3> QED
      BY <3>6, <3>7
  <2>8. CASE ~(Usable(m) /\ m.base + m.size > LOMEM)
    <3>1. mem_free' = mem_free
      BY <1>4, <2>8
    <3>2. \A x : x \in BytesIn(mem_map') /\ x >= LOMEM <=> x \in BytesIn(mem_map) /\ x >= LOMEM
      BY <1>8, <2>6, <2>8, Zenon
    <3>3. \A x : /\ x \in BytesIn(mem_free') \/ x \in GivenBytes'
                     <=> x \in BytesIn(mem_map') /\ x >= LOMEM
                 /\ ~(x \in BytesIn(mem_free') /\ x \in GivenBytes')
      BY <2>2, <2>3, <3>1, <3>2, Zenon
    <3>4. Tracked' <=>
            (WholePages' =>
               \A x : /\ x \in BytesIn(mem_free') \/ x \in GivenBytes'
                         <=> x \in BytesIn(mem_map') /\ x >= LOMEM
                     /\ ~(x \in BytesIn(mem_free') /\ x \in GivenBytes'))
      BY DEF Tracked, BytesIn, GivenBytes, Bytes
    <3>5. Tracked'
      BY <3>3, <3>4, Zenon
    <3>6. Regions'
      BY <2>1, <3>1 DEF Regions, Whole, Bytes
    <3> QED
      BY <3>5, <3>6
  <2> QED
    BY <2>7, <2>8
<1>12. WholePages' => WholePages
  BY <1>1 DEF WholePages
<1> QED
  BY <1>7, <1>9, <1>10, <1>11, <1>12 DEF MemInv

\* What alloc_page_hi does to a region of whole pages: its first page leaves it
\* (alloc.c:24-27).
LEMMA TakeFacts ==
  ASSUME NEW reg \in Region, Whole(reg), reg.size # 0
  PROVE  LET new == [base |-> reg.base + PAGE, size |-> (reg.size - PAGE) % WRAP]
             p   == reg.base \div PAGE
         IN /\ Whole(new)
            /\ \A x : x \in Bytes(reg) <=>
                      x \in Bytes(new) \/ x \in (p * PAGE)..(p * PAGE + PAGE - 1)
            /\ \A x : ~(x \in Bytes(new) /\ x \in (p * PAGE)..(p * PAGE + PAGE - 1))
<1>1. PICK b \in Nat, z \in Nat, P \in Nat \ {0} :
        /\ b = reg.base /\ z = reg.size /\ P = PAGE /\ b % P = 0 /\ z % P = 0 /\ z # 0
        /\ b >= LOMEM /\ z < WRAP
  BY BootAssumption DEF Region, Whole
<1>2. z >= P
  BY <1>1, WholeAtLeast
<1>3. PICK d \in Nat : d = z - P /\ d < WRAP
  BY <1>1, <1>2, BootAssumption
<1>4. d % WRAP = d
  BY <1>3, NoWrap, BootAssumption
<1>5. PICK new : new = [base |-> b + P, size |-> d]
  OBVIOUS
<1>6. new.base = b + P /\ new.size = d
  BY <1>5
<1>7. new = [base |-> reg.base + PAGE, size |-> (reg.size - PAGE) % WRAP]
  BY <1>1, <1>3, <1>4, <1>5
<1>8. PICK p \in Nat : p = b \div P /\ p * P = b
  BY <1>1, WholeBase
<1>9. Whole(new)
  <2>1. P % P = 0
    BY Z3
  <2> b \in Int /\ z \in Int /\ P \in Int
    OBVIOUS
  <2>2. (b + P) % P = 0 /\ (b - P) % P = 0
    BY <1>1, <2>1, WholeSums, Zenon
  <2>3. (z + P) % P = 0 /\ (z - P) % P = 0
    BY <1>1, <2>1, WholeSums, Zenon
  <2>4. (b + P) % PAGE = 0 /\ d % PAGE = 0
    BY <1>1, <1>3, <2>2, <2>3
  <2>5. b + P >= LOMEM
    BY <1>1, BootAssumption
  <2> QED
    BY <1>3, <1>6, <2>4, <2>5 DEF Whole
<1>10. \A x : x \in Bytes(reg) <=> x \in Int /\ b <= x /\ x < b + z
  BY <1>1, InBytes
<1>11. \A x : x \in Bytes(new) <=> x \in Int /\ b + P <= x /\ x < (b + P) + d
  BY <1>6, InBytes
<1>12. (p * P)..(p * P + P - 1) = b..(b + P - 1)
  BY <1>8
<1>13. \A x : x \in b..(b + P - 1) <=> x \in Int /\ b <= x /\ x < b + P
  OBVIOUS
<1>14. (b + P) + d = b + z
  BY <1>3
<1>15. \A x : x \in Bytes(reg) <=> x \in Bytes(new) \/ x \in b..(b + P - 1)
  <2> SUFFICES ASSUME NEW x
               PROVE  x \in Bytes(reg) <=> x \in Bytes(new) \/ x \in b..(b + P - 1)
    OBVIOUS
  <2> QED
    BY <1>2, <1>10, <1>11, <1>13, <1>14
<1>16. \A x : ~(x \in Bytes(new) /\ x \in b..(b + P - 1))
  <2> SUFFICES ASSUME NEW x PROVE ~(x \in Bytes(new) /\ x \in b..(b + P - 1))
    OBVIOUS
  <2> QED
    BY <1>11, <1>13
<1>17. /\ [base |-> reg.base + PAGE, size |-> (reg.size - PAGE) % WRAP] = new
       /\ ((reg.base \div PAGE) * PAGE)..((reg.base \div PAGE) * PAGE + PAGE - 1) = b..(b + P - 1)
  BY <1>1, <1>7, <1>8, <1>12
<1> QED
  BY <1>9, <1>15, <1>16, <1>17, Zenon

\* A page that alloc_page_hi gives leaves gBootParams.mem_free and is in no
\* region of it any more (alloc.c:18-33).
LEMMA HandsKeep ==
  ASSUME MemInv, NEW p, alloc_page_hi(p), UNCHANGED memvars, pc' # "detect"
  PROVE  MemInv'
<1>1. PICK r \in DOMAIN mem_free :
        /\ mem_free[r].size # 0 /\ p = mem_free[r].base \div PAGE
        /\ mem_free' = Take(r) /\ given' = given \cup {p}
  BY DEF alloc_page_hi, First
<1>2. /\ e820 \in E820 /\ e \in Nat \ {0} /\ mem_map \in Seq(Region) /\ mem_free \in Seq(Region)
      /\ given \subseteq Nat /\ e820' = e820 /\ e' = e /\ mem_map' = mem_map
  BY DEF MemInv, Lists, memvars
<1>3. PICK reg \in Region : reg = mem_free[r]
  BY <1>2
<1>4. PICK new : new = [base |-> reg.base + PAGE, size |-> (reg.size - PAGE) % WRAP]
  OBVIOUS
<1>5. new \in Region /\ p \in Nat
  <2>1. PICK b \in Nat, z \in Nat, P \in Nat \ {0}, w \in Nat \ {0} :
          b = reg.base /\ z = reg.size /\ P = PAGE /\ w = WRAP
    BY BootAssumption DEF Region
  <2>2. (z - P) % w \in Nat
    BY Z3
  <2>3. b \div P \in Nat
    BY Z3
  <2>4. b + P \in Nat
    OBVIOUS
  <2>5. p = b \div P
    BY <1>1, <1>3, <2>1
  <2> QED
    BY <1>4, <2>1, <2>2, <2>3, <2>4, <2>5 DEF Region
<1>6. mem_free' = [mem_free EXCEPT ![r] = new]
  BY <1>1, <1>3, <1>4 DEF Take
<1>7. Lists'
  BY <1>1, <1>2, <1>5, <1>6 DEF Lists
<1>8. Seen' /\ Reading'
  BY <1>2 DEF MemInv, Seen, Reading, BytesIn, Bytes
<1>9. ASSUME WholePages PROVE Regions' /\ Tracked'
  <2> DEFINE PB == (p * PAGE)..(p * PAGE + PAGE - 1)
  <2>1. Regions /\ Tracked
    BY <1>9 DEF MemInv
  <2>2. /\ Whole(new)
        /\ \A x : x \in Bytes(reg) <=> x \in Bytes(new) \/ x \in PB
        /\ \A x : ~(x \in Bytes(new) /\ x \in PB)
    <3>1. Whole(reg) /\ reg.size # 0
      BY <1>1, <1>3, <2>1 DEF Regions
    <3>2. p = reg.base \div PAGE
      BY <1>1, <1>3
    <3> QED
      BY <1>4, <3>1, <3>2, TakeFacts, Zenon
  <2> HIDE DEF PB
  <2>3. /\ DOMAIN mem_free' = DOMAIN mem_free /\ mem_free'[r] = new
        /\ \A q \in DOMAIN mem_free : q # r => mem_free'[q] = mem_free[q]
    BY <1>2, <1>6
  <2>4. \A q \in DOMAIN mem_free : q # r => Bytes(mem_free[q]) \cap Bytes(reg) = {}
    BY <1>3, <2>1, Zenon DEF Regions
  <2>5. ASSUME NEW x
        PROVE  x \in BytesIn(mem_free') <=> x \in BytesIn(mem_free) /\ x \notin PB
    <3>1. x \in BytesIn(mem_free') <=> \E q \in DOMAIN mem_free : x \in Bytes(mem_free'[q])
      BY <2>3, InRegions
    <3>2. x \in BytesIn(mem_free) <=> \E q \in DOMAIN mem_free : x \in Bytes(mem_free[q])
      BY InRegions
    <3>3. \A q \in DOMAIN mem_free :
            x \in Bytes(mem_free'[q]) <=> x \in Bytes(mem_free[q]) /\ x \notin PB
      <4> SUFFICES ASSUME NEW q \in DOMAIN mem_free
                   PROVE  x \in Bytes(mem_free'[q]) <=> x \in Bytes(mem_free[q]) /\ x \notin PB
        OBVIOUS
      <4>1. CASE q = r
        BY <1>3, <2>2, <2>3, <4>1, Zenon
      <4>2. CASE q # r
        <5>1. mem_free'[q] = mem_free[q]
          BY <2>3, <4>2, Zenon
        <5>2. x \in Bytes(mem_free[q]) => x \notin Bytes(reg)
          BY <2>4, <4>2
        <5> QED
          BY <2>2, <5>1, <5>2, Zenon
      <4> QED
        BY <4>1, <4>2
    <3> QED
      BY <3>1, <3>2, <3>3, Zenon
  <2>6. ASSUME NEW x
        PROVE  x \in GivenBytes' <=> x \in GivenBytes \/ x \in PB
    <3>1. x \in GivenBytes' <=> \E y \in given' : x \in (y * PAGE)..(y * PAGE + PAGE - 1)
      BY DEF GivenBytes
    <3>2. x \in GivenBytes <=> \E y \in given : x \in (y * PAGE)..(y * PAGE + PAGE - 1)
      BY InGiven
    <3> QED
      BY <1>1, <3>1, <3>2 DEF PB
  <2>7. \A x : x \in PB => x \in BytesIn(mem_free)
    BY <1>3, <2>2, InRegions, Zenon
  <2>8. \A x : /\ x \in BytesIn(mem_free) \/ x \in GivenBytes <=> x \in BytesIn(mem_map) /\ x >= LOMEM
               /\ ~(x \in BytesIn(mem_free) /\ x \in GivenBytes)
    BY <1>9, <2>1, TrackedBytes, Zenon
  <2>9. Tracked'
    <3>1. \A x : /\ x \in BytesIn(mem_free') \/ x \in GivenBytes'
                     <=> x \in BytesIn(mem_map') /\ x >= LOMEM
                 /\ ~(x \in BytesIn(mem_free') /\ x \in GivenBytes')
      BY <1>2, <2>5, <2>6, <2>7, <2>8, Zenon
    <3>2. Tracked' <=>
            (WholePages' =>
               \A x : /\ x \in BytesIn(mem_free') \/ x \in GivenBytes'
                         <=> x \in BytesIn(mem_map') /\ x >= LOMEM
                     /\ ~(x \in BytesIn(mem_free') /\ x \in GivenBytes'))
      BY DEF Tracked, BytesIn, GivenBytes, Bytes
    <3> QED
      BY <3>1, <3>2, Zenon
  <2>10. \A q \in DOMAIN mem_free' : Whole(mem_free'[q])
    BY <2>1, <2>2, <2>3, Zenon DEF Regions
  <2>11. ASSUME NEW q \in DOMAIN mem_free', NEW s1 \in DOMAIN mem_free', q # s1
         PROVE  Bytes(mem_free'[q]) \cap Bytes(mem_free'[s1]) = {}
    <3>1. Bytes(mem_free[q]) \cap Bytes(mem_free[s1]) = {}
      BY <2>1, <2>3, <2>11, Zenon DEF Regions
    <3>2. \A x : x \in Bytes(new) => x \in Bytes(mem_free[r])
      BY <1>3, <2>2, Zenon
    <3>3. \A y \in DOMAIN mem_free : \A x : x \in Bytes(mem_free'[y]) => x \in Bytes(mem_free[y])
      BY <2>3, <3>2, Zenon
    <3> QED
      BY <2>3, <3>1, <3>3
  <2> QED
    BY <2>9, <2>10, <2>11 DEF Regions, Whole, Bytes
<1>10. WholePages' => WholePages
  BY <1>2 DEF WholePages
<1> QED
  BY <1>7, <1>8, <1>9, <1>10 DEF MemInv

\* Everything else leaves the lists and what was handed out as they were.
LEMMA RestKeeps ==
  ASSUME MemInv, UNCHANGED <<memvars, mem_free, given>>, pc' = "detect" => pc = "detect"
  PROVE  MemInv'
  BY DEF MemInv, Lists, Seen, Reading, Regions, Whole, Tracked, WholePages, BytesIn, Bytes,
         GivenBytes, memvars

\* Every step of the boot loader keeps the invariant.
LEMMA NextMem == MemInv /\ [Next]_vars => MemInv'
<1> SUFFICES ASSUME MemInv, [Next]_vars PROVE MemInv'
  OBVIOUS
<1>1. CASE DetectEntry
  BY <1>1, DetectEntryKeeps
<1>2. CASE NewCr3
  <2>1. CASE Crash
    BY <2>1, RestKeeps DEF Crash
  <2>2. ASSUME NEW p, alloc_page_hi(p), UNCHANGED memvars, pc' = "identity" PROVE MemInv'
    BY <2>2, HandsKeep
  <2> QED
    BY <1>2, <2>1, <2>2, Zenon DEF NewCr3
<1>3. CASE NewTable
  <2>1. CASE Crash
    BY <2>1, RestKeeps DEF Crash
  <2>2. ASSUME NEW p, alloc_page_hi(p), UNCHANGED memvars, pc' = pc PROVE MemInv'
    <3>1. pc' # "detect"
      BY <1>3, <2>2 DEF NewTable
    <3> QED
      BY <2>2, <3>1, HandsKeep
  <2> QED
    BY <1>3, <2>1, <2>2, Zenon DEF NewTable
<1>4. CASE MapPage
  <2>1. CASE Crash
    BY <2>1, RestKeeps DEF Crash
  <2>2. ASSUME NEW p, alloc_page_hi(p), UNCHANGED memvars, pc' = pc PROVE MemInv'
    <3>1. pc' # "detect"
      BY <1>4, <2>2 DEF MapPage
    <3> QED
      BY <2>2, <3>1, HandsKeep
  <2> QED
    BY <1>4, <2>1, <2>2, Zenon DEF MapPage
<1>5. CASE DetectStop
  BY <1>5, RestKeeps DEF DetectStop
<1>6. CASE MapIdentity
  BY <1>6, RestKeeps DEF MapIdentity
<1>7. CASE ApplyPaging
  BY <1>7, RestKeeps DEF ApplyPaging
<1>8. CASE IdentityDone
  BY <1>8, RestKeeps DEF IdentityDone
<1>9. CASE WalkDown
  BY <1>9, RestKeeps DEF WalkDown
<1>10. CASE CopySegment
  BY <1>10, RestKeeps DEF CopySegment
<1>11. CASE NextSegment
  BY <1>11, RestKeeps DEF NextSegment
<1>12. CASE EnterKernel
  BY <1>12, RestKeeps DEF EnterKernel
<1>13. CASE Stopped \/ UNCHANGED vars
  BY <1>13, RestKeeps DEF Stopped, vars
<1> QED
  BY <1>1, <1>2, <1>3, <1>4, <1>5, <1>6, <1>7, <1>8, <1>9, <1>10, <1>11, <1>12, <1>13, Zenon
     DEF Next

----------------------------------------------------------------------------
(* The page tables *)

\* The pages alloc_page_lo gives, and the contents a table can have.
LowPages   == LOPAGE..(LOPAGE + IDENT)
Slots == 0..(F - 1)
Tables == [Slots -> Nat \cup {NONE}]

Loading == {"valloc", "loaded", "kernel"}

\* What is where from phase to phase.
MapTypes ==
  /\ pc \in {"detect", "cr3", "identity", "wild"} \cup Loading
  /\ img \in Images /\ lo \in Nat
  /\ pc \in {"detect", "cr3"} => lo = LOPAGE /\ given = {}
  /\ pc \in Loading \cup {"identity"} => root \in given /\ root \in DOMAIN tab
  /\ \A t \in DOMAIN tab : t \in Nat /\ tab[t] \in Tables
  /\ DOMAIN data = given

\* memory_identity_map has begun directory x, and has made its entry y.
Begun(x)   == x < i \/ (x = i /\ j > 0)
Done(x, y) == x < i \/ (x = i /\ y < j)

\* The identity map so far: one table under the root, one directory for each
\* gigabyte, in the order alloc_page_lo gave them.
Building ==
  pc = "identity" =>
    /\ i \in 0..IDENT /\ j \in 0..F /\ (i = IDENT => j = 0) /\ (i > 0 => cr3 = root)
    /\ given = {root} /\ DOMAIN tab = {root} \cup LOPAGE..(lo - 1)
    /\ lo = IF i = 0 /\ j = 0 THEN LOPAGE
            ELSE IF j = 0 THEN LOPAGE + 1 + i ELSE LOPAGE + 2 + i
    /\ \A x \in Slots : tab[root][x] = IF x = 0 /\ lo # LOPAGE THEN LOPAGE ELSE NONE
    /\ lo # LOPAGE =>
         \A x \in Slots : tab[LOPAGE][x] = IF Begun(x) THEN LOPAGE + 1 + x ELSE NONE
    /\ \A x \in Slots : x < IDENT =>
         \A y \in Slots : Done(x, y) => tab[LOPAGE + 1 + x][y] = (x * F + y) * F

\* The tables of the identity map, once it is made.
Identity ==
  pc \in Loading =>
    /\ cr3 = root /\ tab[root][0] = LOPAGE /\ LowPages \subseteq DOMAIN tab
    /\ DOMAIN tab \subseteq given \cup LowPages
    /\ \A x \in Slots : x < IDENT =>
         /\ tab[LOPAGE][x] = LOPAGE + 1 + x
         /\ \A y \in Slots : tab[LOPAGE + 1 + x][y] = (x * F + y) * F

\* The tables above lomem form a tree: each has a level, and its entries, but
\* for the one of the identity map, point one level down, those of the last
\* level to pages that are no tables.
Tree(lev) ==
  /\ lev \in [DOMAIN tab \cap given -> 0..3] /\ lev[root] = 0
  /\ \A t \in DOMAIN tab \cap given : \A x \in Slots :
       (tab[t][x] # NONE /\ ~(t = root /\ x = 0)) =>
         /\ tab[t][x] \in given
         /\ lev[t] = 3 => tab[t][x] \notin DOMAIN tab
         /\ lev[t] < 3 => tab[t][x] \in DOMAIN tab /\ lev[tab[t][x]] = lev[t] + 1

\* No two entries point to the same page.
Once ==
  \A t, u \in DOMAIN tab \cap given : \A x, y \in Slots :
    tab[t][x] # NONE /\ tab[t][x] = tab[u][y] => t = u /\ x = y

\* Where the walk of page v through the tables arrives at each level.
Down(t, v, l) == IF t = NONE THEN NONE ELSE tab[t][Index(v, l)]
Node1(v) == tab[root][Index(v, 0)]
Node2(v) == Down(Node1(v), v, 1)
Node3(v) == Down(Node2(v), v, 2)
Leaf(v)  == Down(Node3(v), v, 3)

\* map_single is on the way of its page, at a table of its level.
OnTheWay(lev) ==
  pc = "valloc" /\ n < NPages =>
    /\ at \in DOMAIN tab \cap given /\ lvl \in 0..3 /\ lev[at] = lvl
    /\ at = CASE lvl = 0 -> root [] lvl = 1 -> Node1(VPage)
              [] lvl = 2 -> Node2(VPage) [] OTHER -> Node3(VPage)

\* The segments come one after the other, and the last before the kernel.
Progress ==
  /\ pc \in Loading => s \in DOMAIN img /\ n \in 0..NPages
  /\ pc = "kernel" => s = Len(img)

\* The segments whose every page is mapped, and those that were copied.
Placed(x) == x < s \/ (x = s /\ pc # "valloc")

\* The pages mapped so far stay mapped, and those copied hold what was copied.
Held ==
  SegmentsApart /\ pc \in Loading =>
    /\ \A x \in DOMAIN img : Placed(x) =>
         /\ \A v \in Pages(<<img[x]>>) : Leaf(v) # NONE
         /\ \A v \in FilePages(img[x]) : <<x, v>> \in data[Leaf(v)]
    /\ \A m \in 0..(n - 1) : Leaf(FirstPage + m) # NONE

MapInv ==
  WholePages =>
    /\ MapTypes /\ Building /\ Identity /\ Progress /\ Held
    /\ pc \in Loading => Once /\ \E lev : Tree(lev) /\ OnTheWay(lev)

\* The constants.
LEMMA Sizes ==
  /\ F \in Nat \ {0} /\ IDENT \in Nat \ {0} /\ IDENT <= F /\ PAGE \in Nat \ {0} /\ LOPAGE \in Nat
  /\ LOMEM \in Nat /\ (LOPAGE + 1 + IDENT) * PAGE <= LOMEM
<1>1. IDENT \in 1..F
  BY BootAssumption
<1> QED
  BY <1>1, BootAssumption

\* A page below another begins below it.
LEMMA PageBelow ==
  ASSUME NEW p \in Nat, NEW q \in Nat, NEW P \in Nat \ {0}, q < p
  PROVE  q * P < p * P
  BY Z3

\* Pages that begin at or above the end of lomem are none of alloc_page_lo's
\* (alloc.c:3-16).
LEMMA AboveLow ==
  ASSUME NEW p \in Nat, p * PAGE >= LOMEM
  PROVE  p \notin LowPages
<1> SUFFICES ASSUME p \in LowPages PROVE FALSE
  OBVIOUS
<1>1. p < LOPAGE + 1 + IDENT
  BY Sizes DEF LowPages
<1>2. p * PAGE < (LOPAGE + 1 + IDENT) * PAGE
  <2>1. LOPAGE + 1 + IDENT \in Nat
    BY Sizes
  <2> QED
    BY <1>1, <2>1, PageBelow, Sizes
<1>3. PICK a \in Nat, b \in Nat : a = p * PAGE /\ b = (LOPAGE + 1 + IDENT) * PAGE
  BY Sizes
<1> QED
  BY <1>2, <1>3, Sizes

\* A page contains its first byte.
LEMMA FirstByte ==
  ASSUME NEW p \in Nat
  PROVE  p * PAGE \in (p * PAGE)..(p * PAGE + PAGE - 1)
<1>1. PICK a \in Nat, P \in Nat \ {0} : a = p * PAGE /\ P = PAGE
  BY Sizes
<1>2. a \in a..(a + P - 1)
  OBVIOUS
<1> QED
  BY <1>1, <1>2

\* The pages handed out lie above lomem (memory.c:34-46, alloc.c:18-33).
LEMMA GivenAbove ==
  ASSUME MemInv, WholePages
  PROVE  \A p \in given : p \in Nat /\ p * PAGE >= LOMEM /\ p \notin LowPages
<1> SUFFICES ASSUME NEW p \in given PROVE p \in Nat /\ p * PAGE >= LOMEM /\ p \notin LowPages
  OBVIOUS
<1>1. p \in Nat
  BY DEF MemInv, Lists
<1>2. p * PAGE \in GivenBytes
  BY <1>1, FirstByte, InGiven
<1>3. p * PAGE >= LOMEM
  BY <1>2, TrackedBytes, Zenon DEF MemInv
<1> QED
  BY <1>1, <1>3, AboveLow

\* alloc_page_hi gives a page above lomem that it has not given before
\* (alloc.c:18-33).
LEMMA FreshPage ==
  ASSUME MemInv, WholePages, NEW p, alloc_page_hi(p)
  PROVE  p \in Nat /\ p \notin given /\ p * PAGE >= LOMEM /\ p \notin LowPages
<1>1. PICK r \in DOMAIN mem_free : mem_free[r].size # 0 /\ p = mem_free[r].base \div PAGE
  BY DEF alloc_page_hi, First
<1>2. PICK reg \in Region : reg = mem_free[r] /\ Whole(reg)
  BY DEF MemInv, Lists, Regions
<1>3. PICK b \in Nat, z \in Nat \ {0}, P \in Nat \ {0} :
        b = reg.base /\ z = reg.size /\ P = PAGE /\ b % P = 0 /\ b >= LOMEM
  BY <1>1, <1>2, Sizes DEF Region, Whole
<1>4. p \in Nat /\ p * P = b
  BY <1>1, <1>2, <1>3, WholeBase
<1>5. p * PAGE \in Bytes(reg)
  BY <1>3, <1>4, InBytes
<1>6. p * PAGE \in BytesIn(mem_free)
  BY <1>2, <1>5, InRegions
<1>7. p * PAGE \notin GivenBytes
  BY <1>6, TrackedBytes, Zenon DEF MemInv
<1>8. p \notin given
  BY <1>4, <1>7, FirstByte, InGiven, Zenon
<1> QED
  BY <1>3, <1>4, <1>8, AboveLow

\* Nothing is mapped before the BIOS has been asked.
LEMMA InitMap == Init => MapInv
  BY BootAssumption DEF Init, MapInv, MapTypes, Building, Identity, Progress, Held, Loading

\* memory_detect makes no table.
LEMMA DetectMap ==
  ASSUME MapInv, DetectEntry \/ DetectStop
  PROVE  MapInv'
<1>1. /\ pc = "detect" /\ pc' \in {"detect", "cr3"} /\ e820' = e820
      /\ UNCHANGED <<lo, tab, root, cr3, i, j, img, s, n, lvl, at, data, given>>
  BY DEF DetectEntry, DetectStop, memvars
<1>2. WholePages' => WholePages
  BY <1>1 DEF WholePages, Usable
<1>3. WholePages => MapTypes'
  BY <1>1 DEF MapInv, MapTypes, Loading
<1> QED
  BY <1>1, <1>2, <1>3 DEF MapInv, Building, Identity, Progress, Held, Loading

\* The table for CR3 is the first page taken (memory.c:76-78).
LEMMA NewCr3Map ==
  ASSUME MemInv, MapInv, NewCr3
  PROVE  MapInv'
<1>1. CASE Crash
  BY <1>1 DEF Crash, MapInv, MapTypes, Building, Identity, Progress, Held, Loading, WholePages,
              memvars
<1>2. CASE ~Crash
  <2>1. PICK p : /\ alloc_page_hi(p) /\ given' = given \cup {p} /\ pc = "cr3"
                 /\ root' = p /\ tab' = [q \in {p} |-> EmptyTable]
                 /\ pc' = "identity" /\ i' = 0 /\ j' = 0
                 /\ data' = [q \in DOMAIN data \cup {p} |-> {}]
                 /\ UNCHANGED <<memvars, lo, cr3, img, s, n, lvl, at>>
    BY <1>2 DEF NewCr3, alloc_page_hi
  <2>2. WholePages' => WholePages
    BY <2>1 DEF WholePages, memvars
  <2> SUFFICES ASSUME WholePages PROVE MapInv'
    BY <2>2 DEF MapInv
  <2>3. p \in Nat /\ p \notin given /\ p \notin LowPages
    BY <2>1, FreshPage
  <2>4. EmptyTable \in Tables /\ \A x \in Slots : EmptyTable[x] = NONE
    BY DEF EmptyTable, Tables, Slots
  <2>5. lo = LOPAGE /\ given = {} /\ DOMAIN data = {} /\ img \in Images
    BY <2>1 DEF MapInv, MapTypes
  <2>6. MapTypes'
    BY <2>1, <2>3, <2>4, <2>5, Sizes DEF MapTypes, Loading
  <2>7. Building'
    <3>1. 0 \in 0..IDENT /\ 0 \in 0..F /\ LOPAGE..(LOPAGE - 1) = {}
      BY Sizes
    <3>2. \A x \in Slots : \A y \in Slots : ~(x < 0 \/ (x = 0 /\ y < 0))
      BY DEF Slots
    <3> QED
      BY <2>1, <2>4, <2>5, <3>1, <3>2 DEF Building, Done
  <2> QED
    BY <2>1, <2>6, <2>7 DEF MapInv, Identity, Progress, Held, Loading
<1> QED
  BY <1>1, <1>2

\* An entry of a table that is written, and the others.
LEMMA EntrySet ==
  ASSUME NEW t \in Tables, NEW x \in Slots, NEW p \in Nat
  PROVE  /\ [t EXCEPT ![x] = p] \in Tables
         /\ [t EXCEPT ![x] = p][x] = p
         /\ \A y \in Slots : y # x => [t EXCEPT ![x] = p][y] = t[y]
  BY DEF Tables

\* A new table.
LEMMA EmptyFacts == EmptyTable \in Tables /\ \A x \in Slots : EmptyTable[x] = NONE
  BY DEF EmptyTable, Tables, Slots

\* What one turn of map_identity_2mib leaves in the three tables on the way to
\* its page: it makes those that are not there (memory.c:53-74).
LEMMA IdentityStep ==
  ASSUME MemInv, MapInv, WholePages, MapIdentity
  PROVE  LET N  == LOPAGE + 1 + i
             tl == IF i = 0 /\ j = 0 THEN EmptyTable ELSE tab[LOPAGE]
             tn == IF j = 0 THEN EmptyTable ELSE tab[N]
         IN /\ lo' = LOPAGE + 2 + i /\ DOMAIN tab' = {root} \cup LOPAGE..N
            /\ tl \in Tables /\ tn \in Tables
            /\ tab'[root] = [tab[root] EXCEPT ![0] = LOPAGE]
            /\ tab'[LOPAGE] = [tl EXCEPT ![i] = N]
            /\ tab'[N] = [tn EXCEPT ![j] = BigPage]
            /\ \A q \in DOMAIN tab' : q \notin {root, LOPAGE, N} =>
                 q \in DOMAIN tab /\ tab'[q] = tab[q]
<1> DEFINE N  == LOPAGE + 1 + i
           tl == IF i = 0 /\ j = 0 THEN EmptyTable ELSE tab[LOPAGE]
           tn == IF j = 0 THEN EmptyTable ELSE tab[N]
<1>1. /\ pc = "identity" /\ i \in Nat /\ j \in Nat /\ i < IDENT /\ j < F
      /\ DOMAIN tab = {root} \cup LOPAGE..(lo - 1)
      /\ lo = IF i = 0 /\ j = 0 THEN LOPAGE
              ELSE IF j = 0 THEN LOPAGE + 1 + i ELSE LOPAGE + 2 + i
      /\ tab[root][0] = IF lo # LOPAGE THEN LOPAGE ELSE NONE
      /\ lo # LOPAGE => tab[LOPAGE][i] = IF j > 0 THEN N ELSE NONE
      /\ \A t \in DOMAIN tab : tab[t] \in Tables
  <2>1. pc = "identity" /\ i < IDENT /\ j < F
    BY DEF MapIdentity
  <2>2. i \in 0..IDENT /\ j \in 0..F
    BY <2>1 DEF MapInv, Building
  <2>3. i \in Slots /\ 0 \in Slots /\ i \in Nat /\ j \in Nat
    BY <2>1, <2>2, Sizes DEF Slots
  <2> QED
    BY <2>1, <2>3, Sizes DEF MapInv, Building, MapTypes, Begun
<1>2. root \in Nat /\ root \notin LowPages
  BY <1>1, GivenAbove DEF MapInv, MapTypes
<1>3. LOPAGE \in Nat /\ LOPAGE \in LowPages /\ N \in LowPages /\ N \in Nat /\ N # LOPAGE
  BY <1>1, Sizes DEF LowPages
<1>4. NONE \notin Nat
  BY DEF NONE
<1> DEFINE old(fr, q) == IF q \in fr THEN EmptyTable ELSE tab[q]
<1>5. CASE i = 0 /\ j = 0
  <2>1. lo = LOPAGE /\ tab[root][0] = NONE /\ N = lo + 1 /\ DOMAIN tab = {root}
    BY <1>1, <1>3, <1>5
  <2>2. Cardinality({lo, lo + 1}) = 2
    <3>1. Cardinality({lo}) = 1 /\ IsFiniteSet({lo})
      BY FS_Singleton
    <3>2. lo + 1 \notin {lo}
      BY <1>3, <2>1
    <3>3. Cardinality({lo} \cup {lo + 1}) = 2
      BY <3>1, <3>2, FS_AddElement
    <3>4. {lo} \cup {lo + 1} = {lo, lo + 1}
      OBVIOUS
    <3> QED
      BY <3>3, <3>4
  <2>3. /\ lo' = lo + Cardinality({lo} \cup {lo + 1})
        /\ tab' = [q \in DOMAIN tab \cup ({lo} \cup {lo + 1}) |->
             CASE q = root   -> [old({lo} \cup {lo + 1}, q) EXCEPT ![0] = lo]
               [] q = lo     -> [old({lo} \cup {lo + 1}, q) EXCEPT ![i] = lo + 1]
               [] q = lo + 1 -> [old({lo} \cup {lo + 1}, q) EXCEPT ![j] = BigPage]
               [] OTHER      -> old({lo} \cup {lo + 1}, q)]
    BY <2>1 DEF MapIdentity
  <2>4. {lo} \cup {lo + 1} = {lo, lo + 1} /\ LOPAGE..N = {lo, lo + 1}
    BY <1>3, <2>1
  <2>5. root \notin {lo, lo + 1} /\ lo # lo + 1
    BY <1>2, <1>3, <2>1
  <2>6. lo' = LOPAGE + 2 + i
    BY <1>3, <1>5, <2>1, <2>2, <2>3, <2>4
  <2>7. DOMAIN tab' = {root} \cup LOPAGE..N
    BY <2>1, <2>3, <2>4
  <2>8. /\ tab'[root] = [tab[root] EXCEPT ![0] = lo]
        /\ tab'[lo] = [EmptyTable EXCEPT ![i] = lo + 1]
        /\ tab'[lo + 1] = [EmptyTable EXCEPT ![j] = BigPage]
    BY <2>1, <2>3, <2>5
  <2> QED
    BY <1>5, <2>1, <2>4, <2>6, <2>7, <2>8, EmptyFacts
<1>6. CASE j = 0 /\ i # 0
  <2>1. /\ lo = N /\ tab[root][0] = LOPAGE /\ tab[LOPAGE][i] = NONE /\ LOPAGE # NONE
        /\ DOMAIN tab = {root} \cup LOPAGE..(N - 1) /\ LOPAGE \in DOMAIN tab
        /\ N \notin DOMAIN tab
    BY <1>1, <1>2, <1>3, <1>4, <1>6
  <2>2. Cardinality({} \cup {lo}) = 1
    <3>1. {} \cup {lo} = {lo}
      OBVIOUS
    <3> QED
      BY <3>1, FS_Singleton
  <2>3. /\ lo' = lo + Cardinality({} \cup {lo})
        /\ tab' = [q \in DOMAIN tab \cup ({} \cup {lo}) |->
             CASE q = root   -> [old({} \cup {lo}, q) EXCEPT ![0] = LOPAGE]
               [] q = LOPAGE -> [old({} \cup {lo}, q) EXCEPT ![i] = lo]
               [] q = lo     -> [old({} \cup {lo}, q) EXCEPT ![j] = BigPage]
               [] OTHER      -> old({} \cup {lo}, q)]
    BY <2>1 DEF MapIdentity
  <2>4. root # LOPAGE /\ root # N /\ LOPAGE # N
    BY <1>2, <1>3
  <2>5. lo' = LOPAGE + 2 + i
    <3>1. lo' = lo + 1
      BY <2>2, <2>3, Zenon
    <3> QED
      BY <1>1, <1>3, <2>1, <3>1
  <2>6. DOMAIN tab' = {root} \cup LOPAGE..N
    <3>1. DOMAIN tab' = DOMAIN tab \cup {lo}
      BY <2>3
    <3> QED
      BY <1>1, <1>3, <2>1, <3>1
  <2>7. /\ tab'[root] = [tab[root] EXCEPT ![0] = LOPAGE]
        /\ tab'[LOPAGE] = [tab[LOPAGE] EXCEPT ![i] = N]
        /\ tab'[N] = [EmptyTable EXCEPT ![j] = BigPage]
        /\ \A q \in DOMAIN tab' : q \notin {root, LOPAGE, N} =>
             q \in DOMAIN tab /\ tab'[q] = tab[q]
    BY <2>1, <2>3, <2>4
  <2> QED
    BY <1>1, <1>6, <2>1, <2>5, <2>6, <2>7, EmptyFacts
<1>7. CASE j # 0
  <2>1. /\ lo = LOPAGE + 2 + i /\ tab[root][0] = LOPAGE /\ tab[LOPAGE][i] = N
        /\ LOPAGE # NONE /\ N # NONE
        /\ DOMAIN tab = {root} \cup LOPAGE..N /\ LOPAGE \in DOMAIN tab /\ N \in DOMAIN tab
    BY <1>1, <1>2, <1>3, <1>4, <1>7
  <2>2. Cardinality({} \cup {}) = 0
    <3>1. {} \cup {} = {}
      OBVIOUS
    <3> QED
      BY <3>1, FS_EmptySet
  <2>3. /\ lo' = lo + Cardinality({} \cup {})
        /\ tab' = [q \in DOMAIN tab \cup ({} \cup {}) |->
             CASE q = root   -> [old({} \cup {}, q) EXCEPT ![0] = LOPAGE]
               [] q = LOPAGE -> [old({} \cup {}, q) EXCEPT ![i] = N]
               [] q = N      -> [old({} \cup {}, q) EXCEPT ![j] = BigPage]
               [] OTHER      -> old({} \cup {}, q)]
    BY <2>1 DEF MapIdentity
  <2>4. root # LOPAGE /\ root # N /\ LOPAGE # N
    BY <1>2, <1>3
  <2>5. lo' = LOPAGE + 2 + i
    BY <1>1, <1>3, <2>1, <2>2, <2>3
  <2>6. DOMAIN tab' = {root} \cup LOPAGE..N
    BY <2>1, <2>3
  <2>7. /\ tab'[root] = [tab[root] EXCEPT ![0] = LOPAGE]
        /\ tab'[LOPAGE] = [tab[LOPAGE] EXCEPT ![i] = N]
        /\ tab'[N] = [tab[N] EXCEPT ![j] = BigPage]
        /\ \A q \in DOMAIN tab' : q \notin {root, LOPAGE, N} =>
             q \in DOMAIN tab /\ tab'[q] = tab[q]
    BY <2>1, <2>3, <2>4
  <2> QED
    BY <1>1, <1>7, <2>1, <2>5, <2>6, <2>7
<1> QED
  BY <1>5, <1>6, <1>7

\* A page of 2 MiB is a page.
LEMMA BigPageNat ==
  ASSUME NEW a \in Nat, NEW b \in Nat, NEW f \in Nat
  PROVE  (a * f + b) * f \in Nat
<1>1. a * f \in Nat
  BY Z3
<1>2. PICK c \in Nat : c = a * f
  BY <1>1
<1>3. (c + b) * f \in Nat
  BY Z3
<1> QED
  BY <1>2, <1>3

\* Each turn of memory_identity_map's inner loop adds one page.
LEMMA IdentityMapped ==
  ASSUME MemInv, MapInv, MapIdentity
  PROVE  MapInv'
<1>0. /\ pc = "identity" /\ pc' = pc /\ i < IDENT /\ j < F /\ i' = i /\ j' = j + 1
      /\ UNCHANGED <<memvars, root, cr3, img, s, n, lvl, at, data, given>>
  BY DEF MapIdentity
<1> SUFFICES ASSUME WholePages PROVE MapInv'
  BY <1>0 DEF MapInv, WholePages, memvars
<1> DEFINE N  == LOPAGE + 1 + i
           tl == IF i = 0 /\ j = 0 THEN EmptyTable ELSE tab[LOPAGE]
           tn == IF j = 0 THEN EmptyTable ELSE tab[N]
<1>1. /\ lo' = LOPAGE + 2 + i /\ DOMAIN tab' = {root} \cup LOPAGE..N
      /\ tl \in Tables /\ tn \in Tables
      /\ tab'[root] = [tab[root] EXCEPT ![0] = LOPAGE]
      /\ tab'[LOPAGE] = [tl EXCEPT ![i] = N]
      /\ tab'[N] = [tn EXCEPT ![j] = BigPage]
      /\ \A q \in DOMAIN tab' : q \notin {root, LOPAGE, N} => q \in DOMAIN tab /\ tab'[q] = tab[q]
  BY IdentityStep
<1>2. /\ MapTypes /\ i \in 0..IDENT /\ j \in 0..F /\ (i > 0 => cr3 = root)
      /\ given = {root}
      /\ lo = IF i = 0 /\ j = 0 THEN LOPAGE
              ELSE IF j = 0 THEN LOPAGE + 1 + i ELSE LOPAGE + 2 + i
      /\ \A x \in Slots : tab[root][x] = IF x = 0 /\ lo # LOPAGE THEN LOPAGE ELSE NONE
      /\ lo # LOPAGE =>
           \A x \in Slots : tab[LOPAGE][x] = IF Begun(x) THEN LOPAGE + 1 + x ELSE NONE
      /\ \A x \in Slots : x < IDENT =>
           \A y \in Slots : Done(x, y) => tab[LOPAGE + 1 + x][y] = (x * F + y) * F
  BY <1>0 DEF MapInv, Building
<1>3. i \in Nat /\ j \in Nat /\ i \in Slots /\ j \in Slots /\ 0 \in Slots
  BY <1>0, <1>2, Sizes DEF Slots
<1>4. root \in Nat /\ root \notin LowPages
  BY <1>0, GivenAbove DEF MapInv, MapTypes
<1>5. LOPAGE \in Nat /\ LOPAGE \in LowPages /\ N \in LowPages /\ N \in Nat /\ N # LOPAGE
  BY <1>0, <1>3, Sizes DEF LowPages
<1>6. BigPage \in Nat /\ BigPage = (i * F + j) * F
  BY <1>3, BigPageNat, Sizes DEF BigPage
<1>7. tab[root] \in Tables
  BY <1>0, <1>2 DEF MapTypes
<1> HIDE DEF tl, tn
<1>8. /\ tab'[root] \in Tables /\ tab'[root][0] = LOPAGE
      /\ \A x \in Slots : x # 0 => tab'[root][x] = tab[root][x]
  BY <1>1, <1>3, <1>5, <1>7, EntrySet
<1>9. /\ tab'[LOPAGE] \in Tables /\ tab'[LOPAGE][i] = N
      /\ \A x \in Slots : x # i => tab'[LOPAGE][x] = tl[x]
  BY <1>1, <1>3, <1>5, EntrySet
<1>10. /\ tab'[N] \in Tables /\ tab'[N][j] = BigPage
       /\ \A x \in Slots : x # j => tab'[N][x] = tn[x]
  BY <1>1, <1>3, <1>6, EntrySet
<1>11. MapTypes'
  <2>1. \A t \in DOMAIN tab' : t \in Nat
    BY <1>1, <1>4, <1>5
  <2>2. \A t \in DOMAIN tab' : tab'[t] \in Tables
    BY <1>1, <1>2, <1>8, <1>9, <1>10, Zenon DEF MapTypes
  <2>3. lo' \in Nat
    BY <1>1, <1>3, <1>5
  <2>4. root \in DOMAIN tab' /\ root \in given
    BY <1>1, <1>2
  <2> QED
    BY <1>0, <1>2, <2>1, <2>2, <2>3, <2>4 DEF MapTypes, Loading
<1>12. \A x \in Slots : tab'[root][x] = IF x = 0 THEN LOPAGE ELSE NONE
  BY <1>2, <1>8
<1>13. \A x \in Slots : tab'[LOPAGE][x] = IF x < i \/ x = i THEN LOPAGE + 1 + x ELSE NONE
  <2> SUFFICES ASSUME NEW x \in Slots
               PROVE  tab'[LOPAGE][x] = IF x < i \/ x = i THEN LOPAGE + 1 + x ELSE NONE
    OBVIOUS
  <2>1. CASE x = i
    BY <1>9, <2>1
  <2>2. CASE x # i /\ i = 0 /\ j = 0
    <3>1. tl[x] = NONE /\ ~(x < i)
      BY <2>2, EmptyFacts DEF tl, Slots
    <3> QED
      BY <1>9, <2>2, <3>1
  <2>3. CASE x # i /\ ~(i = 0 /\ j = 0)
    <3>1. tl = tab[LOPAGE] /\ lo # LOPAGE
      BY <1>2, <1>3, <1>5, <2>3 DEF tl
    <3>2. tab[LOPAGE][x] = IF x < i THEN LOPAGE + 1 + x ELSE NONE
      BY <1>2, <2>3, <3>1 DEF Begun
    <3> QED
      BY <1>9, <2>3, <3>1, <3>2
  <2> QED
    BY <2>1, <2>2, <2>3
<1>14. ASSUME NEW x \in Slots, x < IDENT, NEW y \in Slots, x < i \/ (x = i /\ y < j + 1)
       PROVE  tab'[LOPAGE + 1 + x][y] = (x * F + y) * F
  <2>1. CASE x < i
    <3>1. LOPAGE + 1 + x \in LOPAGE..N /\ LOPAGE + 1 + x \notin {root, LOPAGE, N}
      BY <1>3, <1>4, <1>5, <2>1, <1>0, Sizes DEF Slots, LowPages
    <3>2. tab'[LOPAGE + 1 + x] = tab[LOPAGE + 1 + x]
      BY <1>1, <3>1
    <3> QED
      BY <1>2, <1>14, <2>1, <3>2 DEF Done
  <2>2. CASE x = i /\ y = j
    BY <1>6, <1>10, <2>2
  <2>3. CASE x = i /\ y # j
    <3>1. y < j /\ j # 0
      BY <1>3, <1>14, <2>3 DEF Slots
    <3>2. tab'[LOPAGE + 1 + x][y] = tab[LOPAGE + 1 + x][y]
      BY <1>10, <2>3, <3>1 DEF tn
    <3> QED
      BY <1>2, <1>14, <2>3, <3>1, <3>2 DEF Done
  <2> QED
    BY <1>3, <1>14, <2>1, <2>2, <2>3 DEF Slots
<1>15. Building'
  <2>1. /\ i' \in 0..IDENT /\ j' \in 0..F /\ (i' = IDENT => j' = 0) /\ j' # 0 /\ j' > 0
        /\ (i' > 0 => cr3' = root') /\ given' = {root'}
    BY <1>0, <1>2, <1>3, Sizes
  <2>2. DOMAIN tab' = {root'} \cup LOPAGE..(lo' - 1) /\ lo' = LOPAGE + 2 + i' /\ lo' # LOPAGE
    BY <1>0, <1>1, <1>3, <1>5
  <2>3. \A x \in Slots : tab'[root'][x] = IF x = 0 THEN LOPAGE ELSE NONE
    BY <1>0, <1>12
  <2>4. \A x \in Slots :
          tab'[LOPAGE][x] = IF x < i' \/ (x = i' /\ j' > 0) THEN LOPAGE + 1 + x ELSE NONE
    BY <1>0, <1>13, <2>1
  <2>5. \A x \in Slots : x < IDENT => \A y \in Slots :
          (x < i' \/ (x = i' /\ y < j')) => tab'[LOPAGE + 1 + x][y] = (x * F + y) * F
    BY <1>0, <1>14
  <2> QED
    BY <2>1, <2>2, <2>3, <2>4, <2>5 DEF Building, Begun, Done
<1> QED
  BY <1>0, <1>11, <1>15 DEF MapInv, Identity, Progress, Held, Loading

----------------------------------------------------------------------------
(* Pages of a segment, indexes of a page *)

\* A larger factor makes a larger product.
LEMMA Times ==
  ASSUME NEW a \in Int, NEW b \in Int, NEW P \in Nat, a <= b
  PROVE  a * P <= b * P /\ (a + 1) * P = a * P + P /\ a * P \in Int
  BY Z3

\* The quotient and the rest.
LEMMA Division ==
  ASSUME NEW a \in Nat, NEW P \in Nat \ {0}
  PROVE  \E q, r \in Nat : q = a \div P /\ r = a % P /\ r < P /\ a = q * P + r
<1>1. a \div P \in Nat /\ a % P \in Nat /\ a % P < P
  BY Z3
<1>2. PICK q \in Nat, r \in Nat : q = a \div P /\ r = a % P /\ r < P
  BY <1>1
<1>3. a = q * P + r
  BY <1>2, Z3
<1> QED
  BY <1>2, <1>3

\* Quotient and rest tell a number.
LEMMA SameParts ==
  ASSUME NEW a \in Nat, NEW b \in Nat, NEW P \in Nat \ {0}, a \div P = b \div P, a % P = b % P
  PROVE  a = b
<1>1. PICK q \in Nat, r \in Nat : q = a \div P /\ r = a % P /\ a = q * P + r
  BY Division
<1>2. PICK k \in Nat, t \in Nat : k = b \div P /\ t = b % P /\ b = k * P + t
  BY Division
<1>3. q = k /\ r = t
  BY <1>1, <1>2
<1> QED
  BY <1>1, <1>2, <1>3, Zenon

\* A number is less than another times P when its quotient is less.
LEMMA QuotientBelow ==
  ASSUME NEW a \in Nat, NEW P \in Nat \ {0}, NEW c \in Nat
  PROVE  /\ a < c * P => a \div P < c
         /\ a >= c * P => a \div P >= c
<1>1. PICK q \in Nat, r \in Nat : q = a \div P /\ r < P /\ a = q * P + r
  BY Division
<1>2. ASSUME a < c * P, q >= c PROVE FALSE
  BY <1>1, <1>2, Times
<1>3. ASSUME a >= c * P, q < c PROVE FALSE
  <2>1. q + 1 <= c
    BY <1>3
  <2>2. (q + 1) * P <= c * P /\ (q + 1) * P = q * P + P
    <3>1. (q + 1) * P <= c * P
      BY <2>1, Times
    <3>2. (q + 1) * P = q * P + P
      BY Times
    <3> QED
      BY <3>1, <3>2
  <2>3. PICK x \in Int, y \in Int : x = q * P /\ y = c * P
    BY Times
  <2> QED
    BY <1>1, <1>3, <2>2, <2>3
<1> QED
  BY <1>1, <1>2, <1>3

\* A number less than the divisor is its own rest.
LEMMA SmallRest ==
  ASSUME NEW a \in Nat, NEW P \in Nat \ {0}, a < P
  PROVE  a % P = a
  BY Z3

\* Dividing twice is dividing by the product.
LEMMA DivideTwice ==
  ASSUME NEW a \in Nat, NEW P \in Nat \ {0}, NEW Q \in Nat \ {0}
  PROVE  Q * P \in Nat \ {0} /\ (a \div P) \div Q = a \div (Q * P)
<1>1. PICK q \in Nat, r \in Nat : q = a \div P /\ r < P /\ a = q * P + r
  BY Division
<1>2. PICK k \in Nat, t \in Nat : k = q \div Q /\ t < Q /\ q = k * Q + t
  BY Division
<1>3. a = (k * Q) * P + (t * P + r)
  <2>1. PICK x \in Nat : x = k * Q
    <3>1. k * Q \in Nat
      BY Z3
    <3> QED
      BY <3>1
  <2>2. (x + t) * P = x * P + t * P
    BY Z3
  <2>3. x * P \in Nat /\ t * P \in Nat
    BY Z3
  <2>4. PICK y \in Nat, z \in Nat : y = x * P /\ z = t * P
    BY <2>3
  <2>5. a = (y + z) + r
    BY <1>1, <1>2, <2>1, <2>2, <2>4
  <2>6. a = y + (z + r)
    BY <2>5
  <2> QED
    BY <2>1, <2>4, <2>6
<1>4. t * P + r < Q * P /\ t * P + r \in Nat
  <2>1. (t + 1) * P <= Q * P /\ (t + 1) * P = t * P + P
    <3>1. (t + 1) * P <= Q * P
      BY <1>2, Times
    <3> QED
      BY <3>1, Times
  <2>2. PICK x \in Nat, y \in Int : x = t * P /\ y = Q * P
    <3>1. t * P \in Nat
      BY Z3
    <3> QED
      BY <3>1, Times
  <2> QED
    BY <1>1, <2>1, <2>2
<1>5. Q * P \in Nat \ {0}
  BY Z3
<1>6. PICK m \in Nat \ {0}, u \in Nat : m = Q * P /\ u = t * P + r /\ u < m
  BY <1>4, <1>5
<1>7. a = k * m + u
  BY <1>3, <1>6, Z3
<1>8. a \div m = k
  <2>1. k <= a \div m
    <3>1. a >= k * m
      <4>1. k * m \in Int
        BY Times
      <4> QED
        BY <1>7, <4>1
    <3> QED
      BY <3>1, QuotientBelow
  <2>2. a \div m < k + 1
    <3>1. (k + 1) * m = k * m + m /\ k * m \in Int
      BY Times
    <3>2. a < (k + 1) * m
      BY <1>6, <1>7, <3>1
    <3> QED
      BY <3>2, QuotientBelow
  <2>3. a \div m \in Nat
    BY Division
  <2> QED
    BY <2>1, <2>2, <2>3
<1> QED
  BY <1>1, <1>2, <1>5, <1>6, <1>8

\* The spans of the four levels.
LEMMA Spans ==
  /\ Span(0) = F * F * F /\ Span(1) = F * F /\ Span(2) = F /\ Span(3) = 1
  /\ SPACE = F * (F * F * F)
  BY DEF Span, SPACE

\* The four indexes of a page and the quotients they come from
\* (decompose_addr, alloc.c:35-41).
LEMMA Indexes ==
  ASSUME NEW v \in Nat
  PROVE  \E a, b, c \in Nat :
           /\ c = v \div F /\ b = c \div F /\ a = b \div F
           /\ Index(v, 3) = v % F /\ Index(v, 2) = c % F
           /\ Index(v, 1) = b % F /\ Index(v, 0) = a % F
           /\ b = v \div (F * F) /\ a = v \div (F * F * F)
<1>1. F \in Nat \ {0}
  BY Sizes
<1>2. PICK c \in Nat : c = v \div F
  BY <1>1, Division
<1>3. PICK b \in Nat : b = c \div F
  BY <1>1, Division
<1>4. PICK a \in Nat : a = b \div F
  BY <1>1, Division
<1>5. F * F \in Nat \ {0} /\ b = v \div (F * F)
  <2>1. F * F \in Nat \ {0} /\ (v \div F) \div F = v \div (F * F)
    BY <1>1, DivideTwice, Zenon
  <2> QED
    BY <1>2, <1>3, <2>1, Zenon
<1>6. a = v \div (F * (F * F))
  <2>1. PICK G \in Nat \ {0} : G = F * F
    BY <1>5
  <2>2. (v \div G) \div F = v \div (F * G)
    BY <1>1, <2>1, DivideTwice
  <2> QED
    BY <1>4, <1>5, <2>1, <2>2, Zenon
<1>7. F * (F * F) = F * F * F
  BY <1>1, Z3
<1>8. v \div 1 = v
  BY Z3
<1>9. Index(v, 3) = v % F /\ Index(v, 2) = c % F /\ Index(v, 1) = b % F /\ Index(v, 0) = a % F
  BY <1>2, <1>5, <1>6, <1>7, <1>8, Spans DEF Index
<1> QED
  BY <1>2, <1>3, <1>4, <1>5, <1>6, <1>7, <1>9

\* A rest is an entry of a table.
LEMMA RestSlot ==
  ASSUME NEW x \in Nat
  PROVE  x % F \in Slots
<1>1. PICK q, r \in Nat : r = x % F /\ r < F
  BY Sizes, Division
<1> QED
  BY <1>1, Sizes DEF Slots

\* An index is an entry of a table.
LEMMA IndexSlot ==
  ASSUME NEW v \in Nat
  PROVE  \A l \in 0..3 : Index(v, l) \in Slots
<1>1. Index(v, 0) \in Slots /\ Index(v, 1) \in Slots /\ Index(v, 2) \in Slots /\ Index(v, 3) \in Slots
  BY Indexes, RestSlot
<1>2. \A l \in 0..3 : l = 0 \/ l = 1 \/ l = 2 \/ l = 3
  OBVIOUS
<1> QED
  BY <1>1, <1>2

\* What is loaded is under other entries of the root than the identity map.
LEMMA TopIndex ==
  ASSUME NEW v \in Nat, v >= Span(0), v < SPACE
  PROVE  Index(v, 0) # 0 /\ Index(v, 0) = v \div Span(0)
<1>1. PICK G \in Nat \ {0} : G = Span(0) /\ SPACE = F * G
  <2>1. F * F * F \in Nat \ {0}
    BY Sizes, Z3
  <2> QED
    BY <2>1, Spans
<1>2. PICK a \in Nat : a = v \div G
  BY <1>1, Division
<1>3. a < F
  BY <1>1, <1>2, QuotientBelow, Sizes
<1>4. a >= 1
  BY <1>1, <1>2, QuotientBelow
<1>5. Index(v, 0) = a
  BY <1>1, <1>2, <1>3, SmallRest, Sizes DEF Index
<1> QED
  BY <1>1, <1>2, <1>4, <1>5

\* The four indexes tell a page of the address space.
LEMMA IndexesTell ==
  ASSUME NEW v \in Nat, NEW w \in Nat, Span(0) <= v, v < SPACE, Span(0) <= w, w < SPACE,
         \A l \in 0..3 : Index(v, l) = Index(w, l)
  PROVE  v = w
<1>1. PICK a, b, c \in Nat :
        /\ c = v \div F /\ b = c \div F /\ a = b \div F
        /\ Index(v, 3) = v % F /\ Index(v, 2) = c % F /\ Index(v, 1) = b % F
        /\ a = v \div (F * F * F)
  BY Indexes
<1>2. PICK d, f, g \in Nat :
        /\ g = w \div F /\ f = g \div F /\ d = f \div F
        /\ Index(w, 3) = w % F /\ Index(w, 2) = g % F /\ Index(w, 1) = f % F
        /\ d = w \div (F * F * F)
  BY Indexes
<1>3. a = d
  <2>1. Index(v, 0) = a /\ Index(w, 0) = d
    BY <1>1, <1>2, TopIndex, Spans
  <2> QED
    BY <2>1
<1>4. b % F = f % F /\ c % F = g % F /\ v % F = w % F
  <2>1. /\ Index(v, 1) = Index(w, 1) /\ Index(v, 2) = Index(w, 2)
        /\ Index(v, 3) = Index(w, 3)
    OBVIOUS
  <2> QED
    BY <1>1, <1>2, <2>1, Zenon
<1>5. b = f
  <2>1. b \div F = f \div F
    BY <1>1, <1>2, <1>3, Zenon
  <2> QED
    BY <1>4, <2>1, SameParts, Sizes
<1>6. c = g
  <2>1. c \div F = g \div F
    BY <1>1, <1>2, <1>5, Zenon
  <2> QED
    BY <1>4, <2>1, SameParts, Sizes
<1> QED
  <2>1. v \div F = w \div F
    BY <1>1, <1>2, <1>6, Zenon
  <2> QED
    BY <1>4, <2>1, SameParts, Sizes

\* The pages that meet an interval of bytes: valloc's rounding of its address
\* and size names them all and no other (alloc.c:76-84).
LEMMA PageCover ==
  ASSUME NEW a \in Nat, NEW m \in Nat, NEW P \in Nat \ {0}, NEW v \in Nat,
         NEW f \in Nat, f = a \div P, NEW r \in Nat, r = a % P,
         NEW k \in Nat, k = (m + r + P - 1) \div P
  PROVE  (v * P < a + m /\ (v + 1) * P > a) <=> (f <= v /\ v < f + k)
<1>1. r < P /\ a = f * P + r
  BY Division
<1>2. PICK x \in Nat : x = f * P
  <2>1. f * P \in Nat
    BY Z3
  <2> QED
    BY <2>1
<1>3. (v + 1) * P > a <=> f <= v
  <2>1. ASSUME f <= v PROVE (v + 1) * P > a
    <3>1. f * P <= v * P /\ (v + 1) * P = v * P + P /\ v * P \in Int
      BY <2>1, Times
    <3> QED
      BY <1>1, <1>2, <3>1
  <2>2. ASSUME v < f PROVE (v + 1) * P <= a
    <3>1. (v + 1) * P <= f * P
      <4>1. v + 1 <= f
        BY <2>2
      <4> QED
        BY <4>1, Times
    <3>2. (v + 1) * P \in Int
      BY Times
    <3> QED
      BY <1>1, <1>2, <3>1, <3>2
  <2>3. (v + 1) * P \in Int
    BY Times
  <2> QED
    BY <2>1, <2>2, <2>3
<1>4. PICK t \in Nat : /\ t < P
                       /\ m + r + P - 1 = k * P + t
  <2>1. PICK c \in Nat : c = m + r + P - 1
    OBVIOUS
  <2>2. PICK q, t \in Nat : q = c \div P /\ t = c % P /\ t < P /\ c = q * P + t
    BY Division, Zenon
  <2> QED
    BY <2>1, <2>2
<1>5. PICK y \in Nat : y = k * P
  <2>1. k * P \in Nat
    BY Z3
  <2> QED
    BY <2>1
<1>6. (f + k) * P = x + y
  BY <1>2, <1>5, Z3
<1>7. v * P < a + m <=> v < f + k
  <2>1. ASSUME v < f + k PROVE v * P < a + m
    <3>1. (v + 1) * P <= (f + k) * P
      <4>1. v + 1 <= f + k
        BY <2>1
      <4> QED
        BY <4>1, Times
    <3>2. (v + 1) * P = v * P + P /\ v * P \in Int
      BY Times
    <3> QED
      BY <1>1, <1>2, <1>4, <1>5, <1>6, <3>1, <3>2
  <2>2. ASSUME v >= f + k PROVE v * P >= a + m
    <3>1. PICK z \in Int : z = v * P /\ (f + k) * P <= z
      BY <2>2, Times
    <3>2. x + y <= z /\ a = x + r /\ m + r + P - 1 = y + t
      BY <1>1, <1>2, <1>4, <1>5, <1>6, <3>1
    <3>3. z >= a + m
      BY <1>4, <3>2
    <3> QED
      BY <3>1, <3>3
  <2>3. v * P \in Int
    BY Times
  <2> QED
    BY <2>1, <2>2, <2>3
<1> QED
  BY <1>3, <1>7

Segment == [vaddr : Nat, memsz : Nat, filesz : Nat]

\* The pages of a segment are those valloc maps; they lie in the address space
\* above what the identity map uses; those of its file part are among them
\* (alloc.c:76-86, elf.c:17-22).
LEMMA SegmentPages ==
  ASSUME img \in Images, NEW x \in DOMAIN img
  PROVE  \E f, k \in Nat :
           /\ f = img[x].vaddr \div PAGE
           /\ k = (img[x].memsz + (img[x].vaddr % PAGE) + PAGE - 1) \div PAGE
           /\ \A v : v \in Pages(<<img[x]>>) <=> v \in Nat /\ f <= v /\ v < f + k
           /\ \A v \in Pages(<<img[x]>>) : Span(0) <= v /\ v < SPACE
           /\ FilePages(img[x]) \subseteq Pages(<<img[x]>>)
<1>1. PICK P \in Nat \ {0}, S \in Nat, T \in Nat : P = PAGE /\ S = Span(0) /\ T = SPACE
  <2>1. F * F * F \in Nat /\ F * (F * F * F) \in Nat
    BY Sizes, Z3
  <2> QED
    BY <2>1, Sizes, Spans
<1>2. PICK sg \in Segment :
        /\ sg = img[x] /\ sg.vaddr >= S * P /\ sg.vaddr + sg.memsz <= T * P
        /\ sg.filesz <= sg.memsz
  <2>1. img \in Seq(Segment)
    BY BootAssumption DEF Segment
  <2>2. img[x] \in Segment
    BY <2>1
  <2> QED
    BY <1>1, <2>2, BootAssumption
<1>3. PICK a \in Nat, m \in Nat, fs \in Nat :
        /\ a = sg.vaddr /\ m = sg.memsz /\ fs = sg.filesz
        /\ a >= S * P /\ a + m <= T * P /\ fs <= m
  BY <1>2 DEF Segment
<1>4. PICK f \in Nat : f = a \div P
  BY Division
<1>5. PICK r \in Nat, k \in Nat : r = a % P /\ k = (m + r + P - 1) \div P
  <2>1. PICK r \in Nat : r = a % P
    BY Division
  <2>2. PICK c \in Nat : c = m + r + P - 1
    OBVIOUS
  <2>3. PICK q \in Nat : q = c \div P
    BY Division
  <2> QED
    BY <2>1, <2>2, <2>3
<1>6. ASSUME NEW v \in Nat
      PROVE  (v * P < a + m /\ (v + 1) * P > a) <=> (f <= v /\ v < f + k)
  BY <1>1, <1>3, <1>4, <1>5, PageCover
<1>7. ASSUME NEW v \in Nat, v * P < a + m, (v + 1) * P > a
      PROVE  S <= v /\ v < T
  <2>1. v * P \in Int /\ S * P \in Int /\ T * P \in Int /\ (v + 1) * P \in Int
    BY Times
  <2>2. S <= v
    <3>1. v + 1 <= S => (v + 1) * P <= S * P
      BY Times
    <3> QED
      BY <1>3, <1>7, <2>1, <3>1
  <2>3. v < T
    <3>1. T <= v => T * P <= v * P
      BY Times
    <3> QED
      BY <1>3, <1>7, <2>1, <3>1
  <2> QED
    BY <2>2, <2>3
<1>8. \A v : v \in Pages(<<sg>>) <=> v \in 0..(T - 1) /\ v * P < a + m /\ (v + 1) * P > a
  <2>1. DOMAIN <<sg>> = {1} /\ <<sg>>[1] = sg
    OBVIOUS
  <2> QED
    BY <1>1, <1>3, <2>1, Zenon DEF Pages
<1>9. \A v : v \in Pages(<<sg>>) <=> v \in Nat /\ f <= v /\ v < f + k
  <2> SUFFICES ASSUME NEW v
               PROVE  v \in Pages(<<sg>>) <=> v \in Nat /\ f <= v /\ v < f + k
    OBVIOUS
  <2>1. ASSUME v \in Pages(<<sg>>) PROVE v \in Nat /\ f <= v /\ v < f + k
    <3>1. v \in 0..(T - 1) /\ v * P < a + m /\ (v + 1) * P > a
      BY <1>8, <2>1
    <3>2. v \in Nat
      BY <3>1
    <3> QED
      BY <1>6, <3>1, <3>2, Zenon
  <2>2. ASSUME v \in Nat, f <= v, v < f + k PROVE v \in Pages(<<sg>>)
    <3>1. v * P < a + m /\ (v + 1) * P > a
      BY <1>6, <2>2
    <3>2. v < T
      BY <1>7, <2>2, <3>1
    <3> QED
      BY <1>8, <2>2, <3>1, <3>2
  <2> QED
    BY <2>1, <2>2
<1>10. \A v \in Pages(<<sg>>) : S <= v /\ v < T
  <2> SUFFICES ASSUME NEW v \in Pages(<<sg>>) PROVE S <= v /\ v < T
    OBVIOUS
  <2>1. v \in 0..(T - 1) /\ v * P < a + m /\ (v + 1) * P > a
    BY <1>8
  <2>2. v \in Nat
    BY <2>1
  <2> QED
    BY <1>7, <2>1, <2>2, Zenon
<1>11. ASSUME NEW v \in FilePages(sg) PROVE v \in Pages(<<sg>>)
  <2>1. v \in 0..(T - 1) /\ a < (v + 1) * P /\ v * P < a + fs
    BY <1>1, <1>3 DEF FilePages
  <2>2. v * P \in Int /\ (v + 1) * P \in Int
    BY <2>1, Times
  <2> QED
    BY <1>3, <1>8, <2>1, <2>2
<1>12. /\ f = img[x].vaddr \div PAGE
       /\ k = (img[x].memsz + (img[x].vaddr % PAGE) + PAGE - 1) \div PAGE
  BY <1>1, <1>2, <1>3, <1>4, <1>5, Zenon
<1> QED
  BY <1>1, <1>2, <1>9, <1>10, <1>11, <1>12

\* The page the walk of map_single arrives at is the one the processor finds
\* (alloc.c:43-74).
LEMMA TranslateHigh ==
  ASSUME cr3 = root, root # NONE, NEW v \in Nat, Span(0) <= v
  PROVE  Translate(v) = Leaf(v)
<1>1. ~(v < Span(0))
  <2>1. Span(0) \in Nat
    BY Sizes, Spans, Z3
  <2> QED
    BY <2>1
<1> QED
  BY <1>1 DEF Translate, Leaf, Node3, Node2, Node1, Down

\* Where an address of the identity map is found.
LEMMA LowIndexes ==
  ASSUME NEW v \in Nat, v < IDENT * GIG
  PROVE  \E x, y, d \in Nat :
           /\ x < IDENT /\ x \in Slots /\ y \in Slots /\ v = (x * F + y) * F + d
           /\ Index(v, 0) = 0 /\ Index(v, 1) = x /\ Index(v, 2) = y /\ Index(v, 3) = d
           /\ v < Span(0)
<1>1. PICK G \in Nat \ {0} : G = F * F /\ G = GIG
  <2>1. F * F \in Nat \ {0}
    BY Sizes, Z3
  <2> QED
    BY <2>1 DEF GIG
<1>2. PICK a, b, c \in Nat :
        /\ c = v \div F /\ b = c \div F /\ a = b \div F
        /\ Index(v, 3) = v % F /\ Index(v, 2) = c % F
        /\ Index(v, 1) = b % F /\ Index(v, 0) = a % F
        /\ b = v \div (F * F)
  BY Indexes
<1>3. b < IDENT /\ b < F
  <2>1. b = v \div G
    BY <1>1, <1>2
  <2> QED
    BY <1>1, <2>1, QuotientBelow, Sizes
<1>4. b % F = b /\ b \in Slots
  BY <1>3, SmallRest, Sizes DEF Slots
<1>5. a = 0 /\ a % F = 0
  <2>1. b < 1 * F
    BY <1>3, Sizes
  <2>2. a < 1
    BY <1>2, <2>1, QuotientBelow, Sizes
  <2> QED
    BY <2>2, SmallRest, Sizes
<1>6. PICK d \in Nat : d = v % F /\ v = c * F + d
  BY <1>2, Division, Sizes
<1>7. PICK y \in Nat : y = c % F /\ c = b * F + y /\ y \in Slots
  <2>0. F \in Nat \ {0}
    BY Sizes
  <2>1. PICK q, r \in Nat : q = c \div F /\ r = c % F /\ r < F /\ c = q * F + r
    BY <2>0, Division, Zenon
  <2> QED
    BY <1>2, <2>1, RestSlot
<1>8. v < Span(0)
  <2>1. IDENT * G <= F * G /\ F * G \in Int /\ IDENT * G \in Int
    BY Sizes, Times
  <2>2. F * G = Span(0)
    <3>1. F * (F * F) = F * F * F
      BY Sizes, Z3
    <3> QED
      BY <1>1, <3>1, Spans
  <2> QED
    BY <1>1, <2>1, <2>2
<1> QED
  <2>1. v = (b * F + y) * F + d
    BY <1>6, <1>7, Zenon
  <2> QED
    BY <1>2, <1>3, <1>4, <1>5, <1>6, <1>7, <1>8, <2>1

\* The tables of the identity map send each of its pages to itself
\* (memory.c:53-90).
LEMMA IdentityHolds ==
  ASSUME MemInv, WholePages, MapTypes, Identity, pc \in Loading
  PROVE  \A p \in 0..(IDENT * GIG - 1) : Translate(p) = p
<1> SUFFICES ASSUME NEW p \in 0..(IDENT * GIG - 1) PROVE Translate(p) = p
  OBVIOUS
<1>1. p \in Nat /\ p < IDENT * GIG
  <2>1. IDENT * GIG \in Nat
    <3>1. F * F \in Nat
      BY Sizes, Z3
    <3>2. PICK G \in Nat : G = GIG
      BY <3>1 DEF GIG
    <3>3. IDENT * G \in Nat
      BY Sizes, Z3
    <3> QED
      BY <3>2, <3>3
  <2> QED
    BY <2>1
<1>2. PICK x, y, d \in Nat :
        /\ x < IDENT /\ x \in Slots /\ y \in Slots /\ p = (x * F + y) * F + d
        /\ Index(p, 0) = 0 /\ Index(p, 1) = x /\ Index(p, 2) = y /\ Index(p, 3) = d
        /\ p < Span(0)
  BY <1>1, LowIndexes
<1>3. /\ cr3 = root /\ tab[root][0] = LOPAGE /\ tab[LOPAGE][x] = LOPAGE + 1 + x
      /\ tab[LOPAGE + 1 + x][y] = (x * F + y) * F
  BY <1>2 DEF Identity
<1>4. root # NONE /\ LOPAGE # NONE /\ LOPAGE + 1 + x # NONE
  BY <1>2, GivenAbove, Sizes DEF MapTypes, NONE
<1>5. (x * F + y) * F # NONE
  <2>1. (x * F + y) * F \in Nat
    BY <1>2, BigPageNat, Sizes
  <2> QED
    BY <2>1 DEF NONE
<1>6. Translate(p) = (x * F + y) * F + d
  BY <1>2, <1>3, <1>4, <1>5 DEF Translate
<1> QED
  BY <1>2, <1>6

----------------------------------------------------------------------------
(* The walk through the tables *)

\* A page of the address space above what the identity map uses.
High(v) == v \in Nat /\ Span(0) <= v /\ v < SPACE

\* Each table on the way of a page has the level of its place on the way, and
\* the way ends at a page handed out that is no table (alloc.c:43-74).
LEMMA NodeLevels ==
  ASSUME NEW lev, Tree(lev), root \in DOMAIN tab \cap given, NONE \notin given, NEW v, High(v)
  PROVE  /\ Node1(v) # NONE => Node1(v) \in DOMAIN tab \cap given /\ lev[Node1(v)] = 1
         /\ Node2(v) # NONE => /\ Node1(v) # NONE
                               /\ Node2(v) \in DOMAIN tab \cap given /\ lev[Node2(v)] = 2
         /\ Node3(v) # NONE => /\ Node2(v) # NONE
                               /\ Node3(v) \in DOMAIN tab \cap given /\ lev[Node3(v)] = 3
         /\ Leaf(v) # NONE => /\ Node3(v) # NONE
                              /\ Leaf(v) \in given /\ Leaf(v) \notin DOMAIN tab
<1>1. /\ Index(v, 0) \in Slots /\ Index(v, 1) \in Slots /\ Index(v, 2) \in Slots
      /\ Index(v, 3) \in Slots /\ Index(v, 0) # 0
  BY IndexSlot, TopIndex DEF High
<1>2. PICK a, b, c, d : a = Index(v, 0) /\ b = Index(v, 1) /\ c = Index(v, 2) /\ d = Index(v, 3)
  OBVIOUS
<1>3. \A t \in DOMAIN tab \cap given : \A x \in Slots :
        (tab[t][x] # NONE /\ ~(t = root /\ x = 0)) =>
          /\ tab[t][x] \in given
          /\ lev[t] = 3 => tab[t][x] \notin DOMAIN tab
          /\ lev[t] < 3 => tab[t][x] \in DOMAIN tab /\ lev[tab[t][x]] = lev[t] + 1
  BY DEF Tree
<1>4. lev[root] = 0
  BY DEF Tree
<1>5. Node1(v) = tab[root][a]
  BY <1>2 DEF Node1
<1>6. Node2(v) = IF Node1(v) = NONE THEN NONE ELSE tab[Node1(v)][b]
  BY <1>2 DEF Node2, Down
<1>7. Node3(v) = IF Node2(v) = NONE THEN NONE ELSE tab[Node2(v)][c]
  BY <1>2 DEF Node3, Down
<1>8. Leaf(v) = IF Node3(v) = NONE THEN NONE ELSE tab[Node3(v)][d]
  BY <1>2 DEF Leaf, Down
<1>9. ASSUME Node1(v) # NONE PROVE Node1(v) \in DOMAIN tab \cap given /\ lev[Node1(v)] = 1
  BY <1>1, <1>2, <1>3, <1>4, <1>5, <1>9
<1>10. ASSUME Node2(v) # NONE
       PROVE  Node1(v) # NONE /\ Node2(v) \in DOMAIN tab \cap given /\ lev[Node2(v)] = 2
  <2>1. Node1(v) # NONE /\ Node2(v) = tab[Node1(v)][b]
    BY <1>6, <1>10
  <2>2. Node1(v) # root
    BY <1>4, <1>9, <2>1
  <2> QED
    BY <1>1, <1>2, <1>3, <1>9, <1>10, <2>1, <2>2
<1>11. ASSUME Node3(v) # NONE
       PROVE  Node2(v) # NONE /\ Node3(v) \in DOMAIN tab \cap given /\ lev[Node3(v)] = 3
  <2>1. Node2(v) # NONE /\ Node3(v) = tab[Node2(v)][c]
    BY <1>7, <1>11
  <2>2. Node2(v) # root
    BY <1>4, <1>10, <2>1
  <2> QED
    BY <1>1, <1>2, <1>3, <1>10, <1>11, <2>1, <2>2
<1>12. ASSUME Leaf(v) # NONE
       PROVE  Node3(v) # NONE /\ Leaf(v) \in given /\ Leaf(v) \notin DOMAIN tab
  <2>1. Node3(v) # NONE /\ Leaf(v) = tab[Node3(v)][d]
    BY <1>8, <1>12
  <2>2. Node3(v) # root
    BY <1>4, <1>11, <2>1
  <2> QED
    BY <1>1, <1>2, <1>3, <1>11, <1>12, <2>1, <2>2
<1> QED
  BY <1>9, <1>10, <1>11, <1>12

\* Entries that point to the same page are the same entry.
LEMMA OnlyEntry ==
  ASSUME Once, NEW t \in DOMAIN tab \cap given, NEW u \in DOMAIN tab \cap given,
         NEW x \in Slots, NEW y \in Slots, tab[t][x] # NONE, tab[t][x] = tab[u][y]
  PROVE  t = u /\ x = y
  BY DEF Once

\* Two pages that meet in a table of the last level have the same indexes on
\* the way to it, and two pages are never mapped to the same one.
LEMMA PathsApart ==
  ASSUME NEW lev, Tree(lev), Once, root \in DOMAIN tab \cap given, NONE \notin given,
         NEW v, NEW w, High(v), High(w)
  PROVE  /\ Node3(v) # NONE /\ Node3(v) = Node3(w) /\ Index(v, 3) = Index(w, 3) => v = w
         /\ Leaf(v) # NONE /\ Leaf(v) = Leaf(w) => v = w
<1>1. /\ Index(v, 0) \in Slots /\ Index(v, 1) \in Slots /\ Index(v, 2) \in Slots
      /\ Index(v, 3) \in Slots /\ Index(w, 0) \in Slots /\ Index(w, 1) \in Slots
      /\ Index(w, 2) \in Slots /\ Index(w, 3) \in Slots
  BY IndexSlot DEF High
<1>2. ASSUME Node3(v) # NONE, Node3(v) = Node3(w), Index(v, 3) = Index(w, 3) PROVE v = w
  <2>1. /\ Node2(v) # NONE /\ Node2(w) # NONE /\ Node1(v) # NONE /\ Node1(w) # NONE
        /\ Node2(v) \in DOMAIN tab \cap given /\ Node2(w) \in DOMAIN tab \cap given
        /\ Node1(v) \in DOMAIN tab \cap given /\ Node1(w) \in DOMAIN tab \cap given
    BY <1>2, NodeLevels
  <2>2. Node3(v) = tab[Node2(v)][Index(v, 2)] /\ Node3(w) = tab[Node2(w)][Index(w, 2)]
    BY <2>1 DEF Node3, Down
  <2>3. Node2(v) = Node2(w) /\ Index(v, 2) = Index(w, 2)
    <3>1. tab[Node2(v)][Index(v, 2)] # NONE
      BY <1>2, <2>2
    <3>2. tab[Node2(v)][Index(v, 2)] = tab[Node2(w)][Index(w, 2)]
      BY <1>2, <2>2
    <3> QED
      BY <1>1, <2>1, <3>1, <3>2, OnlyEntry
  <2>4. Node2(v) = tab[Node1(v)][Index(v, 1)] /\ Node2(w) = tab[Node1(w)][Index(w, 1)]
    BY <2>1 DEF Node2, Down
  <2>5. Node1(v) = Node1(w) /\ Index(v, 1) = Index(w, 1)
    <3>1. tab[Node1(v)][Index(v, 1)] # NONE
      BY <2>1, <2>4
    <3>2. tab[Node1(v)][Index(v, 1)] = tab[Node1(w)][Index(w, 1)]
      BY <2>3, <2>4
    <3> QED
      BY <1>1, <2>1, <3>1, <3>2, OnlyEntry
  <2>6. Node1(v) = tab[root][Index(v, 0)] /\ Node1(w) = tab[root][Index(w, 0)]
    BY DEF Node1
  <2>7. Index(v, 0) = Index(w, 0)
    <3>1. tab[root][Index(v, 0)] # NONE
      BY <2>1, <2>6
    <3>2. tab[root][Index(v, 0)] = tab[root][Index(w, 0)]
      BY <2>5, <2>6
    <3> QED
      BY <1>1, <2>1, <3>1, <3>2, OnlyEntry
  <2>8. \A l \in 0..3 : Index(v, l) = Index(w, l)
    <3>1. \A l \in 0..3 : l = 0 \/ l = 1 \/ l = 2 \/ l = 3
      OBVIOUS
    <3> QED
      BY <1>2, <2>3, <2>5, <2>7, <3>1
  <2> QED
    BY <2>8, IndexesTell DEF High
<1>3. ASSUME Leaf(v) # NONE, Leaf(v) = Leaf(w) PROVE v = w
  <2>1. /\ Node3(v) # NONE /\ Node3(w) # NONE
        /\ Node3(v) \in DOMAIN tab \cap given /\ Node3(w) \in DOMAIN tab \cap given
    BY <1>3, NodeLevels
  <2>2. Leaf(v) = tab[Node3(v)][Index(v, 3)] /\ Leaf(w) = tab[Node3(w)][Index(w, 3)]
    BY <2>1 DEF Leaf, Down
  <2>3. Node3(v) = Node3(w) /\ Index(v, 3) = Index(w, 3)
    <3>1. tab[Node3(v)][Index(v, 3)] # NONE
      BY <1>3, <2>2
    <3>2. tab[Node3(v)][Index(v, 3)] = tab[Node3(w)][Index(w, 3)]
      BY <1>3, <2>2
    <3> QED
      BY <1>1, <2>1, <3>1, <3>2, OnlyEntry
  <2> QED
    BY <1>2, <2>1, <2>3
<1> QED
  BY <1>2, <1>3

\* A table of the upper levels only gains entries: the way of a page stays as
\* far as it went (alloc.c:51-71).
LEMMA NodesKept ==
  ASSUME NEW lev, Tree(lev), root \in DOMAIN tab \cap given, NONE \notin given,
         root' = root, NEW v, High(v),
         \A t \in DOMAIN tab \cap given : \A x \in Slots :
           lev[t] < 3 /\ tab[t][x] # NONE => tab'[t][x] = tab[t][x]
  PROVE  /\ Node1(v) # NONE => Node1(v)' = Node1(v)
         /\ Node2(v) # NONE => Node2(v)' = Node2(v)
         /\ Node3(v) # NONE => Node3(v)' = Node3(v)
<1>1. \A l \in 0..3 : Index(v, l) \in Slots
  BY IndexSlot DEF High
<1>2. lev[root] = 0
  BY DEF Tree
<1>3. Node1(v) = tab[root][Index(v, 0)] /\ Node1(v)' = tab'[root][Index(v, 0)]
  BY DEF Node1
<1>4. ASSUME Node1(v) # NONE PROVE Node1(v)' = Node1(v)
  BY <1>1, <1>2, <1>3, <1>4
<1>5. ASSUME Node2(v) # NONE PROVE Node2(v)' = Node2(v)
  <2>1. Node1(v) # NONE /\ Node1(v) \in DOMAIN tab \cap given /\ lev[Node1(v)] = 1
    BY <1>5, NodeLevels
  <2>2. Node2(v) = tab[Node1(v)][Index(v, 1)] /\ Node2(v)' = tab'[Node1(v)][Index(v, 1)]
    BY <1>4, <2>1 DEF Node2, Down
  <2> QED
    BY <1>1, <1>5, <2>1, <2>2
<1>6. ASSUME Node3(v) # NONE PROVE Node3(v)' = Node3(v)
  <2>1. Node2(v) # NONE /\ Node2(v) \in DOMAIN tab \cap given /\ lev[Node2(v)] = 2
    BY <1>6, NodeLevels
  <2>2. Node3(v) = tab[Node2(v)][Index(v, 2)] /\ Node3(v)' = tab'[Node2(v)][Index(v, 2)]
    BY <1>5, <2>1 DEF Node3, Down
  <2> QED
    BY <1>1, <1>6, <2>1, <2>2
<1> QED
  BY <1>4, <1>5, <1>6

----------------------------------------------------------------------------
(* The steps of memory_identity_map that remain *)

\* A gigabyte is mapped and CR3 loaded (memory.c:80-89).
LEMMA PagingApplied ==
  ASSUME MapInv, ApplyPaging
  PROVE  MapInv'
<1>1. /\ pc = "identity" /\ pc' = pc /\ i < IDENT /\ j = F /\ i' = i + 1 /\ j' = 0
      /\ cr3' = root
      /\ UNCHANGED <<memvars, mem_free, lo, tab, root, img, s, n, lvl, at, data, given>>
  BY DEF ApplyPaging
<1> SUFFICES ASSUME WholePages PROVE MapInv'
  BY <1>1 DEF MapInv, WholePages, memvars
<1>2. MapTypes'
  BY <1>1 DEF MapInv, MapTypes, Loading
<1>3. i \in Nat /\ Building /\ F > 0 /\ F \in Nat /\ IDENT \in Nat /\ LOPAGE \in Nat
  BY <1>1, Sizes DEF MapInv, Building
<1>4. /\ i' \in 0..IDENT /\ j' \in 0..F /\ i' # 0 /\ lo = LOPAGE + 2 + i
      /\ lo' = LOPAGE + 1 + i' /\ lo' # LOPAGE /\ lo # LOPAGE /\ j # 0
  BY <1>1, <1>3 DEF Building
<1>5. \A x \in Slots : /\ Begun(x) <=> (x < i' \/ (x = i' /\ j' > 0))
                       /\ \A y \in Slots : (x < i' \/ (x = i' /\ y < j')) => Done(x, y)
  BY <1>1, <1>3 DEF Begun, Done, Slots
<1>6. Building'
  <2>1. given' = {root'} /\ DOMAIN tab' = {root'} \cup LOPAGE..(lo' - 1) /\ cr3' = root'
    BY <1>1, <1>3 DEF Building
  <2>2. \A x \in Slots : tab'[root'][x] = IF x = 0 /\ lo' # LOPAGE THEN LOPAGE ELSE NONE
    BY <1>1, <1>3 DEF Building
  <2>3. \A x \in Slots :
          tab'[LOPAGE][x] = IF x < i' \/ (x = i' /\ j' > 0) THEN LOPAGE + 1 + x ELSE NONE
    BY <1>1, <1>3, <1>4, <1>5 DEF Building
  <2>4. \A x \in Slots : x < IDENT => \A y \in Slots :
          (x < i' \/ (x = i' /\ y < j')) => tab'[LOPAGE + 1 + x][y] = (x * F + y) * F
    BY <1>1, <1>3, <1>5 DEF Building
  <2> QED
    BY <1>1, <1>4, <2>1, <2>2, <2>3, <2>4 DEF Building, Begun, Done
<1> QED
  BY <1>1, <1>2, <1>6 DEF MapInv, Identity, Progress, Held, Loading

\* The size of a segment is so many pages.
LEMMA NPagesNat ==
  ASSUME img \in Images, s \in DOMAIN img
  PROVE  NPages \in Nat /\ FirstPage \in Nat
  BY SegmentPages DEF NPages, FirstPage

\* The identity map is made, the initram comes first (initram.c:4-20).
LEMMA IdentityFinished ==
  ASSUME MemInv, MapInv, IdentityDone
  PROVE  MapInv'
<1>1. /\ pc = "identity" /\ pc' = "valloc" /\ i = IDENT
      /\ s' = 1 /\ n' = 0 /\ lvl' = 0 /\ at' = root
      /\ UNCHANGED <<memvars, mem_free, lo, tab, root, cr3, i, j, img, data, given>>
  BY DEF IdentityDone
<1> SUFFICES ASSUME WholePages PROVE MapInv'
  BY <1>1 DEF MapInv, WholePages, memvars
<1>2. MapTypes /\ Building /\ MapTypes'
  BY <1>1 DEF MapInv, MapTypes, Loading
<1>3. /\ j = 0 /\ i # 0 /\ lo = LOPAGE + 1 + IDENT /\ lo # LOPAGE
      /\ cr3 = root /\ given = {root} /\ DOMAIN tab = {root} \cup LowPages
      /\ \A x \in Slots : tab[root][x] = IF x = 0 THEN LOPAGE ELSE NONE
  BY <1>1, <1>2, Sizes DEF Building, LowPages
<1>4. root \notin LowPages /\ root \in Nat
  BY <1>3, GivenAbove
<1>5. Identity'
  <2>1. /\ cr3' = root' /\ tab'[root'][0] = LOPAGE /\ LowPages \subseteq DOMAIN tab'
        /\ DOMAIN tab' \subseteq given' \cup LowPages
    BY <1>1, <1>3, Sizes DEF Slots
  <2>2. ASSUME NEW x \in Slots, x < IDENT
        PROVE  /\ tab'[LOPAGE][x] = LOPAGE + 1 + x
               /\ \A y \in Slots : tab'[LOPAGE + 1 + x][y] = (x * F + y) * F
    BY <1>1, <1>2, <1>3, <2>2 DEF Building, Begun, Done
  <2> QED
    BY <2>1, <2>2 DEF Identity
<1>6. img' # <<>> /\ img' \in Seq(Segment)
  BY <1>1, <1>2, BootAssumption DEF MapTypes, Segment
<1>7. s' \in DOMAIN img'
  <2>1. Len(img') \in Nat /\ Len(img') # 0 /\ DOMAIN img' = 1..Len(img')
    BY <1>6
  <2> QED
    BY <1>1, <2>1
<1>8. Progress'
  <2>1. NPages' \in Nat
    <3>1. img' \in Images
      BY <1>2 DEF MapTypes
    <3>2. PICK x \in DOMAIN img : x = s'
      BY <1>1, <1>7
    <3>3. \E k \in Nat : k = (img[x].memsz + (img[x].vaddr % PAGE) + PAGE - 1) \div PAGE
      BY <1>2, SegmentPages DEF MapTypes
    <3> QED
      BY <1>1, <3>2, <3>3, Zenon DEF NPages
  <2> QED
    BY <1>1, <1>7, <2>1 DEF Progress
<1>9. Held'
  <2>1. \A x \in DOMAIN img' : ~(x < s' \/ (x = s' /\ pc' # "valloc"))
    BY <1>1, <1>6
  <2>2. 0..(n' - 1) = {}
    BY <1>1
  <2> QED
    BY <2>1, <2>2 DEF Held, Placed
<1>10. DOMAIN tab' \cap given' = {root}
  BY <1>1, <1>3
<1>11. Once'
  BY <1>1, <1>3, <1>10 DEF Once
<1>12. \E lev : Tree(lev)' /\ OnTheWay(lev)'
  <2>1. PICK lev : lev \in [{root} -> 0..3] /\ lev[root] = 0
    <3>1. [q \in {root} |-> 0] \in [{root} -> 0..3] /\ [q \in {root} |-> 0][root] = 0
      OBVIOUS
    <3> QED
      BY <3>1
  <2>2. Tree(lev)'
    BY <1>1, <1>3, <1>10, <2>1 DEF Tree
  <2>3. OnTheWay(lev)'
    BY <1>1, <1>10, <2>1 DEF OnTheWay
  <2> QED
    BY <2>2, <2>3
<1>13. Building'
  BY <1>1 DEF Building
<1> QED
  BY <1>2, <1>5, <1>8, <1>9, <1>11, <1>12, <1>13 DEF MapInv

----------------------------------------------------------------------------
(* map_single: what one new entry does to the tables *)

\* Entry x of table at is set to p, every other entry is kept.
Entered(x, p) ==
  \A t \in DOMAIN tab : \A y \in Slots :
    tab'[t][y] = IF t = at /\ y = x THEN p ELSE tab[t][y]

\* A new entry above lomem leaves the identity map alone.
LEMMA IdentityKept ==
  ASSUME Identity, pc \in Loading, pc' \in Loading, UNCHANGED <<cr3, root>>, NEW p,
         NEW x \in Slots, Entered(x, p), at \notin LowPages, at = root => x # 0,
         root \in DOMAIN tab, given' = given \cup {p}, DOMAIN tab \subseteq DOMAIN tab',
         DOMAIN tab' \subseteq DOMAIN tab \cup {p}
  PROVE  Identity'
<1>1. /\ cr3 = root /\ tab[root][0] = LOPAGE /\ LowPages \subseteq DOMAIN tab
      /\ DOMAIN tab \subseteq given \cup LowPages
      /\ \A y \in Slots : y < IDENT =>
           /\ tab[LOPAGE][y] = LOPAGE + 1 + y
           /\ \A z \in Slots : tab[LOPAGE + 1 + y][z] = (y * F + z) * F
  BY DEF Identity
<1>2. 0 \in Slots /\ LOPAGE \in LowPages /\ \A y \in Slots : y < IDENT => LOPAGE + 1 + y \in LowPages
  BY Sizes DEF Slots, LowPages
<1>3. tab'[root][0] = LOPAGE
  BY <1>1, <1>2 DEF Entered
<1>4. ASSUME NEW y \in Slots, y < IDENT
      PROVE  /\ tab'[LOPAGE][y] = LOPAGE + 1 + y
             /\ \A z \in Slots : tab'[LOPAGE + 1 + y][z] = (y * F + z) * F
  <2>1. \A q \in LowPages : \A z \in Slots : tab'[q][z] = tab[q][z]
    BY <1>1 DEF Entered
  <2> QED
    BY <1>1, <1>2, <1>4, <2>1
<1>5. DOMAIN tab' \subseteq given' \cup LowPages
  BY <1>1
<1> QED
  BY <1>1, <1>3, <1>4, <1>5 DEF Identity

\* A table above lomem points to pages handed out, the root also to the table of
\* the identity map.
LEMMA EntriesGiven ==
  ASSUME Identity, pc \in Loading, NEW lev, Tree(lev), NEW t \in DOMAIN tab \cap given,
         NEW x \in Slots, tab[t][x] # NONE
  PROVE  tab[t][x] \in given \cup LowPages
<1>1. tab[root][0] \in LowPages
  BY Sizes DEF Identity, LowPages
<1> QED
  BY <1>1 DEF Tree

\* An entry that points to a page not handed out before is the only one.
LEMMA OnceKept ==
  ASSUME Once, Identity, pc \in Loading, NEW lev, Tree(lev), NEW p, p \notin given,
         p \notin LowPages, NEW x \in Slots, Entered(x, p), given' = given \cup {p},
         DOMAIN tab \subseteq DOMAIN tab', DOMAIN tab' \subseteq DOMAIN tab \cup {p},
         p \in DOMAIN tab' => \A y \in Slots : tab'[p][y] = NONE, p # NONE
  PROVE  Once'
<1>1. p \notin DOMAIN tab
  BY DEF Identity
<1>2. \A t \in DOMAIN tab' \cap given' : t = p \/ t \in DOMAIN tab \cap given
  BY <1>1
<1>3. \A t \in DOMAIN tab \cap given : \A y \in Slots : tab[t][y] # p
  BY EntriesGiven
<1>4. ASSUME NEW t \in DOMAIN tab' \cap given', NEW u \in DOMAIN tab' \cap given',
             NEW y \in Slots, NEW z \in Slots, tab'[t][y] # NONE, tab'[t][y] = tab'[u][z]
      PROVE  t = u /\ y = z
  <2>1. t \in DOMAIN tab \cap given /\ u \in DOMAIN tab \cap given
    BY <1>2, <1>4, Zenon
  <2>2. tab'[t][y] = IF t = at /\ y = x THEN p ELSE tab[t][y]
    BY <2>1 DEF Entered
  <2>3. tab'[u][z] = IF u = at /\ z = x THEN p ELSE tab[u][z]
    BY <2>1 DEF Entered
  <2>4. tab[t][y] # p /\ tab[u][z] # p
    BY <1>3, <2>1
  <2>5. CASE t = at /\ y = x
    BY <1>4, <2>2, <2>3, <2>4, <2>5, Zenon
  <2>6. CASE ~(t = at /\ y = x)
    <3>1. tab[t][y] # NONE /\ tab[t][y] = tab[u][z]
      BY <1>4, <2>2, <2>3, <2>4, <2>6, Zenon
    <3> QED
      BY <2>1, <3>1, OnlyEntry
  <2> QED
    BY <2>5, <2>6
<1> QED
  BY <1>4 DEF Once

\* The page map_single is asked for is a page of its segment (alloc.c:83-84).
LEMMA TheWay ==
  ASSUME MapTypes, Progress, pc = "valloc", n < NPages
  PROVE  /\ High(VPage) /\ VPage \in Pages(<<img[s]>>) /\ VPage = FirstPage + n
         /\ n \in Nat /\ FirstPage \in Nat /\ NPages \in Nat
<1>1. img \in Images /\ s \in DOMAIN img /\ n \in 0..NPages
  BY DEF MapTypes, Progress, Loading
<1>2. PICK f, k \in Nat :
        /\ f = FirstPage /\ k = NPages
        /\ \A v : v \in Pages(<<img[s]>>) <=> v \in Nat /\ f <= v /\ v < f + k
        /\ \A v \in Pages(<<img[s]>>) : Span(0) <= v /\ v < SPACE
  BY <1>1, SegmentPages DEF FirstPage, NPages
<1>3. n \in Nat /\ n < k /\ f + n \in Nat
  BY <1>1, <1>2
<1>4. f + n \in Pages(<<img[s]>>)
  BY <1>2, <1>3
<1> QED
  BY <1>2, <1>3, <1>4 DEF High, VPage

\* The segments placed keep their pages and what they hold through a step that
\* changes the mapping of no page but the one asked for, which is none of theirs
\* (alloc.c:76-86, elf.c:17-22).
LEMMA HeldKept ==
  ASSUME MapTypes, Progress, Held, pc = "valloc", n < NPages, NEW w, w = VPage,
         NEW Bad \in SUBSET {w}, UNCHANGED <<pc, img, s>>,
         n' = n \/ (n' = n + 1 /\ Leaf(w)' # NONE),
         \A v : High(v) /\ v \notin Bad /\ Leaf(v) # NONE =>
                  Leaf(v)' = Leaf(v) /\ data[Leaf(v)] \subseteq data'[Leaf(v)]
  PROVE  Held'
<1>1. img \in Images /\ s \in DOMAIN img /\ n \in 0..NPages
  BY DEF MapTypes, Progress, Loading
<1>2. /\ w \in Pages(<<img[s]>>) /\ w = FirstPage + n
      /\ n \in Nat /\ FirstPage \in Nat /\ NPages \in Nat
  BY TheWay
<1>0. PICK f \in Nat : f = FirstPage
  BY <1>2
<1>3. SegmentsApart' <=> SegmentsApart
  BY DEF SegmentsApart
<1> SUFFICES ASSUME SegmentsApart PROVE Held'
  BY <1>3 DEF Held
<1>4. /\ \A x \in DOMAIN img : x < s =>
           /\ \A v \in Pages(<<img[x]>>) : Leaf(v) # NONE
           /\ \A v \in FilePages(img[x]) : <<x, v>> \in data[Leaf(v)]
      /\ \A m \in 0..(n - 1) : Leaf(FirstPage + m) # NONE
  BY DEF Held, Placed, Loading
<1>5. ASSUME NEW x \in DOMAIN img, x < s
      PROVE  /\ \A v \in Pages(<<img[x]>>) : Leaf(v)' # NONE
             /\ \A v \in FilePages(img[x]) : <<x, v>> \in data'[Leaf(v)']
  <2>1. /\ FilePages(img[x]) \subseteq Pages(<<img[x]>>)
        /\ \A v \in Pages(<<img[x]>>) : High(v)
    BY <1>1, SegmentPages DEF High
  <2>2. \A v \in Pages(<<img[x]>>) : v \notin Bad
    <3>1. x # s
      <4>1. x \in Nat /\ s \in Nat
        <5>1. img \in Seq(Segment)
          BY <1>1, BootAssumption DEF Segment
        <5> QED
          BY <1>1, <5>1
      <4> QED
        BY <1>5, <4>1
    <3>2. Pages(<<img[x]>>) \cap Pages(<<img[s]>>) = {}
      BY <1>1, <3>1 DEF SegmentsApart
    <3> QED
      BY <1>2, <3>2
  <2>3. \A v \in Pages(<<img[x]>>) :
          /\ Leaf(v)' = Leaf(v) /\ Leaf(v) # NONE /\ data[Leaf(v)] \subseteq data'[Leaf(v)]
    BY <1>4, <1>5, <2>1, <2>2
  <2> QED
    BY <1>4, <1>5, <2>1, <2>3
<1>6. FirstPage' = f
  BY <1>0 DEF FirstPage
<1>7. ASSUME NEW m \in 0..(n' - 1) PROVE Leaf(f + m)' # NONE
  <2>1. m \in Nat /\ (m < n \/ (m = n /\ n' = n + 1))
    BY <1>2
  <2>2. CASE m = n /\ n' = n + 1
    <3>1. f + m = w /\ Leaf(w)' # NONE
      BY <1>0, <1>2, <2>2
    <3> QED
      BY <3>1
  <2>3. CASE m < n
    <3>1. PICK v : v = f + m
      OBVIOUS
    <3>2. v # w
      BY <1>0, <1>2, <2>1, <2>3, <3>1
    <3>3. v \in Pages(<<img[s]>>)
      <4>1. PICK g, k \in Nat :
              /\ g = FirstPage /\ k = NPages
              /\ \A y : y \in Pages(<<img[s]>>) <=> y \in Nat /\ g <= y /\ y < g + k
        BY <1>1, SegmentPages DEF FirstPage, NPages
      <4>2. v \in Nat /\ g <= v /\ v < g + k
        BY <1>0, <1>1, <2>1, <2>3, <3>1, <4>1
      <4> QED
        BY <4>1, <4>2
    <3>4. High(v)
      BY <1>1, <3>3, SegmentPages DEF High
    <3>5. Leaf(v) # NONE
      BY <1>0, <1>2, <1>4, <2>1, <2>3, <3>1
    <3>6. Leaf(v)' = Leaf(v)
      BY <3>2, <3>4, <3>5
    <3> QED
      BY <3>1, <3>5, <3>6
  <2> QED
    BY <2>1, <2>2, <2>3
<1>8. \A m \in 0..(n' - 1) : Leaf(FirstPage + m)' # NONE
  BY <1>6, <1>7
<1> QED
  BY <1>5, <1>8 DEF Held, Placed, Loading

----------------------------------------------------------------------------
(* map_single: the steps *)

\* Where the walk is, and where it goes next (alloc.c:50-71).
LEMMA AtNode ==
  ASSUME MemInv, MapInv, WholePages, pc = "valloc", n < NPages
  PROVE  /\ High(VPage) /\ root \in DOMAIN tab \cap given /\ NONE \notin given
         /\ \E lev :
              /\ Tree(lev) /\ OnTheWay(lev)
              /\ at \in DOMAIN tab \cap given /\ lvl \in 0..3 /\ lev[at] = lvl
              /\ at = CASE lvl = 0 -> root [] lvl = 1 -> Node1(VPage)
                        [] lvl = 2 -> Node2(VPage) [] OTHER -> Node3(VPage)
              /\ at \notin LowPages /\ at # NONE
              /\ at = root => Index(VPage, lvl) # 0
              /\ Index(VPage, lvl) \in Slots
<1>1. MapTypes /\ Progress /\ root \in DOMAIN tab \cap given
  BY DEF MapInv, MapTypes, Loading
<1>2. High(VPage)
  BY <1>1, TheWay
<1>3. NONE \notin given
  BY GivenAbove DEF NONE
<1>4. PICK lev : Tree(lev) /\ OnTheWay(lev)
  BY DEF MapInv, Loading
<1>5. /\ at \in DOMAIN tab \cap given /\ lvl \in 0..3 /\ lev[at] = lvl
      /\ at = CASE lvl = 0 -> root [] lvl = 1 -> Node1(VPage)
                [] lvl = 2 -> Node2(VPage) [] OTHER -> Node3(VPage)
  BY <1>4 DEF OnTheWay
<1>6. at \notin LowPages /\ at # NONE
  BY <1>3, <1>5, GivenAbove
<1>7. at = root => Index(VPage, lvl) # 0
  <2>1. lev[root] = 0
    BY <1>4 DEF Tree
  <2>2. Index(VPage, 0) # 0
    BY <1>2, TopIndex DEF High
  <2> QED
    BY <1>5, <2>1, <2>2
<1>8. Index(VPage, lvl) \in Slots
  BY <1>2, <1>5, IndexSlot DEF High
<1> QED
  BY <1>1, <1>2, <1>3, <1>4, <1>5, <1>6, <1>7, <1>8

\* The entry of a table on the way is the next place on it.
LEMMA NextNode ==
  ASSUME NEW v, NEW l \in 0..3, NEW a, a # NONE,
         a = CASE l = 0 -> root [] l = 1 -> Node1(v) [] l = 2 -> Node2(v) [] OTHER -> Node3(v)
  PROVE  tab[a][Index(v, l)] =
           CASE l = 0 -> Node1(v) [] l = 1 -> Node2(v) [] l = 2 -> Node3(v) [] OTHER -> Leaf(v)
<1>1. l = 0 \/ l = 1 \/ l = 2 \/ l = 3
  OBVIOUS
<1> QED
  BY <1>1 DEF Node1, Node2, Node3, Leaf, Down

\* What is mapped stays mapped where nothing of the tables changes.
LEMMA SameLeaf ==
  ASSUME UNCHANGED <<tab, root>>, NEW v
  PROVE  /\ Node1(v)' = Node1(v) /\ Node2(v)' = Node2(v) /\ Node3(v)' = Node3(v)
         /\ Leaf(v)' = Leaf(v)
<1>1. Node1(v)' = Node1(v)
  BY DEF Node1
<1>2. Node2(v)' = Node2(v)
  BY <1>1 DEF Node2, Down
<1>3. Node3(v)' = Node3(v)
  BY <1>2 DEF Node3, Down
<1>4. Leaf(v)' = Leaf(v)
  BY <1>3 DEF Leaf, Down
<1> QED
  BY <1>1, <1>2, <1>3, <1>4

\* A table that is there is entered (alloc.c:51, 58, 65).
LEMMA WalkedDown ==
  ASSUME MemInv, MapInv, WalkDown
  PROVE  MapInv'
<1>1. /\ pc = "valloc" /\ pc' = pc /\ n < NPages /\ lvl < 3
      /\ tab[at][Index(VPage, lvl)] # NONE
      /\ at' = tab[at][Index(VPage, lvl)] /\ lvl' = lvl + 1
      /\ UNCHANGED <<memvars, mem_free, lo, tab, root, cr3, i, j, img, s, n, data, given>>
  BY DEF WalkDown
<1> SUFFICES ASSUME WholePages PROVE MapInv'
  BY <1>1 DEF MapInv, WholePages, memvars
<1>2. MapTypes /\ Progress /\ Identity /\ Held /\ Once
  BY <1>1 DEF MapInv, Loading
<1>3. PICK w \in Nat : w = VPage /\ High(w)
  BY <1>1, AtNode DEF High
<1>4. PICK lev :
        /\ Tree(lev) /\ at \in DOMAIN tab \cap given /\ lvl \in 0..3 /\ lev[at] = lvl
        /\ at = CASE lvl = 0 -> root [] lvl = 1 -> Node1(w) [] lvl = 2 -> Node2(w)
                  [] OTHER -> Node3(w)
        /\ at # NONE /\ (at = root => Index(w, lvl) # 0) /\ Index(w, lvl) \in Slots
  BY <1>1, <1>3, AtNode
<1>5. at' \in DOMAIN tab \cap given /\ lev[at'] = lvl'
  <2>1. tab[at][Index(w, lvl)] # NONE /\ ~(at = root /\ Index(w, lvl) = 0) /\ lev[at] < 3
    BY <1>1, <1>3, <1>4
  <2>2. /\ tab[at][Index(w, lvl)] \in given /\ tab[at][Index(w, lvl)] \in DOMAIN tab
        /\ lev[tab[at][Index(w, lvl)]] = lev[at] + 1
    BY <1>4, <2>1 DEF Tree
  <2> QED
    BY <1>1, <1>3, <1>4, <2>2
<1>6. at' = CASE lvl = 0 -> Node1(w) [] lvl = 1 -> Node2(w) [] lvl = 2 -> Node3(w)
              [] OTHER -> Leaf(w)
  BY <1>1, <1>3, <1>4, NextNode
<1>7. at' = CASE lvl' = 0 -> root' [] lvl' = 1 -> Node1(w)' [] lvl' = 2 -> Node2(w)'
              [] OTHER -> Node3(w)'
  <2>1. Node1(w)' = Node1(w) /\ Node2(w)' = Node2(w) /\ Node3(w)' = Node3(w)
    BY <1>1, SameLeaf
  <2>2. lvl = 0 \/ lvl = 1 \/ lvl = 2
    BY <1>1, <1>4
  <2> QED
    BY <1>1, <1>6, <2>1, <2>2
<1>8. VPage' = w /\ lvl' \in 0..3
  BY <1>1, <1>3, <1>4 DEF VPage, FirstPage
<1>9. OnTheWay(lev)'
  BY <1>1, <1>5, <1>7, <1>8 DEF OnTheWay
<1>10. Tree(lev)'
  BY <1>1, <1>4 DEF Tree
<1>11. Held'
  <2>1. \A v : Leaf(v)' = Leaf(v)
    BY <1>1, SameLeaf
  <2> QED
    BY <1>1, <1>2, <1>3, <2>1, HeldKept
<1>12. MapTypes' /\ Identity' /\ Once' /\ Progress' /\ Building'
  <2>1. MapTypes'
    BY <1>1, <1>2 DEF MapTypes
  <2>2. Identity'
    BY <1>1, <1>2 DEF Identity
  <2>3. Once'
    BY <1>1, <1>2 DEF Once
  <2>4. Progress'
    BY <1>1, <1>2 DEF Progress, NPages
  <2>5. Building'
    BY <1>1 DEF Building
  <2> QED
    BY <2>1, <2>2, <2>3, <2>4, <2>5
<1> QED
  BY <1>9, <1>10, <1>11, <1>12 DEF MapInv

\* The crash leaves everything but the phase (alloc.c:32).
LEMMA Crashed ==
  ASSUME MapInv, Crash
  PROVE  MapInv'
  BY DEF Crash, MapInv, MapTypes, Building, Identity, Progress, Held, Loading, WholePages, memvars

\* A table is made for the way of the page (alloc.c:51-71).
LEMMA TableMade ==
  ASSUME MemInv, MapInv, NewTable, ~Crash
  PROVE  MapInv'
<1>1. PICK p :
        /\ pc = "valloc" /\ pc' = pc /\ n < NPages /\ lvl < 3
        /\ tab[at][Index(VPage, lvl)] = NONE
        /\ alloc_page_hi(p) /\ given' = given \cup {p}
        /\ tab' = Linked(at, Index(VPage, lvl), p) /\ at' = p /\ lvl' = lvl + 1
        /\ data' = [q \in DOMAIN data \cup {p} |-> IF q = p THEN {} ELSE data[q]]
        /\ UNCHANGED <<memvars, lo, root, cr3, i, j, img, s, n>>
  BY DEF NewTable, alloc_page_hi
<1> SUFFICES ASSUME WholePages PROVE MapInv'
  BY <1>1 DEF MapInv, WholePages, memvars
<1>2. MapTypes /\ Progress /\ Identity /\ Held /\ Once
  BY <1>1 DEF MapInv, Loading
<1>3. PICK w \in Nat : w = VPage /\ High(w)
  BY <1>1, AtNode DEF High
<1>4. /\ p \in Nat /\ p \notin given /\ p \notin LowPages /\ p # NONE /\ p \notin DOMAIN tab
      /\ root \in DOMAIN tab \cap given /\ NONE \notin given
  BY <1>1, <1>2, FreshPage, AtNode DEF NONE, Identity, Loading
<1>5. PICK lev :
        /\ Tree(lev) /\ at \in DOMAIN tab \cap given /\ lvl \in 0..3 /\ lev[at] = lvl
        /\ at = CASE lvl = 0 -> root [] lvl = 1 -> Node1(w) [] lvl = 2 -> Node2(w)
                  [] OTHER -> Node3(w)
        /\ at \notin LowPages /\ at # NONE /\ (at = root => Index(w, lvl) # 0)
        /\ Index(w, lvl) \in Slots
  BY <1>1, <1>3, AtNode
<1>6. PICK x \in Slots : x = Index(w, lvl)
  BY <1>5
<1>7. tab' = Linked(at, x, p)
  BY <1>1, <1>3, <1>6
<1>8. DOMAIN tab' = DOMAIN tab \cup {p} /\ tab'[p] = EmptyTable
  BY <1>7 DEF Linked
<1>9. /\ \A t \in DOMAIN tab : tab'[t] = IF t = at THEN [tab[at] EXCEPT ![x] = p] ELSE tab[t]
      /\ \A t \in DOMAIN tab : t \in Nat /\ tab[t] \in Tables
  BY <1>2, <1>4, <1>7 DEF Linked, MapTypes
<1>10. Entered(x, p)
  <2>1. /\ [tab[at] EXCEPT ![x] = p] \in Tables
        /\ \A y \in Slots : [tab[at] EXCEPT ![x] = p][y] = IF y = x THEN p ELSE tab[at][y]
    BY <1>4, <1>5, <1>9, EntrySet
  <2> QED
    BY <1>9, <2>1 DEF Entered
<1>11. tab[at][x] = NONE
  BY <1>1, <1>3, <1>6
<1>12. \A t \in DOMAIN tab : \A y \in Slots : tab[t][y] # NONE => tab'[t][y] = tab[t][y]
  BY <1>10, <1>11 DEF Entered
<1>13. \A y \in Slots : tab'[p][y] = NONE
  BY <1>8, EmptyFacts
<1>14. MapTypes'
  <2>1. [tab[at] EXCEPT ![x] = p] \in Tables
    BY <1>4, <1>5, <1>9, EntrySet
  <2>2. \A t \in DOMAIN tab' : t \in Nat /\ tab'[t] \in Tables
    BY <1>4, <1>8, <1>9, <2>1, EmptyFacts
  <2>3. DOMAIN data' = given'
    BY <1>1, <1>2 DEF MapTypes
  <2>4. root' \in given' /\ root' \in DOMAIN tab'
    BY <1>1, <1>4, <1>8
  <2> QED
    BY <1>1, <1>2, <2>2, <2>3, <2>4 DEF MapTypes, Loading
<1>15. Identity'
  BY <1>1, <1>2, <1>4, <1>5, <1>6, <1>8, <1>10, IdentityKept DEF Loading
<1>16. Once'
  BY <1>1, <1>2, <1>4, <1>5, <1>8, <1>10, <1>13, OnceKept DEF Loading
<1>17. /\ Node1(w) # NONE => Node1(w)' = Node1(w)
       /\ Node2(w) # NONE => Node2(w)' = Node2(w)
       /\ Node3(w) # NONE => Node3(w)' = Node3(w)
  BY <1>1, <1>3, <1>4, <1>5, <1>12, NodesKept
<1>18. PICK lev2 : lev2 = [q \in (DOMAIN tab \cap given) \cup {p} |-> IF q = p THEN lvl + 1 ELSE lev[q]]
  OBVIOUS
<1>19. /\ lev2 \in [(DOMAIN tab \cap given) \cup {p} -> 0..3] /\ lev2[p] = lvl + 1
       /\ \A t \in DOMAIN tab \cap given : lev2[t] = lev[t] /\ t # p
  <2>1. lev \in [DOMAIN tab \cap given -> 0..3] /\ lvl + 1 \in 0..3
    BY <1>1, <1>5 DEF Tree
  <2> QED
    BY <1>4, <1>18, <2>1
<1>20. DOMAIN tab' \cap given' = (DOMAIN tab \cap given) \cup {p}
  BY <1>1, <1>4, <1>8
<1>21. Tree(lev2)'
  <2>1. lev2[root] = 0
    BY <1>4, <1>5, <1>19 DEF Tree
  <2>2. ASSUME NEW t \in DOMAIN tab' \cap given', NEW y \in Slots,
               tab'[t][y] # NONE, ~(t = root /\ y = 0)
        PROVE  /\ tab'[t][y] \in given'
               /\ lev2[t] = 3 => tab'[t][y] \notin DOMAIN tab'
               /\ lev2[t] < 3 => tab'[t][y] \in DOMAIN tab' /\ lev2[tab'[t][y]] = lev2[t] + 1
    <3>1. t \in DOMAIN tab \cap given
      BY <1>13, <1>20, <2>2
    <3>2. CASE t = at /\ y = x
      <4>1. tab'[t][y] = p /\ lev2[t] = lvl /\ lvl < 3
        BY <1>1, <1>5, <1>10, <1>19, <3>1, <3>2 DEF Entered
      <4> QED
        BY <1>1, <1>5, <1>8, <1>19, <4>1
    <3>3. CASE ~(t = at /\ y = x)
      <4>1. tab'[t][y] = tab[t][y]
        BY <1>10, <3>1, <3>3 DEF Entered
      <4>2. PICK q : q = tab[t][y] /\ q # NONE
        BY <2>2, <4>1
      <4>3. /\ q \in given /\ (lev[t] = 3 => q \notin DOMAIN tab)
            /\ (lev[t] < 3 => q \in DOMAIN tab /\ lev[q] = lev[t] + 1)
        BY <1>5, <2>2, <3>1, <4>2 DEF Tree
      <4> QED
        BY <1>1, <1>4, <1>8, <1>19, <3>1, <4>1, <4>2, <4>3
    <3> QED
      BY <3>2, <3>3
  <2> QED
    BY <1>1, <1>19, <1>20, <2>1, <2>2 DEF Tree
<1>22. p = CASE lvl = 0 -> Node1(w)' [] lvl = 1 -> Node2(w)' [] OTHER -> Node3(w)'
  <2>1. tab'[at][Index(w, lvl)] = p
    BY <1>5, <1>6, <1>10 DEF Entered
  <2>2. CASE lvl = 0
    BY <1>1, <1>5, <2>1, <2>2 DEF Node1
  <2>3. CASE lvl = 1
    <3>1. Node1(w)' = at /\ at # NONE
      BY <1>5, <1>17, <2>3
    <3> QED
      BY <1>1, <2>1, <2>3, <3>1 DEF Node2, Down
  <2>4. CASE lvl = 2
    <3>1. Node2(w)' = at /\ at # NONE
      BY <1>5, <1>17, <2>4
    <3> QED
      BY <1>1, <2>1, <2>4, <3>1 DEF Node3, Down
  <2> QED
    BY <1>1, <1>5, <2>2, <2>3, <2>4
<1>23. OnTheWay(lev2)'
  <2>1. VPage' = w /\ lvl' \in 0..3 /\ lev2[at'] = lvl' /\ at' \in DOMAIN tab' \cap given'
    BY <1>1, <1>3, <1>5, <1>19, <1>20 DEF VPage, FirstPage
  <2>2. at' = CASE lvl' = 0 -> root' [] lvl' = 1 -> Node1(w)' [] lvl' = 2 -> Node2(w)'
                [] OTHER -> Node3(w)'
    <3>1. lvl = 0 \/ lvl = 1 \/ lvl = 2
      BY <1>1, <1>5
    <3> QED
      BY <1>1, <1>22, <3>1
  <2> QED
    BY <2>1, <2>2 DEF OnTheWay
<1>24. Held'
  <2>1. ASSUME NEW v, High(v), Leaf(v) # NONE
        PROVE  Leaf(v)' = Leaf(v) /\ data[Leaf(v)] \subseteq data'[Leaf(v)]
    <3>1. /\ Node3(v) # NONE /\ Node3(v) \in DOMAIN tab \cap given /\ Leaf(v) \in given
      BY <1>4, <1>5, <2>1, NodeLevels
    <3>2. Node3(v)' = Node3(v)
      BY <1>1, <1>4, <1>5, <1>12, <2>1, <3>1, NodesKept
    <3>3. Leaf(v) = tab[Node3(v)][Index(v, 3)] /\ Index(v, 3) \in Slots
      BY <2>1, <3>1, IndexSlot DEF Leaf, Down, High
    <3>4. Leaf(v)' = Leaf(v)
      <4>1. Leaf(v)' = tab'[Node3(v)][Index(v, 3)]
        BY <3>1, <3>2 DEF Leaf, Down
      <4> QED
        BY <1>12, <2>1, <3>1, <3>3, <4>1
    <3>5. data'[Leaf(v)] = data[Leaf(v)]
      BY <1>1, <1>2, <1>4, <3>1 DEF MapTypes
    <3> QED
      BY <3>4, <3>5
  <2>2. {} \in SUBSET {w}
    OBVIOUS
  <2> QED
    BY <1>1, <1>2, <1>3, <2>1, <2>2, HeldKept
<1>25. Progress' /\ Building'
  <2>1. Progress'
    BY <1>1, <1>2 DEF Progress, NPages
  <2> QED
    BY <1>1, <2>1 DEF Building
<1> QED
  BY <1>14, <1>15, <1>16, <1>21, <1>23, <1>24, <1>25 DEF MapInv


\* A page is mapped at the end of its way, whether or not one was (alloc.c:72-74).
LEMMA PageMapped ==
  ASSUME MemInv, MapInv, MapPage, ~Crash
  PROVE  MapInv'
<1>1. PICK p :
        /\ pc = "valloc" /\ pc' = pc /\ n < NPages /\ lvl = 3
        /\ alloc_page_hi(p) /\ given' = given \cup {p}
        /\ tab' = [tab EXCEPT ![at][Index(VPage, 3)] = p]
        /\ n' = n + 1 /\ lvl' = 0 /\ at' = root
        /\ data' = [q \in DOMAIN data \cup {p} |-> IF q = p THEN {} ELSE data[q]]
        /\ UNCHANGED <<memvars, lo, root, cr3, i, j, img, s>>
  BY DEF MapPage, alloc_page_hi
<1> SUFFICES ASSUME WholePages PROVE MapInv'
  BY <1>1 DEF MapInv, WholePages, memvars
<1>2. MapTypes /\ Progress /\ Identity /\ Held /\ Once
  BY <1>1 DEF MapInv, Loading
<1>3. PICK w \in Nat : w = VPage /\ High(w)
  BY <1>1, AtNode DEF High
<1>4. /\ p \in Nat /\ p \notin given /\ p \notin LowPages /\ p # NONE /\ p \notin DOMAIN tab
      /\ root \in DOMAIN tab \cap given /\ NONE \notin given
  BY <1>1, <1>2, FreshPage, AtNode DEF NONE, Identity, Loading
<1>5. PICK lev :
        /\ Tree(lev) /\ at \in DOMAIN tab \cap given /\ lev[at] = 3 /\ at = Node3(w)
        /\ at \notin LowPages /\ at # NONE /\ (at = root => Index(w, 3) # 0)
        /\ Index(w, 3) \in Slots
  BY <1>1, <1>3, AtNode
<1>6. PICK x \in Slots : x = Index(w, 3)
  BY <1>5
<1>7. tab' = [tab EXCEPT ![at] = [tab[at] EXCEPT ![x] = p]]
  BY <1>1, <1>3, <1>6
<1>8. DOMAIN tab' = DOMAIN tab
  BY <1>7
<1>9. /\ \A t \in DOMAIN tab : tab'[t] = IF t = at THEN [tab[at] EXCEPT ![x] = p] ELSE tab[t]
      /\ \A t \in DOMAIN tab : t \in Nat /\ tab[t] \in Tables
  BY <1>2, <1>7 DEF MapTypes
<1>10. Entered(x, p)
  <2>1. /\ [tab[at] EXCEPT ![x] = p] \in Tables
        /\ \A y \in Slots : [tab[at] EXCEPT ![x] = p][y] = IF y = x THEN p ELSE tab[at][y]
    <3>1. tab[at] \in Tables
      BY <1>5, <1>9
    <3> QED
      BY <1>4, <3>1, EntrySet
  <2> QED
    BY <1>9, <2>1 DEF Entered
<1>11. MapTypes'
  <2>1. [tab[at] EXCEPT ![x] = p] \in Tables
    BY <1>4, <1>5, <1>9, EntrySet
  <2>2. \A t \in DOMAIN tab' : t \in Nat /\ tab'[t] \in Tables
    BY <1>8, <1>9, <2>1
  <2>3. DOMAIN data' = given'
    BY <1>1, <1>2 DEF MapTypes
  <2>4. root' \in given' /\ root' \in DOMAIN tab'
    BY <1>1, <1>4, <1>8
  <2> QED
    BY <1>1, <1>2, <2>2, <2>3, <2>4 DEF MapTypes, Loading
<1>12. Identity'
  BY <1>1, <1>2, <1>4, <1>5, <1>6, <1>8, <1>10, IdentityKept DEF Loading
<1>13. Once'
  BY <1>1, <1>2, <1>4, <1>5, <1>8, <1>10, OnceKept DEF Loading
<1>14. \A t \in DOMAIN tab \cap given : \A y \in Slots :
         lev[t] < 3 /\ tab[t][y] # NONE => tab'[t][y] = tab[t][y]
  BY <1>5, <1>10 DEF Entered
<1>15. DOMAIN tab' \cap given' = DOMAIN tab \cap given
  BY <1>1, <1>4, <1>8
<1>16. Tree(lev)'
  <2>1. ASSUME NEW t \in DOMAIN tab \cap given, NEW y \in Slots,
               tab'[t][y] # NONE, ~(t = root /\ y = 0)
        PROVE  /\ tab'[t][y] \in given'
               /\ lev[t] = 3 => tab'[t][y] \notin DOMAIN tab
               /\ lev[t] < 3 => tab'[t][y] \in DOMAIN tab /\ lev[tab'[t][y]] = lev[t] + 1
    <3>1. CASE t = at /\ y = x
      BY <1>1, <1>4, <1>5, <1>10, <2>1, <3>1 DEF Entered
    <3>2. CASE ~(t = at /\ y = x)
      <4>1. tab'[t][y] = tab[t][y]
        BY <1>10, <2>1, <3>2 DEF Entered
      <4> QED
        BY <1>1, <1>5, <2>1, <4>1 DEF Tree
    <3> QED
      BY <3>1, <3>2
  <2>2. lev \in [DOMAIN tab \cap given -> 0..3] /\ lev[root] = 0
    BY <1>5 DEF Tree
  <2> QED
    BY <1>1, <1>8, <1>15, <2>1, <2>2 DEF Tree
<1>17. OnTheWay(lev)'
  <2>1. lev[root] = 0
    BY <1>5 DEF Tree
  <2> QED
    BY <1>1, <1>4, <1>15, <2>1 DEF OnTheWay
<1>18. Node3(w)' = Node3(w)
  BY <1>1, <1>3, <1>4, <1>5, <1>14, NodesKept
<1>19. Leaf(w)' = p
  <2>1. tab'[at][Index(w, 3)] = p
    BY <1>5, <1>6, <1>10 DEF Entered
  <2> QED
    BY <1>5, <1>18, <2>1 DEF Leaf, Down
<1>20. Held'
  <2>1. ASSUME NEW v, High(v), v # w, Leaf(v) # NONE
        PROVE  Leaf(v)' = Leaf(v) /\ data[Leaf(v)] \subseteq data'[Leaf(v)]
    <3>1. /\ Node3(v) # NONE /\ Node3(v) \in DOMAIN tab \cap given /\ Leaf(v) \in given
      BY <1>4, <1>5, <2>1, NodeLevels
    <3>2. Node3(v)' = Node3(v)
      BY <1>1, <1>4, <1>5, <1>14, <2>1, <3>1, NodesKept
    <3>3. Leaf(v) = tab[Node3(v)][Index(v, 3)] /\ Index(v, 3) \in Slots
      BY <2>1, <3>1, IndexSlot DEF Leaf, Down, High
    <3>4. ~(Node3(v) = at /\ Index(v, 3) = x)
      BY <1>2, <1>3, <1>4, <1>5, <1>6, <2>1, <3>1, PathsApart
    <3>5. Leaf(v)' = Leaf(v)
      <4>1. Leaf(v)' = tab'[Node3(v)][Index(v, 3)]
        BY <3>1, <3>2 DEF Leaf, Down
      <4>2. tab'[Node3(v)][Index(v, 3)] = tab[Node3(v)][Index(v, 3)]
        BY <1>10, <3>1, <3>3, <3>4 DEF Entered
      <4> QED
        BY <3>3, <4>1, <4>2
    <3>6. data'[Leaf(v)] = data[Leaf(v)]
      BY <1>1, <1>2, <1>4, <3>1 DEF MapTypes
    <3> QED
      BY <3>5, <3>6
  <2>2. PICK Bad \in SUBSET {w} : Bad = {w}
    OBVIOUS
  <2>3. \A v : High(v) /\ v \notin Bad /\ Leaf(v) # NONE =>
               Leaf(v)' = Leaf(v) /\ data[Leaf(v)] \subseteq data'[Leaf(v)]
    BY <2>1, <2>2
  <2>4. n' = n \/ (n' = n + 1 /\ Leaf(w)' # NONE)
    BY <1>1, <1>4, <1>19
  <2>5. UNCHANGED <<pc, img, s>>
    BY <1>1
  <2> QED
    BY <1>1, <1>2, <1>3, <2>3, <2>4, <2>5, HeldKept
<1>21. Progress' /\ Building'
  <2>1. n' \in 0..NPages
    BY <1>1, <1>2, TheWay DEF Progress, Loading
  <2>2. Progress'
    BY <1>1, <1>2, <2>1 DEF Progress, NPages
  <2> QED
    BY <1>1, <2>2 DEF Building
<1> QED
  BY <1>11, <1>12, <1>13, <1>16, <1>17, <1>20, <1>21 DEF MapInv
----------------------------------------------------------------------------
(* initram_init, elf_load and bmain: the segments *)

\* What the tables and the image keep when only the phase and the walk change.
LEMMA Restarted ==
  ASSUME MapTypes, Identity, Once, pc \in Loading, pc' \in Loading, NEW lev, Tree(lev),
         UNCHANGED <<img, lo, tab, root, cr3, given>>, DOMAIN data' = DOMAIN data
  PROVE  MapTypes' /\ Identity' /\ Once' /\ Building' /\ Tree(lev)'
<1>1. MapTypes'
  BY DEF MapTypes, Loading
<1>2. Identity'
  BY DEF Identity
<1>3. Once'
  BY DEF Once
<1>4. Building'
  BY DEF Building, Loading
<1>5. Tree(lev)'
  BY DEF Tree
<1> QED
  BY <1>1, <1>2, <1>3, <1>4, <1>5

\* Every page of the segment is mapped when the copy begins: each byte arrives
\* where its page is mapped, and what was there stays (alloc.c:83-86, elf.c:17-22).
LEMMA SegmentCopied ==
  ASSUME MemInv, MapInv, CopySegment
  PROVE  MapInv'
<1>1. /\ pc = "valloc" /\ n = NPages /\ pc' = "loaded"
      /\ data' = [q \in DOMAIN data |->
                    data[q] \cup {<<s, v>> : v \in {w \in FilePages(img[s]) : Translate(w) = q}}]
      /\ UNCHANGED <<memvars, mem_free, lo, tab, root, cr3, i, j, img, s, n, lvl, at, given>>
  BY DEF CopySegment
<1> SUFFICES ASSUME WholePages PROVE MapInv'
  BY <1>1 DEF MapInv, WholePages, memvars
<1>2. MapTypes /\ Progress /\ Identity /\ Held /\ Once /\ pc \in Loading /\ pc' \in Loading
  BY <1>1 DEF MapInv, Loading
<1>3. PICK lev : Tree(lev)
  BY <1>2 DEF MapInv
<1>4. MapTypes' /\ Identity' /\ Once' /\ Building' /\ Tree(lev)'
  BY <1>1, <1>2, <1>3, Restarted
<1>5. Progress'
  BY <1>1, <1>2 DEF Progress, NPages
<1>6. img \in Images /\ s \in DOMAIN img /\ root \in DOMAIN tab \cap given
  BY <1>1, <1>2 DEF MapTypes, Progress
<1>7. NONE \notin given /\ cr3 = root /\ root # NONE
  <2>1. NONE \notin given
    BY GivenAbove DEF NONE
  <2> QED
    BY <1>2, <1>6, <2>1 DEF Identity
<1>8. /\ DOMAIN data' = DOMAIN data /\ DOMAIN data = given
      /\ \A q \in DOMAIN data : data[q] \subseteq data'[q]
  BY <1>1, <1>2 DEF MapTypes
<1>9. \A v : Leaf(v)' = Leaf(v)
  BY <1>1, SameLeaf
<1>10. ASSUME SegmentsApart PROVE Held'
  <2>1. \A x \in DOMAIN img : x < s =>
          /\ \A v \in Pages(<<img[x]>>) : Leaf(v) # NONE
          /\ \A v \in FilePages(img[x]) : <<x, v>> \in data[Leaf(v)]
    BY <1>2, <1>10 DEF Held, Placed
  <2>2. \A m \in 0..(n - 1) : Leaf(FirstPage + m) # NONE
    BY <1>2, <1>10 DEF Held
  <2>3. \A x \in DOMAIN img :
          /\ FilePages(img[x]) \subseteq Pages(<<img[x]>>)
          /\ \A v \in Pages(<<img[x]>>) : High(v)
    BY <1>6, SegmentPages DEF High
  <2>4. \A v : High(v) /\ Leaf(v) # NONE => Leaf(v) \in given
    BY <1>3, <1>6, <1>7, NodeLevels
  <2>5. ASSUME NEW x \in DOMAIN img, x < s
        PROVE  /\ \A v \in Pages(<<img[x]>>) : Leaf(v) # NONE
               /\ \A v \in FilePages(img[x]) : <<x, v>> \in data'[Leaf(v)]
    BY <1>8, <2>1, <2>3, <2>4, <2>5
  <2>6. ASSUME NEW v \in Pages(<<img[s]>>) PROVE Leaf(v) # NONE
    <3>1. PICK g, k \in Nat :
            /\ g = FirstPage /\ k = NPages
            /\ \A y : y \in Pages(<<img[s]>>) <=> y \in Nat /\ g <= y /\ y < g + k
      BY <1>6, SegmentPages DEF FirstPage, NPages
    <3>2. PICK u \in Nat : u = v /\ g <= u /\ u < g + k
      BY <3>1
    <3>3. PICK m : m = u - g /\ m \in 0..(k - 1) /\ g + m = v
      BY <3>2
    <3> QED
      BY <1>1, <2>2, <3>1, <3>3
  <2>7. ASSUME NEW v \in FilePages(img[s]) PROVE <<s, v>> \in data'[Leaf(v)]
    <3>1. v \in Pages(<<img[s]>>) /\ High(v)
      BY <1>6, <2>3, <2>7
    <3>2. Translate(v) = Leaf(v)
      BY <1>7, <3>1, TranslateHigh DEF High
    <3>3. Leaf(v) \in DOMAIN data
      BY <1>8, <2>4, <2>6, <3>1
    <3> QED
      BY <1>1, <2>7, <3>2, <3>3
  <2>8. ASSUME NEW x \in DOMAIN img, x < s \/ x = s
        PROVE  /\ \A v \in Pages(<<img[x]>>) : Leaf(v) # NONE
               /\ \A v \in FilePages(img[x]) : <<x, v>> \in data'[Leaf(v)]
    BY <2>5, <2>6, <2>7, <2>8
  <2>9. PICK f : f = FirstPage /\ f = FirstPage'
    BY <1>1 DEF FirstPage
  <2>10. \A m \in 0..(n' - 1) : Leaf(FirstPage + m)' # NONE
    BY <1>1, <1>9, <2>2, <2>9
  <2>11. \A x \in DOMAIN img : (x < s' \/ (x = s' /\ pc' # "valloc")) =>
           /\ \A v \in Pages(<<img[x]>>) : Leaf(v)' # NONE
           /\ \A v \in FilePages(img[x]) : <<x, v>> \in data'[Leaf(v)']
    BY <1>1, <1>9, <2>8
  <2>12. img' = img
    BY <1>1
  <2> QED
    BY <2>10, <2>11, <2>12 DEF Held, Placed
<1>11. Held'
  <2>1. SegmentsApart' => SegmentsApart
    BY <1>1 DEF SegmentsApart
  <2> QED
    BY <1>10, <2>1 DEF Held
<1>12. OnTheWay(lev)'
  BY <1>1 DEF OnTheWay
<1> QED
  BY <1>4, <1>5, <1>11, <1>12 DEF MapInv

\* The next program header is looked at (elf.c:11-23).
LEMMA SegmentFollows ==
  ASSUME MemInv, MapInv, NextSegment
  PROVE  MapInv'
<1>1. /\ pc = "loaded" /\ s < Len(img) /\ pc' = "valloc"
      /\ s' = s + 1 /\ n' = 0 /\ lvl' = 0 /\ at' = root
      /\ UNCHANGED <<memvars, mem_free, lo, tab, root, cr3, i, j, img, data, given>>
  BY DEF NextSegment
<1> SUFFICES ASSUME WholePages PROVE MapInv'
  BY <1>1 DEF MapInv, WholePages, memvars
<1>2. MapTypes /\ Progress /\ Identity /\ Held /\ Once /\ pc \in Loading /\ pc' \in Loading
  BY <1>1 DEF MapInv, Loading
<1>3. PICK lev : Tree(lev)
  BY <1>2 DEF MapInv
<1>4. MapTypes' /\ Identity' /\ Once' /\ Building' /\ Tree(lev)'
  BY <1>1, <1>2, <1>3, Restarted
<1>5. img \in Images /\ s \in DOMAIN img /\ root \in DOMAIN tab \cap given
  BY <1>1, <1>2 DEF MapTypes, Progress
<1>6. DOMAIN img = 1..Len(img) /\ Len(img) \in Nat
  <2>1. img \in Seq(Segment)
    BY <1>5, BootAssumption DEF Segment
  <2> QED
    BY <2>1
<1>7. s \in Nat /\ s' \in DOMAIN img
  BY <1>1, <1>5, <1>6
<1>8. Progress'
  <2>1. PICK x \in DOMAIN img : x = s'
    BY <1>7
  <2>2. \E k \in Nat : k = (img[x].memsz + (img[x].vaddr % PAGE) + PAGE - 1) \div PAGE
    BY <1>5, SegmentPages
  <2>3. NPages' \in Nat
    BY <1>1, <2>1, <2>2, Zenon DEF NPages
  <2> QED
    BY <1>1, <1>7, <2>3 DEF Progress
<1>9. Held'
  <2>1. SegmentsApart' => SegmentsApart
    BY <1>1 DEF SegmentsApart
  <2> SUFFICES ASSUME SegmentsApart PROVE Held'
    BY <2>1 DEF Held
  <2>2. \A x \in DOMAIN img : (x < s \/ x = s) =>
          /\ \A v \in Pages(<<img[x]>>) : Leaf(v) # NONE
          /\ \A v \in FilePages(img[x]) : <<x, v>> \in data[Leaf(v)]
    BY <1>1, <1>2 DEF Held, Placed
  <2>3. \A x \in DOMAIN img : (x < s' \/ (x = s' /\ pc' # "valloc")) => (x < s \/ x = s)
    BY <1>1, <1>6, <1>7
  <2>4. \A v : Leaf(v)' = Leaf(v)
    BY <1>1, SameLeaf
  <2>5. \A x \in DOMAIN img' : (x < s' \/ (x = s' /\ pc' # "valloc")) =>
          /\ \A v \in Pages(<<img'[x]>>) : Leaf(v)' # NONE
          /\ \A v \in FilePages(img'[x]) : <<x, v>> \in data'[Leaf(v)']
    <3>1. img' = img /\ data' = data
      BY <1>1
    <3> QED
      BY <2>2, <2>3, <2>4, <3>1
  <2>6. 0..(n' - 1) = {}
    BY <1>1
  <2> QED
    BY <2>5, <2>6 DEF Held, Placed
<1>10. OnTheWay(lev)'
  <2>1. lev[root] = 0
    BY <1>3 DEF Tree
  <2> QED
    BY <1>1, <1>5, <2>1 DEF OnTheWay
<1> QED
  BY <1>4, <1>8, <1>9, <1>10 DEF MapInv

\* The kernel is entered after the last segment (bmain.c).
LEMMA KernelEntered ==
  ASSUME MapInv, EnterKernel
  PROVE  MapInv'
<1>1. /\ pc = "loaded" /\ s = Len(img) /\ pc' = "kernel"
      /\ UNCHANGED <<memvars, mem_free, lo, tab, root, cr3, i, j, img, s, n, lvl, at, data, given>>
  BY DEF EnterKernel
<1> SUFFICES ASSUME WholePages PROVE MapInv'
  BY <1>1 DEF MapInv, WholePages, memvars
<1>2. MapTypes /\ Progress /\ Identity /\ Held /\ Once /\ pc \in Loading /\ pc' \in Loading
  BY <1>1 DEF MapInv, Loading
<1>3. PICK lev : Tree(lev)
  BY <1>2 DEF MapInv
<1>4. MapTypes' /\ Identity' /\ Once' /\ Building' /\ Tree(lev)'
  BY <1>1, <1>2, <1>3, Restarted
<1>5. Progress'
  BY <1>1, <1>2 DEF Progress, NPages
<1>6. Held'
  <2>1. \A v : Leaf(v)' = Leaf(v)
    BY <1>1, SameLeaf
  <2>2. SegmentsApart' => SegmentsApart
    BY <1>1 DEF SegmentsApart
  <2> SUFFICES ASSUME SegmentsApart PROVE Held'
    BY <2>2 DEF Held
  <2>3. \A x \in DOMAIN img : (x < s \/ (x = s /\ pc # "valloc")) =>
          /\ \A v \in Pages(<<img[x]>>) : Leaf(v) # NONE
          /\ \A v \in FilePages(img[x]) : <<x, v>> \in data[Leaf(v)]
    BY <1>2 DEF Held, Placed
  <2>4. PICK f : f = FirstPage /\ f = FirstPage'
    BY <1>1 DEF FirstPage
  <2>5. \A m \in 0..(n' - 1) : Leaf(FirstPage + m)' # NONE
    BY <1>1, <1>2, <2>1, <2>4 DEF Held
  <2>6. \A x \in DOMAIN img' : (x < s' \/ (x = s' /\ pc' # "valloc")) =>
          /\ \A v \in Pages(<<img'[x]>>) : Leaf(v)' # NONE
          /\ \A v \in FilePages(img'[x]) : <<x, v>> \in data'[Leaf(v)']
    <3>1. img' = img /\ data' = data /\ s' = s /\ pc # "valloc" /\ pc' # "valloc"
      BY <1>1
    <3> QED
      BY <2>1, <2>3, <3>1
  <2> QED
    BY <2>5, <2>6 DEF Held, Placed
<1>7. OnTheWay(lev)'
  BY <1>1 DEF OnTheWay
<1> QED
  BY <1>4, <1>5, <1>6, <1>7 DEF MapInv

\* Nothing changes nothing.
LEMMA MapStays ==
  ASSUME MapInv, UNCHANGED vars
  PROVE  MapInv'
<1>1. /\ UNCHANGED <<pc, e820, mem_free, lo, tab, root, cr3, i, j, img, s, n, lvl, at, data, given>>
  BY DEF vars, memvars
<1> SUFFICES ASSUME WholePages PROVE MapInv'
  BY <1>1 DEF MapInv, WholePages
<1>2. \A v : Leaf(v)' = Leaf(v) /\ Node1(v)' = Node1(v) /\ Node2(v)' = Node2(v) /\ Node3(v)' = Node3(v)
  BY <1>1, SameLeaf
<1>3. FirstPage' = FirstPage /\ NPages' = NPages /\ VPage' = VPage
  BY <1>1 DEF FirstPage, NPages, VPage
<1>4. MapTypes'
  BY <1>1 DEF MapInv, MapTypes
<1>5. Building'
  BY <1>1 DEF MapInv, Building, Begun, Done
<1>6. Identity'
  BY <1>1 DEF MapInv, Identity
<1>7. Progress'
  BY <1>1, <1>3 DEF MapInv, Progress
<1>8. Held'
  <2>1. SegmentsApart' <=> SegmentsApart
    BY <1>1 DEF SegmentsApart
  <2>2. \A m : Leaf(FirstPage + m)' = Leaf(FirstPage + m)
    BY <1>2, <1>3
  <2> QED
    BY <1>1, <1>2, <2>1, <2>2 DEF MapInv, Held, Placed
<1>9. ASSUME pc' \in Loading PROVE Once' /\ \E lev : Tree(lev)' /\ OnTheWay(lev)'
  <2>1. Once
    BY <1>1, <1>9 DEF MapInv
  <2>2. Once'
    BY <1>1, <2>1 DEF Once
  <2>3. PICK lev : Tree(lev) /\ OnTheWay(lev)
    BY <1>1, <1>9 DEF MapInv
  <2>4. Tree(lev)'
    BY <1>1, <2>3 DEF Tree
  <2>5. PICK w : w = VPage /\ w = VPage'
    BY <1>3
  <2>6. OnTheWay(lev)'
    BY <1>1, <1>2, <1>3, <2>3, <2>5 DEF OnTheWay
  <2> QED
    BY <2>2, <2>4, <2>6
<1> QED
  BY <1>4, <1>5, <1>6, <1>7, <1>8, <1>9 DEF MapInv

\* Every step keeps the page tables, the identity map in them, and what was
\* loaded (memory.c:53-90, alloc.c:43-86, elf.c:7-26).
LEMMA NextMap == MemInv /\ MapInv /\ [Next]_vars => MapInv'
<1> SUFFICES ASSUME MemInv, MapInv, [Next]_vars PROVE MapInv'
  OBVIOUS
<1>1. CASE DetectEntry \/ DetectStop
  BY <1>1, DetectMap
<1>2. CASE Crash
  BY <1>2, Crashed
<1>3. CASE NewCr3
  BY <1>3, NewCr3Map
<1>4. CASE MapIdentity
  BY <1>4, IdentityMapped
<1>5. CASE ApplyPaging
  BY <1>5, PagingApplied
<1>6. CASE IdentityDone
  BY <1>6, IdentityFinished
<1>7. CASE WalkDown
  BY <1>7, WalkedDown
<1>8. CASE NewTable /\ ~Crash
  BY <1>8, TableMade
<1>9. CASE MapPage /\ ~Crash
  BY <1>9, PageMapped
<1>10. CASE CopySegment
  BY <1>10, SegmentCopied
<1>11. CASE NextSegment
  BY <1>11, SegmentFollows
<1>12. CASE EnterKernel
  BY <1>12, KernelEntered
<1>13. CASE Stopped \/ UNCHANGED vars
  BY <1>13, MapStays DEF Stopped
<1> QED
  BY <1>1, <1>2, <1>3, <1>4, <1>5, <1>6, <1>7, <1>8, <1>9, <1>10, <1>11, <1>12, <1>13 DEF Next

\* In the kernel every page of the image is at a page of its own (elf.c:17-22).
LEMMA LoadedFromMap == MemInv /\ MapInv => LoadedIntact
<1> SUFFICES ASSUME MemInv, MapInv, pc = "kernel", SegmentsApart, WholePages
             PROVE  /\ \A v \in Pages(img) : Translate(v) \in given /\ Translate(v) * PAGE >= LOMEM
                    /\ \A v, w \in Pages(img) : v # w => Translate(v) # Translate(w)
                    /\ \A x \in DOMAIN img : \A v \in FilePages(img[x]) :
                         <<x, v>> \in data[Translate(v)]
                    /\ \A v \in Pages(img) : Translate(v) \notin DOMAIN tab
  BY DEF LoadedIntact
<1>1. /\ MapTypes /\ Progress /\ Identity /\ Held /\ Once /\ pc \in Loading
      /\ \E lev : Tree(lev)
  BY DEF MapInv, Loading
<1>2. PICK lev : Tree(lev)
  BY <1>1
<1>3. img \in Images /\ root \in DOMAIN tab \cap given /\ cr3 = root
  BY <1>1 DEF MapTypes, Identity
<1>4. NONE \notin given /\ root # NONE
  <2>1. NONE \notin given
    BY GivenAbove DEF NONE
  <2> QED
    BY <1>3, <2>1
<1>5. \A x \in DOMAIN img : Placed(x)
  <2>1. img \in Seq(Segment)
    BY <1>3, BootAssumption DEF Segment
  <2>2. \A x \in DOMAIN img : x < Len(img) \/ x = Len(img)
    BY <2>1
  <2>3. s = Len(img)
    BY <1>1 DEF Progress
  <2> QED
    BY <2>2, <2>3 DEF Placed
<1>6. \A x \in DOMAIN img :
        /\ \A v \in Pages(<<img[x]>>) : Leaf(v) # NONE
        /\ \A v \in FilePages(img[x]) : <<x, v>> \in data[Leaf(v)]
  BY <1>1, <1>5 DEF Held
<1>7. \A x \in DOMAIN img :
        /\ FilePages(img[x]) \subseteq Pages(<<img[x]>>)
        /\ \A v \in Pages(<<img[x]>>) : High(v)
  BY <1>3, SegmentPages DEF High
<1>8. ASSUME NEW v \in Pages(img) PROVE \E x \in DOMAIN img : v \in Pages(<<img[x]>>)
  BY <1>8 DEF Pages
<1>9. ASSUME NEW v, High(v), Leaf(v) # NONE
      PROVE  /\ Translate(v) = Leaf(v) /\ Leaf(v) \in given
             /\ Leaf(v) * PAGE >= LOMEM /\ Leaf(v) \notin DOMAIN tab
  <2>1. Leaf(v) \in given /\ Leaf(v) \notin DOMAIN tab
    BY <1>2, <1>3, <1>4, <1>9, NodeLevels
  <2>2. Translate(v) = Leaf(v)
    BY <1>3, <1>4, <1>9, TranslateHigh DEF High
  <2> QED
    BY <2>1, <2>2, GivenAbove
<1>10. \A v \in Pages(img) : High(v) /\ Leaf(v) # NONE
  BY <1>6, <1>7, <1>8
<1>11. ASSUME NEW v \in Pages(img), NEW w \in Pages(img), v # w
       PROVE  Translate(v) # Translate(w)
  <2>1. Leaf(v) # Leaf(w)
    BY <1>1, <1>2, <1>3, <1>4, <1>10, <1>11, PathsApart
  <2>2. Translate(v) = Leaf(v) /\ Translate(w) = Leaf(w)
    BY <1>9, <1>10
  <2> QED
    BY <2>1, <2>2
<1>12. ASSUME NEW x \in DOMAIN img, NEW v \in FilePages(img[x])
       PROVE  <<x, v>> \in data[Translate(v)]
  <2>1. High(v) /\ Leaf(v) # NONE /\ <<x, v>> \in data[Leaf(v)]
    BY <1>6, <1>7
  <2> QED
    BY <1>9, <2>1
<1>13. \A v \in Pages(img) : /\ Translate(v) \in given /\ Translate(v) * PAGE >= LOMEM
                             /\ Translate(v) \notin DOMAIN tab
  BY <1>9, <1>10
<1> QED
  BY <1>11, <1>12, <1>13
----------------------------------------------------------------------------
(* What the memory suffices for: the regions alloc_page_hi looks at *)

\* The regions above lomem, the place of each in gBootParams.mem_free, and those
\* that are looked at, as Enough names them.
Above   == {x \in DOMAIN mem_map : mem_map[x].base + mem_map[x].size > LOMEM}
UpTo(x) == {y \in Above : y <= x}
Place(x) == Cardinality(UpTo(x))
Scanned == {x \in Above : Place(x) <= SCAN}

\* The place of a region in mem_free tells its entry of mem_map: it is the part of
\* it that was not handed out.
Ranked ==
  /\ IsFiniteSet(Above) /\ Cardinality(Above) = Len(mem_free)
  /\ \A r \in DOMAIN mem_free : \E x \in Above : Place(x) = r
  /\ \A x \in Above :
       /\ Place(x) \in DOMAIN mem_free
       /\ Bytes(mem_free[Place(x)]) \subseteq Bytes(mem_map[x])
       /\ \A a \in Bytes(mem_map[x]) : a >= LOMEM =>
            a \in Bytes(mem_free[Place(x)]) \/ a \in GivenBytes

\* Until the first page is handed out every region is as it was reported.
Unused ==
  pc \in {"detect", "cr3"} =>
    cr3 = NONE /\ given = {} /\ \A r \in DOMAIN mem_free : mem_free[r].size # 0

\* The places depend on nothing but gBootParams.mem_map.
LEMMA PlacesKept ==
  ASSUME mem_map' = mem_map
  PROVE  Above' = Above /\ \A x : Place(x)' = Place(x)
  BY DEF Above, Place, UpTo

\* No region, no place.
LEMMA InitRanks == Init => Ranked /\ Unused
<1> SUFFICES ASSUME Init PROVE Ranked /\ Unused
  OBVIOUS
<1>1. mem_map = <<>> /\ mem_free = <<>> /\ given = {} /\ cr3 = NONE
  BY DEF Init
<1>2. Above = {}
  BY <1>1 DEF Above
<1> QED
  BY <1>1, <1>2, FS_EmptySet DEF Ranked, Unused

\* A region that is reported is appended to both lists, or lies in lomem
\* (memory.c:30-46).
LEMMA DetectRanks ==
  ASSUME MemInv, WholePages, Ranked, Unused, DetectEntry
  PROVE  Ranked' /\ Unused'
<1>1. /\ e820 \in E820 /\ e \in DOMAIN e820 /\ pc = "detect" /\ cr3' = cr3
      /\ mem_map \in Seq(Region) /\ mem_free \in Seq(Region) /\ given' = given
      /\ given = {} /\ cr3 = NONE
  BY DEF MemInv, Lists, DetectEntry, Unused
<1>2. PICK m \in Report : m = e820[e]
  BY <1>1, EntryFacts
<1>3. PICK b \in Nat, z \in Nat : b = m.base /\ z = m.size
  BY ReportFacts
<1>4. PICK g \in Region : g = [base |-> m.base, size |-> m.size]
  BY <1>3 DEF Region
<1>5. g.base = b /\ g.size = z
  BY <1>3, <1>4
<1>6. PICK L \in Nat, k \in Nat : L = Len(mem_map) /\ k = Len(mem_free)
  BY <1>1
<1>7. \A y \in DOMAIN mem_free : mem_free[y].size # 0
  BY <1>1 DEF Unused
<1>8. CASE ~Usable(m)
  <2>1. mem_map' = mem_map /\ mem_free' = mem_free
    BY <1>2, <1>8 DEF DetectEntry
  <2>2. Above' = Above /\ \A x : Place(x)' = Place(x)
    BY <2>1, PlacesKept
  <2>3. Ranked'
    BY <1>1, <2>1, <2>2 DEF Ranked, Bytes, GivenBytes
  <2> QED
    BY <1>1, <1>7, <2>1, <2>3 DEF Unused
<1>9. CASE Usable(m)
  <2>1. mem_map' = Append(mem_map, g)
    BY <1>2, <1>4, <1>9 DEF DetectEntry
  <2>2. /\ DOMAIN mem_map' = DOMAIN mem_map \cup {L + 1} /\ DOMAIN mem_map = 1..L
        /\ \A x \in DOMAIN mem_map : mem_map'[x] = mem_map[x]
        /\ mem_map'[L + 1] = g
    BY <1>1, <1>6, <2>1
  <2>3. L + 1 \notin Above /\ Above \subseteq 1..L
    BY <2>2 DEF Above
  <2>4. Above' = IF b + z > LOMEM THEN Above \cup {L + 1} ELSE Above
    BY <1>5, <2>2 DEF Above
  <2>5. ASSUME NEW x \in Above PROVE UpTo(x)' = UpTo(x)
    BY <2>3, <2>4 DEF UpTo
  <2>6. \A x \in Above : Place(x)' = Place(x) /\ mem_map'[x] = mem_map[x]
    BY <2>2, <2>3, <2>5 DEF Place
  <2>7. CASE ~(b + z > LOMEM)
    <3>1. mem_free' = mem_free
      BY <1>2, <1>3, <2>7 DEF DetectEntry
    <3>2. Ranked'
      BY <1>1, <2>4, <2>6, <2>7, <3>1 DEF Ranked, Bytes, GivenBytes
    <3> QED
      BY <1>1, <1>7, <3>1, <3>2 DEF Unused
  <2>8. CASE b + z > LOMEM
    <3>1. PICK c \in Region : c = Clipped(m) /\ \A x : x \in Bytes(c) <=> x \in Bytes(m) /\ x >= LOMEM
      BY <1>3, <2>8, ClippedFacts
    <3>2. c.size # 0
      <4>1. z # 0
        BY <1>3, <1>9 DEF Usable
      <4>2. c.size = IF b < LOMEM THEN z - (LOMEM - b) ELSE z
        BY <1>3, <3>1 DEF Clipped
      <4> QED
        BY <2>8, <4>1, <4>2, BootAssumption
    <3>3. mem_free' = Append(mem_free, c)
      BY <1>2, <1>3, <1>9, <2>8, <3>1 DEF DetectEntry
    <3>4. /\ DOMAIN mem_free' = DOMAIN mem_free \cup {k + 1} /\ DOMAIN mem_free = 1..k
          /\ \A x \in DOMAIN mem_free : mem_free'[x] = mem_free[x]
          /\ mem_free'[k + 1] = c /\ Len(mem_free') = k + 1
      BY <1>1, <1>6, <3>3
    <3>5. Above' = Above \cup {L + 1}
      BY <2>4, <2>8
    <3>6. IsFiniteSet(Above') /\ Cardinality(Above') = k + 1
      <4>1. PICK S : S = Above /\ IsFiniteSet(S) /\ Cardinality(S) = k /\ L + 1 \notin S
        BY <1>6, <2>3 DEF Ranked
      <4>2. IsFiniteSet(S \cup {L + 1}) /\ Cardinality(S \cup {L + 1}) = k + 1
        BY <4>1, FS_AddElement
      <4> QED
        BY <3>5, <4>1, <4>2
    <3>7. UpTo(L + 1)' = Above'
      <4>1. \A y \in Above' : y <= L + 1
        BY <1>6, <2>3, <3>5
      <4>2. UpTo(L + 1)' = {y \in Above' : y <= L + 1}
        BY DEF UpTo
      <4> QED
        BY <4>1, <4>2
    <3>8. Place(L + 1)' = k + 1
      BY <3>6, <3>7 DEF Place
    <3>9. \A x : x \in Bytes(g) <=> x \in Bytes(m)
      BY <1>4 DEF Bytes
    <3>10. \A q \in DOMAIN mem_free' : \E x \in Above' : Place(x)' = q
      BY <2>6, <3>4, <3>5, <3>8 DEF Ranked
    <3>11. ASSUME NEW x \in Above'
           PROVE  /\ Place(x)' \in DOMAIN mem_free'
                  /\ Bytes(mem_free'[Place(x)']) \subseteq Bytes(mem_map'[x])
                  /\ \A a \in Bytes(mem_map'[x]) : a >= LOMEM =>
                       a \in Bytes(mem_free'[Place(x)']) \/ a \in GivenBytes'
      <4>1. CASE x = L + 1
        BY <2>2, <3>1, <3>4, <3>8, <3>9, <4>1
      <4>2. CASE x \in Above
        <5>1. /\ Place(x) \in DOMAIN mem_free
              /\ Bytes(mem_free[Place(x)]) \subseteq Bytes(mem_map[x])
              /\ \A a \in Bytes(mem_map[x]) : a >= LOMEM =>
                   a \in Bytes(mem_free[Place(x)]) \/ a \in GivenBytes
          BY <4>2 DEF Ranked
        <5>2. GivenBytes' = GivenBytes
          BY <1>1 DEF GivenBytes
        <5> QED
          BY <2>6, <3>4, <4>2, <5>1, <5>2
      <4> QED
        BY <3>5, <4>1, <4>2
    <3>12. Ranked'
      BY <3>4, <3>6, <3>10, <3>11 DEF Ranked, Bytes
    <3>13. \A q \in DOMAIN mem_free' : mem_free'[q].size # 0
      BY <1>7, <3>2, <3>4
    <3> QED
      BY <1>1, <3>12, <3>13 DEF Unused
  <2> QED
    BY <2>7, <2>8
<1> QED
  BY <1>8, <1>9

\* A page that is handed out leaves its region at its place (alloc.c:24-27).
LEMMA TakeRanks ==
  ASSUME MemInv, WholePages, Ranked, NEW p, alloc_page_hi(p), mem_map' = mem_map
  PROVE  Ranked'
<1>1. PICK r \in DOMAIN mem_free :
        /\ mem_free[r].size # 0 /\ p = mem_free[r].base \div PAGE
        /\ mem_free' = Take(r) /\ given' = given \cup {p}
  BY DEF alloc_page_hi, First
<1>2. mem_free \in Seq(Region) /\ Regions
  BY DEF MemInv, Lists
<1>3. PICK reg \in Region : reg = mem_free[r] /\ Whole(reg) /\ reg.size # 0
  BY <1>1, <1>2 DEF Regions
<1>4. PICK new : new = [base |-> reg.base + PAGE, size |-> (reg.size - PAGE) % WRAP]
  OBVIOUS
<1>5. /\ DOMAIN mem_free' = DOMAIN mem_free /\ Len(mem_free') = Len(mem_free)
      /\ mem_free'[r] = new
      /\ \A q \in DOMAIN mem_free : q # r => mem_free'[q] = mem_free[q]
  BY <1>1, <1>2, <1>3, <1>4 DEF Take
<1>6. PICK PB : PB = (p * PAGE)..(p * PAGE + PAGE - 1)
  OBVIOUS
<1>7. \A x : x \in Bytes(reg) <=> x \in Bytes(new) \/ x \in PB
  <2>1. p = reg.base \div PAGE
    BY <1>1, <1>3
  <2> QED
    BY <1>3, <1>4, <1>6, <2>1, TakeFacts, Zenon
<1>8. \A x : x \in GivenBytes \/ x \in PB => x \in GivenBytes'
  BY <1>1, <1>6 DEF GivenBytes
<1>9. Above' = Above /\ \A x : Place(x)' = Place(x)
  BY PlacesKept
<1>10. ASSUME NEW x \in Above
       PROVE  /\ Bytes(mem_free'[Place(x)]) \subseteq Bytes(mem_map[x])
              /\ \A a \in Bytes(mem_map[x]) : a >= LOMEM =>
                   a \in Bytes(mem_free'[Place(x)]) \/ a \in GivenBytes'
  <2>1. PICK q \in DOMAIN mem_free : q = Place(x)
    BY <1>10 DEF Ranked
  <2>2. /\ Bytes(mem_free[q]) \subseteq Bytes(mem_map[x])
        /\ \A a \in Bytes(mem_map[x]) : a >= LOMEM =>
             a \in Bytes(mem_free[q]) \/ a \in GivenBytes
    BY <1>10, <2>1 DEF Ranked
  <2>3. \A a : /\ a \in Bytes(mem_free'[q]) => a \in Bytes(mem_free[q])
               /\ a \in Bytes(mem_free[q]) => a \in Bytes(mem_free'[q]) \/ a \in PB
    <3>1. CASE q = r
      BY <1>3, <1>5, <1>7, <3>1, Zenon
    <3>2. CASE q # r
      BY <1>5, <3>2, Zenon
    <3> QED
      BY <3>1, <3>2
  <2> QED
    BY <1>8, <2>1, <2>2, <2>3
<1> QED
  BY <1>5, <1>9, <1>10 DEF Ranked, Bytes
----------------------------------------------------------------------------
(* What the memory suffices for: the pages the image takes *)

\* A table is named by its level and by the part of the page numbers under it
\* that leads to it, a page of the image by its number; the name of what an entry
\* points to follows from the entry.
Prefix(v, l) == IF l = 0 THEN 0 ELSE v \div Span(l - 1)
Under(k, x)  == <<k[1] + 1, k[2] * F + x>>

\* The pages mapped so far, and the names there are for them and their tables.
Mapped ==
  {v \in Nat : \/ \E x \in DOMAIN img : x < s /\ v \in Pages(<<img[x]>>)
               \/ FirstPage <= v /\ v < FirstPage + n}
Names(vs) == {<<0, 0>>} \cup TablesNeeded \cup ({4} \X vs)

\* Every page handed out has a name of its own, that of the one entry that
\* points to it: none is taken for anything but what the image needs.
Named(key) ==
  /\ key \in [given -> Nat \X Nat] /\ key[root] = <<0, 0>>
  /\ \A p, q \in given : key[p] = key[q] => p = q
  /\ \A p \in given : key[p] \in Names(Mapped)
  /\ \A t \in DOMAIN tab \cap given : \A x \in Slots :
       tab[t][x] # NONE /\ ~(t = root /\ x = 0) =>
         tab[t][x] \in given /\ key[tab[t][x]] = Under(key[t], x)
  /\ \A p \in given \ {root} : \E t \in DOMAIN tab \cap given : \E x \in Slots :
       tab[t][x] = p /\ key[p] = Under(key[t], x)

\* map_single is at the table whose name leads to its page.
AtName(key) == pc = "valloc" /\ n < NPages => key[at] = <<lvl, Prefix(VPage, lvl)>>

\* Entries of the same name are the same entry.
LEMMA UnderTells ==
  ASSUME NEW a \in Nat \X Nat, NEW b \in Nat \X Nat, NEW x \in Slots, NEW y \in Slots,
         Under(a, x) = Under(b, y)
  PROVE  a = b /\ x = y
<1>1. PICK k \in Nat, q \in Nat : a = <<k, q>>
  OBVIOUS
<1>2. PICK h \in Nat, r \in Nat : b = <<h, r>>
  OBVIOUS
<1>3. k + 1 = h + 1 /\ q * F + x = r * F + y
  BY <1>1, <1>2 DEF Under
<1>4. x \in Nat /\ x < F /\ y \in Nat /\ y < F
  BY Sizes DEF Slots
<1>5. q = r
  <2>1. ASSUME NEW c \in Nat, NEW d \in Nat, NEW u \in Nat, NEW v \in Nat, u < F,
               c * F + u = d * F + v
        PROVE  ~(c < d)
    <3> SUFFICES ASSUME c < d PROVE FALSE
      OBVIOUS
    <3>1. (c + 1) * F <= d * F /\ (c + 1) * F = c * F + F /\ c * F \in Int /\ d * F \in Int
      <4>1. c + 1 <= d
        OBVIOUS
      <4>2. (c + 1) * F <= d * F
        BY <4>1, Times, Sizes
      <4> QED
        BY <4>2, Times, Sizes
    <3>2. PICK e1 \in Int, e2 \in Int, fs \in Nat : e1 = c * F /\ e2 = d * F /\ fs = F
      BY <3>1, Sizes
    <3> QED
      BY <2>1, <3>1, <3>2
  <2>2. ~(q < r) /\ ~(r < q)
    BY <1>3, <1>4, <2>1
  <2> QED
    BY <2>2
<1>6. x = y
  <2>1. PICK e1 \in Int : e1 = q * F
    BY Times, Sizes
  <2> QED
    BY <1>3, <1>4, <1>5, <2>1
<1> QED
  BY <1>1, <1>2, <1>3, <1>5, <1>6

\* A number is its quotient and its rest.
LEMMA Recombined ==
  ASSUME NEW c \in Nat, NEW P \in Nat \ {0}
  PROVE  (c \div P) * P + (c % P) = c
<1>1. PICK q \in Nat, r \in Nat : q = c \div P /\ r = c % P /\ c = q * P + r
  BY Division
<1>2. q = c \div P /\ r = c % P
  BY <1>1
<1>3. (c \div P) * P + (c % P) = q * P + r
  BY <1>2
<1> QED
  BY <1>1, <1>3, Zenon

\* The name of an entry.
LEMMA UnderPair ==
  ASSUME NEW k, NEW q, NEW x
  PROVE  Under(<<k, q>>, x) = <<k + 1, q * F + x>>
  BY DEF Under

\* The name of the entry on the way of a page leads to the page (decompose_addr,
\* alloc.c:35-41).
LEMMA NameOnTheWay ==
  ASSUME NEW v, High(v), NEW l \in 0..3
  PROVE  /\ Under(<<l, Prefix(v, l)>>, Index(v, l)) = <<l + 1, Prefix(v, l + 1)>>
         /\ l = 3 => Prefix(v, l + 1) = v
         /\ Prefix(v, l) \in Nat
<1>1. v \in Nat /\ Index(v, 0) = v \div Span(0)
  BY TopIndex DEF High
<1>2. PICK a, b, c \in Nat :
        /\ c = v \div F /\ b = c \div F /\ a = b \div F
        /\ Index(v, 3) = v % F /\ Index(v, 2) = c % F /\ Index(v, 1) = b % F
        /\ b = v \div (F * F) /\ a = v \div (F * F * F)
  BY <1>1, Indexes
<1>3. v \div 1 = v
  BY <1>1, Z3
<1>4. /\ Prefix(v, 0) = 0 /\ Prefix(v, 1) = a /\ Prefix(v, 2) = b /\ Prefix(v, 3) = c
      /\ Prefix(v, 4) = v /\ Index(v, 0) = a
  BY <1>1, <1>2, <1>3, Spans DEF Prefix
<1>5. a * F + (b % F) = b /\ b * F + (c % F) = c /\ c * F + (v % F) = v
  BY <1>1, <1>2, Sizes, Recombined
<1>6. 0 * F + a = a
  BY Sizes
<1>7. /\ Under(<<0, Prefix(v, 0)>>, Index(v, 0)) = <<0 + 1, Prefix(v, 1)>>
      /\ Under(<<1, Prefix(v, 1)>>, Index(v, 1)) = <<1 + 1, Prefix(v, 2)>>
      /\ Under(<<2, Prefix(v, 2)>>, Index(v, 2)) = <<2 + 1, Prefix(v, 3)>>
      /\ Under(<<3, Prefix(v, 3)>>, Index(v, 3)) = <<3 + 1, Prefix(v, 4)>>
  <2>1. Under(<<0, 0>>, a) = <<0 + 1, 0 * F + a>> /\ Under(<<1, a>>, b % F) = <<1 + 1, a * F + (b % F)>>
    BY UnderPair
  <2>2. /\ Under(<<2, b>>, c % F) = <<2 + 1, b * F + (c % F)>>
        /\ Under(<<3, c>>, v % F) = <<3 + 1, c * F + (v % F)>>
    BY UnderPair
  <2> QED
    BY <1>2, <1>4, <1>5, <1>6, <2>1, <2>2, Zenon
<1>8. 0 + 1 = 1 /\ 1 + 1 = 2 /\ 2 + 1 = 3 /\ 3 + 1 = 4
  OBVIOUS
<1>9. l = 0 \/ l = 1 \/ l = 2 \/ l = 3
  OBVIOUS
<1> QED
  BY <1>1, <1>4, <1>7, <1>8, <1>9

\* An entry that is empty has a name that no page handed out has.
LEMMA FreeName ==
  ASSUME NEW key, Named(key), NONE \notin given, NEW t \in DOMAIN tab \cap given,
         NEW x \in Slots, tab[t][x] = NONE, NEW p \in given
  PROVE  key[p] # Under(key[t], x)
<1> SUFFICES ASSUME key[p] = Under(key[t], x) PROVE FALSE
  OBVIOUS
<1>1. key \in [given -> Nat \X Nat] /\ key[root] = <<0, 0>>
  BY DEF Named
<1>2. p # root
  <2>1. PICK k \in Nat, q \in Nat : key[t] = <<k, q>>
    BY <1>1
  <2>2. Under(key[t], x)[1] = k + 1
    BY <2>1 DEF Under
  <2> QED
    BY <1>1, <2>2
<1>3. PICK u \in DOMAIN tab \cap given, y \in Slots : tab[u][y] = p /\ key[p] = Under(key[u], y)
  BY <1>2 DEF Named
<1>4. key[t] = key[u] /\ x = y
  <2>1. PICK a \in Nat \X Nat, b \in Nat \X Nat : a = key[t] /\ b = key[u]
    BY <1>1, <1>3
  <2>2. Under(a, x) = Under(b, y)
    BY <1>3, <2>1
  <2>3. a = b /\ x = y
    BY <2>2, UnderTells
  <2> QED
    BY <2>1, <2>3
<1>5. t = u
  BY <1>4 DEF Named
<1> QED
  BY <1>3, <1>4, <1>5

\* What has been mapped are pages of the image, the page asked for one more.
LEMMA MappedPages ==
  ASSUME MapTypes, Progress, pc \in Loading
  PROVE  /\ Mapped \subseteq Pages(img)
         /\ pc = "valloc" /\ n < NPages => VPage \in Pages(img)
         /\ pc = "valloc" /\ n < NPages /\ SegmentsApart => VPage \notin Mapped
<1>1. img \in Images /\ s \in DOMAIN img /\ n \in 0..NPages /\ img \in Seq(Segment)
  BY BootAssumption DEF MapTypes, Progress, Loading, Segment
<1>2. \A x \in DOMAIN img : Pages(<<img[x]>>) \subseteq Pages(img)
  BY DEF Pages
<1>3. PICK f, k \in Nat :
        /\ f = FirstPage /\ k = NPages
        /\ \A v : v \in Pages(<<img[s]>>) <=> v \in Nat /\ f <= v /\ v < f + k
  BY <1>1, SegmentPages DEF FirstPage, NPages
<1>4. n \in Nat /\ n <= k
  BY <1>1, <1>3
<1>5. ASSUME NEW v \in Mapped PROVE v \in Pages(img)
  <2>1. CASE \E x \in DOMAIN img : x < s /\ v \in Pages(<<img[x]>>)
    BY <1>2, <2>1
  <2>2. CASE v \in Nat /\ f <= v /\ v < f + n
    BY <1>1, <1>2, <1>3, <1>4, <2>2
  <2> QED
    BY <1>3, <2>1, <2>2 DEF Mapped
<1>6. ASSUME pc = "valloc", n < NPages
      PROVE  VPage \in Pages(<<img[s]>>) /\ VPage = FirstPage + n
  BY <1>6, TheWay
<1>7. ASSUME pc = "valloc", n < NPages, SegmentsApart, VPage \in Mapped PROVE FALSE
  <2>1. ~(VPage < f + n)
    BY <1>3, <1>4, <1>6, <1>7
  <2>2. PICK x \in DOMAIN img : x < s /\ VPage \in Pages(<<img[x]>>)
    BY <1>3, <1>7, <2>1 DEF Mapped
  <2>3. x # s
    BY <1>1, <2>2
  <2> QED
    BY <1>1, <1>6, <1>7, <2>2, <2>3 DEF SegmentsApart
<1> QED
  BY <1>1, <1>2, <1>5, <1>6, <1>7

\* There is a name for the place the walk comes to next.
LEMMA NextName ==
  ASSUME MapTypes, Progress, pc = "valloc", n < NPages, lvl \in 0..3
  PROVE  <<lvl + 1, Prefix(VPage, lvl + 1)>> \in Names({VPage})
<1>1. PICK w : w = VPage /\ High(w) /\ w \in Pages(img)
  BY TheWay, MappedPages DEF Loading
<1>2. CASE lvl = 3
  <2>1. Prefix(w, lvl + 1) = w
    BY <1>1, <1>2, NameOnTheWay
  <2> QED
    BY <1>1, <1>2, <2>1 DEF Names
<1>3. CASE lvl < 3
  <2>1. lvl + 1 \in 1..3 /\ lvl + 1 # 0
    BY <1>3
  <2>2. <<lvl + 1, w \div Span(lvl + 1 - 1)>> \in TablesNeeded
    BY <1>1, <2>1 DEF TablesNeeded
  <2> QED
    BY <1>1, <2>1, <2>2 DEF Names, Prefix
<1> QED
  BY <1>2, <1>3

\* A page that is entered at the table the walk is at gets the name of the entry.
LEMMA EntryNamed ==
  ASSUME NEW key, Named(key), at \in DOMAIN tab \cap given, root \in DOMAIN tab \cap given,
         NONE \notin given, NEW x \in Slots, tab[at][x] = NONE, ~(at = root /\ x = 0),
         NEW p, p \notin given, p \notin DOMAIN tab, Entered(x, p),
         given' = given \cup {p}, root' = root, img' = img,
         DOMAIN tab \subseteq DOMAIN tab', DOMAIN tab' \subseteq DOMAIN tab \cup {p},
         p \in DOMAIN tab' => \A y \in Slots : tab'[p][y] = NONE,
         Mapped \subseteq Mapped', Under(key[at], x) \in Names(Mapped)',
         NEW new, new = [q \in given \cup {p} |-> IF q = p THEN Under(key[at], x) ELSE key[q]]
  PROVE  Named(new)'
<1>1. key \in [given -> Nat \X Nat] /\ key[root] = <<0, 0>>
  BY DEF Named
<1>2. new[p] = Under(key[at], x) /\ \A q \in given : new[q] = key[q]
  OBVIOUS
<1>3. new \in [given' -> Nat \X Nat]
  <2>1. PICK a \in Nat, b \in Nat : key[at] = <<a, b>>
    BY <1>1
  <2>2. x \in Nat /\ F \in Nat
    BY Sizes DEF Slots
  <2>3. a + 1 \in Nat /\ b * F + x \in Nat
    <3>1. b * F \in Nat
      BY <2>2, Z3
    <3> QED
      BY <2>2, <3>1
  <2>4. Under(key[at], x) \in Nat \X Nat
    BY <2>1, <2>3, UnderPair
  <2> QED
    BY <1>1, <2>4
<1>4. new[root] = <<0, 0>>
  BY <1>1, <1>2
<1>5. ASSUME NEW q \in given', NEW r \in given', new[q] = new[r] PROVE q = r
  <2>1. \A u \in given : key[u] # Under(key[at], x)
    BY FreeName
  <2>2. \A u, v \in given : key[u] = key[v] => u = v
    BY DEF Named
  <2> QED
    BY <1>2, <1>5, <2>1, <2>2
<1>6. ASSUME NEW q \in given' PROVE new[q] \in Names(Mapped)'
  <2>1. TablesNeeded' = TablesNeeded
    BY DEF TablesNeeded, Pages
  <2>2. \A k \in Names(Mapped) : k \in Names(Mapped)'
    BY <2>1 DEF Names
  <2>3. \A u \in given : key[u] \in Names(Mapped)
    BY DEF Named
  <2> QED
    BY <1>2, <2>2, <2>3
<1>7. \A t \in DOMAIN tab \cap given : \A y \in Slots :
        tab'[t][y] = IF t = at /\ y = x THEN p ELSE tab[t][y]
  BY DEF Entered
<1>8. ASSUME NEW t \in DOMAIN tab' \cap given', NEW y \in Slots, tab'[t][y] # NONE,
             ~(t = root /\ y = 0)
      PROVE  tab'[t][y] \in given' /\ new[tab'[t][y]] = Under(new[t], y)
  <2>1. t \in DOMAIN tab \cap given
    BY <1>8
  <2>2. CASE t = at /\ y = x
    <3>1. tab'[t][y] = p /\ new[t] = key[at]
      BY <1>2, <1>7, <2>1, <2>2
    <3> QED
      BY <1>2, <2>2, <3>1
  <2>3. CASE ~(t = at /\ y = x)
    <3>1. tab'[t][y] = tab[t][y]
      BY <1>7, <2>1, <2>3
    <3>2. tab[t][y] \in given /\ key[tab[t][y]] = Under(key[t], y)
      BY <1>8, <2>1, <3>1 DEF Named
    <3> QED
      BY <1>2, <2>1, <3>1, <3>2
  <2> QED
    BY <2>2, <2>3
<1>9. ASSUME NEW q \in given' \ {root}
      PROVE  \E t \in DOMAIN tab' \cap given' : \E y \in Slots :
               tab'[t][y] = q /\ new[q] = Under(new[t], y)
  <2>1. \A t \in DOMAIN tab \cap given : t \in DOMAIN tab' \cap given' /\ new[t] = key[t]
    BY <1>2
  <2>2. CASE q = p
    <3>1. tab'[at][x] = p
      BY <1>7
    <3> QED
      BY <1>2, <2>1, <2>2, <3>1
  <2>3. CASE q \in given
    <3>1. PICK t \in DOMAIN tab \cap given, y \in Slots : tab[t][y] = q /\ key[q] = Under(key[t], y)
      BY <1>9, <2>3 DEF Named
    <3>2. tab'[t][y] = q
      BY <1>7, <2>3, <3>1
    <3> QED
      BY <1>2, <2>1, <2>3, <3>1, <3>2
  <2> QED
    BY <2>2, <2>3
<1>10. /\ new \in [given' -> Nat \X Nat] /\ new[root'] = <<0, 0>>
       /\ \A q, r \in given' : new[q] = new[r] => q = r
       /\ \A q \in given' : new[q] \in Names(Mapped)'
  BY <1>3, <1>4, <1>5, <1>6
<1>11. \A t \in DOMAIN tab' \cap given' : \A y \in Slots :
         tab'[t][y] # NONE /\ ~(t = root' /\ y = 0) =>
           tab'[t][y] \in given' /\ new[tab'[t][y]] = Under(new[t], y)
  BY <1>8
<1>12. \A q \in given' \ {root'} : \E t \in DOMAIN tab' \cap given' : \E y \in Slots :
         tab'[t][y] = q /\ new[q] = Under(new[t], y)
  BY <1>9
<1> QED
  BY <1>10, <1>11, <1>12, Zenon DEF Named

\* While the image is loaded every page handed out has a name of its own.
Needed == SegmentsApart /\ pc \in Loading => \E key : Named(key) /\ AtName(key)

\* When the image comes only the table for CR3 has been taken (memory.c:76-90).
LEMMA NamesBegin ==
  ASSUME MemInv, MapInv, WholePages, IdentityDone
  PROVE  Needed'
<1>1. /\ pc = "identity" /\ i = IDENT /\ pc' = "valloc" /\ lvl' = 0 /\ at' = root
      /\ UNCHANGED <<tab, root, given>>
  BY DEF IdentityDone
<1>2. Building
  BY DEF MapInv
<1>3. /\ j = 0 /\ i # 0 /\ lo = LOPAGE + 1 + IDENT /\ lo # LOPAGE
      /\ given = {root} /\ DOMAIN tab = {root} \cup LowPages
      /\ \A x \in Slots : tab[root][x] = IF x = 0 THEN LOPAGE ELSE NONE
  BY <1>1, <1>2, Sizes DEF Building, LowPages
<1>4. root \notin LowPages
  BY <1>3, GivenAbove
<1>5. PICK key : key = [q \in {root} |-> <<0, 0>>]
  OBVIOUS
<1>6. key \in [given' -> Nat \X Nat] /\ key[root] = <<0, 0>>
  BY <1>1, <1>3, <1>5
<1>7. <<0, 0>> \in Names(Mapped)'
  BY DEF Names
<1>8. Named(key)'
  BY <1>1, <1>3, <1>4, <1>6, <1>7 DEF Named
<1>9. AtName(key)'
  <2>1. Prefix(VPage, lvl)' = 0
    BY <1>1 DEF Prefix
  <2> QED
    BY <1>1, <1>6, <2>1 DEF AtName
<1> QED
  BY <1>8, <1>9 DEF Needed

\* The walk down follows the names (alloc.c:51, 58, 65).
LEMMA NamesWalked ==
  ASSUME MemInv, MapInv, WholePages, Needed, WalkDown
  PROVE  Needed'
<1>1. /\ pc = "valloc" /\ pc' = pc /\ n < NPages /\ lvl < 3
      /\ tab[at][Index(VPage, lvl)] # NONE
      /\ at' = tab[at][Index(VPage, lvl)] /\ lvl' = lvl + 1
      /\ UNCHANGED <<tab, root, given, img, s, n>>
  BY DEF WalkDown
<1> SUFFICES ASSUME SegmentsApart PROVE Needed'
  BY <1>1 DEF Needed, SegmentsApart
<1>2. PICK key : Named(key) /\ AtName(key)
  BY <1>1 DEF Needed, Loading
<1>3. PICK w : w = VPage /\ High(w)
  BY <1>1, AtNode
<1>4. /\ at \in DOMAIN tab \cap given /\ lvl \in 0..3
      /\ (at = root => Index(w, lvl) # 0) /\ Index(w, lvl) \in Slots
  BY <1>1, <1>3, AtNode
<1>5. key[at'] = Under(key[at], Index(w, lvl))
  BY <1>1, <1>2, <1>3, <1>4 DEF Named
<1>6. key[at] = <<lvl, Prefix(w, lvl)>>
  BY <1>1, <1>2, <1>3 DEF AtName
<1>7. key[at'] = <<lvl + 1, Prefix(w, lvl + 1)>>
  BY <1>3, <1>4, <1>5, <1>6, NameOnTheWay
<1>8. VPage' = w /\ Mapped' = Mapped
  BY <1>1, <1>3 DEF VPage, FirstPage, Mapped
<1>9. AtName(key)'
  BY <1>1, <1>7, <1>8 DEF AtName, Prefix
<1>10. Named(key)'
  BY <1>1, <1>2, <1>8 DEF Named, Names, TablesNeeded
<1> QED
  BY <1>9, <1>10 DEF Needed

\* A table that is made gets the name of its place on the way (alloc.c:51-71).
LEMMA NamesTable ==
  ASSUME MemInv, MapInv, WholePages, Needed, NewTable, ~Crash
  PROVE  Needed'
<1>1. PICK p :
        /\ pc = "valloc" /\ pc' = pc /\ n < NPages /\ lvl < 3
        /\ tab[at][Index(VPage, lvl)] = NONE
        /\ alloc_page_hi(p) /\ given' = given \cup {p}
        /\ tab' = Linked(at, Index(VPage, lvl), p) /\ at' = p /\ lvl' = lvl + 1
        /\ UNCHANGED <<root, img, s, n>>
  BY DEF NewTable, alloc_page_hi
<1> SUFFICES ASSUME SegmentsApart PROVE Needed'
  BY <1>1 DEF Needed, SegmentsApart
<1>2. MapTypes /\ Progress /\ Identity /\ pc \in Loading
  BY <1>1 DEF MapInv, Loading
<1>3. PICK key : Named(key) /\ AtName(key)
  BY <1>1, <1>2 DEF Needed
<1>4. PICK w : w = VPage /\ High(w)
  BY <1>1, AtNode
<1>5. /\ p \notin given /\ p \notin DOMAIN tab
      /\ root \in DOMAIN tab \cap given /\ NONE \notin given
  BY <1>1, <1>2, FreshPage, AtNode DEF Identity
<1>6. /\ at \in DOMAIN tab \cap given /\ lvl \in 0..3
      /\ (at = root => Index(w, lvl) # 0) /\ Index(w, lvl) \in Slots
  BY <1>1, <1>4, AtNode
<1>7. PICK x \in Slots : x = Index(w, lvl)
  BY <1>6
<1>8. tab' = Linked(at, x, p)
  BY <1>1, <1>4, <1>7
<1>9. DOMAIN tab' = DOMAIN tab \cup {p} /\ tab'[p] = EmptyTable
  BY <1>8 DEF Linked
<1>10. Entered(x, p)
  <2>1. /\ \A t \in DOMAIN tab : tab'[t] = IF t = at THEN [tab[at] EXCEPT ![x] = p] ELSE tab[t]
        /\ tab[at] \in Tables
    BY <1>2, <1>5, <1>6, <1>8 DEF Linked, MapTypes
  <2>2. \A y \in Slots : [tab[at] EXCEPT ![x] = p][y] = IF y = x THEN p ELSE tab[at][y]
    BY <2>1 DEF Tables
  <2> QED
    BY <2>1, <2>2 DEF Entered
<1>11. \A y \in Slots : tab'[p][y] = NONE
  BY <1>9, EmptyFacts
<1>12. VPage' = w /\ Mapped' = Mapped
  BY <1>1, <1>4 DEF VPage, FirstPage, Mapped
<1>13. key[at] = <<lvl, Prefix(w, lvl)>>
  BY <1>1, <1>3, <1>4 DEF AtName
<1>14. Under(key[at], x) = <<lvl + 1, Prefix(w, lvl + 1)>>
  BY <1>4, <1>6, <1>7, <1>13, NameOnTheWay
<1>15. Under(key[at], x) \in Names(Mapped)'
  <2>1. <<lvl + 1, Prefix(w, lvl + 1)>> \in Names({w})
    BY <1>1, <1>2, <1>4, <1>6, NextName
  <2>2. <<lvl + 1, Prefix(w, lvl + 1)>> \notin {4} \X {w}
    BY <1>1, <1>6
  <2>3. TablesNeeded' = TablesNeeded
    BY <1>1 DEF TablesNeeded, Pages
  <2> QED
    BY <1>14, <2>1, <2>2, <2>3 DEF Names
<1>16. PICK new : new = [q \in given \cup {p} |-> IF q = p THEN Under(key[at], x) ELSE key[q]]
  OBVIOUS
<1>17. Named(new)'
  <2>1. tab[at][x] = NONE /\ ~(at = root /\ x = 0)
    BY <1>1, <1>4, <1>6, <1>7
  <2>2. /\ DOMAIN tab \subseteq DOMAIN tab' /\ DOMAIN tab' \subseteq DOMAIN tab \cup {p}
        /\ Mapped \subseteq Mapped' /\ root' = root /\ img' = img /\ given' = given \cup {p}
    BY <1>1, <1>9, <1>12
  <2> QED
    BY <1>3, <1>5, <1>6, <1>10, <1>11, <1>15, <1>16, <2>1, <2>2, EntryNamed
<1>18. AtName(new)'
  <2>1. new[p] = <<lvl + 1, Prefix(w, lvl + 1)>>
    BY <1>14, <1>16
  <2> QED
    BY <1>1, <1>12, <2>1 DEF AtName, Prefix
<1> QED
  BY <1>17, <1>18 DEF Needed

\* The entry of a page that is asked for is empty: no other page of the image is
\* there (alloc.c:72-74).
LEMMA EntryEmpty ==
  ASSUME MemInv, MapInv, WholePages, SegmentsApart, pc = "valloc", n < NPages, lvl = 3,
         NEW key, Named(key), AtName(key)
  PROVE  tab[at][Index(VPage, 3)] = NONE /\ Under(key[at], Index(VPage, 3)) = <<4, VPage>>
<1>1. MapTypes /\ Progress /\ pc \in Loading
  BY DEF MapInv, Loading
<1>2. PICK w \in Nat : w = VPage /\ High(w)
  BY AtNode DEF High
<1>3. at \in DOMAIN tab \cap given /\ (at = root => Index(w, 3) # 0) /\ Index(w, 3) \in Slots
  BY <1>2, AtNode
<1>4. PICK x \in Slots : x = Index(w, 3)
  BY <1>3
<1>5. key[at] = <<3, Prefix(w, 3)>>
  BY <1>2 DEF AtName
<1>6. Under(key[at], x) = <<4, w>>
  <2>1. PICK l \in 0..3 : l = 3 /\ l + 1 = 4
    OBVIOUS
  <2>2. Under(<<l, Prefix(w, l)>>, Index(w, l)) = <<l + 1, Prefix(w, l + 1)>> /\ Prefix(w, l + 1) = w
    BY <1>2, <2>1, NameOnTheWay
  <2> QED
    BY <1>4, <1>5, <2>1, <2>2
<1>7. tab[at][x] = NONE
  <2> SUFFICES ASSUME tab[at][x] # NONE PROVE FALSE
    OBVIOUS
  <2>1. tab[at][x] \in given /\ key[tab[at][x]] = <<4, w>>
    BY <1>3, <1>4, <1>6 DEF Named
  <2>2. <<4, w>> \in Names(Mapped)
    BY <2>1 DEF Named
  <2>3. <<4, w>> \notin TablesNeeded
    BY DEF TablesNeeded
  <2>4. w \in Mapped
    BY <2>2, <2>3 DEF Names
  <2> QED
    BY <1>1, <1>2, <2>4, MappedPages
<1> QED
  BY <1>2, <1>4, <1>6, <1>7

\* A page that is mapped gets its own number as its name (alloc.c:72-74).
LEMMA NamesPage ==
  ASSUME MemInv, MapInv, WholePages, Needed, MapPage, ~Crash
  PROVE  Needed'
<1>1. PICK p :
        /\ pc = "valloc" /\ pc' = pc /\ n < NPages /\ lvl = 3
        /\ alloc_page_hi(p) /\ given' = given \cup {p}
        /\ tab' = [tab EXCEPT ![at][Index(VPage, 3)] = p]
        /\ n' = n + 1 /\ lvl' = 0 /\ at' = root
        /\ UNCHANGED <<root, img, s>>
  BY DEF MapPage, alloc_page_hi
<1> SUFFICES ASSUME SegmentsApart PROVE Needed'
  BY <1>1 DEF Needed, SegmentsApart
<1>2. MapTypes /\ Progress /\ Identity /\ pc \in Loading
  BY <1>1 DEF MapInv, Loading
<1>3. PICK key : Named(key) /\ AtName(key)
  BY <1>1, <1>2 DEF Needed
<1>4. PICK w \in Nat : w = VPage /\ High(w) /\ w = FirstPage + n
  BY <1>1, <1>2, TheWay DEF High
<1>5. /\ p \notin given /\ p \notin DOMAIN tab
      /\ root \in DOMAIN tab \cap given /\ NONE \notin given
  BY <1>1, <1>2, FreshPage, AtNode DEF Identity
<1>6. /\ at \in DOMAIN tab \cap given
      /\ (at = root => Index(w, 3) # 0) /\ Index(w, 3) \in Slots
  BY <1>1, <1>4, AtNode
<1>7. PICK x \in Slots : x = Index(w, 3)
  BY <1>6
<1>8. tab' = [tab EXCEPT ![at] = [tab[at] EXCEPT ![x] = p]] /\ DOMAIN tab' = DOMAIN tab
  BY <1>1, <1>4, <1>7
<1>9. Entered(x, p)
  <2>1. /\ \A t \in DOMAIN tab : tab'[t] = IF t = at THEN [tab[at] EXCEPT ![x] = p] ELSE tab[t]
        /\ tab[at] \in Tables
    BY <1>2, <1>6, <1>8 DEF MapTypes
  <2>2. \A y \in Slots : [tab[at] EXCEPT ![x] = p][y] = IF y = x THEN p ELSE tab[at][y]
    BY <2>1 DEF Tables
  <2> QED
    BY <2>1, <2>2 DEF Entered
<1>10. tab[at][x] = NONE /\ Under(key[at], x) = <<4, w>>
  BY <1>1, <1>3, <1>4, <1>7, EntryEmpty
<1>11. Mapped \subseteq Mapped' /\ w \in Mapped'
  <2>1. n \in Nat /\ FirstPage \in Nat /\ FirstPage' = FirstPage
    BY <1>1, <1>2, TheWay DEF FirstPage
  <2> QED
    BY <1>1, <1>4, <2>1 DEF Mapped
<1>12. Under(key[at], x) \in Names(Mapped)'
  BY <1>10, <1>11 DEF Names
<1>13. PICK new : new = [q \in given \cup {p} |-> IF q = p THEN Under(key[at], x) ELSE key[q]]
  OBVIOUS
<1>14. Named(new)'
  <2>1. ~(at = root /\ x = 0)
    BY <1>6, <1>7
  <2>2. /\ DOMAIN tab \subseteq DOMAIN tab' /\ DOMAIN tab' \subseteq DOMAIN tab \cup {p}
        /\ p \notin DOMAIN tab' /\ root' = root /\ img' = img /\ given' = given \cup {p}
    BY <1>1, <1>5, <1>8
  <2> QED
    BY <1>3, <1>5, <1>6, <1>9, <1>10, <1>11, <1>12, <1>13, <2>1, <2>2, EntryNamed
<1>15. AtName(new)'
  <2>1. new[root] = <<0, 0>>
    BY <1>3, <1>5, <1>13 DEF Named
  <2>2. Prefix(VPage, lvl)' = 0
    BY <1>1 DEF Prefix
  <2> QED
    BY <1>1, <2>1, <2>2 DEF AtName
<1> QED
  BY <1>14, <1>15 DEF Needed

\* Between two segments, and where nothing is mapped, the names stay
\* (elf.c:7-26).
LEMMA NamesStay ==
  ASSUME MapInv, WholePages, Needed, CopySegment \/ NextSegment \/ EnterKernel \/ UNCHANGED vars
  PROVE  Needed'
<1>1. /\ UNCHANGED <<tab, root, given, img>>
      /\ pc' \in Loading => pc \in Loading
  BY DEF CopySegment, NextSegment, EnterKernel, vars, Loading
<1> SUFFICES ASSUME SegmentsApart, pc' \in Loading PROVE Needed'
  BY <1>1 DEF Needed, SegmentsApart
<1>2. MapTypes /\ Progress /\ pc \in Loading
  BY <1>1 DEF MapInv
<1>3. PICK key : Named(key) /\ AtName(key)
  BY <1>1 DEF Needed
<1>4. AtName(key)'
  <2>1. CASE CopySegment \/ EnterKernel
    BY <2>1 DEF CopySegment, EnterKernel, AtName
  <2>2. CASE NextSegment
    <3>1. Prefix(VPage, lvl)' = 0 /\ lvl' = 0 /\ at' = root
      BY <2>2 DEF NextSegment, Prefix
    <3> QED
      BY <1>3, <3>1 DEF AtName, Named
  <2>3. CASE UNCHANGED vars
    BY <1>3, <2>3 DEF vars, AtName, Prefix, VPage, FirstPage, NPages
  <2> QED
    BY <2>1, <2>2, <2>3
<1>5. Mapped \subseteq Mapped'
  <2>1. CASE CopySegment \/ EnterKernel \/ UNCHANGED vars
    BY <2>1 DEF CopySegment, EnterKernel, vars, Mapped, FirstPage
  <2>2. CASE NextSegment
    <3>1. s' = s + 1 /\ img' = img
      BY <2>2 DEF NextSegment
    <3>2. img \in Images /\ s \in DOMAIN img /\ n \in 0..NPages /\ img \in Seq(Segment)
      BY <1>2, BootAssumption DEF MapTypes, Progress, Segment
    <3>3. PICK f, k \in Nat :
            /\ f = FirstPage /\ k = NPages
            /\ \A v : v \in Pages(<<img[s]>>) <=> v \in Nat /\ f <= v /\ v < f + k
      BY <3>2, SegmentPages DEF FirstPage, NPages
    <3>4. n \in Nat /\ n <= k
      BY <3>2, <3>3
    <3> SUFFICES ASSUME NEW v \in Mapped PROVE v \in Mapped'
      OBVIOUS
    <3>5. PICK x \in DOMAIN img : x < s' /\ v \in Pages(<<img[x]>>)
      <4>1. CASE \E x \in DOMAIN img : x < s /\ v \in Pages(<<img[x]>>)
        BY <3>1, <3>2, <4>1
      <4>2. CASE f <= v /\ v < f + n
        <5>1. v \in Pages(<<img[s]>>)
          BY <3>3, <3>4, <4>2 DEF Mapped
        <5> QED
          BY <3>1, <3>2, <5>1
      <4> QED
        BY <3>3, <4>1, <4>2 DEF Mapped
    <3>6. v \in Nat
      BY DEF Mapped
    <3> QED
      BY <3>1, <3>5, <3>6 DEF Mapped, Pages
  <2> QED
    BY <2>1, <2>2
<1>6. Named(key)'
  <2>1. TablesNeeded' = TablesNeeded
    BY <1>1 DEF TablesNeeded, Pages
  <2>2. \A k \in Names(Mapped) : k \in Names(Mapped)'
    BY <1>5, <2>1 DEF Names
  <2> QED
    BY <1>1, <1>3, <2>2 DEF Named
<1> QED
  BY <1>4, <1>6 DEF Needed
----------------------------------------------------------------------------
(* What the memory suffices for: the pages it has *)

\* A set of naturals that is not empty has a least element.
LEMMA LeastNatural ==
  ASSUME NEW S, S \subseteq Nat, S # {}
  PROVE  \E x \in S : \A y \in S : x <= y
<1>1. \E R : IsWellFoundedOn(R, Nat) /\ \A x, y \in Nat : y < x => <<y, x>> \in R
  <2> DEFINE L == OpToRel(<, Nat)
  <2>1. \A x, y \in Nat : y < x => <<y, x>> \in L
    BY DEF OpToRel
  <2>2. IsWellFoundedOn(L, Nat)
    BY NatLessThanWellFounded
  <2> HIDE DEF L
  <2> QED
    BY <2>1, <2>2
<1>2. PICK R : IsWellFoundedOn(R, Nat) /\ \A x, y \in Nat : y < x => <<y, x>> \in R
  BY <1>1
<1>3. PICK x \in S : \A y \in S : ~(<<y, x>> \in R)
  BY <1>2, WFMin
<1>4. ASSUME NEW y \in S PROVE x <= y
  <2>1. x \in Nat /\ y \in Nat /\ ~(y < x)
    BY <1>2, <1>3
  <2> QED
    BY <2>1
<1> QED
  BY <1>4

\* A set that is mapped one to one into a finite set has no more elements, and
\* fewer when an element of that set is left over.
LEMMA OneToOne ==
  ASSUME NEW S, NEW T, IsFiniteSet(T), NEW f \in [S -> T],
         \A x, y \in S : f[x] = f[y] => x = y
  PROVE  /\ IsFiniteSet(S) /\ Cardinality(S) <= Cardinality(T)
         /\ Cardinality(S) \in Nat /\ Cardinality(T) \in Nat
         /\ (\E k \in T : \A x \in S : f[x] # k) => Cardinality(S) < Cardinality(T)
<1>1. f \in Injection(S, T)
  BY DEF Injection, IsInjective
<1>2. /\ IsFiniteSet(S) /\ Cardinality(S) <= Cardinality(T)
      /\ Cardinality(S) = Cardinality(T) <=> f \in Surjection(S, T)
  BY <1>1, FS_Injection
<1>3. Cardinality(S) \in Nat /\ Cardinality(T) \in Nat
  BY <1>2, FS_CardinalityType
<1>4. (\E k \in T : \A x \in S : f[x] # k) => f \notin Surjection(S, T)
  BY DEF Surjection
<1> QED
  BY <1>2, <1>3, <1>4

\* The image has finitely many pages, and they and their tables as many names.
LEMMA NamesFinite ==
  /\ IsFiniteSet(Names(Pages(img)))
  /\ Cardinality(TablesNeeded) \in Nat /\ Cardinality(Pages(img)) \in Nat
  /\ Cardinality(Names(Pages(img))) <= 1 + Cardinality(TablesNeeded) + Cardinality(Pages(img))
<1>1. PICK G \in Nat : G = SPACE
  <2>1. F * (F * F * F) \in Nat
    BY Sizes, Z3
  <2> QED
    BY <2>1, Spans
<1>2. IsFiniteSet(0..(G - 1)) /\ IsFiniteSet(1..3)
  <2>1. G - 1 \in Int /\ 0 \in Int /\ 1 \in Int /\ 3 \in Int
    OBVIOUS
  <2> QED
    BY <2>1, FS_Interval, Zenon
<1>3. Pages(img) \subseteq 0..(G - 1)
  BY <1>1 DEF Pages
<1>4. IsFiniteSet(Pages(img))
  BY <1>2, <1>3, FS_Subset
<1>5. TablesNeeded \subseteq (1..3) \X (0..(G - 1))
  <2> SUFFICES ASSUME NEW l \in 1..3, NEW v \in Pages(img)
               PROVE  v \div Span(l - 1) \in 0..(G - 1)
    BY DEF TablesNeeded
  <2>1. v \in Nat /\ v < G
    BY <1>1, <1>3
  <2>2. PICK d \in Nat \ {0} : d = Span(l - 1)
    <3>1. F * F * F \in Nat \ {0} /\ F * F \in Nat \ {0}
      BY Sizes, Z3
    <3>2. l - 1 = 0 \/ l - 1 = 1 \/ l - 1 = 2
      OBVIOUS
    <3> QED
      BY <3>1, <3>2, Spans, Sizes
  <2>3. v \div d \in Nat /\ v \div d <= v
    BY <2>1, Z3
  <2> QED
    BY <2>1, <2>2, <2>3
<1>6. IsFiniteSet((1..3) \X (0..(G - 1)))
  BY <1>2, FS_Product
<1>7. IsFiniteSet(TablesNeeded)
  BY <1>5, <1>6, FS_Subset
<1>8. PICK a \in Nat, b \in Nat : a = Cardinality(TablesNeeded) /\ b = Cardinality(Pages(img))
  BY <1>4, <1>7, FS_CardinalityType
<1>9. IsFiniteSet({4}) /\ Cardinality({4}) = 1 /\ IsFiniteSet({<<0, 0>>}) /\ Cardinality({<<0, 0>>}) = 1
  BY FS_Singleton
<1>10. PICK Q : Q = {4} \X Pages(img) /\ IsFiniteSet(Q) /\ Cardinality(Q) = b
  <2>1. IsFiniteSet({4} \X Pages(img)) /\ Cardinality({4} \X Pages(img)) = 1 * b
    BY <1>4, <1>8, <1>9, FS_Product
  <2> QED
    BY <2>1
<1>11. PICK U : /\ U = {<<0, 0>>} \cup TablesNeeded /\ IsFiniteSet(U)
                /\ Cardinality(U) <= 1 + a /\ Cardinality(U) \in Nat
  <2>1. /\ IsFiniteSet({<<0, 0>>} \cup TablesNeeded)
        /\ Cardinality({<<0, 0>>} \cup TablesNeeded) =
             1 + a - Cardinality({<<0, 0>>} \cap TablesNeeded)
    BY <1>7, <1>8, <1>9, FS_Union
  <2>2. Cardinality({<<0, 0>>} \cap TablesNeeded) \in Nat
    BY <1>9, FS_Subset, FS_CardinalityType
  <2>3. Cardinality({<<0, 0>>} \cup TablesNeeded) \in Nat
    BY <2>1, FS_CardinalityType
  <2> QED
    BY <2>1, <2>2, <2>3
<1>12. IsFiniteSet(U \cup Q) /\ Cardinality(U \cup Q) = Cardinality(U) + b - Cardinality(U \cap Q)
  BY <1>10, <1>11, FS_Union
<1>13. Cardinality(U \cap Q) \in Nat
  BY <1>11, FS_Subset, FS_CardinalityType
<1>14. Names(Pages(img)) = U \cup Q
  BY <1>10, <1>11 DEF Names
<1>15. Cardinality(U \cup Q) <= 1 + a + b
  BY <1>11, <1>12, <1>13
<1> QED
  BY <1>8, <1>12, <1>14, <1>15

\* The bytes above lomem of the regions that are looked at.
HighBytes == {a \in UNION {Bytes(mem_map[x]) : x \in Scanned} : a >= LOMEM}

\* What it takes for the memory to be enough, region by region.
LEMMA EnoughFacts ==
  ASSUME Enough, mem_map \in Seq(Region)
  PROVE  /\ WholePages /\ Scanned # {}
         /\ \A x \in Scanned : mem_map[x].base + mem_map[x].size <= Reach
         /\ \A x \in Scanned : (\A y \in Scanned : x <= y) => mem_map[x].base < GIG * PAGE
         /\ Cardinality(HighBytes) >= PAGE * (1 + Cardinality(TablesNeeded) + Cardinality(Pages(img)))
<1>1. /\ WholePages /\ Scanned # {}
      /\ \A x \in Scanned : mem_map[x].base + mem_map[x].size <= Reach
      /\ mem_map[CHOOSE x \in Scanned : \A y \in Scanned : x <= y].base < GIG * PAGE
      /\ Cardinality(HighBytes) >= PAGE * (1 + Cardinality(TablesNeeded) + Cardinality(Pages(img)))
  BY DEF Enough, Above, UpTo, Place, Scanned, HighBytes
<1>2. ASSUME NEW x \in Scanned, \A y \in Scanned : x <= y
      PROVE  mem_map[x].base < GIG * PAGE
  <2>1. PICK z \in Scanned :
          z = (CHOOSE w \in Scanned : \A y \in Scanned : w <= y) /\ \A y \in Scanned : z <= y
    BY <1>2
  <2>2. z \in Nat /\ x \in Nat
    BY DEF Scanned, Above
  <2>3. z <= x /\ x <= z
    BY <1>2, <2>1
  <2>4. z = x
    BY <2>2, <2>3
  <2> QED
    BY <1>1, <2>1, <2>4
<1> QED
  BY <1>1, <1>2

\* A byte of a page is told by the page and its place in it.
LEMMA ByteOfPage ==
  ASSUME NEW p \in Nat, NEW a, a \in (p * PAGE)..(p * PAGE + PAGE - 1), NEW b \in Nat, b = p * PAGE
  PROVE  a \in Nat /\ a \div PAGE = p /\ a % PAGE \in 0..(PAGE - 1)
<1>1. PICK P \in Nat \ {0} : P = PAGE
  BY Sizes
<1>2. a \in Nat /\ b <= a /\ a < b + P
  BY <1>1
<1>3. b = p * P /\ (p + 1) * P = b + P
  BY <1>1, Times
<1>4. a \div P >= p /\ a \div P < p + 1
  <2>1. a >= p * P /\ a < (p + 1) * P /\ p + 1 \in Nat
    BY <1>2, <1>3
  <2> QED
    BY <1>2, <2>1, QuotientBelow
<1>5. PICK q \in Nat, r \in Nat : q = a \div P /\ r = a % P /\ r < P
  BY <1>2, Division
<1>6. q = p /\ r \in 0..(P - 1)
  BY <1>4, <1>5
<1> QED
  BY <1>1, <1>2, <1>5, <1>6

\* Fewer pages than the bytes fill leave one of the bytes over.
LEMMA ByteLeft ==
  ASSUME given \subseteq Nat, IsFiniteSet(given), NEW S, NEW c \in Nat, Cardinality(given) < c,
         Cardinality(S) >= PAGE * c
  PROVE  \E a \in S : a \notin GivenBytes
<1> SUFFICES ASSUME \A a \in S : a \in GivenBytes PROVE FALSE
  OBVIOUS
<1>1. PICK P \in Nat \ {0} : P = PAGE
  BY Sizes
<1>2. \A a \in S : a \in Nat /\ a \div PAGE \in given /\ a % PAGE \in 0..(PAGE - 1)
  <2> SUFFICES ASSUME NEW a \in S
               PROVE  a \in Nat /\ a \div PAGE \in given /\ a % PAGE \in 0..(PAGE - 1)
    OBVIOUS
  <2>1. PICK p \in given : a \in (p * PAGE)..(p * PAGE + PAGE - 1)
    BY InGiven
  <2>2. p * PAGE \in Nat
    BY <1>1, Z3
  <2>3. PICK b \in Nat : b = p * PAGE
    BY <2>2
  <2>4. a \in Nat /\ a \div PAGE = p /\ a % PAGE \in 0..(PAGE - 1)
    BY <2>1, <2>3, ByteOfPage
  <2> QED
    BY <2>4
<1>3. PICK T : T = given \X (0..(P - 1)) /\ IsFiniteSet(T) /\ Cardinality(T) = Cardinality(given) * P
  <2>1. P - 1 \in Int /\ 0 \in Int
    OBVIOUS
  <2>2. IsFiniteSet(0..(P - 1)) /\ Cardinality(0..(P - 1)) = IF 0 > P - 1 THEN 0 ELSE P - 1 - 0 + 1
    BY <2>1, FS_Interval, Zenon
  <2>3. Cardinality(0..(P - 1)) = P
    BY <2>2
  <2>4. PICK D : D = 0..(P - 1) /\ IsFiniteSet(D) /\ Cardinality(D) = P
    BY <2>2, <2>3
  <2>5. IsFiniteSet(given \X D) /\ Cardinality(given \X D) = Cardinality(given) * Cardinality(D)
    BY <2>4, FS_Product
  <2> QED
    BY <2>4, <2>5
<1>4. PICK f : f = [a \in S |-> <<a \div PAGE, a % PAGE>>]
  OBVIOUS
<1>5. f \in [S -> T]
  BY <1>1, <1>2, <1>3, <1>4
<1>6. \A x, y \in S : f[x] = f[y] => x = y
  <2> SUFFICES ASSUME NEW x \in S, NEW y \in S, f[x] = f[y] PROVE x = y
    OBVIOUS
  <2>1. x \div PAGE = y \div PAGE /\ x % PAGE = y % PAGE
    BY <1>4
  <2> QED
    BY <1>2, <2>1, SameParts, Sizes
<1>7. Cardinality(S) <= Cardinality(T) /\ Cardinality(S) \in Nat /\ Cardinality(given) \in Nat
  BY <1>3, <1>5, <1>6, OneToOne, FS_CardinalityType
<1>8. PICK g \in Nat, k \in Nat : g = Cardinality(given) /\ k = Cardinality(S)
  BY <1>7
<1>9. k <= g * P /\ k >= P * c /\ g + 1 <= c
  BY <1>1, <1>3, <1>7, <1>8
<1>10. (g + 1) * P <= c * P /\ (g + 1) * P = g * P + P /\ g * P \in Int /\ c * P \in Int
  <2>1. (g + 1) * P <= c * P
    BY <1>9, Times
  <2> QED
    BY <2>1, Times
<1>11. P * c = c * P
  BY Z3
<1>12. PICK u \in Int, v \in Int : u = g * P /\ v = c * P
  BY <1>10
<1> QED
  BY <1>9, <1>10, <1>11, <1>12

\* Where a byte is left, there is a region to take a page from, and it is one of
\* those that are looked at (alloc.c:22-23).
LEMMA RegionLeft ==
  ASSUME MemInv, WholePages, Ranked, NEW a \in HighBytes, a \notin GivenBytes
  PROVE  \E r \in DOMAIN mem_free : First(r) /\ \E y \in Scanned : Place(y) = r
<1>1. mem_free \in Seq(Region) /\ DOMAIN mem_free \subseteq Nat /\ SCAN \in Nat
  BY BootAssumption DEF MemInv, Lists
<1>2. PICK x \in Scanned : a \in Bytes(mem_map[x]) /\ a >= LOMEM
  BY DEF HighBytes
<1>3. PICK q \in DOMAIN mem_free : q = Place(x) /\ a \in Bytes(mem_free[q]) /\ q <= SCAN
  BY <1>2 DEF Ranked, Scanned
<1>4. mem_free[q].size # 0
  <2>1. PICK b \in Nat, z \in Nat : mem_free[q].base = b /\ mem_free[q].size = z
    <3>1. mem_free[q] \in Region
      BY <1>1, <1>3
    <3> QED
      BY <3>1 DEF Region
  <2>2. b <= a /\ a < b + z /\ a \in Int
    BY <1>3, <2>1, InBytes
  <2> QED
    BY <2>1, <2>2
<1>5. PICK S : S = {u \in DOMAIN mem_free : mem_free[u].size # 0}
  OBVIOUS
<1>6. PICK r \in S : \A u \in S : r <= u
  <2>1. S \subseteq Nat /\ S # {}
    BY <1>1, <1>3, <1>4, <1>5
  <2> QED
    BY <2>1, LeastNatural
<1>7. r \in DOMAIN mem_free /\ mem_free[r].size # 0 /\ r <= q /\ r \in Nat
  BY <1>1, <1>3, <1>4, <1>5, <1>6
<1>8. r <= SCAN
  BY <1>1, <1>3, <1>7
<1>9. \A u \in 1..(r - 1) : mem_free[u].size = 0
  <2> SUFFICES ASSUME NEW u \in 1..(r - 1), mem_free[u].size # 0 PROVE FALSE
    OBVIOUS
  <2>1. u \in DOMAIN mem_free
    BY <1>1, <1>7
  <2>2. r <= u
    BY <1>5, <1>6, <2>1
  <2> QED
    BY <1>7, <2>2
<1>10. First(r)
  BY <1>7, <1>8, <1>9 DEF First
<1>11. PICK y \in Above : Place(y) = r
  BY <1>7 DEF Ranked
<1> QED
  BY <1>7, <1>8, <1>10, <1>11 DEF Scanned

\* The first page is there, in the first gigabyte, which the bootstrap mapping
\* covers (memory.c:78).
LEMMA Cr3Room ==
  ASSUME MemInv, WholePages, Ranked, Unused, pc = "cr3", HiFails, Enough
  PROVE  FALSE
<1>1. /\ given = {} /\ cr3 = NONE /\ \A q \in DOMAIN mem_free : mem_free[q].size # 0
  BY DEF Unused
<1>2. mem_map \in Seq(Region) /\ mem_free \in Seq(Region)
  BY DEF MemInv, Lists
<1>3. PICK c \in Nat :
        c = 1 + Cardinality(TablesNeeded) + Cardinality(Pages(img)) /\ 0 < c
  BY NamesFinite
<1>4. PICK a \in HighBytes : a \notin GivenBytes
  <2>1. IsFiniteSet(given) /\ Cardinality(given) = 0 /\ given \subseteq Nat
    BY <1>1, FS_EmptySet
  <2>2. Cardinality(HighBytes) >= PAGE * c
    BY <1>2, <1>3, EnoughFacts
  <2> QED
    BY <1>3, <2>1, <2>2, ByteLeft
<1>5. PICK r \in DOMAIN mem_free, y \in Scanned : First(r) /\ Place(y) = r
  BY <1>4, RegionLeft
<1>6. r = 1
  <2>1. r \in Nat /\ r >= 1 /\ DOMAIN mem_free = 1..Len(mem_free)
    BY <1>2
  <2> SUFFICES ASSUME r # 1 PROVE FALSE
    OBVIOUS
  <2>2. 1 \in 1..(r - 1) /\ 1 \in DOMAIN mem_free
    BY <2>1
  <2> QED
    BY <1>1, <1>5, <2>2 DEF First
<1>7. y \in Above /\ y \in Nat
  BY <1>2 DEF Scanned, Above
<1>8. ASSUME NEW z \in Scanned PROVE y <= z
  <2>1. z \in Above /\ z \in Nat
    BY <1>2 DEF Scanned, Above
  <2> SUFFICES ASSUME z < y PROVE FALSE
    BY <1>7, <2>1
  <2>2. z \in UpTo(y) /\ y \in UpTo(y)
    BY <1>7, <2>1 DEF UpTo
  <2>3. IsFiniteSet(UpTo(y)) /\ Cardinality(UpTo(y)) = 1
    <3>1. UpTo(y) \subseteq Above /\ IsFiniteSet(Above)
      BY DEF UpTo, Ranked
    <3> QED
      BY <1>5, <1>6, <3>1, FS_Subset DEF Place
  <2>4. \E u : UpTo(y) = {u}
    BY <2>3, FS_Singleton
  <2> QED
    BY <1>7, <2>1, <2>2, <2>4
<1>9. mem_map[y].base < GIG * PAGE
  BY <1>2, <1>8, EnoughFacts
<1>10. PICK b \in Nat, z \in Nat : mem_map[y].base = b /\ mem_map[y].size = z /\ b + z > LOMEM
  <2>1. mem_map[y] \in Region /\ mem_map[y].base + mem_map[y].size > LOMEM
    BY <1>2, <1>7 DEF Above
  <2> QED
    BY <2>1 DEF Region
<1>11. PICK d \in Nat, k \in Nat : mem_free[r].base = d /\ mem_free[r].size = k /\ k # 0
  <2>1. mem_free[r] \in Region /\ mem_free[r].size # 0
    BY <1>1, <1>2, <1>5
  <2> QED
    BY <2>1 DEF Region
<1>12. b <= d /\ d < b + z
  <2>1. d \in Bytes(mem_free[r])
    BY <1>11, InBytes
  <2>2. d \in Bytes(mem_map[y])
    BY <1>5, <1>7, <2>1 DEF Ranked
  <2> QED
    BY <1>10, <2>2, InBytes
<1>13. PICK m \in Nat : m = IF b >= LOMEM THEN b ELSE LOMEM
  BY Sizes
<1>14. m >= LOMEM /\ b <= m /\ m < b + z
  BY <1>10, <1>12, <1>13, Sizes
<1>15. d <= m
  <2>1. m \in Bytes(mem_map[y])
    BY <1>10, <1>14, InBytes
  <2>2. m \notin GivenBytes
    BY <1>1, InGiven
  <2>3. m \in Bytes(mem_free[r])
    BY <1>5, <1>7, <1>14, <2>1, <2>2 DEF Ranked
  <2> QED
    BY <1>11, <2>3, InBytes
<1>16. PICK G \in Nat : G = GIG
  <2>1. F * F \in Nat
    BY Sizes, Z3
  <2> QED
    BY <2>1 DEF GIG
<1>17. d < G * PAGE
  <2>1. m < G * PAGE
    BY <1>9, <1>10, <1>13, <1>16, BootAssumption
  <2>2. PICK u \in Int : u = G * PAGE
    BY <1>16, Times, Sizes
  <2> QED
    BY <1>15, <2>1, <2>2
<1>18. d \div PAGE < G
  BY <1>17, QuotientBelow, Sizes
<1>19. Reachable(d \div PAGE)
  BY <1>1, <1>16, <1>18 DEF Reachable, Translate
<1> QED
  BY <1>5, <1>11, <1>19 DEF HiFails

\* There is a page for every table and every page of the image, in what the
\* identity map covers (alloc.c:43-74).
LEMMA MapRoom ==
  ASSUME MemInv, MapInv, WholePages, Ranked, Needed, SegmentsApart, pc = "valloc", n < NPages,
         lvl = 3 \/ tab[at][Index(VPage, lvl)] = NONE, HiFails, Enough
  PROVE  FALSE
<1>1. MapTypes /\ Progress /\ Identity /\ pc \in Loading
  BY DEF MapInv, Loading
<1>2. mem_map \in Seq(Region) /\ mem_free \in Seq(Region) /\ given \subseteq Nat
  BY DEF MemInv, Lists
<1>3. PICK key : Named(key) /\ AtName(key)
  BY <1>1 DEF Needed
<1>4. PICK w : w = VPage /\ High(w)
  BY AtNode
<1>5. /\ at \in DOMAIN tab \cap given /\ lvl \in 0..3 /\ Index(w, lvl) \in Slots /\ NONE \notin given
  BY <1>4, AtNode
<1>6. tab[at][Index(w, lvl)] = NONE
  BY <1>3, <1>4, EntryEmpty
<1>7. PICK k : k = <<lvl + 1, Prefix(w, lvl + 1)>>
  OBVIOUS
<1>8. Under(key[at], Index(w, lvl)) = k
  BY <1>3, <1>4, <1>5, <1>7, NameOnTheWay DEF AtName
<1>9. \A p \in given : key[p] # k
  BY <1>3, <1>5, <1>6, <1>8, FreeName
<1>10. Mapped \subseteq Pages(img) /\ w \in Pages(img)
  BY <1>1, <1>4, MappedPages
<1>11. PICK T : /\ T = Names(Pages(img)) /\ Names(Mapped) \subseteq T /\ Names({w}) \subseteq T
                /\ IsFiniteSet(T)
  BY <1>10, NamesFinite DEF Names
<1>12. k \in T
  BY <1>1, <1>4, <1>5, <1>7, <1>11, NextName
<1>13. key \in [given -> T] /\ \A p, q \in given : key[p] = key[q] => p = q
  BY <1>3, <1>11 DEF Named
<1>14. IsFiniteSet(given) /\ Cardinality(given) < Cardinality(T) /\ Cardinality(given) \in Nat
  BY <1>9, <1>11, <1>12, <1>13, OneToOne
<1>15. PICK c \in Nat :
         c = 1 + Cardinality(TablesNeeded) + Cardinality(Pages(img)) /\ Cardinality(given) < c
  <2>1. PICK g \in Nat, h \in Nat, u \in Nat, v \in Nat :
          /\ g = Cardinality(given) /\ u = Cardinality(TablesNeeded) /\ v = Cardinality(Pages(img))
          /\ h = Cardinality(T) /\ h <= 1 + u + v /\ g < h
    BY <1>11, <1>14, NamesFinite, FS_CardinalityType
  <2>2. 1 + u + v \in Nat /\ g < 1 + u + v
    BY <2>1
  <2> QED
    BY <2>1, <2>2
<1>16. PICK a \in HighBytes : a \notin GivenBytes
  <2>1. Cardinality(HighBytes) >= PAGE * c
    BY <1>2, <1>15, EnoughFacts
  <2> QED
    BY <1>2, <1>14, <1>15, <2>1, ByteLeft
<1>17. PICK r \in DOMAIN mem_free, y \in Scanned : First(r) /\ Place(y) = r
  BY <1>16, RegionLeft
<1>18. y \in Above /\ mem_map[y].base + mem_map[y].size <= Reach
  BY <1>2, <1>17, EnoughFacts DEF Scanned
<1>19. PICK b \in Nat, z \in Nat : mem_map[y].base = b /\ mem_map[y].size = z /\ b + z <= Reach
  <2>1. mem_map[y] \in Region
    BY <1>2, <1>18 DEF Above
  <2> QED
    BY <1>18, <2>1 DEF Region
<1>20. PICK d \in Nat, m \in Nat : mem_free[r].base = d /\ mem_free[r].size = m /\ m # 0
  <2>1. mem_free[r] \in Region /\ mem_free[r].size # 0
    BY <1>2, <1>17 DEF First
  <2> QED
    BY <2>1 DEF Region
<1>21. d < b + z
  <2>1. d \in Bytes(mem_free[r])
    BY <1>20, InBytes
  <2>2. d \in Bytes(mem_map[y])
    BY <1>17, <1>18, <2>1 DEF Ranked
  <2> QED
    BY <1>19, <2>2, InBytes
<1>22. PICK H \in Nat : H = IDENT * GIG
  <2>1. F * F \in Nat
    BY Sizes, Z3
  <2>2. PICK G \in Nat : G = GIG
    BY <2>1 DEF GIG
  <2>3. IDENT * G \in Nat
    BY Sizes, Z3
  <2> QED
    BY <2>2, <2>3
<1>23. d < H * PAGE
  <2>1. PICK u \in Int : u = H * PAGE
    BY <1>22, Times, Sizes
  <2>2. Reach = u
    BY <1>22, <2>1 DEF Reach
  <2> QED
    BY <1>19, <1>21, <2>1, <2>2
<1>24. d \div PAGE \in 0..(H - 1)
  <2>1. d \div PAGE < H /\ d \div PAGE \in Nat
    BY <1>23, QuotientBelow, Division, Sizes
  <2> QED
    BY <1>22, <2>1
<1>25. Reachable(d \div PAGE)
  BY <1>1, <1>22, <1>24, IdentityHolds DEF Reachable
<1> QED
  BY <1>17, <1>20, <1>25 DEF HiFails

\* The memory that is enough at the start is enough to the end.
RoomInv == WholePages => Ranked /\ Unused /\ Needed /\ BootSuffices

\* Nothing is taken before the BIOS has been asked.
LEMMA InitRoom == Init => RoomInv
<1> SUFFICES ASSUME Init PROVE RoomInv
  OBVIOUS
<1>1. pc = "detect"
  BY DEF Init
<1>2. Needed /\ BootSuffices
  BY <1>1 DEF Needed, Loading, BootSuffices
<1> QED
  BY <1>2, InitRanks DEF RoomInv

\* The places stay where neither list nor what was handed out changes.
LEMMA RanksStay ==
  ASSUME Ranked, UNCHANGED <<mem_map, mem_free, given>>
  PROVE  Ranked'
<1>1. Above' = Above /\ \A x : Place(x)' = Place(x)
  BY PlacesKept
<1> QED
  BY <1>1 DEF Ranked, Bytes, GivenBytes

\* The loader stops only where a page it needs is not there, which cannot be
\* when the memory is enough (memory.c:78, alloc.c:22-32).
LEMMA CrashedRoom ==
  ASSUME MemInv, MapInv, WholePages, Ranked, Unused, Needed, NewCr3 \/ NewTable \/ MapPage, Crash
  PROVE  Ranked' /\ Unused' /\ Needed' /\ BootSuffices'
<1>1. /\ pc' = "wild" /\ HiFails
      /\ UNCHANGED <<memvars, mem_free, lo, tab, root, cr3, i, j, img, s, n, lvl, at, data, given>>
  BY DEF Crash
<1>2. \/ pc = "cr3"
      \/ pc = "valloc" /\ n < NPages /\ (lvl = 3 \/ tab[at][Index(VPage, lvl)] = NONE)
  BY DEF NewCr3, NewTable, MapPage
<1>3. ~(SegmentsApart /\ Enough)
  BY <1>1, <1>2, Cr3Room, MapRoom
<1>4. (SegmentsApart' <=> SegmentsApart) /\ (Enough' <=> Enough)
  <2>1. SegmentsApart' <=> SegmentsApart
    BY <1>1 DEF SegmentsApart
  <2>2. WholePages' <=> WholePages
    BY <1>1 DEF WholePages, memvars
  <2>3. mem_map' = mem_map /\ img' = img
    BY <1>1 DEF memvars
  <2>4. TablesNeeded' = TablesNeeded
    BY <2>3 DEF TablesNeeded
  <2> QED
    BY <2>1, <2>2, <2>3, <2>4 DEF Enough
<1>5. BootSuffices'
  BY <1>3, <1>4 DEF BootSuffices
<1>6. Ranked'
  BY <1>1, RanksStay DEF memvars
<1> QED
  BY <1>1, <1>5, <1>6 DEF Unused, Needed, Loading

\* Every step leaves room (memory.c:18-90, alloc.c:18-86, elf.c:7-26).
LEMMA NextRoom == MemInv /\ MapInv /\ RoomInv /\ [Next]_vars => RoomInv'
<1> SUFFICES ASSUME MemInv, MapInv, RoomInv, [Next]_vars, WholePages'
             PROVE  Ranked' /\ Unused' /\ Needed' /\ BootSuffices'
  BY DEF RoomInv
<1>1. e820' = e820
  BY DEF Next, DetectEntry, DetectStop, NewCr3, Crash, MapIdentity, ApplyPaging, IdentityDone,
         WalkDown, NewTable, MapPage, CopySegment, NextSegment, EnterKernel, Stopped, vars, memvars
<1>2. WholePages
  BY <1>1 DEF WholePages
<1>3. Ranked /\ Unused /\ Needed /\ BootSuffices
  BY <1>2 DEF RoomInv
<1>4. CASE (NewCr3 \/ NewTable \/ MapPage) /\ Crash
  BY <1>2, <1>3, <1>4, CrashedRoom
<1>5. CASE DetectEntry
  <2>1. pc' \in {"detect", "cr3"}
    BY <1>5 DEF DetectEntry
  <2>2. Needed' /\ BootSuffices'
    BY <2>1 DEF Needed, Loading, BootSuffices
  <2> QED
    BY <1>2, <1>3, <1>5, <2>2, DetectRanks
<1>6. CASE (NewCr3 \/ NewTable \/ MapPage) /\ ~Crash
  <2>1. PICK p : alloc_page_hi(p) /\ mem_map' = mem_map /\ pc' \in {"identity", "valloc"}
    BY <1>6 DEF NewCr3, NewTable, MapPage, memvars
  <2>2. Ranked'
    BY <1>2, <1>3, <2>1, TakeRanks
  <2>3. Unused' /\ BootSuffices'
    BY <2>1 DEF Unused, BootSuffices
  <2>4. Needed'
    <3>1. CASE NewCr3
      BY <1>6, <3>1 DEF NewCr3, Needed, Loading
    <3> QED
      BY <1>2, <1>3, <1>6, <3>1, NamesTable, NamesPage
  <2> QED
    BY <2>2, <2>3, <2>4
<1>7. CASE \/ DetectStop \/ MapIdentity \/ ApplyPaging \/ IdentityDone \/ WalkDown
           \/ CopySegment \/ NextSegment \/ EnterKernel \/ UNCHANGED vars
  <2>1. Ranked'
    <3>1. UNCHANGED <<mem_map, mem_free, given>>
      BY <1>7 DEF DetectStop, MapIdentity, ApplyPaging, IdentityDone, WalkDown, CopySegment,
                  NextSegment, EnterKernel, vars, memvars
    <3> QED
      BY <1>3, <3>1, RanksStay
  <2>2. Unused'
    <3>1. CASE DetectStop \/ UNCHANGED vars
      BY <1>3, <3>1 DEF Unused, DetectStop, vars
    <3>2. CASE ~(DetectStop \/ UNCHANGED vars)
      BY <1>7, <3>2 DEF Unused, MapIdentity, ApplyPaging, IdentityDone, WalkDown, CopySegment,
                        NextSegment, EnterKernel
    <3> QED
      BY <3>1, <3>2
  <2>3. Needed'
    <3>1. CASE DetectStop \/ MapIdentity \/ ApplyPaging
      BY <3>1 DEF Needed, Loading, DetectStop, MapIdentity, ApplyPaging
    <3> QED
      BY <1>2, <1>3, <1>7, <3>1, NamesBegin, NamesWalked, NamesStay
  <2>4. BootSuffices'
    <3>1. CASE UNCHANGED vars
      <4>1. UNCHANGED <<pc, mem_map, img>> /\ (WholePages' <=> WholePages)
        BY <3>1, <1>2 DEF vars, memvars
      <4>2. SegmentsApart' <=> SegmentsApart
        BY <4>1 DEF SegmentsApart
      <4>3. TablesNeeded' = TablesNeeded
        BY <4>1 DEF TablesNeeded
      <4>4. Enough' <=> Enough
        BY <4>1, <4>3 DEF Enough
      <4> QED
        BY <1>3, <4>1, <4>2, <4>4 DEF BootSuffices
    <3>2. CASE ~UNCHANGED vars
      BY <1>7, <3>2 DEF BootSuffices, DetectStop, MapIdentity, ApplyPaging, IdentityDone, WalkDown,
                        CopySegment, NextSegment, EnterKernel
    <3> QED
      BY <3>1, <3>2
  <2> QED
    BY <2>1, <2>2, <2>3, <2>4
<1> QED
  BY <1>4, <1>5, <1>6, <1>7 DEF Next, Stopped
----------------------------------------------------------------------------
(* The theorems *)

\* The lists of gBootParams hold regions of whole pages that share nothing,
\* taken from the BIOS's map (memory.c:18-48, alloc.c:18-33).
THEOREM MemInvariant == Spec => []MemInv
<1> QED
  BY InitMem, NextMem, PTL DEF Spec

\* The kernel's allocator is given every byte above lomem that the boot loader
\* did not take, and none that it did (memory.c:28-46, alloc.c:18-33).
THEOREM MemoryTracked == Spec => []Tracked
<1>1. MemInv => Tracked
  BY TrackedBytes DEF MemInv
<1> QED
  BY <1>1, MemInvariant, PTL

\* The page tables are a tree above lomem in which no page is pointed to twice,
\* beside the identity map, and hold what was loaded (memory.c:53-90,
\* alloc.c:43-86).
THEOREM MapInvariant == Spec => []MapInv
<1> QED
  BY MemInvariant, InitMap, NextMap, PTL DEF Spec

\* The identity map sends each page below its end to itself from the time it is
\* made until the kernel is entered, when the BIOS reports whole pages
\* (memory.c:53-90).
THEOREM IdentityMapKept == Spec => [](WholePages => IdentityMap)
<1>1. MemInv /\ MapInv => (WholePages => IdentityMap)
  BY IdentityHolds DEF MapInv, IdentityMap, Loading
<1> QED
  BY <1>1, MemInvariant, MapInvariant, PTL

\* When the kernel is entered each page of the initram and of its own segments
\* is mapped to a page of its own above lomem that holds its bytes still
\* (alloc.c:43-86, initram.c:4-20, elf.c:7-26).
THEOREM ImageLoadedIntact == Spec => []LoadedIntact
<1> QED
  BY LoadedFromMap, MemInvariant, MapInvariant, PTL

\* The loader reaches the kernel whenever the memory above lomem that it looks
\* at holds a page for the table of CR3, for each table and for each page of the
\* image, below the end of the identity map (memory.c:78, alloc.c:22-32, 43-86).
THEOREM LoaderSuffices == Spec => []BootSuffices
<1>1. Spec => []RoomInv
  BY MemInvariant, MapInvariant, InitRoom, NextRoom, PTL DEF Spec
<1>2. RoomInv => BootSuffices
  BY DEF RoomInv, BootSuffices, Enough
<1> QED
  BY <1>1, <1>2, PTL
=============================================================================
