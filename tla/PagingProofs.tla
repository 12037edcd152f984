---------------------------- MODULE PagingProofs ----------------------------
(***************************************************************************)
(* Proofs about the kernel's page tables and the processes on them, for    *)
(* every size of a table, every pool of frames, every tree of tables the   *)
(* boot loader may leave, and every sequence of calls whose ranges the     *)
(* iterator walks in full (Fits).                                          *)
(***************************************************************************)
EXTENDS Process, FiniteSetTheorems, TLAPS

(* The way to a page through the tables T, from the root down *)
Entry3(T, v) == T[Root][Offset0(v, 3)]
Entry2(T, v) == T[Entry3(T, v).frame][Offset0(v, 2)]
Entry1(T, v) == T[Entry2(T, v).frame][Offset0(v, 1)]

Reached(T, v) == Entry3(T, v).present /\ Entry2(T, v).present /\ Entry1(T, v).present
Leaf(T, v)    == IF Reached(T, v) THEN T[Entry1(T, v).frame][v % F] ELSE Absent

Prots == SUBSET {"W", "X", "U"}
Calls == [op : {"none", "anon", "io", "protect", "unmap"}, v : Nat, n : Nat,
          prot : Prots, phys : Nat]
Wants == [kind : {"image", "anon", "io"}, frame : Nat, flags : SUBSET Flags]

Types ==
  /\ pc \in {"nx", "half", "idle", "iter", "chunk", "wild"} /\ todo \in Nat \ {0}
  /\ io_size \in Nat /\ call \in Calls
  /\ dir \in [Levels -> Nat] /\ lvl \in Levels
  /\ offset \in [Levels -> Int] /\ len \in [Levels -> Int]
  /\ len_current \in [Levels -> Int] /\ index \in [Levels -> Int]
  /\ chunk \in [depth : Levels, table : Nat, first : Int, length : Int] /\ i \in Nat
  /\ free \subseteq Pool /\ procs \subseteq Pool
  /\ DOMAIN want \subseteq Pages /\ want \in [DOMAIN want -> Wants]
  /\ \A v \in DOMAIN want : want[v].kind # "anon" => want[v].frame \notin Pool

\* The tables are a tree with shared kernel halves; no entry points to a free
\* frame; the page of a leaf is not a table.
Trees(L) ==
  /\ Leveled(tab, L, {Root} \cup procs)
  /\ PointedOnce(tab, L, DOMAIN tab \ procs, Pool)
  /\ free \cap DOMAIN tab = {}
  /\ \A t \in DOMAIN tab, x \in Index : tab[t][x].present =>
       /\ tab[t][x].frame \notin free
       /\ L[t] = 0 => tab[t][x].frame \notin Pool \cap DOMAIN tab

\* The kernel half of the root is complete once init_mem has made it so, and
\* before the end of init_mem there is no process.
Halves ==
  /\ KernelHalfShared
  /\ pc \notin {"nx", "half", "wild"} => \A x \in Kernel : tab[Root][x].present
  /\ pc \in {"nx", "half"} => todo = 1
  /\ todo <= Len(Sections) + 3 => procs = {}

\* CR3 holds a root, and a process is being created exactly while load_elf runs.
Roots ==
  /\ cr3 \in {Root} \cup procs
  /\ loaded \subseteq procs
  /\ load = 0 => procs = loaded
  /\ load # 0 => \E p \in procs : procs \ loaded = {p}
----------------------------------------------------------------------------
(* Where the walk is *)
Walking == pc \in {"iter", "chunk"}

Fresh0 == offset[0] = call.v % F /\ len[0] = call.n
Fresh1 == offset[1] = Offset0(call.v, 1) /\ len[1] = Ceil(call.n, F) /\ Fresh0
Fresh2 == offset[2] = Offset0(call.v, 2) /\ len[2] = 1 /\ Fresh1

\* In the caller's loop over a chunk, or about to enter the iterator's loop of
\* that level.
InLoop(d, n) ==
  \/ pc = "chunk" /\ chunk = [depth |-> d, table |-> dir[d], first |-> offset[d], length |-> n]
     /\ i \in 0..n
  \/ pc = "iter" /\ lvl = d /\ index[d] = 0

\* the entries of the chunk the caller is done with
Behind(d, n) == IF pc = "chunk" THEN i ELSE n

Walk3 == InLoop(3, 1) /\ Fresh2 /\ (Behind(3, 1) = 1 => Entry3(tab, call.v).present)

Down3 == Entry3(tab, call.v).present /\ dir[2] = Entry3(tab, call.v).frame
         /\ index[3] = 0 /\ offset[2] = Offset0(call.v, 2) /\ len[2] = 1 /\ len_current[2] = 1

Walk2 == /\ Down3 /\ InLoop(2, 1) /\ Fresh1
         /\ Behind(2, 1) = 1 => Entry2(tab, call.v).present

Down2 == Down3 /\ Entry2(tab, call.v).present /\ dir[1] = Entry2(tab, call.v).frame
         /\ index[2] = 0 /\ offset[1] = Offset0(call.v, 1)
         /\ len[1] = Ceil(call.n, F) /\ len_current[1] = Ceil(call.n, F)

\* the first k entries of the page directory are there
Made(k) == \A x \in 0..(k - 1) : tab[dir[1]][offset[1] + x].present

Walk1 == /\ Down2 /\ pc = "chunk" /\ Fresh0
         /\ chunk = [depth |-> 1, table |-> dir[1], first |-> offset[1], length |-> len[1]]
         /\ i \in 0..len[1] /\ Made(i)

\* The page the next turn of the innermost loop begins with.
Ahead == call.v + call.n - len[0]

\* Before turn k over the page tables.
Turn(k) ==
  /\ Down2 /\ Made(len[1]) /\ k \in 0..len[1] /\ len[0] \in 0..call.n
  /\ k < len[1] => /\ len[0] > 0 /\ offset[0] = Ahead % F
                   /\ Ahead \div F = (call.v \div F) + k
  /\ k = len[1] => len[0] = 0

Between == pc = "iter" /\ lvl = 1 /\ Turn(index[1])

Walk0 ==
  /\ pc = "chunk" /\ Turn(index[1]) /\ index[1] < len[1]
  /\ len_current[0] = iter_compute_len(len[0], offset[0])
  /\ dir[0] = tab[dir[1]][offset[1] + index[1]].frame
  /\ chunk = [depth |-> 0, table |-> dir[0], first |-> offset[0], length |-> len_current[0]]
  /\ i \in 0..chunk.length

Finished == /\ pc = "iter" /\ len[0] = 0
            /\ \/ lvl = 2 /\ index[2] = 1 /\ len[2] = 1 /\ index[3] = 0
               \/ lvl = 3 /\ index[3] = 1

Place ==
  /\ Walking => /\ call.op # "none" /\ dir[3] = Root
                /\ offset[3] = Offset0(call.v, 3) /\ len[3] = 1
                /\ Walk3 \/ Walk2 \/ Walk1 \/ Between \/ Walk0 \/ Finished
  /\ pc \in {"nx", "half", "idle"} => call = NoCallYet
----------------------------------------------------------------------------
(* What the tables translate *)
Cursor  == Ahead + (IF pc = "chunk" /\ chunk.depth = 0 THEN i ELSE 0)
Pending == {v \in PagesOf(call) : v >= Cursor}

Backed(v) == IF want[v].kind = "anon" THEN Leaf(tab, v).frame \in Pool
             ELSE Leaf(tab, v).frame = want[v].frame

\* a page no call in progress is about, or that it is done with
Kept(v) ==
  /\ Leaf(tab, v).present <=> v \in DOMAIN want
  /\ v \in DOMAIN want => Leaf(tab, v).flags = want[v].flags /\ Backed(v)

\* a page the call in progress has not come to
Due(v) ==
  /\ call.op \in {"protect", "unmap"} => Leaf(tab, v).present
  /\ call.op = "unmap" => v \notin DOMAIN want /\ Leaf(tab, v).frame \in Pool
  /\ call.op # "unmap" => v \in DOMAIN want /\ want[v].flags = page_prot_flags(call.prot)
  /\ call.op = "protect" => Backed(v)
  /\ call.op = "anon" => want[v].kind = "anon"
  /\ call.op = "io" => want[v].kind = "io" /\ want[v].frame = call.phys + (v - Cursor)

Translates == pc # "wild" => \A v \in Pages : IF v \in Pending THEN Due(v) ELSE Kept(v)

\* until init_mem copies the initram only the image is mapped
Early == todo <= Len(Sections) + 1 =>
  DOMAIN want = DOMAIN BootWant /\ \A v \in DOMAIN want : want[v].kind = "image"

TablesInv == Types /\ Halves /\ Roots /\ Place /\ Translates /\ Early /\ \E L : Trees(L)
----------------------------------------------------------------------------
(* Numbers *)

\* A larger factor makes a larger product.
LEMMA Times ==
  ASSUME NEW a \in Int, NEW b \in Int, NEW P \in Nat, a <= b
  PROVE  a * P <= b * P /\ (a + 1) * P = a * P + P /\ a * P \in Int
  BY Z3

\* The quotient and the rest.
LEMMA Division ==
  ASSUME NEW a \in Nat, NEW P \in Nat \ {0}
  PROVE  \E q, r \in Nat : q = a \div P /\ r = a % P /\ r < P /\ a = q * P + r
<1>1. a \div P \in Nat /\ a % P \in Nat /\ a % P < P
  BY Z3
<1>2. PICK q \in Nat, r \in Nat : q = a \div P /\ r = a % P /\ r < P
  BY <1>1
<1>3. a = q * P + r
  BY <1>2, Z3
<1> QED
  BY <1>2, <1>3

\* Quotient and rest tell a number.
LEMMA SameParts ==
  ASSUME NEW a \in Nat, NEW b \in Nat, NEW P \in Nat \ {0}, a \div P = b \div P, a % P = b % P
  PROVE  a = b
<1>1. PICK q \in Nat, r \in Nat : q = a \div P /\ r = a % P /\ a = q * P + r
  BY Division
<1>2. PICK k \in Nat, t \in Nat : k = b \div P /\ t = b % P /\ b = k * P + t
  BY Division
<1>3. q = k /\ r = t
  BY <1>1, <1>2
<1> QED
  BY <1>1, <1>2, <1>3, Zenon

\* A number is less than another times P when its quotient is less.
LEMMA QuotientBelow ==
  ASSUME NEW a \in Nat, NEW P \in Nat \ {0}, NEW c \in Nat
  PROVE  /\ a < c * P => a \div P < c
         /\ a >= c * P => a \div P >= c
<1>1. PICK q \in Nat, r \in Nat : q = a \div P /\ r < P /\ a = q * P + r
  BY Division
<1>2. ASSUME a < c * P, q >= c PROVE FALSE
  BY <1>1, <1>2, Times
<1>3. ASSUME a >= c * P, q < c PROVE FALSE
  <2>1. q + 1 <= c
    BY <1>3
  <2>2. (q + 1) * P <= c * P /\ (q + 1) * P = q * P + P
    <3>1. (q + 1) * P <= c * P
      BY <2>1, Times
    <3>2. (q + 1) * P = q * P + P
      BY Times
    <3> QED
      BY <3>1, <3>2
  <2>3. PICK x \in Int, y \in Int : x = q * P /\ y = c * P
    BY Times
  <2> QED
    BY <1>1, <1>3, <2>2, <2>3
<1> QED
  BY <1>1, <1>2, <1>3

\* A number less than the divisor is its own rest.
LEMMA SmallRest ==
  ASSUME NEW a \in Nat, NEW P \in Nat \ {0}, a < P
  PROVE  a % P = a
  BY Z3

\* Dividing twice is dividing by the product.
LEMMA DivideTwice ==
  ASSUME NEW a \in Nat, NEW P \in Nat \ {0}, NEW Q \in Nat \ {0}
  PROVE  Q * P \in Nat \ {0} /\ (a \div P) \div Q = a \div (Q * P)
<1>1. PICK q \in Nat, r \in Nat : q = a \div P /\ r < P /\ a = q * P + r
  BY Division
<1>2. PICK k \in Nat, t \in Nat : k = q \div Q /\ t < Q /\ q = k * Q + t
  BY Division
<1>3. a = (k * Q) * P + (t * P + r)
  <2>1. PICK x \in Nat : x = k * Q
    <3>1. k * Q \in Nat
      BY Z3
    <3> QED
      BY <3>1
  <2>2. (x + t) * P = x * P + t * P
    BY Z3
  <2>3. x * P \in Nat /\ t * P \in Nat
    BY Z3
  <2>4. PICK y \in Nat, z \in Nat : y = x * P /\ z = t * P
    BY <2>3
  <2>5. a = (y + z) + r
    BY <1>1, <1>2, <2>1, <2>2, <2>4
  <2>6. a = y + (z + r)
    BY <2>5
  <2> QED
    BY <2>1, <2>4, <2>6
<1>4. t * P + r < Q * P /\ t * P + r \in Nat
  <2>1. (t + 1) * P <= Q * P /\ (t + 1) * P = t * P + P
    <3>1. (t + 1) * P <= Q * P
      BY <1>2, Times
    <3> QED
      BY <3>1, Times
  <2>2. PICK x \in Nat, y \in Int : x = t * P /\ y = Q * P
    <3>1. t * P \in Nat
      BY Z3
    <3> QED
      BY <3>1, Times
  <2> QED
    BY <1>1, <2>1, <2>2
<1>5. Q * P \in Nat \ {0}
  BY Z3
<1>6. PICK m \in Nat \ {0}, u \in Nat : m = Q * P /\ u = t * P + r /\ u < m
  BY <1>4, <1>5
<1>7. a = k * m + u
  BY <1>3, <1>6, Z3
<1>8. a \div m = k
  <2>1. k <= a \div m
    <3>1. a >= k * m
      <4>1. k * m \in Int
        BY Times
      <4> QED
        BY <1>7, <4>1
    <3> QED
      BY <3>1, QuotientBelow
  <2>2. a \div m < k + 1
    <3>1. (k + 1) * m = k * m + m /\ k * m \in Int
      BY Times
    <3>2. a < (k + 1) * m
      BY <1>6, <1>7, <3>1
    <3> QED
      BY <3>2, QuotientBelow
  <2>3. a \div m \in Nat
    BY Division
  <2> QED
    BY <2>1, <2>2, <2>3
<1> QED
  BY <1>1, <1>2, <1>5, <1>6, <1>8

\* A set of naturals that is not empty has a least element.
LEMMA LeastNatural ==
  ASSUME NEW S, S \subseteq Nat, S # {}
  PROVE  \E x \in S : \A y \in S : x <= y
<1>1. \E R : IsWellFoundedOn(R, Nat) /\ \A x, y \in Nat : y < x => <<y, x>> \in R
  <2> DEFINE L == OpToRel(<, Nat)
  <2>1. \A x, y \in Nat : y < x => <<y, x>> \in L
    BY DEF OpToRel
  <2>2. IsWellFoundedOn(L, Nat)
    BY NatLessThanWellFounded
  <2> HIDE DEF L
  <2> QED
    BY <2>1, <2>2
<1>2. PICK R : IsWellFoundedOn(R, Nat) /\ \A x, y \in Nat : y < x => <<y, x>> \in R
  BY <1>1
<1>3. PICK x \in S : \A y \in S : ~(<<y, x>> \in R)
  BY <1>2, WFMin
<1>4. ASSUME NEW y \in S PROVE x <= y
  <2>1. x \in Nat /\ y \in Nat /\ ~(y < x)
    BY <1>2, <1>3
  <2> QED
    BY <2>1
<1> QED
  BY <1>4

\* The lowest of a set of frames is one of them (alloc_phys_pages).
LEMMA LowestIn ==
  ASSUME NEW S, S \subseteq Nat, S # {}
  PROVE  Lowest(S) \in S
  BY LeastNatural DEF Lowest
----------------------------------------------------------------------------
(* The four indexes of a page *)

\* The fan-out, and the number of pages an entry of each level stands for.
LEMMA Sizes ==
  /\ F \in Nat \ {0} /\ F >= 2
  /\ Span(0) = 1 /\ Span(1) = F /\ Span(2) = F * F /\ Span(3) = F * F * F
  BY TableAssumption DEF Span

\* A rest is an index of a table.
LEMMA RestIndex ==
  ASSUME NEW x \in Nat
  PROVE  x % F \in Index
<1>1. PICK q, r \in Nat : r = x % F /\ r < F
  BY Sizes, Division
<1> QED
  BY <1>1, Sizes DEF Index

\* The indexes of a page and the quotients they come from (mmap.c:23).
LEMMA Indexes ==
  ASSUME NEW v \in Nat
  PROVE  \E a, b, c \in Nat :
           /\ c = v \div F /\ b = c \div F /\ a = b \div F
           /\ Offset0(v, 0) = v % F /\ Offset0(v, 1) = c % F
           /\ Offset0(v, 2) = b % F /\ Offset0(v, 3) = a % F
           /\ b = v \div Span(2) /\ a = v \div Span(3)
<1>1. F \in Nat \ {0}
  BY Sizes
<1>2. PICK c \in Nat : c = v \div F
  BY <1>1, Division
<1>3. PICK b \in Nat : b = c \div F
  BY <1>1, Division
<1>4. PICK a \in Nat : a = b \div F
  BY <1>1, Division
<1>5. F * F \in Nat \ {0} /\ b = v \div (F * F)
  <2>1. F * F \in Nat \ {0} /\ (v \div F) \div F = v \div (F * F)
    BY <1>1, DivideTwice, Zenon
  <2> QED
    BY <1>2, <1>3, <2>1, Zenon
<1>6. a = v \div (F * (F * F))
  <2>1. PICK G \in Nat \ {0} : G = F * F
    BY <1>5
  <2>2. (v \div G) \div F = v \div (F * G)
    BY <1>1, <2>1, DivideTwice
  <2> QED
    BY <1>4, <1>5, <2>1, <2>2, Zenon
<1>7. F * (F * F) = F * F * F
  BY <1>1, Z3
<1>8. v \div 1 = v
  BY Z3
<1>9. /\ Offset0(v, 0) = v % F /\ Offset0(v, 1) = c % F
      /\ Offset0(v, 2) = b % F /\ Offset0(v, 3) = a % F
  BY <1>2, <1>5, <1>6, <1>7, <1>8, Sizes DEF Offset0
<1>10. b = v \div Span(2) /\ a = v \div Span(3)
  BY <1>5, <1>6, <1>7, Sizes
<1> QED
  BY <1>2, <1>3, <1>4, <1>9, <1>10

\* An index is an entry of a table.
LEMMA IndexIn ==
  ASSUME NEW v \in Nat
  PROVE  /\ Offset0(v, 0) \in Index /\ Offset0(v, 1) \in Index
         /\ Offset0(v, 2) \in Index /\ Offset0(v, 3) \in Index
         /\ v % F \in Index
  BY Indexes, RestIndex

\* A page's index in the root is the quotient itself.
LEMMA TopIndex ==
  ASSUME NEW v \in Pages
  PROVE  v \in Nat /\ Offset0(v, 3) = v \div Span(3) /\ v \div Span(3) \in Index
<1>1. F * F \in Nat \ {0}
  BY Sizes, DivideTwice
<1>2. PICK H \in Nat \ {0} : H = F * F
  BY <1>1
<1>3. PICK G \in Nat \ {0} : G = Span(3)
  <2>1. H * F \in Nat \ {0}
    BY <1>2, Sizes, DivideTwice
  <2> QED
    BY <1>2, <2>1, Sizes
<1>4. v \in Nat /\ v < F * G
  <2>1. F * G \in Int
    BY Sizes, Times
  <2> QED
    BY <1>3, <2>1 DEF Pages
<1>5. v \div G < F
  BY <1>4, Sizes, QuotientBelow
<1>6. PICK a \in Nat : a = v \div Span(3) /\ Offset0(v, 3) = a % F
  BY <1>4, Indexes
<1>7. a % F = a
  BY <1>3, <1>5, <1>6, Sizes, SmallRest
<1> QED
  BY <1>3, <1>4, <1>5, <1>6, <1>7, Sizes DEF Index

\* The upper three indexes tell the page table, all four the page.
LEMMA IndexesTell ==
  ASSUME NEW v \in Pages, NEW w \in Pages,
         Offset0(v, 3) = Offset0(w, 3), Offset0(v, 2) = Offset0(w, 2),
         Offset0(v, 1) = Offset0(w, 1)
  PROVE  v \div F = w \div F /\ (v % F = w % F => v = w)
<1>1. v \in Nat /\ w \in Nat /\ F \in Nat \ {0}
  BY TopIndex, Sizes
<1>2. v \div Span(3) = w \div Span(3)
  BY TopIndex
<1>3. PICK a, b, c \in Nat :
        /\ c = v \div F /\ b = c \div F /\ a = b \div F
        /\ Offset0(v, 0) = v % F /\ Offset0(v, 1) = c % F
        /\ Offset0(v, 2) = b % F /\ Offset0(v, 3) = a % F
        /\ b = v \div Span(2) /\ a = v \div Span(3)
  BY <1>1, Indexes, Zenon
<1>4. PICK d, e, f \in Nat :
        /\ f = w \div F /\ e = f \div F /\ d = e \div F
        /\ Offset0(w, 0) = w % F /\ Offset0(w, 1) = f % F
        /\ Offset0(w, 2) = e % F /\ Offset0(w, 3) = d % F
        /\ e = w \div Span(2) /\ d = w \div Span(3)
  BY <1>1, Indexes, Zenon
<1>5. b \div F = e \div F /\ b % F = e % F
  BY <1>2, <1>3, <1>4, Zenon
<1>6. b = e
  BY <1>1, <1>5, SameParts, Zenon
<1>7. c \div F = f \div F /\ c % F = f % F
  BY <1>3, <1>4, <1>6, Zenon
<1>8. c = f
  BY <1>1, <1>7, SameParts, Zenon
<1>9. v \div F = w \div F
  BY <1>3, <1>4, <1>8, Zenon
<1>10. ASSUME v % F = w % F PROVE v = w
  BY <1>1, <1>9, <1>10, SameParts, Zenon
<1> QED
  BY <1>9, <1>10
----------------------------------------------------------------------------
(* Ranges the iterator walks in full *)

\* Quotients keep the order.
LEMMA QuotientOrder ==
  ASSUME NEW a \in Nat, NEW b \in Nat, NEW P \in Nat \ {0}, a <= b
  PROVE  a \div P <= b \div P
<1>1. PICK q \in Nat, r \in Nat : q = a \div P /\ r < P /\ a = q * P + r
  BY Division
<1>2. q * P \in Int
  BY Times
<1>3. b >= q * P
  BY <1>1, <1>2
<1> QED
  BY <1>1, <1>3, QuotientBelow

\* A multiple of P and a rest: the quotient and the rest are these.
LEMMA QuotientIs ==
  ASSUME NEW q \in Nat, NEW r \in Nat, NEW P \in Nat \ {0}, r < P
  PROVE  q * P + r \in Nat /\ (q * P + r) \div P = q /\ (q * P + r) % P = r
<1>1. q * P \in Nat
  BY Z3
<1>2. PICK a \in Nat : a = q * P + r
  BY <1>1
<1>3. PICK k \in Nat, t \in Nat : k = a \div P /\ t = a % P /\ t < P /\ a = k * P + t
  BY Division
<1>4. k = q
  <2>1. a >= q * P /\ (q + 1) * P = q * P + P
    BY <1>1, <1>2, Times
  <2>2. a < (q + 1) * P
    BY <1>1, <1>2, <2>1
  <2>3. k < q + 1
    <3>1. q + 1 \in Nat
      OBVIOUS
    <3> QED
      BY <1>3, <2>2, <3>1, QuotientBelow
  <2>4. k >= q
    BY <1>3, <2>1, QuotientBelow
  <2> QED
    BY <2>3, <2>4
<1>5. t = r
  BY <1>1, <1>2, <1>3, <1>4
<1> QED
  BY <1>2, <1>3, <1>4, <1>5

\* Adding a multiple adds its quotient.
LEMMA QuotientSum ==
  ASSUME NEW a \in Nat, NEW k \in Nat, NEW P \in Nat \ {0}
  PROVE  a + k = (a \div P) * P + ((a % P) + k)
         /\ (a + k) \div P = (a \div P) + (((a % P) + k) \div P)
<1>1. PICK q \in Nat, r \in Nat : q = a \div P /\ r = a % P /\ a = q * P + r
  BY Division
<1>2. r + k \in Nat
  OBVIOUS
<1>3. PICK m \in Nat, t \in Nat : m = (r + k) \div P /\ t < P /\ r + k = m * P + t
  BY <1>2, Division
<1>4. q * P \in Nat /\ m * P \in Nat /\ (q + m) * P = q * P + m * P
  BY Z3
<1>5. a + k = (q + m) * P + t
  BY <1>1, <1>3, <1>4
<1>6. PICK x \in Nat : x = q + m
  OBVIOUS
<1>7. (a + k) \div P = q + m
  <2>1. (x * P + t) \div P = x
    BY <1>3, QuotientIs
  <2> QED
    BY <1>5, <1>6, <2>1
<1>8. a + k = q * P + (r + k)
  BY <1>1, <1>4
<1> QED
  BY <1>1, <1>3, <1>7, <1>8

\* With the same quotient, the difference is that of the rests.
LEMMA RestDifference ==
  ASSUME NEW a \in Nat, NEW b \in Nat, NEW P \in Nat \ {0}, a \div P = b \div P
  PROVE  a - b = (a % P) - (b % P)
<1>1. PICK q \in Nat, r \in Nat : q = a \div P /\ r = a % P /\ a = q * P + r
  BY Division
<1>2. PICK k \in Nat, t \in Nat : k = b \div P /\ t = b % P /\ b = k * P + t
  BY Division
<1>3. q * P \in Nat /\ k = q
  BY <1>1, <1>2, Z3
<1>4. b = q * P + t
  BY <1>2, <1>3
<1>5. PICK x \in Nat : x = q * P
  BY <1>3
<1>6. a - b = r - t
  BY <1>1, <1>4, <1>5
<1> QED
  BY <1>1, <1>2, <1>6

\* Every page of a range that fits is under the same page directory.
LEMMA FitPages ==
  ASSUME NEW g, g.v \in Nat, g.n \in Nat, Fits(g), NEW w \in PagesOf(g)
  PROVE  /\ w \in Pages /\ w \in Nat /\ g.v <= w /\ w < g.v + g.n
         /\ Offset0(w, 3) = Offset0(g.v, 3) /\ Offset0(w, 2) = Offset0(g.v, 2)
         /\ Offset0(w, 1) = Offset0(g.v, 1) + ((w \div F) - (g.v \div F))
         /\ g.v \div F \in Nat /\ w \div F \in Nat /\ g.v \div F <= w \div F
<1>1. PICK v \in Nat, n \in Nat : v = g.v /\ n = g.n
  OBVIOUS
<1>2. w \in Nat /\ v <= w /\ w <= v + n - 1 /\ v + n - 1 \in Nat
  BY <1>1 DEF PagesOf
<1>3. v + n <= F * Span(3) /\ v \div Span(2) = (v + n - 1) \div Span(2)
  BY <1>1 DEF Fits
<1>4. w \in Pages
  <2>1. F * Span(3) \in Int
    <3>1. F * F \in Int
      BY Sizes, Times
    <3>2. F * F * F \in Int
      BY <3>1, Sizes, Z3
    <3> QED
      BY <3>2, Sizes, Z3
  <2> QED
    BY <1>2, <1>3, <2>1 DEF Pages
<1>5. v \div Span(2) = w \div Span(2)
  <2>1. PICK G \in Nat \ {0} : G = Span(2)
    BY Sizes, DivideTwice
  <2>2. v \div G <= w \div G /\ w \div G <= (v + n - 1) \div G
    BY <1>2, QuotientOrder
  <2>3. v \div G \in Nat /\ w \div G \in Nat
    BY <1>2, Division
  <2> QED
    BY <1>3, <2>1, <2>2, <2>3
<1>6. PICK a, b, c \in Nat :
        /\ c = v \div F /\ b = c \div F /\ a = b \div F
        /\ Offset0(v, 0) = v % F /\ Offset0(v, 1) = c % F
        /\ Offset0(v, 2) = b % F /\ Offset0(v, 3) = a % F
        /\ b = v \div Span(2) /\ a = v \div Span(3)
  BY Indexes, Zenon
<1>7. PICK d, e, f \in Nat :
        /\ f = w \div F /\ e = f \div F /\ d = e \div F
        /\ Offset0(w, 0) = w % F /\ Offset0(w, 1) = f % F
        /\ Offset0(w, 2) = e % F /\ Offset0(w, 3) = d % F
        /\ e = w \div Span(2) /\ d = w \div Span(3)
  BY <1>2, Indexes, Zenon
<1>8. b = e /\ a = d
  BY <1>5, <1>6, <1>7, Zenon
<1>9. f - c = (f % F) - (c % F)
  <2>1. f \div F = c \div F
    BY <1>6, <1>7, <1>8, Zenon
  <2> QED
    BY <2>1, Sizes, RestDifference
<1>10. c <= f
  BY <1>2, <1>6, <1>7, Sizes, QuotientOrder
<1>11. f % F \in Nat /\ c % F \in Nat
  BY Sizes, Division
<1>12. Offset0(w, 1) = Offset0(v, 1) + (f - c)
  BY <1>6, <1>7, <1>9, <1>11
<1>13. Offset0(w, 3) = Offset0(v, 3) /\ Offset0(w, 2) = Offset0(v, 2)
  BY <1>6, <1>7, <1>8, Zenon
<1> QED
  BY <1>1, <1>2, <1>4, <1>6, <1>7, <1>10, <1>12, <1>13

\* A range within one span is shorter than it (mmap.c:24).
LEMMA InOneSpan ==
  ASSUME NEW a \in Nat, NEW m \in Nat, NEW P \in Nat \ {0}, a \div P = (a + m) \div P
  PROVE  m < P
<1>1. PICK q \in Nat, r \in Nat : q = a \div P /\ r = a % P /\ r < P /\ a = q * P + r
  BY Division
<1>2. PICK b \in Nat : b = a + m
  OBVIOUS
<1>3. PICK k \in Nat, t \in Nat : k = b \div P /\ t = b % P /\ t < P /\ b = k * P + t
  BY Division
<1>4. k = q
  BY <1>1, <1>2, <1>3
<1>5. PICK x \in Int : x = q * P
  BY Times
<1> QED
  BY <1>1, <1>2, <1>3, <1>4, <1>5

\* The turns of the four loops over such a range (mmap.c:24).
LEMMA FitTurns ==
  ASSUME NEW g, g.v \in Nat, g.n \in Nat, Fits(g)
  PROVE  /\ Ceil(g.n, F) \in Nat \ {0} /\ Offset0(g.v, 1) + Ceil(g.n, F) <= F
         /\ (g.v + g.n - 1) \div F = (g.v \div F) + Ceil(g.n, F) - 1
         /\ Len0(g.n, 3) = 1 /\ Len0(g.n, 2) = 1 /\ Len0(g.n, 0) = g.n
         /\ Len0(g.n, 1) = Ceil(g.n, F)
<1>1. PICK v \in Nat, n \in Nat : v = g.v /\ n = g.n
  OBVIOUS
<1>2. n > 0 /\ ((v % F) + n - 1) \div F + 1 = Ceil(n, F)
      /\ v \div Span(2) = (v + n - 1) \div Span(2)
  BY <1>1 DEF Fits
<1>3. PICK m \in Nat : m = n - 1
  BY <1>2
<1>4. v % F \in Nat /\ v \div F \in Nat
  BY Sizes, Division
<1>5. (v + m) \div F = (v \div F) + (((v % F) + m) \div F)
  <2>1. F \in Nat \ {0}
    BY Sizes
  <2> QED
    BY <2>1, QuotientSum, Zenon
<1>6. v + m = v + n - 1 /\ (v % F) + m = (v % F) + n - 1
  BY <1>3, <1>4
<1>7. PICK t \in Nat : t = ((v % F) + m) \div F
  <2>1. (v % F) + m \in Nat
    BY <1>4
  <2> QED
    BY <2>1, Sizes, Division
<1>8. Ceil(n, F) = t + 1 /\ (v + n - 1) \div F = (v \div F) + t
  BY <1>2, <1>5, <1>6, <1>7
<1>9. v + m \in PagesOf(g)
  BY <1>1, <1>3 DEF PagesOf
<1>10. Offset0(v + m, 1) = Offset0(v, 1) + (((v + m) \div F) - (v \div F))
  BY <1>1, <1>9, FitPages
<1>11. Offset0(v + m, 1) \in Index /\ Offset0(v, 1) \in Index
  BY IndexIn
<1>12. Offset0(v, 1) + t + 1 <= F
  BY <1>4, <1>5, <1>7, <1>10, <1>11, Sizes DEF Index
<1>13. PICK G \in Nat \ {0} : G = Span(2)
  BY Sizes, DivideTwice
<1>14. m < G
  <2>1. v \div G = (v + m) \div G
    BY <1>2, <1>6, <1>13
  <2> QED
    BY <2>1, InOneSpan
<1>15. Len0(n, 2) = 1
  <2>1. m + G = 1 * G + m
    BY Times
  <2>2. (m + G) \div G = 1
    BY <1>14, <2>1, QuotientIs
  <2>3. n + G - 1 = m + G
    BY <1>3
  <2> QED
    BY <1>13, <2>2, <2>3 DEF Len0, Ceil
<1>16. Len0(n, 3) = 1
  <2>1. PICK H \in Nat \ {0} : H = Span(3)
    <3>1. G * F \in Nat \ {0}
      BY Sizes, DivideTwice
    <3> QED
      BY <1>13, <3>1, Sizes
  <2>2. m < H
    <3>1. 1 * G <= F * G /\ 1 * G = G
      BY Sizes, Times
    <3>2. F * G = H
      BY <1>13, <2>1, Sizes, Z3
    <3> QED
      BY <1>14, <3>1, <3>2
  <2>3. m + H = 1 * H + m
    BY Times
  <2>4. (m + H) \div H = 1
    BY <2>2, <2>3, QuotientIs
  <2>5. n + H - 1 = m + H
    BY <1>3
  <2> QED
    BY <2>1, <2>4, <2>5 DEF Len0, Ceil
<1>17. Len0(n, 0) = n
  <2>1. n + 1 - 1 = n /\ n \div 1 = n
    BY Z3
  <2> QED
    BY <2>1, Sizes DEF Len0, Ceil
<1>18. Len0(n, 1) = Ceil(n, F)
  BY Sizes DEF Len0
<1> QED
  BY <1>1, <1>4, <1>8, <1>11, <1>12, <1>15, <1>16, <1>17, <1>18, Sizes DEF Index
----------------------------------------------------------------------------
(* The tree of tables *)

\* P are the roots of the processes.
Tree(T, L, P) ==
  /\ Leveled(T, L, {Root} \cup P) /\ Root \notin P
  /\ PointedOnce(T, L, DOMAIN T \ P, Pool)

\* Tables hold entries.
LEMMA EntryIn ==
  ASSUME NEW T, NEW L, NEW P, Leveled(T, L, P), NEW t \in DOMAIN T, NEW x \in Index
  PROVE  T[t][x] \in EntryType /\ T[t][x].present \in BOOLEAN /\ T[t][x].frame \in Nat
         /\ T[t][x].flags \subseteq Flags
<1>1. T[t] \in [Index -> EntryType]
  BY DEF Leveled, TableType
<1>2. T[t][x] \in EntryType
  BY <1>1
<1> QED
  BY <1>2 DEF EntryType

\* The tables on the way to a page, and their levels.
LEMMA WayLevels ==
  ASSUME NEW T, NEW L, NEW P, Tree(T, L, P), NEW v \in Nat
  PROVE  /\ Root \in DOMAIN T \ P /\ L[Root] = 3
         /\ Entry3(T, v).present =>
              Entry3(T, v).frame \in DOMAIN T \ P /\ L[Entry3(T, v).frame] = 2
         /\ Entry3(T, v).present /\ Entry2(T, v).present =>
              Entry2(T, v).frame \in DOMAIN T \ P /\ L[Entry2(T, v).frame] = 1
         /\ Reached(T, v) =>
              Entry1(T, v).frame \in DOMAIN T \ P /\ L[Entry1(T, v).frame] = 0
<1>1. \A t \in DOMAIN T, x \in Index : (L[t] > 0 /\ T[t][x].present) =>
        T[t][x].frame \in DOMAIN T /\ L[T[t][x].frame] = L[t] - 1
  BY DEF Tree, Leveled
<1>2. \A t \in DOMAIN T : L[t] = 3 <=> t \in {Root} \cup P
  BY DEF Tree, Leveled
<1>3. Root \in DOMAIN T \ P /\ L[Root] = 3
  BY <1>2 DEF Tree, Leveled
<1>4. /\ Offset0(v, 1) \in Index /\ Offset0(v, 2) \in Index /\ Offset0(v, 3) \in Index
  BY IndexIn
<1>5. ASSUME Entry3(T, v).present
      PROVE  Entry3(T, v).frame \in DOMAIN T \ P /\ L[Entry3(T, v).frame] = 2
  BY <1>1, <1>2, <1>3, <1>4, <1>5 DEF Entry3
<1>6. ASSUME Entry3(T, v).present, Entry2(T, v).present
      PROVE  Entry2(T, v).frame \in DOMAIN T \ P /\ L[Entry2(T, v).frame] = 1
  BY <1>1, <1>2, <1>4, <1>5, <1>6 DEF Entry2
<1>7. ASSUME Reached(T, v)
      PROVE  Entry1(T, v).frame \in DOMAIN T \ P /\ L[Entry1(T, v).frame] = 0
  BY <1>1, <1>2, <1>4, <1>6, <1>7 DEF Entry1, Reached
<1> QED
  BY <1>3, <1>5, <1>6, <1>7

\* Two pages whose ways meet have the same indexes down to there.
LEMMA WaysMeet ==
  ASSUME NEW T, NEW L, NEW P, Tree(T, L, P), NEW v \in Nat, NEW w \in Nat,
         Entry3(T, v).present, Entry3(T, w).present
  PROVE  /\ Entry3(T, v).frame = Entry3(T, w).frame => Offset0(v, 3) = Offset0(w, 3)
         /\ (Entry2(T, v).present /\ Entry2(T, w).present
             /\ Entry2(T, v).frame = Entry2(T, w).frame) =>
              Offset0(v, 3) = Offset0(w, 3) /\ Offset0(v, 2) = Offset0(w, 2)
         /\ (Reached(T, v) /\ Reached(T, w) /\ Entry1(T, v).frame = Entry1(T, w).frame) =>
              /\ Offset0(v, 3) = Offset0(w, 3) /\ Offset0(v, 2) = Offset0(w, 2)
              /\ Offset0(v, 1) = Offset0(w, 1)
<1>1. \A t, u \in DOMAIN T \ P : \A x, y \in Index :
        (/\ T[t][x].present /\ T[u][y].present /\ T[t][x].frame = T[u][y].frame
         /\ L[t] > 0 /\ L[u] > 0) => t = u /\ x = y
  BY DEF Tree, PointedOnce
<1>2. /\ Offset0(v, 1) \in Index /\ Offset0(v, 2) \in Index /\ Offset0(v, 3) \in Index
      /\ Offset0(w, 1) \in Index /\ Offset0(w, 2) \in Index /\ Offset0(w, 3) \in Index
  BY IndexIn
<1>3. Root \in DOMAIN T \ P /\ L[Root] = 3
  BY WayLevels
<1>4. ASSUME Entry3(T, v).frame = Entry3(T, w).frame PROVE Offset0(v, 3) = Offset0(w, 3)
  BY <1>1, <1>2, <1>3, <1>4 DEF Entry3
<1>5. ASSUME Entry2(T, v).present, Entry2(T, w).present,
             Entry2(T, v).frame = Entry2(T, w).frame
      PROVE  Offset0(v, 3) = Offset0(w, 3) /\ Offset0(v, 2) = Offset0(w, 2)
  <2>1. /\ Entry3(T, v).frame \in DOMAIN T \ P /\ L[Entry3(T, v).frame] = 2
        /\ Entry3(T, w).frame \in DOMAIN T \ P /\ L[Entry3(T, w).frame] = 2
    BY WayLevels
  <2>2. Entry3(T, v).frame = Entry3(T, w).frame /\ Offset0(v, 2) = Offset0(w, 2)
    BY <1>1, <1>2, <1>5, <2>1 DEF Entry2
  <2> QED
    BY <1>4, <2>2
<1>6. ASSUME Reached(T, v), Reached(T, w), Entry1(T, v).frame = Entry1(T, w).frame
      PROVE  /\ Offset0(v, 3) = Offset0(w, 3) /\ Offset0(v, 2) = Offset0(w, 2)
             /\ Offset0(v, 1) = Offset0(w, 1)
  <2>1. Entry2(T, v).present /\ Entry2(T, w).present
    BY <1>6 DEF Reached
  <2>2. /\ Entry2(T, v).frame \in DOMAIN T \ P /\ L[Entry2(T, v).frame] = 1
        /\ Entry2(T, w).frame \in DOMAIN T \ P /\ L[Entry2(T, w).frame] = 1
    BY <2>1, WayLevels
  <2>3. Entry2(T, v).frame = Entry2(T, w).frame /\ Offset0(v, 1) = Offset0(w, 1)
    BY <1>1, <1>2, <1>6, <2>2 DEF Entry1, Reached
  <2> QED
    BY <1>5, <2>1, <2>3
<1> QED
  BY <1>4, <1>5, <1>6

\* A page has a page table entry of its own.
LEMMA OwnEntry ==
  ASSUME NEW T, NEW L, NEW P, Tree(T, L, P), NEW v \in Pages, NEW w \in Pages,
         Reached(T, v), Reached(T, w), Entry1(T, v).frame = Entry1(T, w).frame
  PROVE  v \div F = w \div F /\ (v % F = w % F => v = w)
<1>1. v \in Nat /\ w \in Nat
  BY TopIndex
<1>2. Entry3(T, v).present /\ Entry3(T, w).present
  BY DEF Reached
<1>3. /\ Offset0(v, 3) = Offset0(w, 3) /\ Offset0(v, 2) = Offset0(w, 2)
      /\ Offset0(v, 1) = Offset0(w, 1)
  BY <1>1, <1>2, WaysMeet, Zenon
<1> QED
  BY <1>3, IndexesTell, Zenon

\* A leaf entry written leaves every table its level.
LEMMA WriteTree ==
  ASSUME NEW T, NEW L, NEW P, Tree(T, L, P), NEW p \in Pages, Reached(T, p),
         NEW U, DOMAIN U = DOMAIN T, U \in [DOMAIN U -> TableType],
         \A t \in DOMAIN T, x \in Index :
           ~(t = Entry1(T, p).frame /\ x = p % F) => U[t][x] = T[t][x]
  PROVE  Leveled(U, L, {Root} \cup P)
<1>1. p \in Nat /\ p % F \in Index
  BY TopIndex, IndexIn
<1>2. PICK c \in DOMAIN T \ P : c = Entry1(T, p).frame /\ L[c] = 0
  BY <1>1, WayLevels
<1>3. T \in [DOMAIN T -> TableType]
  BY DEF Tree, Leveled
<1>4. T[c] \in [Index -> EntryType]
  BY <1>2, <1>3 DEF TableType
<1>5. /\ U \in [DOMAIN T -> TableType] /\ DOMAIN U = DOMAIN T
      /\ \A t \in DOMAIN T, x \in Index : t # c => U[t][x] = T[t][x]
  BY <1>2
<1>6. \A t \in DOMAIN T, x \in Index : ~(t = c /\ x = p % F) => U[t][x] = T[t][x]
  BY <1>2
<1>7. /\ L \in [DOMAIN T -> Levels] /\ {Root} \cup P \subseteq DOMAIN T
      /\ \A t \in DOMAIN T : L[t] = 3 <=> t \in {Root} \cup P
      /\ \A t \in DOMAIN T, x \in Index : (L[t] > 0 /\ T[t][x].present) =>
           T[t][x].frame \in DOMAIN T /\ L[T[t][x].frame] = L[t] - 1
  BY DEF Tree, Leveled
<1>8. \A t \in DOMAIN U, x \in Index : (L[t] > 0 /\ U[t][x].present) =>
        U[t][x].frame \in DOMAIN U /\ L[U[t][x].frame] = L[t] - 1
  BY <1>2, <1>5, <1>7
<1> QED
  BY <1>5, <1>7, <1>8, Zenon DEF Leveled

\* A leaf entry written changes the translation of its page alone.
LEMMA WriteLeaf ==
  ASSUME NEW T, NEW L, NEW P, Tree(T, L, P), NEW p \in Pages, Reached(T, p),
         NEW U, DOMAIN U = DOMAIN T, U \in [DOMAIN U -> TableType],
         \A t \in DOMAIN T, x \in Index :
           ~(t = Entry1(T, p).frame /\ x = p % F) => U[t][x] = T[t][x],
         NEW w \in Pages
  PROVE  Leaf(U, w) = IF w = p THEN U[Entry1(T, p).frame][p % F] ELSE Leaf(T, w)
<1>1. p \in Nat /\ p % F \in Index
  BY TopIndex, IndexIn
<1>2. PICK c \in DOMAIN T \ P : c = Entry1(T, p).frame /\ L[c] = 0
  BY <1>1, WayLevels
<1>3. T \in [DOMAIN T -> TableType]
  BY DEF Tree, Leveled
<1>4. T[c] \in [Index -> EntryType]
  BY <1>2, <1>3 DEF TableType
<1>5. /\ U \in [DOMAIN T -> TableType] /\ DOMAIN U = DOMAIN T
      /\ \A t \in DOMAIN T, x \in Index : t # c => U[t][x] = T[t][x]
  BY <1>2
<1>6. \A t \in DOMAIN T, x \in Index : ~(t = c /\ x = p % F) => U[t][x] = T[t][x]
  BY <1>2
<1>7. /\ w \in Nat /\ w % F \in Index
      /\ Offset0(w, 3) \in Index /\ Offset0(w, 2) \in Index /\ Offset0(w, 1) \in Index
  BY TopIndex, IndexIn
<1>8. Entry3(U, w) = Entry3(T, w)
  <2>1. Root \in DOMAIN T /\ Root # c
    BY <1>2, <1>7, WayLevels
  <2> QED
    BY <1>5, <1>7, <2>1 DEF Entry3
<1>9. ASSUME Entry3(T, w).present PROVE Entry2(U, w) = Entry2(T, w)
  <2>1. Entry3(T, w).frame \in DOMAIN T /\ Entry3(T, w).frame # c
    BY <1>2, <1>7, <1>9, WayLevels
  <2> QED
    BY <1>5, <1>7, <1>8, <2>1 DEF Entry2
<1>10. ASSUME Entry3(T, w).present, Entry2(T, w).present PROVE Entry1(U, w) = Entry1(T, w)
  <2>1. Entry2(T, w).frame \in DOMAIN T /\ Entry2(T, w).frame # c
    BY <1>2, <1>7, <1>10, WayLevels
  <2> QED
    BY <1>5, <1>7, <1>9, <1>10, <2>1 DEF Entry1
<1>11. (Reached(U, w) <=> Reached(T, w))
  BY <1>8, <1>9, <1>10, Zenon DEF Reached
<1>12. ASSUME ~Reached(T, w) PROVE Leaf(U, w) = IF w = p THEN U[c][p % F] ELSE Leaf(T, w)
  <2>1. w # p
    BY <1>12
  <2>2. Leaf(U, w) = Absent /\ Leaf(T, w) = Absent
    BY <1>11, <1>12 DEF Leaf
  <2> QED
    BY <2>1, <2>2
<1>13. ASSUME Reached(T, w) PROVE Leaf(U, w) = IF w = p THEN U[c][p % F] ELSE Leaf(T, w)
  <2>1. Entry1(U, w) = Entry1(T, w) /\ Entry1(T, w).frame \in DOMAIN T
    BY <1>7, <1>10, <1>13, WayLevels DEF Reached
  <2>2. /\ Leaf(U, w) = U[Entry1(T, w).frame][w % F]
        /\ Leaf(T, w) = T[Entry1(T, w).frame][w % F]
    BY <1>11, <1>13, <2>1 DEF Leaf
  <2>3. (Entry1(T, w).frame = c /\ w % F = p % F) <=> w = p
    BY <1>2, <1>13, OwnEntry, Zenon
  <2>4. U[Entry1(T, w).frame][w % F]
          = IF Entry1(T, w).frame = c /\ w % F = p % F THEN U[c][p % F] ELSE T[Entry1(T, w).frame][w % F]
    BY <1>6, <1>7, <2>1
  <2>5. CASE w = p
    BY <2>2, <2>3, <2>4, <2>5
  <2>6. CASE w # p
    BY <2>2, <2>3, <2>4, <2>6
  <2> QED
    BY <2>5, <2>6
<1> QED
  BY <1>2, <1>12, <1>13

\* A leaf entry written keeps frames apart if its frame is nobody else's.
LEMMA WriteOnce ==
  ASSUME NEW T, NEW L, NEW P, Tree(T, L, P), NEW c \in DOMAIN T \ P, NEW z \in Index,
         L[c] = 0, NEW e, NEW U, DOMAIN U = DOMAIN T,
         \A t \in DOMAIN T, x \in Index : U[t][x] = IF t = c /\ x = z THEN e ELSE T[t][x],
         e.present /\ e.frame \in Pool => \A u \in DOMAIN T \ P, y \in Index :
           (T[u][y].present /\ T[u][y].frame = e.frame) => u = c /\ y = z
  PROVE  PointedOnce(U, L, DOMAIN U \ P, Pool)
<1> SUFFICES ASSUME NEW t \in DOMAIN T \ P, NEW u \in DOMAIN T \ P, NEW x \in Index, NEW y \in Index,
                    U[t][x].present, U[u][y].present, U[t][x].frame = U[u][y].frame,
                    (L[t] > 0 /\ L[u] > 0) \/ U[t][x].frame \in Pool
             PROVE  t = u /\ x = y
  BY DEF PointedOnce
<1>1. U[t][x] = IF t = c /\ x = z THEN e ELSE T[t][x]
  OBVIOUS
<1>2. U[u][y] = IF u = c /\ y = z THEN e ELSE T[u][y]
  OBVIOUS
<1>3. CASE t = c /\ x = z
  <2>1. e.present /\ e.frame \in Pool /\ e.frame = U[u][y].frame
    BY <1>1, <1>3
  <2>2. (u = c /\ y = z) \/ (T[u][y].present /\ T[u][y].frame = e.frame)
    BY <1>2, <2>1
  <2> QED
    BY <1>3, <2>1, <2>2
<1>4. CASE ~(t = c /\ x = z) /\ (u = c /\ y = z)
  <2>1. U[t][x] = T[t][x] /\ U[u][y] = e
    BY <1>1, <1>2, <1>4
  <2>2. e.present /\ e.frame \in Pool /\ T[t][x].present /\ T[t][x].frame = e.frame
    BY <1>4, <2>1
  <2> QED
    BY <1>4, <2>2
<1>5. CASE ~(t = c /\ x = z) /\ ~(u = c /\ y = z)
  <2>1. U[t][x] = T[t][x] /\ U[u][y] = T[u][y]
    BY <1>1, <1>2, <1>5
  <2> QED
    BY <2>1 DEF Tree, PointedOnce
<1> QED
  BY <1>3, <1>4, <1>5

\* A table of absent entries.
LEMMA ZeroEntries ==
  /\ ZeroTable \in TableType /\ Absent \in EntryType /\ ~Absent.present
  /\ \A x \in Index : ZeroTable[x] = Absent
<1>1. Absent \in EntryType /\ ~Absent.present
  BY DEF Absent, EntryType
<1> QED
  BY <1>1 DEF ZeroTable, TableType

\* The levels when the new table f is put under the table c.
Level1(L, c, f) == [x \in DOMAIN L \cup {f} |-> IF x = f THEN L[c] - 1 ELSE L[x]]

\* One entry of a table replaced.
LEMMA NewEntry ==
  ASSUME NEW T \in TableType, NEW z \in Index, NEW e \in EntryType
  PROVE  /\ [T EXCEPT ![z] = e] \in TableType
         /\ \A x \in Index : [T EXCEPT ![z] = e][x] = IF x = z THEN e ELSE T[x]
  BY DEF TableType

\* A new table keeps the tree a tree.
LEMMA NewTree ==
  ASSUME NEW T, NEW L, NEW P, Tree(T, L, P), NEW c \in DOMAIN T \ P, NEW z \in Index,
         NEW e \in EntryType, NEW f \in Pool, f = e.frame, f \notin DOMAIN T, L[c] > 0,
         \A t \in DOMAIN T, x \in Index : T[t][x].present => T[t][x].frame # f,
         NEW U, DOMAIN U = DOMAIN T \cup {f}, U \in [DOMAIN U -> TableType],
         \A x \in Index : U[f][x] = Absent,
         \A t \in DOMAIN T, x \in Index : U[t][x] = IF t = c /\ x = z THEN e ELSE T[t][x]
  PROVE  Tree(U, Level1(L, c, f), P)
<1> DEFINE M == Level1(L, c, f)
<1>1. \A x \in Index : ~U[f][x].present
  BY ZeroEntries
<1>2. \A t \in DOMAIN T, x \in Index : U[t][x] = IF t = c /\ x = z THEN e ELSE T[t][x]
  OBVIOUS
<1>3. /\ L \in [DOMAIN T -> Levels] /\ {Root} \cup P \subseteq DOMAIN T
      /\ \A t \in DOMAIN T : L[t] = 3 <=> t \in {Root} \cup P
      /\ \A t \in DOMAIN T, x \in Index : (L[t] > 0 /\ T[t][x].present) =>
           T[t][x].frame \in DOMAIN T /\ L[T[t][x].frame] = L[t] - 1
  BY DEF Tree, Leveled
<1>4. /\ M = [x \in DOMAIN U |-> IF x = f THEN L[c] - 1 ELSE L[x]]
      /\ M[f] = L[c] - 1 /\ \A t \in DOMAIN T : M[t] = L[t]
  BY <1>3 DEF Level1
<1>5. L[c] \in 1..3 /\ L[c] - 1 \in 0..2
  BY <1>3 DEF Levels
<1>6. M \in [DOMAIN U -> Levels]
  BY <1>2, <1>3, <1>4, <1>5 DEF Levels
<1> HIDE DEF M
<1>7. ASSUME NEW t \in DOMAIN U PROVE M[t] = 3 <=> t \in {Root} \cup P
  BY <1>2, <1>3, <1>4, <1>5, <1>7
<1>8. ASSUME NEW t \in DOMAIN U, NEW x \in Index, M[t] > 0, U[t][x].present
      PROVE  U[t][x].frame \in DOMAIN U /\ M[U[t][x].frame] = M[t] - 1
  <2>1. t \in DOMAIN T
    BY <1>1, <1>8
  <2>2. CASE t = c /\ x = z
    BY <1>2, <1>4, <2>1, <2>2
  <2>3. CASE ~(t = c /\ x = z)
    BY <1>2, <1>3, <1>4, <1>8, <2>1, <2>3
  <2> QED
    BY <2>2, <2>3
<1>9. Leveled(U, M, {Root} \cup P)
  BY <1>2, <1>3, <1>6, <1>7, <1>8 DEF Leveled
<1>10. PointedOnce(U, M, DOMAIN U \ P, Pool)
  <2> SUFFICES ASSUME NEW t \in DOMAIN U \ P, NEW u \in DOMAIN U \ P,
                      NEW x \in Index, NEW y \in Index,
                      U[t][x].present, U[u][y].present, U[t][x].frame = U[u][y].frame,
                      (M[t] > 0 /\ M[u] > 0) \/ U[t][x].frame \in Pool
               PROVE  t = u /\ x = y
    BY DEF PointedOnce
  <2>1. t \in DOMAIN T \ P /\ u \in DOMAIN T \ P
    BY <1>1
  <2>3. CASE (t = c /\ x = z) \/ (u = c /\ y = z)
    BY <1>2, <2>1, <2>3
  <2>4. CASE ~(t = c /\ x = z) /\ ~(u = c /\ y = z)
    <3>1. U[t][x] = T[t][x] /\ U[u][y] = T[u][y] /\ M[t] = L[t] /\ M[u] = L[u]
      BY <1>2, <1>4, <2>1, <2>4
    <3> QED
      BY <2>1, <3>1 DEF Tree, PointedOnce
  <2> QED
    BY <2>3, <2>4
<1> QED
  BY <1>9, <1>10 DEF Tree, M

\* Entries that are dropped, or keep their frame, leave a tree a tree.
LEMMA Thinned ==
  ASSUME NEW T, NEW L, NEW P, Tree(T, L, P), NEW U, DOMAIN U = DOMAIN T,
         U \in [DOMAIN U -> TableType],
         \A t \in DOMAIN T, x \in Index :
           U[t][x].present => T[t][x].present /\ U[t][x].frame = T[t][x].frame
  PROVE  Tree(U, L, P)
<1>1. Leveled(T, L, {Root} \cup P) /\ PointedOnce(T, L, DOMAIN T \ P, Pool)
  BY DEF Tree
<1>2. Leveled(U, L, {Root} \cup P)
  BY <1>1 DEF Leveled
<1>3. PointedOnce(U, L, DOMAIN U \ P, Pool)
  BY <1>1 DEF PointedOnce
<1> QED
  BY <1>2, <1>3 DEF Tree

\* A table made where there was none changes no translation, and no entry that
\* was there.
LEMMA NewLeaf ==
  ASSUME NEW T, NEW L, NEW P, Tree(T, L, P), NEW c \in DOMAIN T \ P, NEW z \in Index,
         NEW e, NEW f, f = e.frame, f \notin DOMAIN T, L[c] > 0, ~T[c][z].present,
         NEW U,
         \A x \in Index : U[f][x] = Absent,
         \A t \in DOMAIN T, x \in Index : U[t][x] = IF t = c /\ x = z THEN e ELSE T[t][x],
         NEW w \in Nat
  PROVE  /\ Entry3(T, w).present => Entry3(U, w) = Entry3(T, w)
         /\ Entry3(T, w).present /\ Entry2(T, w).present => Entry2(U, w) = Entry2(T, w)
         /\ Reached(T, w) => Entry1(U, w) = Entry1(T, w)
         /\ Leaf(U, w) = Leaf(T, w)
<1>1. PICK a \in Index, b \in Index, d \in Index, k \in Index :
        a = Offset0(w, 3) /\ b = Offset0(w, 2) /\ d = Offset0(w, 1) /\ k = w % F
  BY IndexIn
<1>2. /\ Root \in DOMAIN T /\ L[Root] = 3
      /\ Entry3(T, w).present => Entry3(T, w).frame \in DOMAIN T
      /\ Entry3(T, w).present /\ Entry2(T, w).present => Entry2(T, w).frame \in DOMAIN T
      /\ Reached(T, w) => Entry1(T, w).frame \in DOMAIN T /\ L[Entry1(T, w).frame] = 0
  <2>1. /\ Root \in DOMAIN T \ P /\ L[Root] = 3
        /\ Entry3(T, w).present =>
             Entry3(T, w).frame \in DOMAIN T \ P /\ L[Entry3(T, w).frame] = 2
        /\ Entry3(T, w).present /\ Entry2(T, w).present =>
             Entry2(T, w).frame \in DOMAIN T \ P /\ L[Entry2(T, w).frame] = 1
        /\ Reached(T, w) =>
             Entry1(T, w).frame \in DOMAIN T \ P /\ L[Entry1(T, w).frame] = 0
    BY WayLevels
  <2> QED
    BY <2>1, Zenon
<1>3. \A t \in DOMAIN T, x \in Index :
        /\ T[t][x].present => U[t][x] = T[t][x]
        /\ U[t][x] # T[t][x] => U[t][x] = e
        /\ L[t] = 0 => U[t][x] = T[t][x]
  <2>1. c \in DOMAIN T /\ L[c] # 0
    OBVIOUS
  <2> QED
    BY <2>1
<1>4. \A x \in Index : U[f][x] = Absent /\ ~U[f][x].present
  BY ZeroEntries
<1>5. /\ Entry3(T, w) = T[Root][a] /\ Entry3(U, w) = U[Root][a]
      /\ Entry2(T, w) = T[Entry3(T, w).frame][b] /\ Entry2(U, w) = U[Entry3(U, w).frame][b]
      /\ Entry1(T, w) = T[Entry2(T, w).frame][d] /\ Entry1(U, w) = U[Entry2(U, w).frame][d]
  BY <1>1 DEF Entry3, Entry2, Entry1
<1>6. Entry3(T, w).present => Entry3(U, w) = Entry3(T, w)
  BY <1>2, <1>3, <1>5
<1>7. Entry3(T, w).present /\ Entry2(T, w).present => Entry2(U, w) = Entry2(T, w)
  BY <1>2, <1>3, <1>5, <1>6
<1>8. Reached(T, w) => Entry1(U, w) = Entry1(T, w)
  BY <1>2, <1>3, <1>5, <1>6, <1>7 DEF Reached
<1>9. ASSUME Reached(T, w) PROVE Leaf(U, w) = Leaf(T, w)
  <2>1. Reached(U, w)
    BY <1>6, <1>7, <1>8, <1>9 DEF Reached
  <2>2. Leaf(T, w) = T[Entry1(T, w).frame][k] /\ Leaf(U, w) = U[Entry1(U, w).frame][k]
    BY <1>1, <1>9, <2>1 DEF Leaf
  <2> QED
    BY <1>2, <1>3, <1>8, <1>9, <2>2
<1>10. ASSUME ~Reached(T, w) PROVE Leaf(U, w) = Leaf(T, w)
  <2>1. Leaf(T, w) = Absent
    BY <1>10 DEF Leaf
  <2>2. Leaf(U, w) = IF Reached(U, w) THEN U[Entry1(U, w).frame][k] ELSE Absent
    BY <1>1 DEF Leaf
  <2>3. ASSUME Reached(U, w) PROVE U[Entry1(U, w).frame][k] = Absent
    <3>0. Entry3(U, w).present /\ Entry2(U, w).present /\ Entry1(U, w).present
      BY <2>3 DEF Reached
    <3>1. Entry3(T, w).present
      <4> SUFFICES ASSUME ~Entry3(T, w).present PROVE FALSE
        OBVIOUS
      <4>1. Entry3(U, w) = e
        BY <1>2, <1>3, <1>5, <3>0
      <4> QED
        BY <1>4, <1>5, <3>0, <4>1
    <3>2. Entry2(T, w).present
      <4> SUFFICES ASSUME ~Entry2(T, w).present PROVE FALSE
        OBVIOUS
      <4>1. PICK t \in DOMAIN T : t = Entry3(T, w).frame
        BY <1>2, <3>1
      <4>2. Entry2(U, w) = U[t][b] /\ Entry2(T, w) = T[t][b]
        BY <1>5, <1>6, <3>1, <4>1, Zenon
      <4>3. U[t][b] # T[t][b]
        BY <3>0, <4>2
      <4>4. Entry2(U, w) = e
        BY <1>3, <4>2, <4>3
      <4> QED
        BY <1>4, <1>5, <3>0, <4>4
    <3>3. Entry1(U, w) = e
      <4>1. PICK t \in DOMAIN T : t = Entry2(T, w).frame
        BY <1>2, <3>1, <3>2
      <4>2. Entry1(U, w) = U[t][d] /\ Entry1(T, w) = T[t][d]
        BY <1>5, <1>7, <3>1, <3>2, <4>1, Zenon
      <4>3. ~Entry1(T, w).present
        BY <1>10, <3>1, <3>2 DEF Reached
      <4>4. U[t][d] # T[t][d]
        BY <3>0, <4>2, <4>3
      <4> QED
        BY <1>3, <4>2, <4>4
    <3> QED
      BY <1>4, <3>3
  <2> QED
    BY <2>1, <2>2, <2>3
<1> QED
  BY <1>6, <1>7, <1>8, <1>9, <1>10

\* A process's root added beside the tree; its entries are those of a root, or
\* absent (create_cr3).
LEMMA NewRoot ==
  ASSUME NEW T, NEW L, NEW P, Tree(T, L, P), NEW f \in Pool, f \notin DOMAIN T,
         NEW r \in {Root} \cup P, NEW U, DOMAIN U = DOMAIN T \cup {f},
         U = [t \in DOMAIN U |-> IF t = f THEN [y \in Index |-> IF y \in Copied THEN T[r][y] ELSE Absent]
                                 ELSE T[t]],
         NEW M, M = [x \in DOMAIN T \cup {f} |-> IF x = f THEN 3 ELSE L[x]]
  PROVE  /\ Tree(U, M, P \cup {f})
         /\ \A x \in Index : U[f][x] = IF x \in Kernel THEN T[r][x] ELSE Absent
         /\ \A w \in Nat : /\ Entry3(U, w) = Entry3(T, w)
                           /\ Leaf(U, w) = Leaf(T, w)
<1>1. /\ T \in [DOMAIN T -> TableType] /\ L \in [DOMAIN T -> Levels]
      /\ {Root} \cup P \subseteq DOMAIN T /\ Root \notin P
      /\ \A t \in DOMAIN T : L[t] = 3 <=> t \in {Root} \cup P
      /\ \A t \in DOMAIN T, x \in Index : (L[t] > 0 /\ T[t][x].present) =>
           T[t][x].frame \in DOMAIN T /\ L[T[t][x].frame] = L[t] - 1
      /\ PointedOnce(T, L, DOMAIN T \ P, Pool)
  BY DEF Tree, Leveled
<1>2. Root \in DOMAIN T /\ r \in DOMAIN T /\ L[r] = 3 /\ Root # f
  BY <1>1
<1>3. /\ \A t \in DOMAIN T : U[t] = T[t]
      /\ \A x \in Index : U[f][x] = IF x \in Kernel THEN T[r][x] ELSE Absent
  BY DEF Copied
<1>4. /\ \A t \in DOMAIN T : M[t] = L[t]
      /\ M[f] = 3 /\ DOMAIN U = DOMAIN T \cup {f} /\ 3 \in Levels
  BY DEF Levels
<1>5. M \in [DOMAIN U -> Levels]
  BY <1>1, <1>4
<1>6. U \in [DOMAIN U -> TableType]
  <2>1. T[r] \in [Index -> EntryType]
    BY <1>1, <1>2 DEF TableType
  <2>2. [y \in Index |-> IF y \in Copied THEN T[r][y] ELSE Absent] \in [Index -> EntryType]
    BY <2>1, ZeroEntries
  <2> QED
    BY <1>1, <2>2 DEF TableType
<1>7. \A t \in DOMAIN U : M[t] = 3 <=> t \in {Root} \cup (P \cup {f})
  BY <1>1, <1>4
<1>8. ASSUME NEW t \in DOMAIN U, NEW x \in Index, M[t] > 0, U[t][x].present
      PROVE  U[t][x].frame \in DOMAIN U /\ M[U[t][x].frame] = M[t] - 1
  <2>1. ASSUME t = f
        PROVE  U[t][x].frame \in DOMAIN U /\ M[U[t][x].frame] = M[t] - 1
    <3>1. U[t][x] = T[r][x] /\ T[r][x].present
      BY <1>3, <1>8, <2>1, ZeroEntries
    <3>2. T[r][x].frame \in DOMAIN T /\ L[T[r][x].frame] = 2
      BY <1>1, <1>2, <3>1
    <3> QED
      BY <1>4, <2>1, <3>1, <3>2
  <2>2. ASSUME t # f
        PROVE  U[t][x].frame \in DOMAIN U /\ M[U[t][x].frame] = M[t] - 1
    <3>1. t \in DOMAIN T /\ U[t][x] = T[t][x] /\ M[t] = L[t]
      BY <1>3, <1>4, <2>2
    <3>2. T[t][x].frame \in DOMAIN T /\ L[T[t][x].frame] = L[t] - 1
      BY <1>1, <1>8, <3>1
    <3> QED
      BY <1>4, <3>1, <3>2
  <2> QED
    BY <2>1, <2>2
<1>9. Leveled(U, M, {Root} \cup (P \cup {f}))
  <2>1. {Root} \cup (P \cup {f}) \subseteq DOMAIN U
    BY <1>1, <1>4
  <2> QED
    BY <1>5, <1>6, <1>7, <1>8, <2>1 DEF Leveled
<1>10. PointedOnce(U, M, DOMAIN U \ (P \cup {f}), Pool)
  <2>1. DOMAIN U \ (P \cup {f}) = DOMAIN T \ P
    OBVIOUS
  <2>2. \A t \in DOMAIN T \ P : U[t] = T[t] /\ M[t] = L[t]
    BY <1>3, <1>4
  <2> QED
    BY <1>1, <2>1, <2>2 DEF PointedOnce
<1>11. Tree(U, M, P \cup {f})
  BY <1>1, <1>2, <1>9, <1>10 DEF Tree
<1>12. ASSUME NEW w \in Nat
       PROVE  Entry3(U, w) = Entry3(T, w) /\ Leaf(U, w) = Leaf(T, w)
  <2>1. Entry3(U, w) = Entry3(T, w)
    BY <1>2, <1>3 DEF Entry3
  <2>2. /\ Entry3(T, w).present => Entry3(T, w).frame \in DOMAIN T
        /\ Entry3(T, w).present /\ Entry2(T, w).present => Entry2(T, w).frame \in DOMAIN T
        /\ Reached(T, w) => Entry1(T, w).frame \in DOMAIN T
    BY WayLevels
  <2>3. Entry3(T, w).present => Entry2(U, w) = Entry2(T, w)
    BY <1>3, <2>1, <2>2 DEF Entry2
  <2>4. Entry3(T, w).present /\ Entry2(T, w).present => Entry1(U, w) = Entry1(T, w)
    BY <1>3, <2>1, <2>2, <2>3 DEF Entry1
  <2>5. Reached(U, w) <=> Reached(T, w)
    BY <2>1, <2>3, <2>4 DEF Reached
  <2>6. Reached(T, w) => U[Entry1(U, w).frame] = T[Entry1(T, w).frame]
    BY <1>3, <2>2, <2>4 DEF Reached
  <2> QED
    BY <2>1, <2>5, <2>6 DEF Leaf
<1> QED
  BY <1>3, <1>11, <1>12

\* The tables without the root's low entries.
Cleared(T) == [T EXCEPT ![Root] = [x \in Index |-> IF x \in Lomem THEN Absent ELSE T[Root][x]]]

\* The root's low entries cleared: those pages are unmapped and no other
\* (unmap_lomem).
LEMMA ClearLow ==
  ASSUME NEW T, NEW L, NEW P, Tree(T, L, P), NEW U, U = Cleared(T)
  PROVE  /\ Tree(U, L, P) /\ DOMAIN U = DOMAIN T
         /\ \A t \in DOMAIN T, x \in Index :
              U[t][x] = IF t = Root /\ x \in Lomem THEN Absent ELSE T[t][x]
         /\ \A w \in Nat : Leaf(U, w) = IF Offset0(w, 3) \in Lomem THEN Absent ELSE Leaf(T, w)
<1>1. T \in [DOMAIN T -> TableType] /\ Root \in DOMAIN T
  BY DEF Tree, Leveled
<1>2. T[Root] \in [Index -> EntryType]
  BY <1>1 DEF TableType
<1>3. [x \in Index |-> IF x \in Lomem THEN Absent ELSE T[Root][x]] \in TableType
  BY <1>2, ZeroEntries DEF TableType
<1>4. DOMAIN U = DOMAIN T /\ U \in [DOMAIN U -> TableType]
  BY <1>1, <1>3 DEF Cleared
<1>5. \A t \in DOMAIN T : t # Root => U[t] = T[t]
  BY <1>1 DEF Cleared
<1>6. \A t \in DOMAIN T, x \in Index :
        U[t][x] = IF t = Root /\ x \in Lomem THEN Absent ELSE T[t][x]
  BY <1>1 DEF Cleared
<1>7. Tree(U, L, P)
  <2>1. \A t \in DOMAIN T, x \in Index :
          U[t][x].present => T[t][x].present /\ U[t][x].frame = T[t][x].frame
    BY <1>6, ZeroEntries
  <2> QED
    BY <1>4, <2>1, Thinned
<1>8. ASSUME NEW w \in Nat
      PROVE  Leaf(U, w) = IF Offset0(w, 3) \in Lomem THEN Absent ELSE Leaf(T, w)
  <2>1. Offset0(w, 3) \in Index
    BY IndexIn
  <2>2. Entry3(U, w) = IF Offset0(w, 3) \in Lomem THEN Absent ELSE Entry3(T, w)
    BY <1>1, <1>6, <2>1 DEF Entry3
  <2>3. ASSUME Offset0(w, 3) \in Lomem PROVE Leaf(U, w) = Absent
    BY <2>2, <2>3, ZeroEntries DEF Leaf, Reached
  <2>4. ASSUME Offset0(w, 3) \notin Lomem PROVE Leaf(U, w) = Leaf(T, w)
    <3>1. /\ L[Root] = 3
          /\ Entry3(T, w).present => Entry3(T, w).frame \in DOMAIN T /\ L[Entry3(T, w).frame] = 2
          /\ Entry3(T, w).present /\ Entry2(T, w).present =>
               Entry2(T, w).frame \in DOMAIN T /\ L[Entry2(T, w).frame] = 1
          /\ Reached(T, w) => Entry1(T, w).frame \in DOMAIN T /\ L[Entry1(T, w).frame] = 0
      BY WayLevels
    <3>2. Entry3(U, w) = Entry3(T, w)
      BY <2>2, <2>4
    <3>3. Entry3(T, w).present => Entry2(U, w) = Entry2(T, w)
      BY <1>5, <3>1, <3>2 DEF Entry2
    <3>4. Entry3(T, w).present /\ Entry2(T, w).present => Entry1(U, w) = Entry1(T, w)
      BY <1>5, <3>1, <3>2, <3>3 DEF Entry1
    <3>5. Reached(U, w) <=> Reached(T, w)
      BY <3>2, <3>3, <3>4 DEF Reached
    <3>6. Reached(T, w) => U[Entry1(U, w).frame] = T[Entry1(T, w).frame]
      BY <1>5, <3>1, <3>4 DEF Reached
    <3> QED
      BY <3>5, <3>6 DEF Leaf
  <2> QED
    BY <2>3, <2>4
<1> QED
  BY <1>4, <1>6, <1>7, <1>8

\* The page tables below the root's last entry are those of the last pages
\* (set_kernel_hierarchy_mem_prot).
LEMMA ImagePages ==
  ASSUME NEW L, NEW P, Tree(tab, L, P), tab[Root][F - 1].present,
         NEW v \in Nat, Reached(tab, v)
  PROVE  Entry1(tab, v).frame \in ImageTables <=> Offset0(v, 3) = F - 1
<1> DEFINE t2 == {tab[Root][F - 1].frame}
           t1 == {f \in Below(t2) : \E t \in t2, x \in Index : tab[t][x] = Entry(f, tab[t][x].flags)}
           t0 == {f \in Below(t1) : \E t \in t1, x \in Index : tab[t][x] = Entry(f, tab[t][x].flags)}
<1>1. ImageTables = t2 \cup t1 \cup t0
  BY DEF ImageTables
<1>2. PICK a \in Index, b \in Index, d \in Index :
        a = Offset0(v, 3) /\ b = Offset0(v, 2) /\ d = Offset0(v, 1)
  BY IndexIn
<1>3. F - 1 \in Index
  BY Sizes DEF Index
<1>4. /\ L \in [DOMAIN tab -> Levels]
      /\ \A t \in DOMAIN tab, x \in Index : (L[t] > 0 /\ tab[t][x].present) =>
           tab[t][x].frame \in DOMAIN tab /\ L[tab[t][x].frame] = L[t] - 1
      /\ \A t \in DOMAIN tab : L[t] = 3 <=> t \in {Root} \cup P
      /\ PointedOnce(tab, L, DOMAIN tab \ P, Pool)
      /\ tab \in [DOMAIN tab -> TableType]
  BY DEF Tree, Leveled
<1>5. \A t, u \in DOMAIN tab \ P : \A x, y \in Index :
        (/\ tab[t][x].present /\ tab[u][y].present /\ tab[t][x].frame = tab[u][y].frame
         /\ L[t] > 0 /\ L[u] > 0) => t = u /\ x = y
  BY <1>4 DEF PointedOnce
<1>6. PICK g3 \in DOMAIN tab \ P, g2 \in DOMAIN tab \ P, g1 \in DOMAIN tab \ P :
        /\ g3 = tab[Root][a].frame /\ g2 = tab[g3][b].frame /\ g1 = tab[g2][d].frame
        /\ tab[Root][a].present /\ tab[g3][b].present /\ tab[g2][d].present
        /\ L[g3] = 2 /\ L[g2] = 1 /\ L[g1] = 0 /\ g1 = Entry1(tab, v).frame
        /\ Root \in DOMAIN tab \ P /\ L[Root] = 3
  <2>1. /\ Root \in DOMAIN tab \ P /\ L[Root] = 3
        /\ Entry3(tab, v).frame \in DOMAIN tab \ P /\ L[Entry3(tab, v).frame] = 2
        /\ Entry2(tab, v).frame \in DOMAIN tab \ P /\ L[Entry2(tab, v).frame] = 1
        /\ Entry1(tab, v).frame \in DOMAIN tab \ P /\ L[Entry1(tab, v).frame] = 0
    BY WayLevels DEF Reached
  <2>2. Entry3(tab, v).present /\ Entry2(tab, v).present /\ Entry1(tab, v).present
    BY DEF Reached
  <2>3. /\ Entry3(tab, v) = tab[Root][a] /\ Entry2(tab, v) = tab[Entry3(tab, v).frame][b]
        /\ Entry1(tab, v) = tab[Entry2(tab, v).frame][d]
    BY <1>2 DEF Entry3, Entry2, Entry1
  <2>4. \E g3, g2, g1 \in DOMAIN tab \ P :
          /\ g3 = Entry3(tab, v).frame /\ g2 = Entry2(tab, v).frame /\ g1 = Entry1(tab, v).frame
    BY <2>1
  <2>5. PICK g3 \in DOMAIN tab \ P, g2 \in DOMAIN tab \ P, g1 \in DOMAIN tab \ P :
          /\ g3 = Entry3(tab, v).frame /\ g2 = Entry2(tab, v).frame /\ g1 = Entry1(tab, v).frame
    BY <2>4
  <2>6. /\ g3 = tab[Root][a].frame /\ g2 = tab[g3][b].frame /\ g1 = tab[g2][d].frame
        /\ tab[Root][a].present /\ tab[g3][b].present /\ tab[g2][d].present
    BY <2>2, <2>3, <2>5, Zenon
  <2> QED
    BY <2>1, <2>5, <2>6, Zenon
<1>7. PICK h \in DOMAIN tab : h = tab[Root][F - 1].frame /\ L[h] = 2 /\ t2 = {h}
  <2>1. tab[Root][F - 1].frame \in DOMAIN tab /\ L[tab[Root][F - 1].frame] = 2
    BY <1>3, <1>4, <1>6
  <2> QED
    BY <2>1
<1>8. h \notin P
  BY <1>4, <1>7
<1> HIDE DEF t2
<1>9. ASSUME NEW t \in t1
      PROVE  \E x \in Index : /\ tab[h][x].present /\ tab[h][x].frame = t
                              /\ t \in DOMAIN tab /\ L[t] = 1
  <2>1. PICK x \in Index : tab[h][x] = Entry(t, tab[h][x].flags)
    BY <1>7, <1>9
  <2>2. tab[h][x].present /\ tab[h][x].frame = t
    BY <2>1 DEF Entry
  <2>3. t \in DOMAIN tab /\ L[t] = 1
    BY <1>4, <1>7, <2>2
  <2> QED
    BY <2>2, <2>3
<1>10. L[h] > 0 /\ L[g3] > 0 /\ L[g2] > 0 /\ L[Root] > 0
  BY <1>6, <1>7
<1>11. /\ g1 = tab[g2][d].frame /\ tab[g2][d].present /\ d \in Index
       /\ g2 \in DOMAIN tab /\ g2 \in DOMAIN tab \ P /\ L[g2] > 0 /\ g1 \in DOMAIN tab
  BY <1>2, <1>6, <1>10
<1>12. ASSUME g1 \in ImageTables PROVE a = F - 1
  <2>1. g1 # h
    BY <1>6, <1>7
  <2>2. g1 \notin t1
    BY <1>6, <1>9
  <2>3. g1 \in t0
    BY <1>1, <1>7, <1>12, <2>1, <2>2
  <2>4. PICK t \in t1, x \in Index : tab[t][x] = Entry(g1, tab[t][x].flags)
    BY <2>3
  <2>5. tab[t][x].present /\ tab[t][x].frame = g1
    BY <2>4 DEF Entry
  <2>6. PICK y \in Index : tab[h][y].present /\ tab[h][y].frame = t
                           /\ t \in DOMAIN tab /\ L[t] = 1
    BY <1>9
  <2>7. t \notin P
    BY <1>4, <2>6
  <2>8. t = g2
    <3>1. t \in DOMAIN tab \ P /\ L[t] > 0
      BY <2>6, <2>7
    <3> QED
      BY <1>5, <1>11, <2>5, <3>1
  <2>9. h = g3
    BY <1>2, <1>5, <1>6, <1>8, <1>10, <2>6, <2>8
  <2>10. F - 1 = a
    <3>1. tab[Root][F - 1].frame = g3 /\ tab[Root][F - 1].present
      BY <1>7, <2>9
    <3> QED
      BY <1>2, <1>3, <1>5, <1>6, <1>10, <3>1
  <2> QED
    BY <2>10
<1>13. \A t \in DOMAIN tab, x \in Index :
         tab[t][x].present => tab[t][x] = Entry(tab[t][x].frame, tab[t][x].flags)
  <2> SUFFICES ASSUME NEW t \in DOMAIN tab, NEW x \in Index, tab[t][x].present
               PROVE  tab[t][x] = Entry(tab[t][x].frame, tab[t][x].flags)
    OBVIOUS
  <2>1. tab[t] \in [Index -> EntryType]
    BY <1>4 DEF TableType
  <2>2. tab[t][x] \in [present : BOOLEAN, frame : Nat, flags : SUBSET Flags]
    BY <2>1 DEF EntryType
  <2> QED
    BY <2>2 DEF Entry
<1>14. ASSUME a = F - 1 PROVE g1 \in ImageTables
  <2>1. g3 = h
    BY <1>6, <1>7, <1>14
  <2>2. g2 \in t1
    <3>1. tab[h][b] = Entry(g2, tab[h][b].flags)
      BY <1>6, <1>7, <1>13, <2>1
    <3>2. g2 \in Below(t2)
      BY <1>6, <1>7, <2>1 DEF Below
    <3> QED
      BY <1>7, <3>1, <3>2
  <2>3. g1 \in t0
    <3> HIDE DEF t1
    <3>1. tab[g2][d] = Entry(g1, tab[g2][d].flags)
      BY <1>11, <1>13
    <3>2. g1 \in Below(t1)
      BY <1>11, <2>2 DEF Below
    <3> QED
      BY <1>2, <2>2, <3>1, <3>2
  <2> QED
    BY <1>1, <2>3
<1> QED
  BY <1>2, <1>6, <1>12, <1>14
----------------------------------------------------------------------------
(* The iterator *)

\* The range of the call in progress is one the iterator walks in full.
InFull == call.op # "none" => Fits(call)

\* What a call in progress is about.
LEMMA CallFits ==
  ASSUME Types, Place, Walking, InFull
  PROVE  \E v \in Nat, n \in Nat \ {0}, m \in Nat \ {0} :
           /\ v = call.v /\ n = call.n /\ m = Ceil(n, F) /\ v \in Pages /\ v \in PagesOf(call)
           /\ Offset0(v, 1) \in Index /\ Offset0(v, 1) + m <= F
           /\ Offset0(v, 2) \in Index /\ Offset0(v, 3) \in Index /\ v % F \in Index
           /\ (v + n - 1) \div F = (v \div F) + m - 1 /\ v \div F \in Nat
           /\ \A w \in PagesOf(call) :
                /\ w \in Pages /\ w \in Nat
                /\ Offset0(w, 3) = Offset0(v, 3) /\ Offset0(w, 2) = Offset0(v, 2)
                /\ Offset0(w, 1) = Offset0(v, 1) + ((w \div F) - (v \div F))
                /\ w \div F \in Nat
<1>1. call.v \in Nat /\ call.n \in Nat /\ Fits(call)
  BY DEF Types, Calls, Place, InFull
<1>2. PICK v \in Nat, n \in Nat, m \in Nat \ {0} :
        v = call.v /\ n = call.n /\ m = Ceil(n, F) /\ Offset0(v, 1) + m <= F
        /\ (v + n - 1) \div F = (v \div F) + m - 1
  BY <1>1, FitTurns
<1>3. n > 0
  BY <1>1, <1>2 DEF Fits
<1>4. \A w \in PagesOf(call) :
        /\ w \in Pages /\ w \in Nat
        /\ Offset0(w, 3) = Offset0(v, 3) /\ Offset0(w, 2) = Offset0(v, 2)
        /\ Offset0(w, 1) = Offset0(v, 1) + ((w \div F) - (v \div F))
        /\ w \div F \in Nat
  BY <1>1, <1>2, FitPages
<1>5. v \in PagesOf(call)
  BY <1>2, <1>3 DEF PagesOf
<1>6. v \div F \in Nat /\ v \in Pages
  BY <1>4, <1>5
<1> QED
  BY <1>2, <1>3, <1>4, <1>5, <1>6, IndexIn

\* Where page_iter_next may be, by the loop it is in.
LEMMA InIter ==
  ASSUME Place, pc = "iter"
  PROVE  /\ call.op # "none" /\ dir[3] = Root /\ offset[3] = Offset0(call.v, 3) /\ len[3] = 1
         /\ \/ lvl = 3 /\ index[3] = 0 /\ Fresh2 /\ Entry3(tab, call.v).present
            \/ lvl = 2 /\ index[2] = 0 /\ Down3 /\ Fresh1 /\ Entry2(tab, call.v).present
            \/ Between
            \/ Finished
  BY DEF Place, Walking, Walk3, Walk2, Walk1, Walk0, InLoop, Behind

\* Where a caller may be, by the depth of its chunk.
LEMMA InCaller ==
  ASSUME Place, pc = "chunk"
  PROVE  /\ call.op # "none" /\ dir[3] = Root /\ offset[3] = Offset0(call.v, 3) /\ len[3] = 1
         /\ Walk3 \/ Walk2 \/ Walk1 \/ Walk0
         /\ Walk3 => chunk = [depth |-> 3, table |-> dir[3], first |-> offset[3], length |-> 1]
                     /\ i \in 0..1 /\ Fresh2
         /\ Walk2 => chunk = [depth |-> 2, table |-> dir[2], first |-> offset[2], length |-> 1]
                     /\ i \in 0..1 /\ Fresh1 /\ Down3
  BY DEF Place, Walking, Walk3, Walk2, InLoop, Between, Finished

\* A chunk ends with its range or with its table (iter_compute_len).
LEMMA LenWithin ==
  ASSUME NEW n \in Nat, NEW x \in Nat, x < F
  PROVE  /\ n + x <= F => iter_compute_len(n, x) = n
         /\ n + x > F => iter_compute_len(n, x) = F - x
         /\ iter_compute_len(n, x) \in Nat /\ iter_compute_len(n, x) <= n
         /\ n > 0 => iter_compute_len(n, x) > 0
  BY Sizes DEF iter_compute_len

\* The loop over a level goes down to the table of its next entry and never
\* out of the tables (mmap.c:66-84).
LEMMA DescendPlace ==
  ASSUME Types, Place, InFull, NEW d \in 1..3, Descend(d)
  PROVE  Place' /\ pc' = "chunk" /\ Cursor' = Cursor
<1>1. pc = "iter" /\ lvl = d /\ index[d] < len[d]
  BY DEF Descend
<1>2. PICK v \in Nat, n \in Nat \ {0}, m \in Nat \ {0} :
        /\ v = call.v /\ n = call.n /\ m = Ceil(n, F)
        /\ Offset0(v, 1) \in Index /\ Offset0(v, 1) + m <= F
        /\ Offset0(v, 2) \in Index /\ Offset0(v, 3) \in Index /\ v % F \in Index
  BY <1>1, CallFits DEF Walking
<1>3. /\ dir \in [Levels -> Nat] /\ offset \in [Levels -> Int] /\ len \in [Levels -> Int]
      /\ len_current \in [Levels -> Int] /\ index \in [Levels -> Int]
  BY DEF Types
<1>4. /\ call.op # "none" /\ dir[3] = Root /\ offset[3] = Offset0(call.v, 3) /\ len[3] = 1
      /\ \/ lvl = 3 /\ index[3] = 0 /\ Fresh2 /\ Entry3(tab, call.v).present
         \/ lvl = 2 /\ index[2] = 0 /\ Down3 /\ Fresh1 /\ Entry2(tab, call.v).present
         \/ Between
         \/ Finished
  BY <1>1, InIter
<1>5. UNCHANGED <<call, offset, len, index, lvl, tab>>
  BY DEF Descend
<1>6. F \in Nat /\ F >= 2
  BY Sizes
<1>7. ASSUME NEW x \in Index, x = offset[d] + index[d], tab[dir[d]][x].present,
             NEW k, k = iter_compute_len(len[d - 1], offset[d - 1])
      PROVE  /\ dir' = [dir EXCEPT ![d - 1] = tab[dir[d]][x].frame]
             /\ len_current' = [len_current EXCEPT ![d - 1] = k]
             /\ chunk' = [depth |-> d - 1, table |-> tab[dir[d]][x].frame,
                          first |-> offset[d - 1], length |-> k]
             /\ pc' = "chunk" /\ i' = 0
  BY <1>7 DEF Descend
<1>8. ASSUME lvl = 3, index[3] = 0, Fresh2, Entry3(tab, call.v).present
      PROVE  Walk2' /\ pc' = "chunk" /\ dir'[3] = Root /\ chunk'.depth # 0 /\ len'[0] = len[0]
  <2>1. d = 3 /\ offset[3] + index[3] = Offset0(v, 3)
    BY <1>1, <1>2, <1>4, <1>8, IndexIn DEF Index
  <2>2. tab[dir[3]][Offset0(v, 3)] = Entry3(tab, call.v)
    BY <1>2, <1>4 DEF Entry3
  <2>3. offset[2] = Offset0(v, 2) /\ len[2] = 1 /\ Fresh1
    BY <1>2, <1>8 DEF Fresh2
  <2>4. iter_compute_len(len[2], offset[2]) = 1
    BY <1>2, <1>6, <2>3, LenWithin DEF Index
  <2>5. /\ dir' = [dir EXCEPT ![2] = Entry3(tab, call.v).frame]
        /\ len_current' = [len_current EXCEPT ![2] = 1]
        /\ chunk' = [depth |-> 2, table |-> Entry3(tab, call.v).frame,
                     first |-> offset[2], length |-> 1]
        /\ pc' = "chunk" /\ i' = 0
    BY <1>2, <1>7, <1>8, <2>1, <2>2, <2>4
  <2>6. dir'[2] = Entry3(tab, call.v).frame /\ len_current'[2] = 1 /\ dir'[3] = Root
    BY <1>3, <1>4, <2>5 DEF Levels
  <2>7. Down3'
    BY <1>2, <1>5, <1>8, <2>3, <2>6 DEF Down3
  <2>8. Fresh1'
    BY <1>5, <2>3 DEF Fresh1, Fresh0
  <2>9. Walk2'
    BY <1>5, <2>5, <2>6, <2>7, <2>8 DEF Walk2, InLoop, Behind
  <2> QED
    BY <1>5, <2>5, <2>6, <2>9
<1>9. ASSUME lvl = 2, index[2] = 0, Down3, Fresh1, Entry2(tab, call.v).present
      PROVE  Walk1' /\ pc' = "chunk" /\ dir'[3] = Root /\ chunk'.depth # 0 /\ len'[0] = len[0]
  <2>1. d = 2 /\ offset[2] + index[2] = Offset0(v, 2)
    BY <1>1, <1>2, <1>4, <1>9, IndexIn DEF Index, Down3
  <2>2. tab[dir[2]][Offset0(v, 2)] = Entry2(tab, call.v)
    BY <1>2, <1>9 DEF Entry2, Down3
  <2>3. offset[1] = Offset0(v, 1) /\ len[1] = m /\ Fresh0
    BY <1>2, <1>9 DEF Fresh1
  <2>4. iter_compute_len(len[1], offset[1]) = m
    BY <1>2, <1>6, <2>3, LenWithin DEF Index
  <2>5. /\ dir' = [dir EXCEPT ![1] = Entry2(tab, call.v).frame]
        /\ len_current' = [len_current EXCEPT ![1] = m]
        /\ chunk' = [depth |-> 1, table |-> Entry2(tab, call.v).frame,
                     first |-> offset[1], length |-> m]
        /\ pc' = "chunk" /\ i' = 0
    BY <1>2, <1>7, <1>9, <2>1, <2>2, <2>4
  <2>6. /\ dir'[1] = Entry2(tab, call.v).frame /\ len_current'[1] = m
        /\ dir'[2] = dir[2] /\ dir'[3] = Root /\ len_current'[2] = len_current[2]
    BY <1>3, <1>4, <2>5 DEF Levels
  <2>7. Down3'
    BY <1>5, <1>9, <2>6 DEF Down3
  <2>8. Down2'
    BY <1>2, <1>5, <1>9, <2>3, <2>6, <2>7 DEF Down2
  <2>9. Walk1'
    <3>1. Fresh0' /\ Made(i)'
      BY <1>5, <2>3, <2>5 DEF Fresh0, Made
    <3> QED
      BY <1>5, <2>3, <2>5, <2>6, <2>8, <3>1 DEF Walk1
  <2> QED
    BY <1>5, <2>5, <2>6, <2>9
<1>10. ASSUME Between
       PROVE  Walk0' /\ pc' = "chunk" /\ dir'[3] = Root /\ i' = 0 /\ len'[0] = len[0]
  <2>1. d = 1 /\ Turn(index[1]) /\ index[1] < len[1]
    BY <1>1, <1>10 DEF Between
  <2>2. PICK x \in Index : x = offset[1] + index[1] /\ tab[dir[1]][x].present
    <3>1. index[1] \in 0..(len[1] - 1) /\ offset[1] = Offset0(v, 1) /\ len[1] = m /\ Made(m)
      BY <1>2, <1>3, <2>1 DEF Turn, Down2, Levels
    <3> QED
      BY <1>2, <1>6, <3>1 DEF Made, Index
  <2>3. PICK k : k = iter_compute_len(len[0], offset[0])
    OBVIOUS
  <2>4. /\ dir' = [dir EXCEPT ![0] = tab[dir[1]][x].frame]
        /\ len_current' = [len_current EXCEPT ![0] = k]
        /\ chunk' = [depth |-> 0, table |-> tab[dir[1]][x].frame,
                     first |-> offset[0], length |-> k]
        /\ pc' = "chunk" /\ i' = 0
    BY <1>7, <2>1, <2>2, <2>3
  <2>5. /\ dir'[0] = tab[dir[1]][x].frame /\ len_current'[0] = k
        /\ dir'[1] = dir[1] /\ dir'[2] = dir[2] /\ dir'[3] = Root
        /\ len_current'[1] = len_current[1] /\ len_current'[2] = len_current[2]
    BY <1>3, <1>4, <2>4 DEF Levels
  <2>6. k \in Nat
    <3>1. Ahead \in Nat
      BY <1>2, <1>3, <2>1 DEF Turn, Ahead, Levels
    <3>2. len[0] \in Nat /\ offset[0] = Ahead % F
      BY <1>2, <1>3, <2>1 DEF Turn, Levels
    <3>3. offset[0] \in Nat /\ offset[0] < F
      <4>1. PICK a \in Nat : a = Ahead
        BY <3>1
      <4>2. a % F \in Index
        BY RestIndex
      <4> QED
        BY <1>6, <3>2, <4>1, <4>2 DEF Index
    <3> QED
      BY <2>3, <3>2, <3>3, LenWithin
  <2>7. Turn(index[1])'
    BY <1>5, <2>1, <2>5 DEF Turn, Down2, Down3, Made, Ahead
  <2>8. Walk0'
    BY <1>5, <2>1, <2>2, <2>3, <2>4, <2>5, <2>6, <2>7 DEF Walk0
  <2> QED
    BY <1>5, <2>4, <2>5, <2>8
<1>11. ~Finished
  BY <1>1, <1>4 DEF Finished
<1>12. \/ Walk2' /\ pc' = "chunk" /\ dir'[3] = Root /\ chunk'.depth # 0 /\ len'[0] = len[0]
       \/ Walk1' /\ pc' = "chunk" /\ dir'[3] = Root /\ chunk'.depth # 0 /\ len'[0] = len[0]
       \/ Walk0' /\ pc' = "chunk" /\ dir'[3] = Root /\ i' = 0 /\ len'[0] = len[0]
  BY <1>4, <1>8, <1>9, <1>10, <1>11, Zenon
<1>13. Place'
  BY <1>4, <1>5, <1>12, Zenon DEF Place, Walking
<1>14. Cursor' = Cursor
  <2>1. Ahead' = Ahead
    BY <1>5 DEF Ahead
  <2>2. Cursor = Ahead
    BY <1>1, <1>2, <1>3 DEF Cursor, Ahead, Levels
  <2>3. Cursor' = Ahead'
    BY <1>2, <1>3, <1>5, <1>12 DEF Cursor, Ahead, Levels
  <2> QED
    BY <2>1, <2>2, <2>3
<1> QED
  BY <1>12, <1>13, <1>14

\* The pages of the call are all done when the innermost length is used up.
LEMMA NoneLeft ==
  ASSUME Types, pc = "iter", len[0] = 0
  PROVE  Pending = {}
<1>1. call.v \in Nat /\ call.n \in Nat
  BY DEF Types, Calls
<1> QED
  BY <1>1 DEF Pending, Cursor, Ahead, PagesOf

\* The end of a level's loop (mmap.c:85-92).
LEMMA AscendPlace ==
  ASSUME Types, Place, InFull, NEW d \in 1..2, Ascend(d)
  PROVE  Place' /\ pc' = "iter" /\ Cursor' = Cursor
<1>1. pc = "iter" /\ lvl = d /\ index[d] >= len[d] /\ pc' = "iter"
  BY DEF Ascend
<1>2. /\ dir \in [Levels -> Nat] /\ offset \in [Levels -> Int] /\ len \in [Levels -> Int]
      /\ len_current \in [Levels -> Int] /\ index \in [Levels -> Int]
  BY DEF Types
<1>3. /\ call.op # "none" /\ dir[3] = Root /\ offset[3] = Offset0(call.v, 3) /\ len[3] = 1
      /\ \/ lvl = 3 /\ index[3] = 0 /\ Fresh2 /\ Entry3(tab, call.v).present
         \/ lvl = 2 /\ index[2] = 0 /\ Down3 /\ Fresh1 /\ Entry2(tab, call.v).present
         \/ Between
         \/ Finished
  BY <1>1, InIter
<1>4. /\ UNCHANGED <<call, dir, len_current, chunk, i, tab>>
      /\ len' = [len EXCEPT ![d] = @ - len_current[d]]
      /\ offset' = [offset EXCEPT ![d] = 0]
      /\ index' = [index EXCEPT ![d + 1] = @ + 1]
      /\ lvl' = d + 1
  BY DEF Ascend, Consume
<1>5. ASSUME Between PROVE Finished' /\ len'[3] = 1 /\ offset'[3] = offset[3] /\ len'[0] = len[0]
  <2>1. d = 1 /\ Turn(index[1])
    BY <1>1, <1>5 DEF Between
  <2>2. index[1] = len[1] /\ len[0] = 0 /\ len[2] = 1 /\ index[3] = 0 /\ index[2] = 0
    BY <1>1, <1>2, <2>1 DEF Turn, Down2, Down3, Levels
  <2> QED
    BY <1>1, <1>2, <1>3, <1>4, <2>1, <2>2 DEF Finished, Levels
<1>6. ASSUME Finished PROVE Finished' /\ len'[3] = 1 /\ offset'[3] = offset[3] /\ len'[0] = len[0]
  <2>1. d = 2 /\ len[0] = 0 /\ index[3] = 0
    BY <1>1, <1>6 DEF Finished
  <2> QED
    BY <1>1, <1>2, <1>3, <1>4, <2>1 DEF Finished, Levels
<1>7. ~(lvl = 2 /\ index[2] = 0 /\ Down3)
  BY <1>1 DEF Down3
<1>8. Finished' /\ len'[3] = 1 /\ offset'[3] = offset[3] /\ len'[0] = len[0]
  BY <1>1, <1>3, <1>5, <1>6, <1>7
<1>9. Place'
  BY <1>1, <1>3, <1>4, <1>8 DEF Place, Walking
<1>10. Cursor' = Cursor
  BY <1>1, <1>4, <1>8 DEF Cursor, Ahead
<1> QED
  BY <1>1, <1>9, <1>10

\* When page_iter_next returns 1 the call is done with all its pages.
LEMMA ReturnPlace ==
  ASSUME Types, Place, Return
  PROVE  Place' /\ pc' = "idle" /\ Pending = {} /\ Pending' = {}
<1>1. pc = "iter" /\ lvl = 3 /\ index[3] >= len[3] /\ pc' = "idle" /\ call' = NoCallYet
  BY DEF Return
<1>2. Finished
  <2>1. /\ len[3] = 1
        /\ \/ lvl = 3 /\ index[3] = 0
           \/ lvl = 2
           \/ Between
           \/ Finished
    BY <1>1, InIter
  <2> QED
    BY <1>1, <2>1 DEF Between
<1>3. Pending = {}
  BY <1>1, <1>2, NoneLeft DEF Finished
<1>4. Place'
  BY <1>1 DEF Place, Walking
<1>5. Pending' = {}
  BY <1>1 DEF Pending, PagesOf, NoCallYet
<1> QED
  BY <1>1, <1>3, <1>4, <1>5

\* A caller is done with its chunk: after the innermost one the next turn begins
\* with the next page table, or the call is done (mmap.c:60-64, 85-86).
LEMMA ChunkDonePlace ==
  ASSUME Types, Place, InFull, ChunkDone
  PROVE  Place' /\ pc' = "iter" /\ Cursor' = Cursor
<1>1. pc = "chunk" /\ i >= chunk.length /\ pc' = "iter"
  BY DEF ChunkDone
<1>2. PICK v \in Nat, n \in Nat \ {0}, m \in Nat \ {0} :
        /\ v = call.v /\ n = call.n /\ m = Ceil(n, F)
        /\ v % F \in Index /\ v \div F \in Nat /\ (v + n - 1) \div F = (v \div F) + m - 1
  BY <1>1, CallFits DEF Walking
<1>3. /\ dir \in [Levels -> Nat] /\ offset \in [Levels -> Int] /\ len \in [Levels -> Int]
      /\ len_current \in [Levels -> Int] /\ index \in [Levels -> Int] /\ i \in Nat
  BY DEF Types
<1>4. /\ call.op # "none" /\ dir[3] = Root /\ offset[3] = Offset0(call.v, 3) /\ len[3] = 1
      /\ Walk3 \/ Walk2 \/ Walk1 \/ Walk0
      /\ Walk3 => chunk = [depth |-> 3, table |-> dir[3], first |-> offset[3], length |-> 1]
                  /\ i \in 0..1 /\ Fresh2
      /\ Walk2 => chunk = [depth |-> 2, table |-> dir[2], first |-> offset[2], length |-> 1]
                  /\ i \in 0..1 /\ Fresh1 /\ Down3
  BY <1>1, InCaller
<1>5. UNCHANGED <<call, dir, len_current, chunk, i, tab>>
  BY DEF ChunkDone
<1>6. ASSUME chunk.depth # 0
      PROVE  /\ lvl' = chunk.depth /\ index' = [index EXCEPT ![chunk.depth] = 0]
             /\ UNCHANGED <<len, offset>>
  BY <1>6 DEF ChunkDone
<1>7. ASSUME chunk.depth = 0
      PROVE  /\ len' = [len EXCEPT ![0] = @ - len_current[0]]
             /\ offset' = [offset EXCEPT ![0] = 0]
             /\ index' = [index EXCEPT ![1] = @ + 1]
             /\ lvl' = 1
  <2>1. Consume(0)
    BY <1>7 DEF ChunkDone
  <2>2. 0 + 1 = 1
    OBVIOUS
  <2> QED
    BY <2>1, <2>2 DEF Consume
<1>8. ASSUME Walk3 PROVE Walk3' /\ len'[3] = 1 /\ offset'[3] = offset[3] /\ Cursor' = Cursor
  <2>1. chunk.depth = 3 /\ i = 1
    BY <1>1, <1>4, <1>8
  <2>2. lvl' = 3 /\ index'[3] = 0 /\ len' = len /\ offset' = offset
    BY <1>3, <1>6, <2>1 DEF Levels
  <2>3. Entry3(tab, call.v).present
    BY <1>1, <1>8, <2>1 DEF Walk3, Behind
  <2>4. Fresh2' /\ Cursor' = Cursor
    BY <1>1, <1>4, <1>5, <1>8, <2>1, <2>2 DEF Fresh2, Fresh1, Fresh0, Cursor, Ahead
  <2> QED
    BY <1>1, <1>4, <1>5, <2>2, <2>3, <2>4 DEF Walk3, InLoop
<1>9. ASSUME Walk2 PROVE Walk2' /\ len'[3] = 1 /\ offset'[3] = offset[3] /\ Cursor' = Cursor
  <2>1. chunk.depth = 2 /\ i = 1
    BY <1>1, <1>4, <1>9
  <2>2. lvl' = 2 /\ index'[2] = 0 /\ index'[3] = index[3] /\ len' = len /\ offset' = offset
    BY <1>3, <1>6, <2>1 DEF Levels
  <2>3. Entry2(tab, call.v).present
    BY <1>1, <1>9, <2>1 DEF Walk2, Behind
  <2>4. Fresh1' /\ Down3' /\ Cursor' = Cursor
    BY <1>1, <1>4, <1>5, <1>9, <2>1, <2>2 DEF Down3, Fresh1, Fresh0, Cursor, Ahead
  <2> QED
    BY <1>1, <1>4, <1>5, <2>2, <2>3, <2>4 DEF Walk2, InLoop
<1>10. ASSUME Walk1 PROVE Between' /\ len'[3] = 1 /\ offset'[3] = offset[3] /\ Cursor' = Cursor
  <2>1. /\ Down2 /\ Fresh0 /\ len[1] = m /\ Made(i) /\ i \in 0..m
        /\ chunk.depth = 1 /\ chunk.length = m
    BY <1>2, <1>10 DEF Walk1, Down2
  <2>2. i = m
    BY <1>1, <1>2, <2>1
  <2>3. /\ lvl' = 1 /\ index'[1] = 0 /\ index'[3] = index[3] /\ index'[2] = index[2]
        /\ len' = len /\ offset' = offset
    BY <1>3, <1>6, <2>1 DEF Levels
  <2>4. Down2'
    BY <1>5, <2>1, <2>3 DEF Down2, Down3
  <2>5. Made(len[1])'
    BY <1>5, <2>1, <2>2, <2>3 DEF Made
  <2>6. Ahead' = v /\ len[0] = n /\ offset[0] = v % F
    BY <1>2, <1>3, <1>5, <2>1, <2>3 DEF Ahead, Fresh0
  <2>7. Turn(index[1])'
    BY <1>2, <1>5, <2>1, <2>3, <2>4, <2>5, <2>6 DEF Turn
  <2>8. Cursor' = Cursor
    BY <1>1, <1>5, <2>1, <2>3 DEF Cursor, Ahead
  <2> QED
    BY <1>1, <1>4, <2>3, <2>7, <2>8 DEF Between
<1>11. ASSUME Walk0 PROVE Between' /\ len'[3] = 1 /\ offset'[3] = offset[3] /\ Cursor' = Cursor
  <2>1. /\ Turn(index[1]) /\ index[1] < len[1] /\ chunk.depth = 0
        /\ len_current[0] = iter_compute_len(len[0], offset[0])
        /\ chunk.length = len_current[0] /\ i \in 0..chunk.length
    BY <1>11 DEF Walk0
  <2>2. /\ Down2 /\ Made(len[1]) /\ len[1] = m /\ index[1] \in 0..m
    BY <1>2, <2>1 DEF Turn, Down2
  <2>3. PICK k \in Nat : k = index[1] /\ k < m
    BY <1>2, <2>1, <2>2
  <2>4. PICK r \in 1..n : r = len[0] /\ offset[0] = Ahead % F /\ Ahead \div F = (v \div F) + k
    <3>1. len[0] \in 0..n /\ len[0] > 0
      BY <1>2, <2>1 DEF Turn
    <3> QED
      BY <1>2, <2>1, <2>3, <3>1 DEF Turn
  <2>5. PICK a \in Nat : a = Ahead /\ a = v + n - r
    BY <1>2, <2>4 DEF Ahead
  <2>6. PICK x \in Nat : x = offset[0] /\ x = a % F
    <3>1. a % F \in Index
      BY RestIndex
    <3> QED
      BY <2>4, <2>5, <3>1, Sizes DEF Index
  <2>7. PICK c \in 1..r : /\ c = len_current[0]
                          /\ k + 1 = m => r - c = 0
                          /\ k + 1 < m => /\ r - c > 0 /\ (a + c) % F = 0
                                          /\ (a + c) \div F = (v \div F) + k + 1
    <3>1. a \div F = (v \div F) + k
      BY <2>4, <2>5
    <3>2. PICK c : c = iter_compute_len(r, x)
      OBVIOUS
    <3>3. /\ c \in 1..r
          /\ k + 1 = m => r - c = 0
          /\ k + 1 < m => /\ r - c > 0 /\ (a + c) % F = 0
                          /\ (a + c) \div F = (v \div F) + k + 1
      <4>0. /\ (v + n - 1) \div F = (v \div F) + m - 1 /\ k < m /\ a = v + n - r /\ x = a % F
            /\ v \in Nat /\ n \in Nat \ {0} /\ m \in Nat \ {0} /\ k \in Nat /\ r \in 1..n
            /\ a \in Nat /\ x \in Nat /\ a \div F = (v \div F) + k
            /\ c = iter_compute_len(r, x)
        BY <1>2, <2>3, <2>4, <2>5, <2>6, <3>1, <3>2
      <4>1. F \in Nat \ {0}
        BY <4>0, Sizes
      <4>2. PICK q \in Nat : q = a \div F /\ a = q * F + x /\ x < F
        <5>1. PICK q \in Nat, y \in Nat : q = a \div F /\ y = a % F /\ y < F /\ a = q * F + y
          BY <4>0, <4>1, Division
        <5> QED
          BY <4>0, <5>1
      <4>3. PICK e \in Nat : e = v \div F
        <5>1. v \div F \in Nat
          BY <4>0, <4>1, Division
        <5> QED
          BY <4>0, <5>1
      <4>4. q = e + k /\ (a + (r - 1)) \div F = e + m - 1
        BY <4>0, <4>2, <4>3
      <4>5. c \in 1..r /\ (r + x <= F => c = r) /\ (r + x > F => c = F - x)
        <5>1. r \in Nat /\ r > 0
          BY <4>0
        <5> QED
          BY <4>0, <4>2, <5>1, LenWithin
      <4>6. PICK j \in Int : j = q * F
        BY <4>0, <4>1, Times
      <4>7. ASSUME r + x <= F PROVE k + 1 = m /\ r - c = 0
        <5>1. x + (r - 1) \in Nat /\ x + (r - 1) < F
          BY <4>0, <4>1, <4>7
        <5>2. PICK y \in Nat : y = x + (r - 1) /\ y < F
          BY <4>0, <5>1
        <5>3. (q * F + y) \div F = q
          BY <4>0, <4>1, <5>2, QuotientIs
        <5>4. a + (r - 1) = q * F + y
          BY <4>0, <4>2, <4>6, <5>2
        <5> QED
          BY <4>0, <4>4, <4>5, <4>7, <5>3, <5>4
      <4>8. ASSUME r + x > F
            PROVE  r - c > 0 /\ (a + c) % F = 0 /\ (a + c) \div F = (v \div F) + k + 1 /\ k + 1 < m
        <5>1. (q + 1) * F = q * F + F
          BY <4>0, <4>1, Times
        <5>2. a + c = (q + 1) * F + 0
          BY <4>0, <4>1, <4>2, <4>5, <4>6, <4>8, <5>1
        <5>3. PICK b \in Nat : b = q + 1
          BY <4>0, <4>2
        <5>4. (b * F + 0) \div F = b /\ (b * F + 0) % F = 0
          <6>1. 0 \in Nat /\ 0 < F
            BY <4>0, <4>1
          <6> QED
            BY <4>0, <4>1, <6>1, QuotientIs
        <5>5. (a + c) \div F = b /\ (a + c) % F = 0
          BY <4>0, <5>2, <5>3, <5>4
        <5>6. r - c > 0
          BY <4>0, <4>1, <4>5, <4>8
        <5>7. (a + c) \div F <= (a + (r - 1)) \div F
          <6>1. PICK s \in Nat, t \in Nat : s = a + c /\ t = a + (r - 1) /\ s <= t
            BY <4>0, <4>5, <5>6
          <6> QED
            BY <4>0, <4>1, <6>1, QuotientOrder
        <5> QED
          BY <4>0, <4>3, <4>4, <5>3, <5>5, <5>6, <5>7
      <4>9. r + x <= F \/ r + x > F
        BY <4>0, <4>1
      <4> QED
        BY <4>0, <4>5, <4>7, <4>8, <4>9
    <3>4. c = len_current[0]
      BY <2>1, <2>4, <2>6, <3>2
    <3> QED
      BY <3>3, <3>4
  <2>8. /\ len'[0] = r - c /\ len'[1] = m /\ len'[2] = len[2] /\ len'[3] = len[3]
        /\ offset'[0] = 0 /\ offset'[1] = offset[1] /\ offset'[2] = offset[2]
        /\ offset'[3] = offset[3]
        /\ index'[1] = k + 1 /\ index'[2] = index[2] /\ index'[3] = index[3]
        /\ lvl' = 1
    BY <1>3, <1>7, <2>1, <2>2, <2>3, <2>4, <2>7 DEF Levels
  <2>9. Ahead' = a + c /\ i = c
    BY <1>1, <1>2, <1>3, <1>5, <2>1, <2>5, <2>7, <2>8 DEF Ahead
  <2>10. Down2'
    BY <1>2, <1>5, <2>2, <2>8 DEF Down2, Down3
  <2>11. Made(len[1])'
    BY <1>5, <2>2, <2>8 DEF Made
  <2>12. PICK e \in Nat : e = v \div F
    BY <1>2
  <2>13. Turn(index[1])'
    <3>1. len'[0] \in 0..n /\ k + 1 \in 0..m
      BY <1>2, <2>3, <2>4, <2>7, <2>8
    <3>2. k + 1 < m => /\ len'[0] > 0 /\ offset'[0] = Ahead' % F
                       /\ Ahead' \div F = (v \div F) + (k + 1)
      <4> SUFFICES ASSUME k + 1 < m
                   PROVE  /\ len'[0] > 0 /\ offset'[0] = Ahead' % F
                          /\ Ahead' \div F = (v \div F) + (k + 1)
        OBVIOUS
      <4>1. len'[0] > 0 /\ offset'[0] = Ahead' % F
        BY <2>7, <2>8, <2>9
      <4>2. Ahead' \div F = e + k + 1
        BY <2>7, <2>9, <2>12
      <4> QED
        BY <2>3, <2>12, <4>1, <4>2
    <3>3. k + 1 = m => len'[0] = 0
      BY <2>7, <2>8
    <3> QED
      BY <1>2, <1>5, <2>8, <2>10, <2>11, <3>1, <3>2, <3>3 DEF Turn
  <2>14. Cursor' = Cursor
    BY <1>1, <1>3, <2>1, <2>5, <2>9 DEF Cursor
  <2> QED
    BY <1>1, <1>4, <2>8, <2>13, <2>14 DEF Between
<1>12. /\ Walk3' \/ Walk2' \/ Between'
       /\ len'[3] = 1 /\ offset'[3] = offset[3] /\ Cursor' = Cursor
  BY <1>4, <1>8, <1>9, <1>10, <1>11, Zenon
<1>13. Place'
  BY <1>1, <1>4, <1>5, <1>12, Zenon DEF Place, Walking
<1> QED
  BY <1>1, <1>12, <1>13
----------------------------------------------------------------------------
(* The callers' loops *)

\* Where the caller's next entry is, by the depth of the chunk.
LEMMA AtEntry ==
  ASSUME Types, Place, InFull, pc = "chunk", i < chunk.length,
         NEW L, Tree(tab, L, procs)
  PROVE  /\ chunk.table \in DOMAIN tab \ procs /\ Here \in Index /\ L[chunk.table] = chunk.depth
         /\ chunk.depth = 3 => Walk3 /\ chunk.table = Root /\ i = 0 /\ Here = Offset0(call.v, 3)
         /\ chunk.depth = 2 => /\ Walk2 /\ Down3 /\ chunk.table = Entry3(tab, call.v).frame
                               /\ i = 0 /\ Here = Offset0(call.v, 2)
         /\ chunk.depth = 1 => /\ Walk1 /\ Down2 /\ chunk.table = Entry2(tab, call.v).frame
                               /\ i \in 0..(len[1] - 1) /\ Here = Offset0(call.v, 1) + i
         /\ chunk.depth = 0 => /\ Walk0 /\ Down2 /\ index[1] \in 0..(len[1] - 1)
                               /\ chunk.table = tab[Entry2(tab, call.v).frame]
                                                   [Offset0(call.v, 1) + index[1]].frame
                               /\ tab[Entry2(tab, call.v).frame]
                                     [Offset0(call.v, 1) + index[1]].present
         /\ chunk.depth \in 0..3
<1>1. PICK v \in Nat, n \in Nat \ {0}, m \in Nat \ {0} :
        /\ v = call.v /\ n = call.n /\ m = Ceil(n, F)
        /\ Offset0(v, 1) \in Index /\ Offset0(v, 1) + m <= F
        /\ Offset0(v, 2) \in Index /\ Offset0(v, 3) \in Index
  BY CallFits DEF Walking
<1>2. /\ dir[3] = Root /\ offset[3] = Offset0(call.v, 3)
      /\ Walk3 \/ Walk2 \/ Walk1 \/ Walk0
      /\ Walk3 => chunk = [depth |-> 3, table |-> dir[3], first |-> offset[3], length |-> 1]
                  /\ i \in 0..1 /\ Fresh2
      /\ Walk2 => chunk = [depth |-> 2, table |-> dir[2], first |-> offset[2], length |-> 1]
                  /\ i \in 0..1 /\ Fresh1 /\ Down3
  BY InCaller
<1>3. /\ Root \in DOMAIN tab \ procs /\ L[Root] = 3
      /\ Entry3(tab, v).present =>
           Entry3(tab, v).frame \in DOMAIN tab \ procs /\ L[Entry3(tab, v).frame] = 2
      /\ Entry3(tab, v).present /\ Entry2(tab, v).present =>
           Entry2(tab, v).frame \in DOMAIN tab \ procs /\ L[Entry2(tab, v).frame] = 1
  BY WayLevels
<1>4. F \in Nat /\ F >= 2
  BY Sizes
<1>5. /\ L \in [DOMAIN tab -> Levels]
      /\ \A t \in DOMAIN tab, x \in Index : (L[t] > 0 /\ tab[t][x].present) =>
           tab[t][x].frame \in DOMAIN tab /\ L[tab[t][x].frame] = L[t] - 1
      /\ \A t \in DOMAIN tab : L[t] = 3 <=> t \in {Root} \cup procs
  BY DEF Tree, Leveled
<1>6. ASSUME Walk3
      PROVE  /\ chunk.depth = 3 /\ chunk.table = Root /\ i = 0 /\ Here = Offset0(v, 3)
  BY <1>1, <1>2, <1>6 DEF Here, Index
<1>7. ASSUME Walk2
      PROVE  /\ chunk.depth = 2 /\ Down3 /\ chunk.table = Entry3(tab, v).frame /\ i = 0
             /\ Here = Offset0(v, 2) /\ Entry3(tab, v).present
  BY <1>1, <1>2, <1>4, <1>7 DEF Here, Index, Down3
<1>8. ASSUME Walk1
      PROVE  /\ chunk.depth = 1 /\ Down2 /\ chunk.table = Entry2(tab, v).frame
             /\ i \in 0..(len[1] - 1) /\ Here = Offset0(v, 1) + i /\ Here \in Index
             /\ Entry3(tab, v).present /\ Entry2(tab, v).present
  <2>1. /\ Down2 /\ i \in 0..m /\ dir[1] = Entry2(tab, v).frame
        /\ offset[1] = Offset0(v, 1) /\ len[1] = m
        /\ chunk = [depth |-> 1, table |-> dir[1], first |-> offset[1], length |-> m]
    BY <1>1, <1>8 DEF Walk1, Down2
  <2>2. Entry3(tab, v).present /\ Entry2(tab, v).present
    BY <1>1, <2>1 DEF Down2, Down3
  <2>3. chunk.depth = 1 /\ chunk.table = Entry2(tab, v).frame /\ Here = Offset0(v, 1) + i
    BY <2>1 DEF Here
  <2>4. i \in 0..(m - 1) /\ chunk.length = m
    BY <1>1, <2>1
  <2>5. Here \in Index
    BY <1>1, <1>4, <2>3, <2>4 DEF Index
  <2> QED
    BY <2>1, <2>2, <2>3, <2>4, <2>5
<1>9. ASSUME Walk0
      PROVE  /\ chunk.depth = 0 /\ Down2 /\ index[1] \in 0..(len[1] - 1)
             /\ chunk.table = tab[Entry2(tab, v).frame][Offset0(v, 1) + index[1]].frame
             /\ tab[Entry2(tab, v).frame][Offset0(v, 1) + index[1]].present
             /\ Here \in Index /\ chunk.table \in DOMAIN tab \ procs /\ L[chunk.table] = 0
  <2>1. /\ Down2 /\ index[1] \in 0..(m - 1) /\ Made(m) /\ dir[1] = Entry2(tab, v).frame
        /\ offset[1] = Offset0(v, 1) /\ len[1] = m
        /\ Entry3(tab, v).present /\ Entry2(tab, v).present
    BY <1>1, <1>9 DEF Walk0, Turn, Down2, Down3
  <2>2. PICK y \in Index : y = Offset0(v, 1) + index[1]
    BY <1>1, <1>4, <2>1 DEF Index
  <2>3. tab[Entry2(tab, v).frame][y].present
    BY <2>1, <2>2 DEF Made
  <2>4. chunk = [depth |-> 0, table |-> dir[0], first |-> offset[0], length |-> len_current[0]]
        /\ dir[0] = tab[Entry2(tab, v).frame][y].frame
    BY <1>9, <2>1, <2>2 DEF Walk0
  <2>5. PICK u \in DOMAIN tab \ procs : u = Entry2(tab, v).frame /\ L[u] = 1
    BY <1>3, <2>1
  <2>6. tab[u][y].frame \in DOMAIN tab /\ L[tab[u][y].frame] = 0
    <3>1. L[u] > 0 /\ tab[u][y].present
      BY <2>3, <2>5
    <3> QED
      BY <1>5, <2>5, <3>1
  <2>7. Here \in Index
    <3>1. /\ len_current[0] = iter_compute_len(len[0], offset[0])
          /\ len[0] \in 0..n /\ len[0] > 0 /\ offset[0] = Ahead % F
      BY <1>1, <1>9, <2>1 DEF Walk0, Turn
    <3>2. PICK a \in Nat : a = Ahead
      BY <1>1, <3>1 DEF Ahead
    <3>3. offset[0] \in Nat /\ offset[0] < F
      <4>1. a % F \in Index
        BY RestIndex
      <4> QED
        BY <1>4, <3>1, <3>2, <4>1 DEF Index
    <3>41. len_current[0] \in Int
      BY DEF Types, Levels
    <3>4. PICK r \in Nat, x \in Nat, k \in Int :
            r = len[0] /\ x = offset[0] /\ k = len_current[0]
      BY <3>1, <3>3, <3>41
    <3>5. (r + x <= F => k = r) /\ (r + x > F => k = F - x)
      BY <3>1, <3>3, <3>4, LenWithin
    <3>6. i \in Nat /\ i < k
      BY <2>4, <3>4 DEF Types
    <3>7. Here = x + i
      BY <2>4, <3>4 DEF Here
    <3> QED
      BY <1>4, <3>4, <3>5, <3>6, <3>7 DEF Index
  <2> QED
    BY <1>5, <2>1, <2>2, <2>3, <2>4, <2>5, <2>6, <2>7
<1>10. CASE Walk3
  BY <1>1, <1>3, <1>6, <1>10
<1>11. CASE Walk2
  BY <1>1, <1>3, <1>7, <1>11
<1>12. CASE Walk1
  BY <1>1, <1>3, <1>8, <1>12
<1>13. CASE Walk0
  BY <1>1, <1>9, <1>13
<1> QED
  BY <1>2, <1>10, <1>11, <1>12, <1>13

\* A caller's turn at a table above the last level: the entry is there after it.
LEMMA UpperPlace ==
  ASSUME Types, Place, InFull, InChunk, chunk.depth # 0, Advance, UNCHANGED call,
         NEW L, Tree(tab, L, procs),
         \A t \in DOMAIN tab, x \in Index :
           (L[t] > 0 /\ tab[t][x].present) => tab'[t][x] = tab[t][x],
         tab'[chunk.table][Here].present
  PROVE  Place' /\ pc' = "chunk" /\ Cursor' = Cursor
<1>1. pc = "chunk" /\ i < chunk.length /\ pc' = "chunk" /\ i' = i + 1 /\ i \in Nat
      /\ UNCHANGED <<dir, offset, len, len_current, index, lvl, chunk, call>>
  BY DEF InChunk, Advance, itervars, Types
<1>2. PICK v \in Nat, n \in Nat \ {0}, m \in Nat \ {0} :
        /\ v = call.v /\ n = call.n /\ m = Ceil(n, F)
        /\ Offset0(v, 1) \in Index /\ Offset0(v, 2) \in Index /\ Offset0(v, 3) \in Index
        /\ Offset0(v, 1) + m <= F
  BY <1>1, CallFits DEF Walking
<1>3. /\ chunk.depth = 3 => Walk3 /\ chunk.table = Root /\ i = 0 /\ Here = Offset0(v, 3)
      /\ chunk.depth = 2 => /\ Walk2 /\ Down3 /\ chunk.table = Entry3(tab, v).frame
                            /\ i = 0 /\ Here = Offset0(v, 2)
      /\ chunk.depth = 1 => /\ Walk1 /\ Down2 /\ chunk.table = Entry2(tab, v).frame
                            /\ i \in 0..(len[1] - 1) /\ Here = Offset0(v, 1) + i
      /\ chunk.depth \in 1..3
  <2>1. /\ chunk.depth = 3 => Walk3 /\ chunk.table = Root /\ i = 0 /\ Here = Offset0(call.v, 3)
        /\ chunk.depth = 2 => /\ Walk2 /\ Down3 /\ chunk.table = Entry3(tab, call.v).frame
                              /\ i = 0 /\ Here = Offset0(call.v, 2)
        /\ chunk.depth = 1 => /\ Walk1 /\ Down2 /\ chunk.table = Entry2(tab, call.v).frame
                              /\ i \in 0..(len[1] - 1) /\ Here = Offset0(call.v, 1) + i
        /\ chunk.depth \in 0..3
    BY <1>1, AtEntry
  <2>2. chunk.depth \in 1..3
    BY <2>1
  <2> QED
    BY <1>2, <2>1, <2>2, Zenon
<1>4. /\ call.op # "none" /\ dir[3] = Root /\ offset[3] = Offset0(call.v, 3) /\ len[3] = 1
      /\ Walk3 => chunk = [depth |-> 3, table |-> dir[3], first |-> offset[3], length |-> 1]
                  /\ Fresh2
      /\ Walk2 => chunk = [depth |-> 2, table |-> dir[2], first |-> offset[2], length |-> 1]
                  /\ Fresh1
  BY <1>1, InCaller
<1>5. /\ Root \in DOMAIN tab /\ L[Root] > 0
      /\ Entry3(tab, v).present =>
           Entry3(tab, v).frame \in DOMAIN tab /\ L[Entry3(tab, v).frame] > 0
      /\ Entry3(tab, v).present /\ Entry2(tab, v).present =>
           Entry2(tab, v).frame \in DOMAIN tab /\ L[Entry2(tab, v).frame] > 0
  BY WayLevels
<1>6. /\ Entry3(tab, v).present => Entry3(tab', v) = Entry3(tab, v)
      /\ Entry3(tab, v).present /\ Entry2(tab, v).present => Entry2(tab', v) = Entry2(tab, v)
  BY <1>2, <1>5 DEF Entry3, Entry2
<1>7. Down3 => Down3'
  BY <1>1, <1>2, <1>6 DEF Down3
<1>8. Down2 => Down2'
  BY <1>1, <1>2, <1>6, <1>7 DEF Down2, Down3
<1>9. ASSUME chunk.depth = 3 PROVE Walk3'
  <2>1. Entry3(tab', v).present
    BY <1>3, <1>9 DEF Entry3
  <2> QED
    BY <1>1, <1>2, <1>3, <1>4, <1>9, <2>1 DEF Walk3, InLoop, Behind, Fresh2, Fresh1, Fresh0
<1>10. ASSUME chunk.depth = 2 PROVE Walk2'
  <2>1. Entry2(tab', v).present
    BY <1>2, <1>3, <1>6, <1>10 DEF Entry2, Down3
  <2> QED
    BY <1>1, <1>2, <1>3, <1>4, <1>7, <1>10, <2>1 DEF Walk2, InLoop, Behind, Fresh1, Fresh0
<1>11. ASSUME chunk.depth = 1 PROVE Walk1'
  <2>1. /\ Down2 /\ Made(i) /\ Fresh0 /\ dir[1] = Entry2(tab, v).frame
        /\ offset[1] = Offset0(v, 1) /\ len[1] = m
        /\ Entry3(tab, v).present /\ Entry2(tab, v).present
        /\ chunk = [depth |-> 1, table |-> dir[1], first |-> offset[1], length |-> len[1]]
    BY <1>2, <1>3, <1>11 DEF Walk1, Down2, Down3
  <2>2. ASSUME NEW x \in 0..i PROVE tab'[dir[1]][offset[1] + x].present
    <3>1. CASE x = i
      BY <1>3, <1>11, <2>1, <3>1
    <3>2. CASE x # i
      <4>1. tab[dir[1]][offset[1] + x].present
        BY <1>1, <2>1, <3>2 DEF Made
      <4>2. offset[1] + x \in Index
        BY <1>2, <1>3, <1>11, <2>1, Sizes DEF Index
      <4> QED
        BY <1>5, <2>1, <4>1, <4>2
    <3> QED
      BY <3>1, <3>2
  <2>3. Made(i)'
    BY <1>1, <2>2 DEF Made
  <2>4. Fresh0' /\ i' \in 0..len'[1]
    BY <1>1, <1>2, <1>3, <1>11, <2>1 DEF Fresh0
  <2> QED
    BY <1>1, <1>8, <2>1, <2>3, <2>4 DEF Walk1
<1>12. Walk3' \/ Walk2' \/ Walk1'
  BY <1>3, <1>9, <1>10, <1>11
<1>13. Place'
  BY <1>1, <1>4, <1>12 DEF Place, Walking
<1> QED
  BY <1>1, <1>13 DEF Cursor, Ahead

\* In the innermost loop the caller is at the entry of the first page it is not
\* done with.
LEMMA AtPage ==
  ASSUME Types, Place, InFull, pc = "chunk", i < chunk.length, chunk.depth = 0,
         NEW L, Tree(tab, L, procs)
  PROVE  \E p \in Pages :
           /\ p = Cursor /\ p \in Nat /\ p \in PagesOf(call) /\ Reached(tab, p)
           /\ Entry1(tab, p).frame = chunk.table /\ p % F = Here
           /\ \A u \in PagesOf(call) : u \in Nat /\ (u \in Pending <=> u >= p)
<1>1. PICK v \in Nat, n \in Nat \ {0}, m \in Nat \ {0} :
        /\ v = call.v /\ n = call.n /\ m = Ceil(n, F) /\ v \div F \in Nat
        /\ \A w \in PagesOf(call) :
             /\ w \in Pages /\ w \in Nat
             /\ Offset0(w, 3) = Offset0(v, 3) /\ Offset0(w, 2) = Offset0(v, 2)
             /\ Offset0(w, 1) = Offset0(v, 1) + ((w \div F) - (v \div F))
             /\ w \div F \in Nat
  BY CallFits DEF Walking
<1>2. /\ Walk0 /\ Down2 /\ index[1] \in 0..(len[1] - 1)
      /\ chunk.table = tab[Entry2(tab, v).frame][Offset0(v, 1) + index[1]].frame
      /\ tab[Entry2(tab, v).frame][Offset0(v, 1) + index[1]].present
  BY <1>1, AtEntry
<1>3. F \in Nat \ {0} /\ i \in Nat
  BY Sizes DEF Types
<1>4. PICK a \in Nat, r \in Nat, x \in Nat, k \in Int, j \in Int :
        /\ a = Ahead /\ r = len[0] /\ x = offset[0] /\ k = len_current[0] /\ j = index[1]
        /\ r <= n /\ a = v + n - r /\ x = a % F /\ x < F /\ a \div F = (v \div F) + j
        /\ k = iter_compute_len(r, x) /\ i < k /\ Here = x + i
  <2>1. /\ len_current[0] = iter_compute_len(len[0], offset[0])
        /\ len[0] \in 0..n /\ offset[0] = Ahead % F /\ Ahead \div F = (v \div F) + index[1]
        /\ chunk = [depth |-> 0, table |-> dir[0], first |-> offset[0], length |-> len_current[0]]
        /\ index[1] \in Int
    BY <1>1, <1>2 DEF Walk0, Turn
  <2>2. PICK a \in Nat : a = Ahead /\ a = v + n - len[0]
    BY <1>1, <2>1 DEF Ahead
  <2>3. a % F \in Index
    BY RestIndex
  <2>4. offset[0] \in Nat /\ offset[0] < F
    BY <1>3, <2>1, <2>2, <2>3 DEF Index
  <2>5. i < len_current[0] /\ Here = offset[0] + i
    BY <2>1 DEF Here
  <2>6. PICK x \in Nat, r \in Nat : x = offset[0] /\ r = len[0] /\ r <= n
    BY <2>1, <2>4
  <2>7. PICK k \in Int, j \in Int : k = len_current[0] /\ j = index[1]
    BY <2>1 DEF Types, Levels
  <2>8. /\ a = v + n - r /\ x = a % F /\ x < F /\ a \div F = (v \div F) + j
        /\ k = iter_compute_len(r, x) /\ i < k /\ Here = x + i
    BY <2>1, <2>2, <2>4, <2>5, <2>6, <2>7
  <2> QED
    BY <2>2, <2>6, <2>7, <2>8
<1>5. (r + x <= F => k = r) /\ (r + x > F => k = F - x)
  BY <1>4, LenWithin
<1>6. PICK p \in Nat : p = a + i /\ p = Cursor /\ p \in PagesOf(call)
  <2>1. Cursor = a + i
    BY <1>4 DEF Cursor
  <2>2. a + i >= v /\ a + i <= v + n - 1
    BY <1>3, <1>4, <1>5
  <2>3. a + i \in PagesOf(call)
    BY <1>1, <1>3, <1>4, <2>2 DEF PagesOf
  <2> QED
    BY <1>3, <1>4, <2>1, <2>3
<1>7. p % F = Here /\ p \div F = (v \div F) + j
  <2>1. PICK q \in Nat : q = a \div F /\ a = q * F + x
    <3>1. PICK q \in Nat, y \in Nat : q = a \div F /\ y = a % F /\ a = q * F + y
      BY <1>3, Division
    <3> QED
      BY <1>4, <3>1
  <2>2. PICK y \in Nat : y = x + i /\ y < F
    BY <1>3, <1>4, <1>5
  <2>3. (q * F + y) \div F = q /\ (q * F + y) % F = y
    BY <1>3, <2>2, QuotientIs
  <2>4. PICK z \in Int : z = q * F
    BY <1>3, Times
  <2>5. p = q * F + y
    BY <1>3, <1>4, <1>6, <2>1, <2>2, <2>4
  <2> QED
    BY <1>4, <2>1, <2>2, <2>3, <2>5
<1>8. Offset0(p, 3) = Offset0(v, 3) /\ Offset0(p, 2) = Offset0(v, 2)
      /\ Offset0(p, 1) = Offset0(v, 1) + j
  <2>1. /\ Offset0(p, 3) = Offset0(v, 3) /\ Offset0(p, 2) = Offset0(v, 2)
        /\ Offset0(p, 1) = Offset0(v, 1) + ((p \div F) - (v \div F))
    BY <1>1, <1>6
  <2>2. PICK e \in Nat : e = v \div F
    BY <1>1
  <2>3. (p \div F) - (v \div F) = j
    BY <1>4, <1>7, <2>2
  <2> QED
    BY <2>1, <2>3
<1>9. Entry3(tab, p) = Entry3(tab, v) /\ Entry2(tab, p) = Entry2(tab, v)
  BY <1>8 DEF Entry3, Entry2
<1>10. Entry1(tab, p) = tab[Entry2(tab, v).frame][Offset0(v, 1) + index[1]]
  BY <1>4, <1>8, <1>9 DEF Entry1
<1>11. Reached(tab, p)
  BY <1>1, <1>2, <1>9, <1>10 DEF Reached, Down2, Down3
<1>12. \A u \in PagesOf(call) : u \in Nat /\ (u \in Pending <=> u >= p)
  BY <1>1, <1>6 DEF Pending
<1> QED
  BY <1>1, <1>2, <1>6, <1>7, <1>10, <1>11, <1>12

\* A caller's turn at a page: the way down is as it was.
LEMMA LowerPlace ==
  ASSUME Types, Place, InFull, InChunk, chunk.depth = 0, Advance,
         call'.v = call.v, call'.n = call.n, call'.op = call.op,
         NEW L, Tree(tab, L, procs),
         \A t \in DOMAIN tab, x \in Index : L[t] > 0 => tab'[t][x] = tab[t][x]
  PROVE  Place' /\ pc' = "chunk" /\ Cursor' = Cursor + 1
<1>1. pc = "chunk" /\ i < chunk.length /\ pc' = "chunk" /\ i' = i + 1 /\ i \in Nat
      /\ UNCHANGED <<dir, offset, len, len_current, index, lvl, chunk>>
  BY DEF InChunk, Advance, itervars, Types
<1>2. PICK v \in Nat, n \in Nat \ {0}, m \in Nat \ {0} :
        /\ v = call.v /\ n = call.n /\ m = Ceil(n, F)
        /\ Offset0(v, 1) \in Index /\ Offset0(v, 2) \in Index /\ Offset0(v, 3) \in Index
        /\ Offset0(v, 1) + m <= F
  BY <1>1, CallFits DEF Walking
<1>3. Walk0
  BY <1>1, AtEntry
<1>4. call.op # "none" /\ dir[3] = Root /\ offset[3] = Offset0(call.v, 3) /\ len[3] = 1
  BY <1>1, InCaller
<1>5. /\ Root \in DOMAIN tab /\ L[Root] > 0
      /\ Entry3(tab, v).present =>
           Entry3(tab, v).frame \in DOMAIN tab /\ L[Entry3(tab, v).frame] > 0
      /\ Entry3(tab, v).present /\ Entry2(tab, v).present =>
           Entry2(tab, v).frame \in DOMAIN tab /\ L[Entry2(tab, v).frame] > 0
  BY WayLevels
<1>6. /\ Entry3(tab', v) = Entry3(tab, v)
      /\ Entry3(tab, v).present => Entry2(tab', v) = Entry2(tab, v)
  BY <1>2, <1>5 DEF Entry3, Entry2
<1>7. /\ Turn(index[1]) /\ index[1] < len[1]
      /\ len_current[0] = iter_compute_len(len[0], offset[0])
      /\ dir[0] = tab[dir[1]][offset[1] + index[1]].frame
      /\ chunk = [depth |-> 0, table |-> dir[0], first |-> offset[0], length |-> len_current[0]]
      /\ i \in 0..chunk.length
  BY <1>3 DEF Walk0
<1>8. /\ Down2 /\ Made(m) /\ len[1] = m /\ index[1] \in 0..(m - 1)
      /\ dir[1] = Entry2(tab, v).frame /\ offset[1] = Offset0(v, 1)
      /\ Entry3(tab, v).present /\ Entry2(tab, v).present
  BY <1>2, <1>7 DEF Turn, Down2, Down3
<1>9. \A x \in 0..(m - 1) : tab'[dir[1]][offset[1] + x] = tab[dir[1]][offset[1] + x]
  <2> SUFFICES ASSUME NEW x \in 0..(m - 1)
               PROVE  tab'[dir[1]][offset[1] + x] = tab[dir[1]][offset[1] + x]
    OBVIOUS
  <2>1. offset[1] + x \in Index
    BY <1>2, <1>8, Sizes DEF Index
  <2> QED
    BY <1>5, <1>8, <2>1
<1>10. Down2'
  BY <1>1, <1>2, <1>6, <1>8 DEF Down2, Down3
<1>11. Made(m)'
  BY <1>1, <1>8, <1>9 DEF Made
<1>12. Ahead' = Ahead
  BY <1>1 DEF Ahead
<1>13. Turn(index[1])'
  BY <1>1, <1>2, <1>7, <1>8, <1>10, <1>11, <1>12 DEF Turn
<1>14. i' \in 0..chunk'.length
  <2>1. len_current[0] \in Int
    BY DEF Types, Levels
  <2>2. i + 1 \in 0..chunk.length
    BY <1>1, <1>7, <2>1
  <2> QED
    BY <1>1, <2>2
<1>15. Walk0'
  BY <1>1, <1>7, <1>8, <1>9, <1>13, <1>14 DEF Walk0
<1>16. Place'
  BY <1>1, <1>4, <1>15 DEF Place, Walking
<1>17. Cursor' = Cursor + 1
  <2>1. Ahead \in Int
    BY <1>2 DEF Ahead, Types, Levels
  <2> QED
    BY <1>1, <1>7, <1>12, <2>1 DEF Cursor
<1> QED
  BY <1>1, <1>16, <1>17

\* Every page table the call comes to holds a page of it.
LEMMA TurnPage ==
  ASSUME Types, Place, Walking, InFull, NEW k \in Nat, k < Ceil(call.n, F)
  PROVE  \E w \in PagesOf(call) :
           /\ w \in Pages /\ Offset0(w, 3) = Offset0(call.v, 3)
           /\ Offset0(w, 2) = Offset0(call.v, 2) /\ Offset0(w, 1) = Offset0(call.v, 1) + k
<1>1. PICK v \in Nat, n \in Nat \ {0}, m \in Nat \ {0} :
        /\ v = call.v /\ n = call.n /\ m = Ceil(n, F) /\ v \in PagesOf(call)
        /\ (v + n - 1) \div F = (v \div F) + m - 1
        /\ \A w \in PagesOf(call) :
             /\ w \in Pages /\ w \in Nat
             /\ Offset0(w, 3) = Offset0(v, 3) /\ Offset0(w, 2) = Offset0(v, 2)
             /\ Offset0(w, 1) = Offset0(v, 1) + ((w \div F) - (v \div F))
             /\ w \div F \in Nat
  BY CallFits
<1>2. F \in Nat \ {0} /\ 0 < F
  BY Sizes
<1>3. PICK q \in Nat, r \in Nat : q = v \div F /\ r < F /\ v = q * F + r
  BY <1>2, Division
<1>4. \E w \in PagesOf(call) : w \div F = q + k
  <2>1. CASE k = 0
    BY <1>1, <1>3, <2>1
  <2>2. CASE k # 0
    <3>1. PICK b \in Nat : b = q + k
      OBVIOUS
    <3>2. (b * F + 0) \div F = b
      BY <1>2, QuotientIs
    <3>3. (q + 1) * F <= b * F /\ (q + 1) * F = q * F + F
      <4>1. q + 1 <= b
        BY <2>2, <3>1
      <4>2. (q + 1) * F <= b * F
        BY <1>2, <4>1, Times
      <4>3. (q + 1) * F = q * F + F
        BY <1>2, Times
      <4> QED
        BY <4>2, <4>3
    <3>4. PICK s \in Nat, t \in Nat : s = (v + n - 1) \div F /\ v + n - 1 = s * F + t
      <4>1. PICK a \in Nat : a = v + n - 1
        BY <1>1
      <4>2. PICK s \in Nat, t \in Nat : s = a \div F /\ a = s * F + t
        BY <1>2, Division
      <4> QED
        BY <4>1, <4>2
    <3>5. b <= s
      <4>1. k < m /\ s = q + m - 1
        BY <1>1, <1>3, <3>4
      <4> QED
        BY <3>1, <4>1
    <3>6. b * F <= s * F
      BY <1>2, <3>5, Times
    <3>7. PICK x \in Int, y \in Int, z \in Int : x = b * F /\ y = s * F /\ z = q * F
      BY <1>2, Times
    <3>8. x >= v /\ x <= v + n - 1
      BY <1>1, <1>2, <1>3, <3>3, <3>4, <3>6, <3>7
    <3>9. x \in PagesOf(call)
      BY <1>1, <3>8 DEF PagesOf
    <3>10. x \div F = b
      BY <1>2, <3>2, <3>7
    <3> QED
      BY <3>1, <3>9, <3>10
  <2> QED
    BY <2>1, <2>2
<1>5. PICK w \in PagesOf(call) : w \div F = q + k
  BY <1>4
<1>6. (w \div F) - (v \div F) = k
  BY <1>3, <1>5
<1> QED
  BY <1>1, <1>5, <1>6
----------------------------------------------------------------------------
(* Steps that leave the tables as they are *)

\* The tables of a state of the invariant are a tree.
LEMMA StateTree ==
  ASSUME Types, NEW L, Trees(L)
  PROVE  /\ Tree(tab, L, procs) /\ Leveled(tab, L, {Root} \cup procs)
         /\ Pool \subseteq Nat /\ Root \notin Pool /\ procs \subseteq Pool /\ free \subseteq Pool
  BY PoolAssumption DEF Types, Trees, Tree

\* A step that touches no table and no frame keeps the tree.
LEMMA SameTrees ==
  ASSUME UNCHANGED <<tab, free, procs>>, NEW L, Trees(L)
  PROVE  Trees(L)'
  BY DEF Trees

\* A step of the walk that does not move past a page keeps the translation.
LEMMA SameTranslation ==
  ASSUME Translates, pc # "wild", UNCHANGED <<want, call, nx>>, Pending' = Pending,
         Cursor' = Cursor, \A v \in Pages : Leaf(tab', v) = Leaf(tab, v)
  PROVE  Translates'
<1>1. \A v \in Pages : (Kept(v) => Kept(v)') /\ (Due(v) => Due(v)')
  BY DEF Kept, Due, Backed, page_prot_flags
<1> QED
  BY <1>1 DEF Translates

\* The parts that do not speak of the walk.
LEMMA SameRest ==
  ASSUME Halves, Roots, Early, Walking, pc' \notin {"nx", "half"},
         UNCHANGED <<tab, procs, todo, want, load, loaded>>, cr3' \in {cr3, Root}
  PROVE  Halves' /\ Roots' /\ Early'
<1>1. Halves'
  BY DEF Halves, KernelHalfShared, Walking
<1>2. Roots'
  BY DEF Roots
<1>3. Early'
  BY DEF Early
<1> QED
  BY <1>1, <1>2, <1>3

\* The table an iterator's loop goes down from is a table.
LEMMA DirIn ==
  ASSUME Types, Place, InFull, NEW L, Tree(tab, L, procs), pc = "iter", index[lvl] < len[lvl]
  PROVE  dir[lvl] \in DOMAIN tab /\ lvl \in 1..3
<1>1. PICK v \in Nat : v = call.v
  BY CallFits DEF Walking
<1>2. /\ dir[3] = Root /\ len[3] = 1
      /\ \/ lvl = 3 /\ index[3] = 0
         \/ lvl = 2 /\ index[2] = 0 /\ Down3
         \/ Between
         \/ Finished
  BY InIter
<1>3. /\ Root \in DOMAIN tab
      /\ Entry3(tab, v).present => Entry3(tab, v).frame \in DOMAIN tab
      /\ Entry3(tab, v).present /\ Entry2(tab, v).present => Entry2(tab, v).frame \in DOMAIN tab
  BY WayLevels
<1>4. CASE lvl = 3
  BY <1>2, <1>3, <1>4
<1>5. CASE lvl = 2 /\ index[2] = 0 /\ Down3
  BY <1>1, <1>3, <1>5 DEF Down3
<1>6. CASE Between
  BY <1>1, <1>3, <1>6 DEF Between, Turn, Down2, Down3
<1>7. CASE Finished
  BY <1>2, <1>4, <1>7 DEF Finished
<1> QED
  BY <1>2, <1>4, <1>5, <1>6, <1>7

\* The iterator's fields keep their types.
LEMMA IteratorTypes ==
  ASSUME Types, Place, InFull, NEW L, Tree(tab, L, procs),
         (\E d \in 1..3 : Descend(d)) \/ (\E d \in 1..2 : Ascend(d)) \/ ChunkDone,
         pc' \in {"iter", "chunk"}
  PROVE  Types'
<1>1. /\ dir \in [Levels -> Nat] /\ lvl \in Levels
      /\ offset \in [Levels -> Int] /\ len \in [Levels -> Int]
      /\ len_current \in [Levels -> Int] /\ index \in [Levels -> Int]
      /\ chunk \in [depth : Levels, table : Nat, first : Int, length : Int] /\ i \in Nat
  BY DEF Types
<1>2. F \in Nat /\ 0..3 \subseteq Int
  BY Sizes
<1>3. ASSUME NEW d \in 1..3, Descend(d)
      PROVE  Types'
  <2>1. pc = "iter" /\ lvl = d /\ index[d] < len[d]
    BY <1>3 DEF Descend
  <2>2. dir[d] \in DOMAIN tab
    BY <2>1, DirIn
  <2>3. pc' = "chunk"
    BY <1>3, DescendPlace
  <2>4. PICK x \in Index : x = offset[d] + index[d] /\ tab[dir[d]][x].present
    BY <1>3, <2>3 DEF Descend
  <2>5. PICK k : k = iter_compute_len(len[d - 1], offset[d - 1])
    OBVIOUS
  <2>6. /\ dir' = [dir EXCEPT ![d - 1] = tab[dir[d]][x].frame]
        /\ len_current' = [len_current EXCEPT ![d - 1] = k]
        /\ chunk' = [depth |-> d - 1, table |-> tab[dir[d]][x].frame,
                     first |-> offset[d - 1], length |-> k]
        /\ i' = 0
        /\ UNCHANGED <<todo, call, offset, len, index, lvl, tab, free, kvars, want>>
    BY <1>3, <2>4, <2>5 DEF Descend
  <2>7. tab[dir[d]][x].frame \in Nat
    BY <2>2, EntryIn DEF Tree
  <2>8. offset[d - 1] \in Int /\ len[d - 1] \in Int /\ d - 1 \in Levels
    BY <1>1 DEF Levels
  <2>9. k \in Int
    BY <1>2, <2>5, <2>8 DEF iter_compute_len
  <2>10. dir' \in [Levels -> Nat] /\ len_current' \in [Levels -> Int]
         /\ chunk' \in [depth : Levels, table : Nat, first : Int, length : Int] /\ i' \in Nat
    BY <1>1, <2>6, <2>7, <2>8, <2>9
  <2> QED
    BY <1>1, <2>3, <2>6, <2>10 DEF Types, kvars
<1>4. ASSUME NEW d \in 0..2, Consume(d), len_current[d] \in Int
      PROVE  /\ lvl' \in Levels /\ offset' \in [Levels -> Int] /\ len' \in [Levels -> Int]
             /\ index' \in [Levels -> Int]
  <2>1. d \in Levels /\ d + 1 \in Levels /\ len[d] - len_current[d] \in Int /\ index[d + 1] + 1 \in Int
    BY <1>1, <1>4 DEF Levels
  <2> QED
    BY <1>1, <1>4, <2>1 DEF Consume
<1>5. ASSUME NEW d \in 1..2, Ascend(d)
      PROVE  Types'
  <2>1. /\ Consume(d) /\ len_current[d] \in Int /\ d \in 0..2
        /\ UNCHANGED <<pc, todo, call, dir, len_current, chunk, i, tab, free, kvars, want>>
    BY <1>1, <1>5 DEF Ascend, Levels
  <2>2. /\ lvl' \in Levels /\ offset' \in [Levels -> Int] /\ len' \in [Levels -> Int]
        /\ index' \in [Levels -> Int]
    BY <1>4, <2>1
  <2> QED
    BY <2>1, <2>2 DEF Types, kvars
<1>6. ASSUME ChunkDone
      PROVE  Types'
  <2>1. UNCHANGED <<todo, call, dir, len_current, chunk, i, tab, free, kvars, want>>
    BY <1>6 DEF ChunkDone
  <2>2. /\ lvl' \in Levels /\ offset' \in [Levels -> Int] /\ len' \in [Levels -> Int]
        /\ index' \in [Levels -> Int]
    <3>1. CASE chunk.depth = 0
      <4>1. Consume(0) /\ len_current[0] \in Int /\ 0 \in 0..2
        BY <1>1, <1>6, <3>1 DEF ChunkDone, Levels
      <4> QED
        BY <1>4, <4>1
    <3>2. CASE chunk.depth # 0
      <4>1. lvl' = chunk.depth /\ index' = [index EXCEPT ![chunk.depth] = 0]
            /\ UNCHANGED <<len, offset>>
        BY <1>6, <3>2 DEF ChunkDone
      <4> QED
        BY <1>1, <4>1
    <3> QED
      BY <3>1, <3>2
  <2> QED
    BY <2>1, <2>2 DEF Types, kvars
<1> QED
  BY <1>3, <1>5, <1>6

\* The steps of the iterator.
LEMMA IteratorStep ==
  ASSUME TablesInv, InFull, UNCHANGED pvars,
         (\E d \in 1..3 : Descend(d)) \/ (\E d \in 1..2 : Ascend(d)) \/ ChunkDone
  PROVE  TablesInv'
<1>1. PICK L : Trees(L)
  BY DEF TablesInv
<1>2. Types /\ Halves /\ Roots /\ Place /\ Translates /\ Early
  BY DEF TablesInv
<1>3. Tree(tab, L, procs)
  BY <1>1, <1>2, StateTree
<1>4. Place' /\ pc' \in {"iter", "chunk"} /\ Cursor' = Cursor
  BY <1>2, DescendPlace, AscendPlace, ChunkDonePlace
<1>5. pc \in {"iter", "chunk"} /\ UNCHANGED <<todo, call, tab, free, kvars, want>>
  BY DEF Descend, Ascend, ChunkDone
<1>6. UNCHANGED <<cr3, load, loaded>> /\ UNCHANGED <<nx, procs>>
  BY <1>5 DEF pvars, kvars
<1>7. Types'
  BY <1>2, <1>3, <1>4, IteratorTypes
<1>8. Trees(L)'
  BY <1>1, <1>5, <1>6, SameTrees
<1>9. Halves' /\ Roots' /\ Early'
  BY <1>2, <1>4, <1>5, <1>6, SameRest DEF Walking
<1>10. Translates'
  <2>1. Pending' = Pending
    BY <1>4, <1>5 DEF Pending, PagesOf
  <2> QED
    BY <1>2, <1>4, <1>5, <1>6, <2>1, SameTranslation
<1> QED
  BY <1>4, <1>7, <1>8, <1>9, <1>10, Zenon DEF TablesInv

\* The return of a call.
LEMMA ReturnStep ==
  ASSUME TablesInv, Returns
  PROVE  TablesInv'
<1>1. PICK L : Trees(L)
  BY DEF TablesInv
<1>2. Types /\ Halves /\ Roots /\ Place /\ Translates /\ Early /\ Return
  BY DEF TablesInv, Returns
<1>3. Place' /\ pc' = "idle" /\ Pending = {} /\ Pending' = {}
  BY <1>2, ReturnPlace
<1>4. pc = "iter" /\ UNCHANGED <<todo, tab, free, kvars, want>> /\ cr3' = Root
      /\ UNCHANGED <<load, loaded>>
  BY <1>2 DEF Return, Returns
<1>5. UNCHANGED <<nx, procs>>
  BY <1>4 DEF kvars
<1>6. Types'
  <2>1. /\ call' = NoCallYet /\ chunk' = NoChunk /\ i' = 0 /\ lvl' = 3
        /\ dir' = [l \in Levels |-> Root]
        /\ offset' = Fresh /\ len' = Fresh /\ len_current' = Fresh /\ index' = Fresh
    BY <1>2 DEF Return
  <2>2. Root \in Nat /\ 3 \in Levels /\ 0 \in Levels
    BY PoolAssumption DEF Levels
  <2>3. NoCallYet \in Calls
    BY DEF NoCallYet, Calls, Prots
  <2>4. Fresh \in [Levels -> Int]
    BY DEF Fresh
  <2>5. NoChunk \in [depth : Levels, table : Nat, first : Int, length : Int]
    BY <2>2 DEF NoChunk
  <2> QED
    BY <1>2, <1>3, <1>4, <2>1, <2>2, <2>3, <2>4, <2>5 DEF Types, kvars
<1>7. Trees(L)'
  BY <1>1, <1>4, <1>5, SameTrees
<1>8. Halves' /\ Roots' /\ Early'
  BY <1>2, <1>3, <1>4, <1>5, SameRest DEF Walking
<1>9. Translates'
  <2>1. \A v \in Pages : Kept(v) => Kept(v)'
    BY <1>4 DEF Kept, Backed
  <2>2. \A v \in Pages : Kept(v)
    BY <1>2, <1>3, <1>4 DEF Translates
  <2> QED
    BY <1>3, <2>1, <2>2 DEF Translates
<1> QED
  BY <1>3, <1>6, <1>7, <1>8, <1>9, Zenon DEF TablesInv
----------------------------------------------------------------------------
(* Steps of the callers above the last level *)

\* A caller's turn keeps the types.
LEMMA LoopTypes ==
  ASSUME Types, Advance, call' \in Calls, free' \subseteq Pool, InChunk
  PROVE  Types'
<1>1. i' = i + 1 /\ i \in Nat /\ UNCHANGED <<pc, todo, itervars, chunk, kvars, want>>
  BY DEF Types, Advance
<1> QED
  BY <1>1 DEF Types, itervars, kvars

\* Nothing is said of the tables once frames have run out.
LEMMA WildStep ==
  ASSUME TablesInv, pc' = "wild", UNCHANGED <<todo, call, itervars, chunk, i, tab, free, kvars, want>>,
         UNCHANGED <<cr3, load, loaded>>
  PROVE  TablesInv'
<1>1. Types /\ Halves /\ Roots /\ Early /\ \E L : Trees(L)
  BY Zenon DEF TablesInv
<1>2. /\ UNCHANGED <<nx, procs, io_size>> /\ UNCHANGED <<todo, call, chunk, i, tab, free, want>>
      /\ UNCHANGED <<dir, offset, len, len_current, index, lvl>>
  BY DEF kvars, itervars
<1>3. Types'
  BY <1>1, <1>2 DEF Types
<1>4. (\E L : Trees(L))'
  BY <1>1, <1>2, SameTrees, Zenon
<1>5. Halves' /\ Roots' /\ Early'
  BY <1>1, <1>2 DEF Halves, KernelHalfShared, Roots, Early
<1>6. Place' /\ Translates'
  BY DEF Place, Walking, Translates
<1> QED
  BY <1>3, <1>4, <1>5, <1>6, Zenon DEF TablesInv

\* Every walk is refused a table only when frames run out.
LEMMA OutOfFramesStep ==
  ASSUME TablesInv, OutOfFrames, UNCHANGED pvars
  PROVE  TablesInv'
<1>1. PICK L : Trees(L)
  BY DEF TablesInv
<1>2. Types /\ Halves /\ Roots /\ Place /\ Early
  BY DEF TablesInv
<1>3. pc = "chunk" /\ pc' = "wild"
      /\ UNCHANGED <<todo, call, itervars, chunk, i, tab, free, kvars, want>>
  BY DEF OutOfFrames, InChunk
<1>4. UNCHANGED <<cr3, load, loaded>> /\ UNCHANGED <<nx, procs, io_size>>
      /\ UNCHANGED <<dir, offset, len, len_current, index, lvl>>
  BY <1>3 DEF pvars, kvars, itervars
<1>5. Types'
  BY <1>2, <1>3, <1>4 DEF Types
<1>6. Trees(L)'
  BY <1>1, <1>3, <1>4, SameTrees
<1>7. Halves' /\ Roots' /\ Early'
  BY <1>2, <1>3, <1>4, SameRest DEF Walking
<1>8. Place' /\ Translates'
  BY <1>3 DEF Place, Walking, Translates
<1> QED
  BY <1>5, <1>6, <1>7, <1>8, Zenon DEF TablesInv

\* A free frame becomes an empty table under entry z of the table c.
Adds(c, z, e) ==
  /\ c \in DOMAIN tab \ procs /\ z \in Index /\ ~tab[c][z].present
  /\ e \in EntryType /\ e.present /\ e.frame \in free
  /\ tab' = [x \in DOMAIN tab \cup {e.frame} |->
               IF x = e.frame THEN ZeroTable
               ELSE IF x = c THEN [tab[x] EXCEPT ![z] = e] ELSE tab[x]]
  /\ free' = free \ {e.frame} /\ procs' = procs

\* what it leaves in the tables
Added(c, z, e) ==
  /\ DOMAIN tab' = DOMAIN tab \cup {e.frame} /\ tab' \in [DOMAIN tab' -> TableType]
  /\ e.frame \in Pool /\ e.frame \notin DOMAIN tab
  /\ \A x \in Index : tab'[e.frame][x] = Absent
  /\ \A t \in DOMAIN tab, x \in Index : tab'[t][x] = IF t = c /\ x = z THEN e ELSE tab[t][x]
  /\ \A t \in DOMAIN tab, x \in Index : tab[t][x].present => tab[t][x].frame # e.frame

\* One entry changes, and the new table is empty.
LEMMA AddedEntries ==
  ASSUME Types, NEW L, Trees(L), NEW c, NEW z, NEW e, Adds(c, z, e)
  PROVE  Added(c, z, e)
<1>1. /\ c \in DOMAIN tab /\ z \in Index /\ e \in EntryType /\ e.frame \in free
      /\ tab' = [x \in DOMAIN tab \cup {e.frame} |->
                   IF x = e.frame THEN ZeroTable
                   ELSE IF x = c THEN [tab[x] EXCEPT ![z] = e] ELSE tab[x]]
  BY DEF Adds
<1>2. /\ e.frame \notin DOMAIN tab /\ e.frame \in Pool
      /\ \A t \in DOMAIN tab, x \in Index : tab[t][x].present => tab[t][x].frame # e.frame
  BY <1>1 DEF Trees, Types
<1>3. \A t \in DOMAIN tab : tab[t] \in TableType
  BY DEF Trees, Leveled
<1>4. /\ [tab[c] EXCEPT ![z] = e] \in TableType
      /\ \A x \in Index : [tab[c] EXCEPT ![z] = e][x] = IF x = z THEN e ELSE tab[c][x]
  BY <1>1, <1>3, NewEntry
<1>5. /\ DOMAIN tab' = DOMAIN tab \cup {e.frame} /\ tab' = [x \in DOMAIN tab' |-> tab'[x]]
      /\ tab'[e.frame] = ZeroTable
      /\ \A t \in DOMAIN tab : tab'[t] = IF t = c THEN [tab[t] EXCEPT ![z] = e] ELSE tab[t]
  BY <1>1, <1>2
<1>6. \A t \in DOMAIN tab' : tab'[t] \in TableType
  BY <1>3, <1>4, <1>5, ZeroEntries
<1>7. \A t \in DOMAIN tab, x \in Index : tab'[t][x] = IF t = c /\ x = z THEN e ELSE tab[t][x]
  BY <1>4, <1>5
<1> QED
  BY <1>2, <1>5, <1>6, <1>7, ZeroEntries DEF Added

\* The tables are a tree still,
LEMMA AddedTree ==
  ASSUME Types, NEW L, Trees(L), NEW c, NEW z, NEW e, Adds(c, z, e), L[c] > 0
  PROVE  (\E M : Trees(M))'
<1>1. Tree(tab, L, procs)
  BY StateTree
<1>2. Added(c, z, e)
  BY AddedEntries
<1>3. /\ c \in DOMAIN tab \ procs /\ z \in Index /\ e \in EntryType
      /\ e.present /\ e.frame \in free /\ free' = free \ {e.frame} /\ procs' = procs
  BY DEF Adds
<1>4. PICK f \in Pool : f = e.frame /\ f \notin DOMAIN tab
  BY <1>2 DEF Added
<1>5. /\ DOMAIN tab' = DOMAIN tab \cup {f} /\ tab' \in [DOMAIN tab' -> TableType]
      /\ \A x \in Index : tab'[f][x] = Absent
      /\ \A t \in DOMAIN tab, x \in Index : tab'[t][x] = IF t = c /\ x = z THEN e ELSE tab[t][x]
      /\ \A t \in DOMAIN tab, x \in Index : tab[t][x].present => tab[t][x].frame # f
  BY <1>2, <1>4 DEF Added
<1>6. PICK M : M = Level1(L, c, f)
  OBVIOUS
<1>7. Tree(tab', M, procs)
  <2>1. f \in Pool /\ f = e.frame /\ f \notin DOMAIN tab /\ L[c] > 0
    BY <1>4
  <2>2. c \in DOMAIN tab \ procs /\ z \in Index /\ e \in EntryType
    BY <1>3
  <2>3. \A t \in DOMAIN tab, x \in Index : tab[t][x].present => tab[t][x].frame # f
    BY <1>5
  <2>4. /\ DOMAIN tab' = DOMAIN tab \cup {f} /\ tab' \in [DOMAIN tab' -> TableType]
        /\ \A x \in Index : tab'[f][x] = Absent
        /\ \A t \in DOMAIN tab, x \in Index :
             tab'[t][x] = IF t = c /\ x = z THEN e ELSE tab[t][x]
    BY <1>5
  <2>5. Tree(tab', Level1(L, c, f), procs)
    BY <1>1, <2>1, <2>2, <2>3, <2>4, NewTree
  <2> QED
    BY <1>6, <2>5
<1>8. /\ L \in [DOMAIN tab -> Levels] /\ M[f] = L[c] - 1
      /\ \A t \in DOMAIN tab : M[t] = L[t]
  BY <1>1, <1>4, <1>6 DEF Level1, Tree, Leveled
<1>9. ASSUME NEW t \in DOMAIN tab', NEW x \in Index, tab'[t][x].present
      PROVE  /\ tab'[t][x].frame \notin free'
             /\ M[t] = 0 => tab'[t][x].frame \notin Pool \cap DOMAIN tab'
  <2>1. t \in DOMAIN tab
    BY <1>5, <1>9, ZeroEntries
  <2>2. CASE t = c /\ x = z
    BY <1>3, <1>4, <1>5, <1>8, <2>1, <2>2
  <2>3. CASE ~(t = c /\ x = z)
    BY <1>3, <1>4, <1>5, <1>8, <1>9, <2>1, <2>3 DEF Trees
  <2> QED
    BY <2>2, <2>3
<1>10. free' \cap DOMAIN tab' = {}
  BY <1>3, <1>4, <1>5 DEF Trees
<1>11. Trees(M)'
  BY <1>3, <1>7, <1>9, <1>10 DEF Trees, Tree
<1> QED
  BY <1>11

\* and translate what they did.
LEMMA AddedLeaf ==
  ASSUME Types, NEW L, Trees(L), NEW c, NEW z, NEW e, Adds(c, z, e), L[c] > 0, NEW w \in Pages
  PROVE  Leaf(tab', w) = Leaf(tab, w)
<1>1. Tree(tab, L, procs)
  BY StateTree
<1>2. Added(c, z, e)
  BY AddedEntries
<1>3. c \in DOMAIN tab \ procs /\ z \in Index /\ ~tab[c][z].present
  BY DEF Adds
<1>4. PICK f : f = e.frame /\ f \notin DOMAIN tab
  BY <1>2 DEF Added
<1>5. w \in Nat
  BY TopIndex
<1>6. \A U : (/\ \A x \in Index : U[f][x] = Absent
              /\ \A t \in DOMAIN tab, x \in Index :
                   U[t][x] = IF t = c /\ x = z THEN e ELSE tab[t][x])
        => Leaf(U, w) = Leaf(tab, w)
  BY <1>1, <1>3, <1>4, <1>5, NewLeaf
<1> QED
  BY <1>2, <1>4, <1>6 DEF Added

\* The table a call finds missing: kmapanon's and kmap's call adds it.
LEMMA MakesTable ==
  ASSUME TablesInv, InFull, MakeTable, NEW L, Trees(L)
  PROVE  /\ Place' /\ pc = "chunk" /\ pc' = "chunk" /\ Cursor' = Cursor /\ Pending' = Pending
         /\ \A v \in Pages : Leaf(tab', v) = Leaf(tab, v)
         /\ \/ UNCHANGED <<tab, free>>
            \/ \E c, z, e : Adds(c, z, e) /\ L[c] > 0 /\ c = chunk.table /\ z = Here
<1>1. Types /\ Place
  BY DEF TablesInv
<1>2. Tree(tab, L, procs)
  BY <1>1, StateTree
<1>3. /\ InChunk /\ pc = "chunk" /\ chunk.depth # 0 /\ Advance /\ UNCHANGED <<call, procs, pc>>
      /\ i < chunk.length
  <2>1. InChunk /\ chunk.depth > 0 /\ Advance /\ UNCHANGED call
    BY DEF MakeTable
  <2> QED
    BY <2>1 DEF InChunk, Advance, kvars, Types
<1>4. PICK c \in DOMAIN tab \ procs, z \in Index : c = chunk.table /\ z = Here /\ L[c] > 0
  <2>1. chunk.table \in DOMAIN tab \ procs /\ Here \in Index /\ L[chunk.table] = chunk.depth
        /\ chunk.depth \in 0..3
    BY <1>1, <1>2, <1>3, AtEntry
  <2>2. L[chunk.table] > 0
    BY <1>3, <2>1
  <2> QED
    BY <2>1, <2>2
<1>5. ASSUME \A t \in DOMAIN tab, x \in Index :
               (L[t] > 0 /\ tab[t][x].present) => tab'[t][x] = tab[t][x],
             tab'[c][z].present
      PROVE  Place' /\ pc' = "chunk" /\ Cursor' = Cursor /\ Pending' = Pending
  <2>1. Place' /\ pc' = "chunk" /\ Cursor' = Cursor
    BY <1>1, <1>2, <1>3, <1>4, <1>5, UpperPlace
  <2>2. Pending' = Pending
    BY <1>3, <2>1 DEF Pending, PagesOf
  <2> QED
    BY <2>1, <2>2
<1>6. CASE tab[c][z].present
  <2>1. UNCHANGED <<tab, free>>
    BY <1>4, <1>6 DEF MakeTable
  <2>2. Place' /\ pc' = "chunk" /\ Cursor' = Cursor /\ Pending' = Pending
    BY <1>5, <1>6, <2>1
  <2> QED
    BY <1>3, <2>1, <2>2
<1>7. CASE ~tab[c][z].present
  <2>1. free # {} /\ free \subseteq Nat
    BY <1>1, <1>4, <1>7, PoolAssumption DEF MakeTable, Types
  <2>2. PICK f \in free : f = Lowest(free) /\ f \in Nat
    BY <2>1, LowestIn
  <2>3. PICK e \in EntryType : e = Entry(f, {"W", "U"}) /\ e.present /\ e.frame = f
    <3>1. Entry(f, {"W", "U"}) \in EntryType
      BY <2>2 DEF Entry, EntryType, Flags
    <3> QED
      BY <3>1 DEF Entry
  <2>4. /\ tab' = [x \in DOMAIN tab \cup {f} |->
                     IF x = f THEN ZeroTable
                     ELSE IF x = c THEN [tab[x] EXCEPT ![z] = e] ELSE tab[x]]
        /\ free' = free \ {f}
    BY <1>4, <1>7, <2>2, <2>3 DEF MakeTable
  <2>5. Adds(c, z, e)
    BY <1>3, <1>4, <1>7, <2>2, <2>3, <2>4 DEF Adds
  <2>6. Added(c, z, e)
    BY <1>1, <2>5, AddedEntries
  <2>7. \A v \in Pages : Leaf(tab', v) = Leaf(tab, v)
    BY <1>1, <1>4, <2>5, AddedLeaf
  <2>8. Place' /\ pc' = "chunk" /\ Cursor' = Cursor /\ Pending' = Pending
    BY <1>4, <1>5, <1>7, <2>3, <2>6 DEF Added
  <2>9. \E c1, z1, e1 : Adds(c1, z1, e1) /\ L[c1] > 0 /\ c1 = chunk.table /\ z1 = Here
    BY <1>4, <2>5
  <2> QED
    BY <1>3, <2>7, <2>8, <2>9
<1> QED
  BY <1>6, <1>7

\* kmapanon and kmap make the tables that are missing on the way.
LEMMA MakeTableStep ==
  ASSUME TablesInv, InFull, MakeTable, UNCHANGED pvars
  PROVE  TablesInv'
<1>1. PICK L : Trees(L)
  BY DEF TablesInv
<1>2. Types /\ Halves /\ Roots /\ Place /\ Translates /\ Early
  BY DEF TablesInv
<1>3. /\ Place' /\ pc = "chunk" /\ pc' = "chunk" /\ Cursor' = Cursor /\ Pending' = Pending
      /\ \A v \in Pages : Leaf(tab', v) = Leaf(tab, v)
      /\ \/ UNCHANGED <<tab, free>>
         \/ \E c, z, e : Adds(c, z, e) /\ L[c] > 0 /\ c = chunk.table /\ z = Here
  BY <1>1, MakesTable
<1>4. InChunk /\ Advance /\ UNCHANGED call
  BY DEF MakeTable
<1>5. /\ UNCHANGED <<pc, todo, chunk, want>> /\ UNCHANGED <<nx, procs>>
      /\ UNCHANGED <<cr3, load, loaded>>
  BY <1>4 DEF Advance, kvars, pvars
<1>6. free' \subseteq Pool
  BY <1>2, <1>3 DEF Types, Adds
<1>7. Types'
  <2>1. call' \in Calls
    BY <1>2, <1>4 DEF Types
  <2> QED
    BY <1>2, <1>4, <1>6, <2>1, LoopTypes
<1>8. Translates'
  BY <1>2, <1>3, <1>4, <1>5, SameTranslation
<1>9. CASE UNCHANGED <<tab, free>>
  <2>1. Trees(L)'
    BY <1>1, <1>5, <1>9, SameTrees
  <2>2. Halves' /\ Roots' /\ Early'
    BY <1>2, <1>3, <1>5, <1>9, SameRest DEF Walking
  <2> QED
    BY <1>3, <1>7, <1>8, <2>1, <2>2, Zenon DEF TablesInv
<1>10. ASSUME NEW c, NEW z, NEW e, Adds(c, z, e), L[c] > 0
       PROVE  TablesInv'
  <2>1. (\E M : Trees(M))'
    BY <1>1, <1>2, <1>10, AddedTree
  <2>2. Added(c, z, e)
    BY <1>1, <1>2, <1>10, AddedEntries
  <2>3. Halves'
    <3>1. \A x \in Kernel : tab[Root][x].present
      BY <1>2, <1>3 DEF Halves
    <3>2. Kernel \subseteq Index
      BY Sizes, TableAssumption DEF Kernel, Index
    <3>3. Root \in DOMAIN tab /\ procs \subseteq DOMAIN tab
      BY <1>1 DEF Trees, Leveled
    <3>4. c \in DOMAIN tab \ procs /\ ~tab[c][z].present
      BY <1>10 DEF Adds
    <3>5. \A x \in Kernel : tab'[Root][x] = tab[Root][x]
      BY <2>2, <3>1, <3>2, <3>3, <3>4 DEF Added
    <3>6. \A t \in procs : \A x \in Kernel : tab'[t][x] = tab[t][x]
      BY <2>2, <3>2, <3>3, <3>4 DEF Added
    <3> QED
      BY <1>2, <1>3, <1>5, <3>1, <3>5, <3>6 DEF Halves, KernelHalfShared
  <2>4. Roots' /\ Early'
    BY <1>2, <1>5 DEF Roots, Early
  <2> QED
    BY <1>3, <1>7, <1>8, <2>1, <2>3, <2>4, Zenon DEF TablesInv
<1> QED
  BY <1>3, <1>9, <1>10

\* kunmapanon and kmprotect find the tables of every page they are asked about.
LEMMA PassTable ==
  ASSUME TablesInv, InFull, InChunk, chunk.depth # 0, call.op \in {"unmap", "protect"},
         Advance, UNCHANGED <<call, free, tab>>, UNCHANGED pvars
  PROVE  TablesInv'
<1>1. PICK L : Trees(L)
  BY DEF TablesInv
<1>2. Types /\ Halves /\ Roots /\ Place /\ Translates /\ Early
  BY DEF TablesInv
<1>3. Tree(tab, L, procs)
  BY <1>1, <1>2, StateTree
<1>4. pc = "chunk" /\ i < chunk.length
  BY DEF InChunk
<1>5. PICK v \in Nat, n \in Nat \ {0}, m \in Nat \ {0} :
        /\ v = call.v /\ n = call.n /\ m = Ceil(n, F) /\ v \in Pages /\ v \in PagesOf(call)
        /\ \A w \in PagesOf(call) : w \in Pages /\ w \in Nat
  BY <1>2, <1>4, CallFits DEF Walking
<1>6. /\ chunk.depth = 3 => Walk3 /\ chunk.table = Root /\ i = 0 /\ Here = Offset0(call.v, 3)
      /\ chunk.depth = 2 => /\ Walk2 /\ Down3 /\ chunk.table = Entry3(tab, call.v).frame
                            /\ i = 0 /\ Here = Offset0(call.v, 2)
      /\ chunk.depth = 1 => /\ Walk1 /\ Down2 /\ chunk.table = Entry2(tab, call.v).frame
                            /\ i \in 0..(len[1] - 1) /\ Here = Offset0(call.v, 1) + i
      /\ chunk.depth \in 0..3
  BY <1>2, <1>3, <1>4, AtEntry
<1>7. \A w \in PagesOf(call) : Reached(tab, w)
  <2>1. \A w \in PagesOf(call) : w \in Pending
    <3>1. Cursor = v
      <4>1. Fresh0
        BY <1>4, <1>6 DEF Walk3, Walk2, Walk1, Fresh2, Fresh1
      <4> QED
        BY <1>4, <1>5, <4>1 DEF Cursor, Ahead, Fresh0
    <3> QED
      BY <1>5, <3>1 DEF Pending, PagesOf
  <2>2. \A w \in PagesOf(call) : Leaf(tab, w).present
    BY <1>2, <1>4, <1>5, <2>1 DEF Translates, Due
  <2> QED
    BY <2>2, ZeroEntries DEF Leaf
<1>8. tab[chunk.table][Here].present
  <2>1. CASE chunk.depth = 3
    BY <1>5, <1>6, <1>7, <2>1 DEF Reached, Entry3
  <2>2. CASE chunk.depth = 2
    BY <1>5, <1>6, <1>7, <2>2 DEF Reached, Entry2
  <2>3. CASE chunk.depth = 1
    <3>1. i \in Nat /\ i < Ceil(call.n, F)
      BY <1>5, <1>6, <2>3 DEF Down2
    <3>2. PICK w \in PagesOf(call) :
            /\ Offset0(w, 3) = Offset0(call.v, 3)
            /\ Offset0(w, 2) = Offset0(call.v, 2) /\ Offset0(w, 1) = Offset0(call.v, 1) + i
      BY <1>2, <1>4, <3>1, TurnPage DEF Walking
    <3>3. Entry1(tab, w) = tab[Entry2(tab, call.v).frame][Offset0(call.v, 1) + i]
      BY <3>2 DEF Entry1, Entry2, Entry3
    <3> QED
      BY <1>6, <1>7, <2>3, <3>2, <3>3 DEF Reached
  <2> QED
    BY <1>6, <2>1, <2>2, <2>3
<1>9. Place' /\ pc' = "chunk" /\ Cursor' = Cursor
  BY <1>2, <1>3, <1>8, UpperPlace
<1>10. Types'
  <2>1. call' \in Calls /\ free' \subseteq Pool
    BY <1>2 DEF Types
  <2> QED
    BY <1>2, <2>1, LoopTypes
<1>11. UNCHANGED <<todo, want>> /\ UNCHANGED <<nx, procs>> /\ UNCHANGED <<cr3, load, loaded>>
  BY DEF Advance, kvars, pvars
<1>12. Trees(L)'
  BY <1>1, <1>11, SameTrees
<1>13. Halves' /\ Roots' /\ Early'
  BY <1>2, <1>4, <1>9, <1>11, SameRest DEF Walking
<1>14. Translates'
  <2>1. Pending' = Pending
    BY <1>9 DEF Pending, PagesOf
  <2> QED
    BY <1>2, <1>4, <1>9, <1>11, <2>1, SameTranslation
<1> QED
  BY <1>9, <1>10, <1>12, <1>13, <1>14, Zenon DEF TablesInv
----------------------------------------------------------------------------
(* Steps of the callers at the last level *)

\* The entry e of the page the call is at is written in its page table: that
\* page's translation changes and no other, and the call is done with it.
PageWritten(L, e) ==
  \E p \in Pages, c \in DOMAIN tab \ procs, z \in Index :
      /\ p = Cursor /\ c = chunk.table /\ z = Here /\ L[c] = 0
      /\ Reached(tab, p) /\ Leaf(tab, p) = tab[c][z]
      /\ DOMAIN tab' = DOMAIN tab /\ Leveled(tab', L, {Root} \cup procs)
      /\ \A t \in DOMAIN tab, x \in Index :
           tab'[t][x] = IF t = c /\ x = z THEN e ELSE tab[t][x]
      /\ \A w \in Pages : Leaf(tab', w) = IF w = p THEN e ELSE Leaf(tab, w)
      /\ Place' /\ pc' = "chunk" /\ Cursor' = Cursor + 1
      /\ p \in Pending /\ p \notin Pending'
      /\ \A v \in Pages : v # p => (v \in Pending <=> v \in Pending')

\* A turn of a caller's loop over a page table writes one page's entry.
LEMMA PageWrite ==
  ASSUME Types, Place, InFull, InChunk, chunk.depth = 0, Advance, NEW L, Tree(tab, L, procs),
         NEW e \in EntryType, SetEntry(e),
         call'.v = call.v, call'.n = call.n, call'.op = call.op
  PROVE  PageWritten(L, e)
<1>2. Tree(tab, L, procs)
  OBVIOUS
<1>3. pc = "chunk" /\ i < chunk.length
  BY DEF InChunk
<1>4. PICK p \in Pages :
        /\ p = Cursor /\ p \in Nat /\ p \in PagesOf(call) /\ Reached(tab, p)
        /\ Entry1(tab, p).frame = chunk.table /\ p % F = Here
        /\ \A u \in PagesOf(call) : u \in Nat /\ (u \in Pending <=> u >= p)
  BY <1>2, <1>3, AtPage
<1>5. PICK c \in DOMAIN tab \ procs, z \in Index : c = chunk.table /\ z = Here /\ L[c] = 0
  BY <1>2, <1>3, AtEntry
<1>6. /\ DOMAIN tab' = DOMAIN tab /\ tab' \in [DOMAIN tab' -> TableType]
      /\ \A t \in DOMAIN tab, x \in Index :
           tab'[t][x] = IF t = c /\ x = z THEN e ELSE tab[t][x]
  <2>1. tab' = [tab EXCEPT ![c][z] = e]
    BY <1>5 DEF SetEntry
  <2>2. tab \in [DOMAIN tab -> TableType] /\ \A t \in DOMAIN tab : tab[t] \in TableType
    BY <1>2 DEF Tree, Leveled
  <2>3. /\ [tab[c] EXCEPT ![z] = e] \in TableType
        /\ \A x \in Index : [tab[c] EXCEPT ![z] = e][x] = IF x = z THEN e ELSE tab[c][x]
    BY <1>5, <2>2, NewEntry
  <2>4. DOMAIN tab' = DOMAIN tab /\ tab' \in [DOMAIN tab -> TableType]
        /\ \A t \in DOMAIN tab : tab'[t] = IF t = c THEN [tab[c] EXCEPT ![z] = e] ELSE tab[t]
    BY <2>1, <2>2, <2>3
  <2> QED
    BY <2>3, <2>4
<1>7. /\ Leveled(tab', L, {Root} \cup procs)
      /\ \A w \in Pages : Leaf(tab', w) = IF w = p THEN e ELSE Leaf(tab, w)
  <2>1. c = Entry1(tab, p).frame /\ z = p % F /\ p \in Pages /\ Reached(tab, p)
    BY <1>4, <1>5
  <2>2. \A t \in DOMAIN tab, x \in Index :
          ~(t = Entry1(tab, p).frame /\ x = p % F) => tab'[t][x] = tab[t][x]
    BY <1>6, <2>1
  <2>3. Leveled(tab', L, {Root} \cup procs)
    BY <1>2, <1>6, <2>1, <2>2, WriteTree
  <2>4. \A w \in Pages :
          Leaf(tab', w) = IF w = p THEN tab'[Entry1(tab, p).frame][p % F] ELSE Leaf(tab, w)
    BY <1>2, <1>6, <2>1, <2>2, WriteLeaf
  <2>5. tab'[c][z] = e
    BY <1>5, <1>6
  <2> QED
    BY <2>1, <2>3, <2>4, <2>5
<1>12. Place' /\ pc' = "chunk" /\ Cursor' = Cursor + 1
  <2>1. \A t \in DOMAIN tab, x \in Index : L[t] > 0 => tab'[t][x] = tab[t][x]
    BY <1>5, <1>6
  <2> QED
    BY <1>2, <2>1, LowerPlace
<1>15. /\ p \in Pending /\ p \notin Pending'
       /\ \A v \in Pages : v # p => (v \in Pending <=> v \in Pending')
  <2>1. PagesOf(call') = PagesOf(call)
    BY DEF PagesOf
  <2>2. \A u \in PagesOf(call) : u \in Pending' <=> u >= p + 1
    BY <1>4, <1>12, <2>1 DEF Pending
  <2>3. \A u : u \in Pending \/ u \in Pending' => u \in PagesOf(call)
    BY <2>1 DEF Pending
  <2>4. p \in Pending
    BY <1>4
  <2>5. p \notin Pending'
    BY <1>4, <2>2
  <2>6. ASSUME NEW v \in Pages, v # p
        PROVE  v \in Pending <=> v \in Pending'
    <3>1. CASE v \in PagesOf(call)
      BY <1>4, <2>2, <2>6, <3>1
    <3>2. CASE v \notin PagesOf(call)
      BY <2>3, <3>2
    <3> QED
      BY <3>1, <3>2
  <2> QED
    BY <2>4, <2>5, <2>6
<1>16. Leaf(tab, p) = tab[c][z]
  BY <1>4, <1>5 DEF Leaf
<1> QED
  BY <1>4, <1>5, <1>6, <1>7, <1>12, <1>15, <1>16 DEF PageWritten

\* What every write of one page's entry keeps, and what it changes.
LEMMA WriteStep ==
  ASSUME TablesInv, InFull, InChunk, chunk.depth = 0, Advance, NEW L, Trees(L),
         NEW e \in EntryType, SetEntry(e),
         call' \in Calls, call'.v = call.v, call'.n = call.n, call'.op = call.op,
         free' \subseteq Pool, free' \cap DOMAIN tab = {},
         e.present => e.frame \notin free' /\ e.frame \notin Pool \cap DOMAIN tab,
         e.present /\ e.frame \in Pool => \A u \in DOMAIN tab \ procs, y \in Index :
           (tab[u][y].present /\ tab[u][y].frame = e.frame) => u = chunk.table /\ y = Here,
         \A t \in DOMAIN tab, x \in Index :
           (tab[t][x].present /\ ~(t = chunk.table /\ x = Here)) => tab[t][x].frame \notin free',
         UNCHANGED <<cr3, load, loaded>>
  PROVE  /\ Types' /\ Place' /\ Trees(L)' /\ Halves' /\ Roots' /\ Early'
         /\ pc' = "chunk" /\ Cursor' = Cursor + 1 /\ UNCHANGED <<want, nx>>
         /\ Cursor \in Pages /\ Cursor \in Pending /\ Cursor \notin Pending'
         /\ \A v \in Pages : v # Cursor => (v \in Pending <=> v \in Pending')
         /\ Leaf(tab, Cursor) = tab[chunk.table][Here]
         /\ Reached(tab, Cursor) /\ L[chunk.table] = 0
         /\ chunk.table \in DOMAIN tab \ procs /\ Here \in Index
         /\ \A v \in Pages : Leaf(tab', v) = IF v = Cursor THEN e ELSE Leaf(tab, v)
<1>1. Types /\ Halves /\ Roots /\ Place /\ Early
  BY DEF TablesInv
<1>2. Tree(tab, L, procs)
  BY <1>1, StateTree
<1>3. pc = "chunk"
  BY DEF InChunk
<1>4. PICK p \in Pages, c \in DOMAIN tab \ procs, z \in Index :
           /\ p = Cursor /\ c = chunk.table /\ z = Here /\ L[c] = 0
           /\ Reached(tab, p) /\ Leaf(tab, p) = tab[c][z]
           /\ DOMAIN tab' = DOMAIN tab /\ Leveled(tab', L, {Root} \cup procs)
           /\ \A t \in DOMAIN tab, x \in Index :
                tab'[t][x] = IF t = c /\ x = z THEN e ELSE tab[t][x]
           /\ \A w \in Pages : Leaf(tab', w) = IF w = p THEN e ELSE Leaf(tab, w)
           /\ Place' /\ pc' = "chunk" /\ Cursor' = Cursor + 1
           /\ p \in Pending /\ p \notin Pending'
           /\ \A v \in Pages : v # p => (v \in Pending <=> v \in Pending')
  <2>1. PageWritten(L, e)
    BY <1>1, <1>2, PageWrite
  <2> QED
    BY <2>1, Zenon DEF PageWritten
<1>5. /\ c \in DOMAIN tab \ procs /\ z \in Index /\ c = chunk.table /\ z = Here /\ L[c] = 0
  BY <1>4
<1>6. /\ DOMAIN tab' = DOMAIN tab
      /\ \A t \in DOMAIN tab, x \in Index :
           tab'[t][x] = IF t = c /\ x = z THEN e ELSE tab[t][x]
  BY <1>4
<1>8. PointedOnce(tab', L, DOMAIN tab' \ procs, Pool)
  BY <1>2, <1>5, <1>6, WriteOnce
<1>9. UNCHANGED <<pc, todo, chunk, want>> /\ UNCHANGED <<nx, procs>>
  BY DEF Advance, kvars
<1>10. Trees(L)'
  <2>1. ASSUME NEW t \in DOMAIN tab', NEW x \in Index, tab'[t][x].present
        PROVE  /\ tab'[t][x].frame \notin free'
               /\ L[t] = 0 => tab'[t][x].frame \notin Pool \cap DOMAIN tab'
    <3>1. CASE t = c /\ x = z
      BY <1>5, <1>6, <2>1, <3>1
    <3>2. CASE ~(t = c /\ x = z)
      BY <1>5, <1>6, <2>1, <3>2 DEF Trees
    <3> QED
      BY <3>1, <3>2
  <2> QED
    BY <1>4, <1>6, <1>8, <1>9, <2>1 DEF Trees
<1>11. Types'
  BY <1>1, LoopTypes
<1>13. Halves'
  <2>1. Kernel \subseteq Index
    BY Sizes, TableAssumption DEF Kernel, Index
  <2>2. Root \in DOMAIN tab /\ procs \subseteq DOMAIN tab /\ L[Root] = 3
    BY <1>2 DEF Tree, Leveled
  <2>3. \A t \in procs \cup {Root} : \A x \in Kernel : tab'[t][x] = tab[t][x]
    BY <1>5, <1>6, <2>1, <2>2
  <2> QED
    BY <1>1, <1>3, <1>9, <2>3 DEF Halves, KernelHalfShared
<1>14. Roots' /\ Early'
  BY <1>1, <1>9 DEF Roots, Early
<1> QED
  BY <1>4, <1>9, <1>10, <1>11, <1>13, <1>14, Zenon

\* After a turn at page p: p is done with, the pages after it are as due as
\* they were.
LEMMA TurnDone ==
  ASSUME Types, Translates, pc = "chunk", pc' = "chunk", NEW p \in Pages, p = Cursor,
         Cursor' = Cursor + 1, UNCHANGED <<want, nx>>, call'.op = call.op,
         call'.prot = call.prot, call.op = "io" => call'.phys = call.phys + 1,
         \A v \in Pages : v # p => (v \in Pending <=> v \in Pending'),
         \A v \in Pages : v # p => Leaf(tab', v) = Leaf(tab, v),
         p \notin Pending', Kept(p)'
  PROVE  Translates'
<1>1. p \in Int
  BY TopIndex
<1>2. ASSUME NEW v \in Pages, v # p, v \in Pending
      PROVE  Due(v)'
  <2>1. Due(v)
    BY <1>2 DEF Translates
  <2>2. Leaf(tab', v) = Leaf(tab, v) /\ page_prot_flags(call.prot)' = page_prot_flags(call.prot)
    BY <1>2 DEF page_prot_flags
  <2>3. call.op = "io" => want[v].frame = call'.phys + (v - Cursor')
    <3> SUFFICES ASSUME call.op = "io" PROVE want[v].frame = call'.phys + (v - Cursor')
      OBVIOUS
    <3>1. want[v].frame = call.phys + (v - p) /\ call.phys \in Int /\ v \in Int
      BY <1>2, <2>1, TopIndex DEF Due, Types, Calls
    <3>2. call'.phys = call.phys + 1 /\ Cursor' = p + 1
      OBVIOUS
    <3> QED
      BY <1>1, <3>1, <3>2
  <2> QED
    BY <2>1, <2>2, <2>3 DEF Due, Backed
<1>3. ASSUME NEW v \in Pages, v # p, v \notin Pending
      PROVE  Kept(v)'
  <2>1. Kept(v) /\ Leaf(tab', v) = Leaf(tab, v)
    BY <1>3 DEF Translates
  <2> QED
    BY <2>1 DEF Kept, Backed
<1> QED
  BY <1>2, <1>3 DEF Translates

\* The flags of a range are flags.
LEMMA ProtFlags ==
  ASSUME NEW prot
  PROVE  page_prot_flags(prot) \subseteq Flags
  BY DEF page_prot_flags, Flags

\* kmapanon maps a free frame.
LEMMA MapAnonStep ==
  ASSUME TablesInv, InFull, MapAnon, UNCHANGED <<cr3, load, loaded>>
  PROVE  TablesInv'
<1>1. PICK L : Trees(L)
  BY DEF TablesInv
<1>2. Types /\ Translates
  BY DEF TablesInv
<1>3. InChunk /\ call.op = "anon" /\ chunk.depth = 0 /\ free # {} /\ Advance /\ UNCHANGED call
      /\ pc = "chunk"
  BY DEF MapAnon, InChunk
<1>4. free \subseteq Nat /\ free \subseteq Pool
  BY <1>2, PoolAssumption DEF Types
<1>5. PICK f \in free : f = Lowest(free)
  BY <1>3, <1>4, LowestIn
<1>6. PICK e : e = Entry(f, page_prot_flags(call.prot))
  OBVIOUS
<1>7. e \in EntryType /\ e.present /\ e.frame = f /\ e.flags = page_prot_flags(call.prot)
  BY <1>4, <1>6, ProtFlags DEF Entry, EntryType
<1>8. SetEntry(e) /\ free' = free \ {f}
  BY <1>5, <1>6 DEF MapAnon
<1>9. /\ f \notin DOMAIN tab /\ free \cap DOMAIN tab = {}
      /\ \A t \in DOMAIN tab, x \in Index : tab[t][x].present => tab[t][x].frame \notin free
  BY <1>1 DEF Trees
<1>10. call' \in Calls /\ call'.v = call.v /\ call'.n = call.n /\ call'.op = call.op
       /\ free' \subseteq Pool
  BY <1>2, <1>3, <1>4, <1>8 DEF Types
<1>11. /\ e.present => e.frame \notin free' /\ e.frame \notin Pool \cap DOMAIN tab
       /\ free' \cap DOMAIN tab = {}
       /\ e.present /\ e.frame \in Pool => \A u \in DOMAIN tab \ procs, y \in Index :
            (tab[u][y].present /\ tab[u][y].frame = e.frame) => u = chunk.table /\ y = Here
       /\ \A t \in DOMAIN tab, x \in Index :
            (tab[t][x].present /\ ~(t = chunk.table /\ x = Here)) => tab[t][x].frame \notin free'
  BY <1>7, <1>8, <1>9
<1>12. /\ Types' /\ Place' /\ Trees(L)' /\ Halves' /\ Roots' /\ Early'
       /\ pc' = "chunk" /\ Cursor' = Cursor + 1 /\ UNCHANGED <<want, nx>>
       /\ Cursor \in Pages /\ Cursor \in Pending /\ Cursor \notin Pending'
       /\ \A v \in Pages : v # Cursor => (v \in Pending <=> v \in Pending')
       /\ \A v \in Pages : Leaf(tab', v) = IF v = Cursor THEN e ELSE Leaf(tab, v)
  BY <1>1, <1>3, <1>7, <1>8, <1>10, <1>11, WriteStep
<1>13. PICK p \in Pages : p = Cursor
  BY <1>12
<1>14. Kept(p)'
  <2>1. p \in DOMAIN want /\ want[p].flags = page_prot_flags(call.prot) /\ want[p].kind = "anon"
    BY <1>2, <1>3, <1>12, <1>13 DEF Translates, Due
  <2>2. Leaf(tab', p) = e
    BY <1>12, <1>13
  <2> QED
    BY <1>4, <1>7, <1>12, <2>1, <2>2 DEF Kept, Backed
<1>15. Translates'
  BY <1>2, <1>3, <1>10, <1>12, <1>13, <1>14, TurnDone
<1> QED
  BY <1>12, <1>15, Zenon DEF TablesInv

\* kmap maps the device's next frame.
LEMMA MapIoStep ==
  ASSUME TablesInv, InFull, MapIo, UNCHANGED pvars
  PROVE  TablesInv'
<1>1. PICK L : Trees(L)
  BY DEF TablesInv
<1>2. Types /\ Translates /\ Place
  BY DEF TablesInv
<1>3. InChunk /\ call.op = "io" /\ chunk.depth = 0 /\ Advance /\ UNCHANGED free
      /\ pc = "chunk" /\ i < chunk.length /\ UNCHANGED <<cr3, load, loaded>>
  BY DEF MapIo, InChunk, pvars
<1>4. call.phys \in Nat /\ call' = [call EXCEPT !.phys = call.phys + 1]
      /\ free \subseteq Pool
  BY <1>2 DEF MapIo, NextPhys, Types, Calls
<1>5. call' \in Calls /\ call'.v = call.v /\ call'.n = call.n /\ call'.op = call.op
      /\ call'.prot = call.prot /\ call'.phys = call.phys + 1
  BY <1>2, <1>4 DEF Types, Calls
<1>6. PICK e : e = Entry(call.phys, page_prot_flags(call.prot))
  OBVIOUS
<1>7. e \in EntryType /\ e.present /\ e.frame = call.phys /\ e.flags = page_prot_flags(call.prot)
  BY <1>4, <1>6, ProtFlags DEF Entry, EntryType
<1>8. SetEntry(e)
  BY <1>6 DEF MapIo
<1>9. PICK p \in Pages : p = Cursor /\ p \in Pending /\ p \in Nat
  <2>1. Tree(tab, L, procs)
    BY <1>1, <1>2, StateTree
  <2>2. PICK p \in Pages : p = Cursor /\ p \in Nat /\ p \in PagesOf(call)
                           /\ \A u \in PagesOf(call) : u \in Pending <=> u >= p
    BY <1>2, <1>3, <2>1, AtPage
  <2> QED
    BY <2>2
<1>10. p \in DOMAIN want /\ want[p].flags = page_prot_flags(call.prot)
       /\ want[p].kind = "io" /\ want[p].frame = call.phys
  <2>1. /\ p \in DOMAIN want /\ want[p].flags = page_prot_flags(call.prot)
        /\ want[p].kind = "io" /\ want[p].frame = call.phys + (p - Cursor)
    BY <1>2, <1>3, <1>9 DEF Translates, Due
  <2> QED
    BY <1>4, <1>9, <2>1
<1>11. call.phys \notin Pool
  BY <1>2, <1>10 DEF Types
<1>12. /\ free \cap DOMAIN tab = {}
       /\ \A t \in DOMAIN tab, x \in Index : tab[t][x].present => tab[t][x].frame \notin free
  BY <1>1 DEF Trees
<1>13. /\ e.present => e.frame \notin free' /\ e.frame \notin Pool \cap DOMAIN tab
       /\ free' \cap DOMAIN tab = {} /\ free' \subseteq Pool
       /\ e.present /\ e.frame \in Pool => \A u \in DOMAIN tab \ procs, y \in Index :
            (tab[u][y].present /\ tab[u][y].frame = e.frame) => u = chunk.table /\ y = Here
       /\ \A t \in DOMAIN tab, x \in Index :
            (tab[t][x].present /\ ~(t = chunk.table /\ x = Here)) => tab[t][x].frame \notin free'
  BY <1>3, <1>4, <1>7, <1>11, <1>12
<1>14. /\ Types' /\ Place' /\ Trees(L)' /\ Halves' /\ Roots' /\ Early'
       /\ pc' = "chunk" /\ Cursor' = Cursor + 1 /\ UNCHANGED <<want, nx>>
       /\ Cursor \notin Pending'
       /\ \A v \in Pages : v # Cursor => (v \in Pending <=> v \in Pending')
       /\ \A v \in Pages : Leaf(tab', v) = IF v = Cursor THEN e ELSE Leaf(tab, v)
  BY <1>1, <1>3, <1>5, <1>7, <1>8, <1>13, WriteStep
<1>15. Kept(p)'
  <2>1. Leaf(tab', p) = e
    BY <1>9, <1>14
  <2> QED
    BY <1>7, <1>10, <1>14, <2>1 DEF Kept, Backed
<1>16. Translates'
  BY <1>2, <1>3, <1>5, <1>9, <1>14, <1>15, TurnDone
<1> QED
  BY <1>14, <1>16, Zenon DEF TablesInv

\* kunmapanon gives back the frame of the page, which no other entry points to.
LEMMA UnmapStep ==
  ASSUME TablesInv, InFull, Unmap, UNCHANGED pvars
  PROVE  TablesInv'
<1>1. PICK L : Trees(L)
  BY DEF TablesInv
<1>2. Types /\ Translates /\ Place
  BY DEF TablesInv
<1>3. InChunk /\ call.op = "unmap" /\ Advance /\ UNCHANGED call
      /\ pc = "chunk" /\ i < chunk.length /\ UNCHANGED <<cr3, load, loaded>>
  BY DEF Unmap, InChunk, pvars
<1>4. CASE chunk.depth # 0
  <2>1. UNCHANGED <<call, free, tab>>
    BY <1>4 DEF Unmap
  <2> QED
    BY <1>3, <1>4, <2>1, PassTable
<1>5. CASE chunk.depth = 0
  <2>1. Tree(tab, L, procs)
    BY <1>1, <1>2, StateTree
  <2>2. PICK p \in Pages : /\ p = Cursor /\ p \in PagesOf(call) /\ Reached(tab, p)
                           /\ Entry1(tab, p).frame = chunk.table /\ p % F = Here
                           /\ \A u \in PagesOf(call) : u \in Nat /\ (u \in Pending <=> u >= p)
    BY <1>2, <1>3, <1>5, <2>1, AtPage
  <2>3. p \in Pending
    BY <2>2
  <2>4. p \notin DOMAIN want /\ Leaf(tab, p).present /\ Leaf(tab, p).frame \in Pool
    BY <1>2, <1>3, <2>3 DEF Translates, Due
  <2>5. PICK c \in DOMAIN tab \ procs, z \in Index : c = chunk.table /\ z = Here /\ L[c] = 0
    BY <1>2, <1>3, <1>5, <2>1, AtEntry
  <2>6. PICK g \in Pool : g = tab[c][z].frame /\ tab[c][z].present
    BY <2>2, <2>4, <2>5 DEF Leaf
  <2>7. free' = free \cup {g} /\ SetEntry(Absent)
    BY <1>5, <2>5, <2>6 DEF Unmap
  <2>8. /\ free \cap DOMAIN tab = {} /\ free \subseteq Pool
        /\ \A t \in DOMAIN tab, x \in Index : tab[t][x].present =>
             /\ tab[t][x].frame \notin free
             /\ L[t] = 0 => tab[t][x].frame \notin Pool \cap DOMAIN tab
        /\ PointedOnce(tab, L, DOMAIN tab \ procs, Pool)
    BY <1>1, <1>2 DEF Trees, Types
  <2>9. g \notin DOMAIN tab
    BY <2>5, <2>6, <2>8
  <2>10. ASSUME NEW t \in DOMAIN tab, NEW x \in Index, tab[t][x].present, ~(t = c /\ x = z)
         PROVE  tab[t][x].frame \notin free'
    <3>1. tab[t][x].frame # g
      <4>1. CASE t \in procs
        <5>1. L[t] = 3
          BY <2>1, <4>1 DEF Tree, Leveled
        <5>2. tab[t][x].frame \in DOMAIN tab
          BY <2>1, <2>10, <5>1 DEF Tree, Leveled
        <5> QED
          BY <2>9, <5>2
      <4>2. CASE t \notin procs
        BY <2>5, <2>6, <2>8, <2>10, <4>2 DEF PointedOnce
      <4> QED
        BY <4>1, <4>2
    <3> QED
      BY <2>7, <2>8, <2>10, <3>1
  <2>11. call' \in Calls /\ call'.v = call.v /\ call'.n = call.n /\ call'.op = call.op
    BY <1>2, <1>3 DEF Types
  <2>12. Absent \in EntryType /\ ~Absent.present
    BY ZeroEntries
  <2>13. /\ free' \subseteq Pool /\ free' \cap DOMAIN tab = {}
         /\ Absent.present =>
              Absent.frame \notin free' /\ Absent.frame \notin Pool \cap DOMAIN tab
         /\ Absent.present /\ Absent.frame \in Pool => \A u \in DOMAIN tab \ procs, y \in Index :
              (tab[u][y].present /\ tab[u][y].frame = Absent.frame) => u = chunk.table /\ y = Here
         /\ \A t \in DOMAIN tab, x \in Index :
              (tab[t][x].present /\ ~(t = chunk.table /\ x = Here)) => tab[t][x].frame \notin free'
    BY <2>5, <2>7, <2>8, <2>9, <2>10, <2>12
  <2>14. /\ Types' /\ Place' /\ Trees(L)' /\ Halves' /\ Roots' /\ Early'
         /\ pc' = "chunk" /\ Cursor' = Cursor + 1 /\ UNCHANGED <<want, nx>>
         /\ Cursor \notin Pending'
         /\ \A v \in Pages : v # Cursor => (v \in Pending <=> v \in Pending')
         /\ \A v \in Pages : Leaf(tab', v) = IF v = Cursor THEN Absent ELSE Leaf(tab, v)
    BY <1>1, <1>3, <1>5, <2>7, <2>11, <2>12, <2>13, WriteStep
  <2>15. Kept(p)'
    <3>1. Leaf(tab', p) = Absent
      BY <2>2, <2>14
    <3> QED
      BY <2>4, <2>12, <2>14, <3>1 DEF Kept
  <2>16. Translates'
    BY <1>2, <1>3, <2>2, <2>14, <2>15, TurnDone
  <2> QED
    BY <2>14, <2>16, Zenon DEF TablesInv
<1> QED
  BY <1>4, <1>5

\* kmprotect changes the flags of the page's entry and not its frame.
LEMMA ProtectStep ==
  ASSUME TablesInv, InFull, Protect, UNCHANGED pvars
  PROVE  TablesInv'
<1>1. PICK L : Trees(L)
  BY DEF TablesInv
<1>2. Types /\ Translates /\ Place
  BY DEF TablesInv
<1>3. InChunk /\ call.op = "protect" /\ Advance /\ UNCHANGED call
      /\ pc = "chunk" /\ i < chunk.length /\ UNCHANGED <<cr3, load, loaded>>
      /\ UNCHANGED free
  BY DEF Protect, InChunk, pvars
<1>4. CASE chunk.depth # 0
  <2>1. UNCHANGED <<call, free, tab>>
    BY <1>4 DEF Protect
  <2> QED
    BY <1>3, <1>4, <2>1, PassTable
<1>5. CASE chunk.depth = 0
  <2>1. Tree(tab, L, procs)
    BY <1>1, <1>2, StateTree
  <2>2. PICK p \in Pages : /\ p = Cursor /\ p \in PagesOf(call) /\ Reached(tab, p)
                           /\ Entry1(tab, p).frame = chunk.table /\ p % F = Here
                           /\ \A u \in PagesOf(call) : u \in Nat /\ (u \in Pending <=> u >= p)
    BY <1>2, <1>3, <1>5, <2>1, AtPage
  <2>3. p \in Pending
    BY <2>2
  <2>4. /\ Leaf(tab, p).present /\ p \in DOMAIN want
        /\ want[p].flags = page_prot_flags(call.prot) /\ Backed(p)
    BY <1>2, <1>3, <2>3 DEF Translates, Due
  <2>5. PICK c \in DOMAIN tab \ procs, z \in Index : c = chunk.table /\ z = Here /\ L[c] = 0
    BY <1>2, <1>3, <1>5, <2>1, AtEntry
  <2>6. Leaf(tab, p) = tab[c][z] /\ tab[c][z] \in EntryType /\ tab[c][z].present
    <3>1. tab[c][z] \in EntryType
      BY <2>1, EntryIn DEF Tree
    <3> QED
      BY <2>2, <2>4, <2>5, <3>1 DEF Leaf
  <2>7. PICK e : e = [tab[c][z] EXCEPT !.flags = page_prot_flags(call.prot)]
    OBVIOUS
  <2>8. e \in EntryType /\ e.present /\ e.frame = tab[c][z].frame
        /\ e.flags = page_prot_flags(call.prot)
    BY <2>6, <2>7, ProtFlags DEF EntryType
  <2>9. SetEntry(e)
    BY <1>5, <2>5, <2>7 DEF Protect
  <2>10. /\ free \cap DOMAIN tab = {} /\ free \subseteq Pool
         /\ \A t \in DOMAIN tab, x \in Index : tab[t][x].present =>
              /\ tab[t][x].frame \notin free
              /\ L[t] = 0 => tab[t][x].frame \notin Pool \cap DOMAIN tab
         /\ PointedOnce(tab, L, DOMAIN tab \ procs, Pool)
    BY <1>1, <1>2 DEF Trees, Types
  <2>11. e.present /\ e.frame \in Pool => \A u \in DOMAIN tab \ procs, y \in Index :
            (tab[u][y].present /\ tab[u][y].frame = e.frame) => u = chunk.table /\ y = Here
    BY <2>5, <2>6, <2>8, <2>10 DEF PointedOnce
  <2>12. /\ e.present => e.frame \notin free' /\ e.frame \notin Pool \cap DOMAIN tab
         /\ free' \subseteq Pool /\ free' \cap DOMAIN tab = {}
         /\ \A t \in DOMAIN tab, x \in Index :
              (tab[t][x].present /\ ~(t = chunk.table /\ x = Here)) => tab[t][x].frame \notin free'
    BY <1>3, <2>5, <2>6, <2>8, <2>10
  <2>13. call' \in Calls /\ call'.v = call.v /\ call'.n = call.n /\ call'.op = call.op
    BY <1>2, <1>3 DEF Types
  <2>14. /\ Types' /\ Place' /\ Trees(L)' /\ Halves' /\ Roots' /\ Early'
         /\ pc' = "chunk" /\ Cursor' = Cursor + 1 /\ UNCHANGED <<want, nx>>
         /\ Cursor \notin Pending'
         /\ \A v \in Pages : v # Cursor => (v \in Pending <=> v \in Pending')
         /\ \A v \in Pages : Leaf(tab', v) = IF v = Cursor THEN e ELSE Leaf(tab, v)
    BY <1>1, <1>3, <1>5, <2>8, <2>9, <2>11, <2>12, <2>13, WriteStep
  <2>15. Kept(p)'
    <3>1. Leaf(tab', p) = e
      BY <2>2, <2>14
    <3> QED
      BY <2>4, <2>6, <2>8, <2>14, <3>1 DEF Kept, Backed
  <2>16. Translates'
    BY <1>2, <1>3, <2>2, <2>14, <2>15, TurnDone
  <2> QED
    BY <2>14, <2>16, Zenon DEF TablesInv
<1> QED
  BY <1>4, <1>5

(* The start of a call *)

\* A call begins in the caller's loop over the root, and all of it is pending.
LEMMA StartPlace ==
  ASSUME Types, NEW c \in Calls, c.op # "none", Fits(c), Start(c)
  PROVE  Place' /\ pc' = "chunk" /\ Cursor' = c.v /\ Pending' = PagesOf(c)
<1>1. PICK v \in Nat, n \in Nat : v = c.v /\ n = c.n
  BY DEF Calls
<1>2. /\ Len0(n, 3) = 1 /\ Len0(n, 2) = 1 /\ Len0(n, 0) = n /\ Len0(n, 1) = Ceil(n, F)
  BY <1>1, FitTurns
<1>3. Offset0(v, 0) = v % F
  BY <1>1, Indexes
<1>4. /\ call' = c /\ pc' = "chunk" /\ i' = 0
      /\ chunk' = [depth |-> 3, table |-> Root, first |-> Offset0(v, 3), length |-> 1]
      /\ dir'[3] = Root
      /\ offset'[3] = Offset0(v, 3) /\ offset'[2] = Offset0(v, 2) /\ offset'[1] = Offset0(v, 1)
      /\ offset'[0] = v % F
      /\ len'[3] = 1 /\ len'[2] = 1 /\ len'[1] = Ceil(n, F) /\ len'[0] = n
  BY <1>1, <1>2, <1>3 DEF Start, Types, Levels
<1>5. Fresh2'
  BY <1>1, <1>4 DEF Fresh2, Fresh1, Fresh0
<1>6. InLoop(3, 1)' /\ Behind(3, 1)' = 0
  BY <1>4 DEF InLoop, Behind
<1>7. Walk3'
  BY <1>5, <1>6 DEF Walk3
<1>8. Place'
  BY <1>1, <1>4, <1>7 DEF Place
<1>9. Cursor' = v
  BY <1>1, <1>4 DEF Cursor, Ahead
<1>10. Pending' = {w \in PagesOf(c) : w >= v}
  BY <1>4, <1>9 DEF Pending
<1>11. \A w \in PagesOf(c) : w >= v
  BY <1>1 DEF PagesOf
<1> QED
  BY <1>1, <1>4, <1>8, <1>9, <1>10, <1>11

\* and its variables have their types.
LEMMA StartTypes ==
  ASSUME Types, NEW c \in Calls, Fits(c), Start(c), UNCHANGED <<free, procs>>,
         todo' \in Nat \ {0}, io_size' \in Nat,
         DOMAIN want' \subseteq Pages, want' \in [DOMAIN want' -> Wants],
         \A v \in DOMAIN want' : want'[v].kind # "anon" => want'[v].frame \notin Pool
  PROVE  Types'
<1>1. PICK v \in Nat, n \in Nat : v = c.v /\ n = c.n
  BY DEF Calls
<1>2. PICK m \in Nat : Len0(n, 3) = 1 /\ Len0(n, 2) = 1 /\ Len0(n, 0) = n /\ Len0(n, 1) = m
  BY <1>1, FitTurns
<1>3. /\ Offset0(v, 0) \in Index /\ Offset0(v, 1) \in Index
      /\ Offset0(v, 2) \in Index /\ Offset0(v, 3) \in Index
  BY IndexIn
<1>4. \A l \in Levels : Offset0(v, l) \in Int /\ Len0(n, l) \in Int
  BY <1>2, <1>3, Sizes DEF Index, Levels
<1>5. offset' \in [Levels -> Int] /\ len' \in [Levels -> Int]
  BY <1>1, <1>4 DEF Start
<1>6. chunk' \in [depth : Levels, table : Nat, first : Int, length : Int]
  BY <1>1, <1>4, PoolAssumption DEF Start, Levels
<1>7. dir' \in [Levels -> Nat]
  BY PoolAssumption DEF Start, Types
<1>8. /\ pc' \in {"nx", "half", "idle", "iter", "chunk", "wild"} /\ call' \in Calls /\ i' \in Nat
      /\ lvl' \in Levels /\ len_current' \in [Levels -> Int] /\ index' \in [Levels -> Int]
  BY DEF Start, Types
<1>9. free' \subseteq Pool /\ procs' \subseteq Pool
  BY DEF Types
<1> QED
  BY <1>5, <1>6, <1>7, <1>8, <1>9 DEF Types

\* A call may begin when what it is about is due, and nothing else is asked.
LEMMA StartStep ==
  ASSUME TablesInv, pc = "idle", NEW c \in Calls, c.op # "none", Fits(c), Start(c),
         UNCHANGED <<tab, free, nx, procs, load, loaded>>, cr3' \in {cr3} \cup procs,
         todo' \in Nat \ {0}, todo <= todo', io_size' \in Nat, Early',
         DOMAIN want' \subseteq Pages, want' \in [DOMAIN want' -> Wants],
         \A v \in DOMAIN want' : want'[v].kind # "anon" => want'[v].frame \notin Pool,
         \A v \in Pages \cap PagesOf(c) : Due(v)',
         \A v \in Pages \ PagesOf(c) : /\ v \in DOMAIN want' <=> v \in DOMAIN want
                                       /\ v \in DOMAIN want => want'[v] = want[v]
  PROVE  TablesInv'
<1>1. Types /\ Halves /\ Roots /\ Place /\ Translates /\ \E L : Trees(L)
  BY Zenon DEF TablesInv
<1>2. Place' /\ pc' = "chunk" /\ Cursor' = c.v /\ Pending' = PagesOf(c)
  BY <1>1, StartPlace
<1>3. Types'
  BY <1>1, StartTypes
<1>4. (\E L : Trees(L))'
  BY <1>1, SameTrees, Zenon
<1>5. Roots'
  BY <1>1 DEF Roots
<1>6. KernelHalfShared'
  BY <1>1, Zenon DEF Halves, KernelHalfShared
<1>7. (pc \notin {"nx", "half"} => \A x \in Kernel : tab[Root][x].present)'
  BY <1>1 DEF Halves
<1>8. (todo <= Len(Sections) + 3 => procs = {})'
  <2>1. PICK k : k = Len(Sections) + 3
    OBVIOUS
  <2>2. k \in Int
    BY <2>1, SectionAssumption
  <2>3. todo <= k => procs = {}
    BY <1>1, <2>1 DEF Halves
  <2>4. todo' <= k => todo <= k
    BY <1>1, <2>2 DEF Types
  <2>5. todo' <= k => procs' = {}
    BY <2>3, <2>4
  <2> QED
    BY <2>1, <2>5
<1>9. Halves'
  BY <1>2, <1>6, <1>7, <1>8 DEF Halves
<1>10. Pending = {}
  <2>1. call = NoCallYet
    BY <1>1 DEF Place
  <2>2. PagesOf(call) = {}
    BY <2>1 DEF PagesOf, NoCallYet
  <2> QED
    BY <2>2 DEF Pending
<1>11. \A v \in Pages : Kept(v)
  BY <1>1, <1>10 DEF Translates
<1>12. ASSUME NEW v \in Pages, v \notin PagesOf(c)
       PROVE  Kept(v)'
  <2>1. Kept(v) /\ (v \in DOMAIN want' <=> v \in DOMAIN want)
        /\ (v \in DOMAIN want => want'[v] = want[v])
    BY <1>11, <1>12
  <2>2. Leaf(tab, v)' = Leaf(tab, v)
    BY DEF Leaf, Reached, Entry1, Entry2, Entry3
  <2> QED
    BY <2>1, <2>2 DEF Kept, Backed
<1>13. Translates'
  BY <1>2, <1>12 DEF Translates
<1> QED
  BY <1>3, <1>4, <1>5, <1>9, <1>2, <1>13, Zenon DEF TablesInv

\* Between calls every page is kept.
LEMMA AtRest ==
  ASSUME Place, Translates, pc \in {"nx", "half", "idle"}
  PROVE  call = NoCallYet /\ Pending = {} /\ \A v \in Pages : Kept(v)
<1>1. call = NoCallYet
  BY DEF Place
<1>2. PagesOf(call) = {}
  BY <1>1 DEF PagesOf, NoCallYet
<1>3. Pending = {}
  BY <1>2 DEF Pending
<1> QED
  BY <1>1, <1>3 DEF Translates

\* kmapanon may be called for any range it fits.
LEMMA AnonStart ==
  ASSUME TablesInv, InFull', pc = "idle", NEW g, NEW prot \in Prots,
         NEW a \in Nat, NEW m \in Nat, a = g.v, m = g.n,
         Start([op |-> "anon", v |-> a, n |-> m, prot |-> prot, phys |-> 0]),
         Wanted(g, "anon", 0, prot), UNCHANGED <<tab, free, nx, io_size, procs>>,
         UNCHANGED <<load, loaded>>, cr3' \in {cr3} \cup procs,
         todo' \in Nat \ {0}, todo <= todo', ~(todo' <= Len(Sections) + 1)
  PROVE  TablesInv'
<1>1. Types /\ Place /\ Translates
  BY Zenon DEF TablesInv
<1>2. PICK c : c = [op |-> "anon", v |-> a, n |-> m, prot |-> prot, phys |-> 0]
  OBVIOUS
<1>3. a \in Nat /\ m \in Nat
  OBVIOUS
<1>4. c \in Calls /\ c.op # "none" /\ c.op = "anon" /\ c.v = a /\ c.n = m /\ c.prot = prot
  BY <1>2, <1>3 DEF Calls
<1>5. Start(c) /\ call' = c
  BY <1>2 DEF Start
<1>6. Fits(c)
  BY <1>4, <1>5, Zenon DEF InFull, Fits
<1>7. PagesOf(c) \subseteq Pages
  BY <1>3, <1>4, <1>6, FitPages
<1>8. PagesOf(g) = PagesOf(c)
  BY <1>4 DEF PagesOf
<1>9. PICK fl : fl = page_prot_flags(prot) /\ fl \subseteq Flags
  BY ProtFlags
<1>10. page_prot_flags(c.prot)' = fl
  BY <1>4, <1>5, <1>9 DEF page_prot_flags
<1>11. want' = [v \in DOMAIN want \cup PagesOf(c) |->
                  IF v \in PagesOf(c) THEN [kind |-> "anon", frame |-> 0, flags |-> fl] ELSE want[v]]
  BY <1>8, <1>9 DEF Wanted
<1>12. DOMAIN want \subseteq Pages /\ want \in [DOMAIN want -> Wants]
       /\ \A v \in DOMAIN want : want[v].kind # "anon" => want[v].frame \notin Pool
  BY <1>1 DEF Types
<1>13. [kind |-> "anon", frame |-> 0, flags |-> fl] \in Wants
  BY <1>9 DEF Wants
<1>14. DOMAIN want' \subseteq Pages /\ want' \in [DOMAIN want' -> Wants]
       /\ \A v \in DOMAIN want' : want'[v].kind # "anon" => want'[v].frame \notin Pool
  BY <1>7, <1>11, <1>12, <1>13
<1>15. ASSUME NEW v \in PagesOf(c)
       PROVE  Due(v)'
  <2>1. v \in DOMAIN want' /\ want'[v] = [kind |-> "anon", frame |-> 0, flags |-> fl]
    BY <1>11
  <2> QED
    BY <1>4, <1>5, <1>10, <2>1 DEF Due
<1>16. \A v \in Pages \ PagesOf(c) : /\ v \in DOMAIN want' <=> v \in DOMAIN want
                                     /\ v \in DOMAIN want => want'[v] = want[v]
  BY <1>11
<1>17. Early'
  BY Zenon DEF Early
<1>18. io_size' \in Nat
  BY <1>1 DEF Types
<1> QED
  BY <1>4, <1>5, <1>6, <1>14, <1>15, <1>16, <1>17, <1>18, StartStep

\* kunmapanon may be called for pages kmapanon mapped.
LEMMA UnmapStart ==
  ASSUME TablesInv, InFull', pc = "idle", NEW g \in [v : Nat, n : Nat],
         \A v \in PagesOf(g) : v \in DOMAIN want /\ want[v].kind = "anon",
         kunmapanon(g), UNCHANGED <<load, loaded, cr3, todo>>, ~(todo <= Len(Sections) + 1)
  PROVE  TablesInv'
<1>1. Types /\ Place /\ Translates
  BY Zenon DEF TablesInv
<1>2. PICK c : c = [op |-> "unmap", v |-> g.v, n |-> g.n, prot |-> {}, phys |-> 0]
  OBVIOUS
<1>4. c \in Calls /\ c.op # "none" /\ c.op = "unmap" /\ c.v = g.v /\ c.n = g.n
  BY <1>2 DEF Calls, Prots
<1>5. Start(c) /\ call' = c /\ UNCHANGED <<tab, free, nx, procs, io_size>>
  BY <1>2 DEF Start, kunmapanon
<1>6. Fits(c)
  BY <1>4, <1>5, Zenon DEF InFull, Fits
<1>8. PagesOf(g) = PagesOf(c)
  BY <1>4 DEF PagesOf
<1>11. want' = [v \in DOMAIN want \ PagesOf(c) |-> want[v]]
  BY <1>8 DEF kunmapanon
<1>12. DOMAIN want \subseteq Pages /\ want \in [DOMAIN want -> Wants] /\ todo \in Nat \ {0}
       /\ \A v \in DOMAIN want : want[v].kind # "anon" => want[v].frame \notin Pool
  BY <1>1 DEF Types
<1>14. DOMAIN want' \subseteq Pages /\ want' \in [DOMAIN want' -> Wants]
       /\ \A v \in DOMAIN want' : want'[v].kind # "anon" => want'[v].frame \notin Pool
  BY <1>11, <1>12
<1>15. ASSUME NEW v \in Pages, v \in PagesOf(c)
       PROVE  Due(v)'
  <2>1. v \notin DOMAIN want'
    BY <1>11, <1>15
  <2>2. v \in DOMAIN want /\ want[v].kind = "anon" /\ Kept(v)
    BY <1>1, <1>8, <1>15, AtRest
  <2>3. Leaf(tab, v).present /\ Leaf(tab, v).frame \in Pool
    BY <2>2 DEF Kept, Backed
  <2>4. Leaf(tab, v)' = Leaf(tab, v)
    BY <1>5 DEF Leaf, Reached, Entry1, Entry2, Entry3
  <2> QED
    BY <1>4, <1>5, <2>1, <2>3, <2>4 DEF Due
<1>16. \A v \in Pages \ PagesOf(c) : /\ v \in DOMAIN want' <=> v \in DOMAIN want
                                     /\ v \in DOMAIN want => want'[v] = want[v]
  BY <1>11
<1>17. Early'
  BY Zenon DEF Early
<1>18. io_size' \in Nat /\ cr3' \in {cr3} \cup procs
  BY <1>1, <1>5 DEF Types
<1>19. todo' \in Nat \ {0} /\ todo <= todo'
  BY <1>12
<1> QED
  BY <1>4, <1>5, <1>6, <1>14, <1>15, <1>16, <1>17, <1>18, <1>19, StartStep

\* kmap may be called for any device frames.
LEMMA IoStart ==
  ASSUME TablesInv, InFull', pc = "idle", NEW m \in Nat, NEW phys \in Nat, phys >= IoFrame,
         kmap(m, phys), UNCHANGED <<load, loaded, cr3>>,
         todo' \in Nat \ {0}, todo <= todo', ~(todo' <= Len(Sections) + 1)
  PROVE  TablesInv'
<1>1. Types /\ Place /\ Translates
  BY Zenon DEF TablesInv
<1>2. PICK a : a = IO_BASE + io_size
  OBVIOUS
<1>3. a \in Nat
  <2>1. PICK top : top = F * Span(3) - 1
    OBVIOUS
  <2>2. IO_BASE \in 0..top
    BY <2>1, RangeAssumption DEF Pages
  <2>3. top \in Int
    BY <2>1, Sizes
  <2>4. io_size \in Nat
    BY <1>1 DEF Types
  <2> QED
    BY <1>2, <2>2, <2>3, <2>4
<1>31. PICK g : g = [v |-> a, n |-> m]
  OBVIOUS
<1>32. PICK c : c = [op |-> "io", v |-> a, n |-> m, prot |-> {"W"}, phys |-> phys]
  OBVIOUS
<1>4. c \in Calls /\ c.op # "none" /\ c.op = "io" /\ c.v = a /\ c.n = m /\ c.phys = phys
  BY <1>32, <1>3 DEF Calls, Prots
<1>41. c.prot = {"W"} /\ g.v = a /\ g.n = m
  BY <1>32, <1>31
<1>5. Start(c) /\ call' = c /\ UNCHANGED <<tab, free, nx, procs>>
  BY <1>2, <1>31, <1>32 DEF Start, kmap
<1>51. Wanted(g, "io", phys, {"W"}) /\ io_size' = io_size + m
  BY <1>2, <1>31 DEF kmap, io_alloc
<1>6. Fits(c)
  BY <1>4, <1>5, Zenon DEF InFull, Fits
<1>7. PagesOf(c) \subseteq Pages
  BY <1>3, <1>4, <1>6, FitPages
<1>8. PagesOf(g) = PagesOf(c)
  BY <1>4, <1>41 DEF PagesOf
<1>9. PICK fl : fl = page_prot_flags({"W"}) /\ fl \subseteq Flags
  BY ProtFlags
<1>10. page_prot_flags(c.prot)' = fl
  BY <1>41, <1>5, <1>9 DEF page_prot_flags
<1>11. want' = [v \in DOMAIN want \cup PagesOf(c) |->
                  IF v \in PagesOf(c) THEN [kind |-> "io", frame |-> phys + v - a, flags |-> fl]
                  ELSE want[v]]
  BY <1>8, <1>9, <1>41, <1>51 DEF Wanted
<1>12. DOMAIN want \subseteq Pages /\ want \in [DOMAIN want -> Wants] /\ io_size \in Nat
       /\ \A v \in DOMAIN want : want[v].kind # "anon" => want[v].frame \notin Pool
  BY <1>1 DEF Types
<1>13. ASSUME NEW v \in PagesOf(c)
       PROVE  /\ phys + v - a \in Nat /\ phys + v - a \notin Pool
              /\ phys + v - a = phys + (v - a)
              /\ [kind |-> "io", frame |-> phys + v - a, flags |-> fl] \in Wants
  <2>1. v \in Int /\ v >= a
    BY <1>3, <1>4, <1>7, <1>13 DEF PagesOf
  <2>2. PICK f : f = phys + v - a
    OBVIOUS
  <2>3. f \in Nat /\ f >= IoFrame /\ f = phys + (v - a)
    BY <1>3, <2>1, <2>2, PoolAssumption
  <2>4. f \notin Pool
    BY <2>3, PoolAssumption
  <2>5. [kind |-> "io", frame |-> f, flags |-> fl] \in Wants
    BY <1>9, <2>3 DEF Wants
  <2> QED
    BY <2>2, <2>3, <2>4, <2>5
<1>14. DOMAIN want' \subseteq Pages /\ want' \in [DOMAIN want' -> Wants]
       /\ \A v \in DOMAIN want' : want'[v].kind # "anon" => want'[v].frame \notin Pool
  <2>1. DOMAIN want' = DOMAIN want \cup PagesOf(c)
    BY <1>11
  <2>2. ASSUME NEW v \in DOMAIN want'
        PROVE  want'[v] \in Wants /\ (want'[v].kind # "anon" => want'[v].frame \notin Pool)
    BY <1>11, <1>12, <1>13
  <2>3. want' \in [DOMAIN want' -> Wants]
    BY <1>11, <2>2, Zenon
  <2> QED
    BY <1>7, <1>12, <2>1, <2>2, <2>3
<1>141. Place' /\ Cursor' = a
  BY <1>1, <1>4, <1>5, <1>6, StartPlace
<1>15. ASSUME NEW v \in PagesOf(c)
       PROVE  Due(v)'
  <2>1. v \in DOMAIN want' /\ want'[v] = [kind |-> "io", frame |-> phys + v - a, flags |-> fl]
    BY <1>11
  <2>2. want'[v].kind = "io" /\ want'[v].frame = phys + (v - a) /\ want'[v].flags = fl
    BY <1>13, <2>1
  <2> QED
    BY <1>4, <1>5, <1>10, <1>141, <2>1, <2>2 DEF Due
<1>16. \A v \in Pages \ PagesOf(c) : /\ v \in DOMAIN want' <=> v \in DOMAIN want
                                     /\ v \in DOMAIN want => want'[v] = want[v]
  BY <1>11
<1>17. Early'
  BY Zenon DEF Early
<1>18. io_size' \in Nat /\ cr3' \in {cr3} \cup procs
  BY <1>12, <1>51
<1>19. UNCHANGED <<tab, free, nx, procs, load, loaded>>
  BY <1>5
<1> QED
  BY <1>4, <1>5, <1>6, <1>14, <1>15, <1>16, <1>17, <1>18, <1>19, StartStep

\* kmprotect may be called for the sections of the image.
LEMMA ProtectStart ==
  ASSUME TablesInv, InFull', pc = "idle", NEW k \in DOMAIN Sections, todo = k, todo' = k + 1,
         kmprotect(Sections[k]), UNCHANGED <<load, loaded, cr3>>
  PROVE  TablesInv'
<1>1. Types /\ Place /\ Translates /\ Early
  BY Zenon DEF TablesInv
<1>2. PICK s : s = Sections[k]
  OBVIOUS
<1>21. s \in [v : Nat, n : Nat, prot : SUBSET {"W", "X"}] /\ PagesOf(s) \subseteq DOMAIN BootWant
  <2>1. PICK S : S = [v : Nat, n : Nat, prot : SUBSET {"W", "X"}]
    OBVIOUS
  <2>2. Sections \in Seq(S)
    BY <2>1, SectionAssumption
  <2>3. Sections[k] \in S
    BY <2>2
  <2>4. PagesOf(Sections[k]) \subseteq DOMAIN BootWant
    BY SectionAssumption
  <2> QED
    BY <1>2, <2>1, <2>3, <2>4
<1>22. k \in Nat \ {0} /\ k <= Len(Sections) /\ Len(Sections) \in Nat
  BY SectionAssumption
<1>3. PICK c : c = [op |-> "protect", v |-> s.v, n |-> s.n, prot |-> s.prot, phys |-> 0]
  OBVIOUS
<1>4. c \in Calls /\ c.op # "none" /\ c.op = "protect" /\ c.v = s.v /\ c.n = s.n
  BY <1>3, <1>21 DEF Calls, Prots
<1>41. c.prot = s.prot
  BY <1>3
<1>5. Start(c) /\ call' = c /\ UNCHANGED <<tab, free, nx, procs, io_size>>
  BY <1>2, <1>3 DEF Start, kmprotect
<1>6. Fits(c)
  BY <1>4, <1>5, Zenon DEF InFull, Fits
<1>8. PagesOf(s) = PagesOf(c)
  BY <1>4 DEF PagesOf
<1>9. PICK fl : fl = page_prot_flags(s.prot) /\ fl \subseteq Flags
  BY ProtFlags
<1>10. page_prot_flags(c.prot)' = fl
  BY <1>41, <1>5, <1>9 DEF page_prot_flags
<1>11. want' = [v \in DOMAIN want |->
                  IF v \in PagesOf(c) THEN [want[v] EXCEPT !.flags = fl] ELSE want[v]]
  BY <1>2, <1>8, <1>9 DEF kmprotect
<1>12. DOMAIN want \subseteq Pages /\ want \in [DOMAIN want -> Wants]
       /\ \A v \in DOMAIN want : want[v].kind # "anon" => want[v].frame \notin Pool
  BY <1>1 DEF Types
<1>13. DOMAIN want = DOMAIN BootWant /\ \A v \in DOMAIN want : want[v].kind = "image"
  <2>1. todo <= Len(Sections) + 1
    BY <1>22
  <2> QED
    BY <1>1, <2>1 DEF Early
<1>14. ASSUME NEW v \in DOMAIN want
       PROVE  /\ want'[v] \in Wants /\ want'[v].kind = want[v].kind /\ want'[v].frame = want[v].frame
              /\ v \in PagesOf(c) => want'[v].flags = fl
  <2>1. want[v] \in Wants
    BY <1>12
  <2>2. want'[v] = IF v \in PagesOf(c) THEN [want[v] EXCEPT !.flags = fl] ELSE want[v]
    BY <1>11
  <2> QED
    BY <1>9, <2>1, <2>2 DEF Wants
<1>15. DOMAIN want' = DOMAIN want
  BY <1>11
<1>16. DOMAIN want' \subseteq Pages /\ want' \in [DOMAIN want' -> Wants]
       /\ \A v \in DOMAIN want' : want'[v].kind # "anon" => want'[v].frame \notin Pool
  BY <1>11, <1>12, <1>14, <1>15
<1>17. ASSUME NEW v \in Pages, v \in PagesOf(c)
       PROVE  Due(v)'
  <2>1. v \in DOMAIN want
    BY <1>8, <1>13, <1>17, <1>21
  <2>2. Kept(v)
    BY <1>1, AtRest
  <2>3. Leaf(tab, v).present /\ Backed(v)
    BY <2>1, <2>2 DEF Kept
  <2>4. Leaf(tab, v)' = Leaf(tab, v)
    BY <1>5 DEF Leaf, Reached, Entry1, Entry2, Entry3
  <2>5. Backed(v)'
    BY <1>14, <2>1, <2>3, <2>4 DEF Backed
  <2> QED
    BY <1>4, <1>5, <1>10, <1>14, <1>15, <1>17, <2>1, <2>3, <2>4, <2>5 DEF Due
<1>18. \A v \in Pages \ PagesOf(c) : /\ v \in DOMAIN want' <=> v \in DOMAIN want
                                     /\ v \in DOMAIN want => want'[v] = want[v]
  BY <1>11
<1>19. Early'
  BY <1>13, <1>14, <1>15 DEF Early
<1>20. io_size' \in Nat /\ cr3' \in {cr3} \cup procs
  BY <1>1, <1>5 DEF Types
<1>23. todo' \in Nat \ {0} /\ todo <= todo'
  BY <1>22
<1>24. UNCHANGED <<tab, free, nx, procs, load, loaded>>
  BY <1>5
<1> QED
  BY <1>4, <1>5, <1>6, <1>16, <1>17, <1>18, <1>19, <1>20, <1>23, <1>24, StartStep

\* The number of sections is a number.
LEMMA SectionCount == Len(Sections) \in Nat /\ DOMAIN Sections = 1..Len(Sections)
<1>1. PICK S : S = [v : Nat, n : Nat, prot : SUBSET {"W", "X"}]
  OBVIOUS
<1>2. Sections \in Seq(S)
  BY <1>1, SectionAssumption
<1> QED
  BY <1>2

\* The calls init_mem makes.
LEMMA InitCallStep ==
  ASSUME TablesInv, InFull', InitCall, UNCHANGED pvars
  PROVE  TablesInv'
<1>1. pc = "idle" /\ UNCHANGED <<cr3, load, loaded>>
  BY DEF InitCall, InitStep, pvars
<1>2. CASE \E k \in DOMAIN Sections : InitStep(k) /\ kmprotect(Sections[k])
  BY <1>1, <1>2, ProtectStart DEF InitStep
<1>3. CASE InitStep(Len(Sections) + 1) /\ kmapanon(Initram, {"W"})
  <2>1. PICK N \in Nat : N = Len(Sections)
    BY SectionCount
  <2>2. todo = N + 1 /\ todo' = N + 2
    BY <1>3, <2>1 DEF InitStep
  <2>3. PICK a, m : a = Initram.v /\ m = Initram.n
    OBVIOUS
  <2>4. a \in Nat /\ m \in Nat
    BY <2>3, RangeAssumption
  <2>5. /\ Start([op |-> "anon", v |-> a, n |-> m, prot |-> {"W"}, phys |-> 0])
        /\ Wanted(Initram, "anon", 0, {"W"}) /\ UNCHANGED <<tab, free, nx, io_size, procs>>
    BY <1>3, <2>3 DEF kmapanon
  <2>6. todo' \in Nat \ {0} /\ todo <= todo' /\ ~(todo' <= Len(Sections) + 1)
    BY <2>1, <2>2
  <2>7. {"W"} \in Prots /\ cr3' \in {cr3} \cup procs
    BY <1>1 DEF Prots
  <2> QED
    BY <1>1, <2>3, <2>4, <2>5, <2>6, <2>7, AnonStart
<1>4. CASE InitStep(Len(Sections) + 2) /\ kmap(VideoPages, IoFrame)
  <2>1. PICK N \in Nat : N = Len(Sections)
    BY SectionCount
  <2>2. todo = N + 2 /\ todo' = N + 3
    BY <1>4, <2>1 DEF InitStep
  <2>3. VideoPages \in Nat /\ IoFrame \in Nat /\ IoFrame >= IoFrame
    BY RangeAssumption, PoolAssumption
  <2>4. todo' \in Nat \ {0} /\ todo <= todo' /\ ~(todo' <= Len(Sections) + 1)
    BY <2>1, <2>2
  <2> QED
    BY <1>1, <1>4, <2>3, <2>4, IoStart
<1> QED
  BY <1>2, <1>3, <1>4 DEF InitCall

\* The calls the kernel makes later.
LEMMA KernelCallStep ==
  ASSUME TablesInv, InFull', KernelCall, UNCHANGED pvars
  PROVE  TablesInv'
<1>1. pc = "idle" /\ UNCHANGED <<cr3, load, loaded, todo>> /\ todo > Len(Sections) + 3
  BY DEF KernelCall, pvars, Callable, Ready
<1>2. todo \in Nat \ {0} /\ io_size \in Nat
  BY Zenon DEF TablesInv, Types
<1>3. todo' \in Nat \ {0} /\ todo <= todo' /\ ~(todo <= Len(Sections) + 1)
      /\ ~(todo' <= Len(Sections) + 1)
  <2>1. PICK N \in Nat : N = Len(Sections)
    BY SectionCount
  <2> QED
    BY <1>1, <1>2, <2>1
<1>4. cr3' \in {cr3} \cup procs /\ {"W"} \in Prots
  BY <1>1 DEF Prots
<1>5. ASSUME NEW g \in AnonRanges, kmapanon(g, {"W"})
      PROVE  TablesInv'
  <2>3. PICK a, m : a = g.v /\ m = g.n
    OBVIOUS
  <2>4. a \in Nat /\ m \in Nat
    BY <2>3, RangeAssumption
  <2>5. /\ Start([op |-> "anon", v |-> a, n |-> m, prot |-> {"W"}, phys |-> 0])
        /\ Wanted(g, "anon", 0, {"W"}) /\ UNCHANGED <<tab, free, nx, io_size, procs>>
    BY <1>5, <2>3 DEF kmapanon
  <2> QED
    BY <1>1, <1>3, <1>4, <2>3, <2>4, <2>5, AnonStart
<1>6. ASSUME NEW g \in AnonRanges, \A v \in PagesOf(g) : v \in DOMAIN want /\ want[v].kind = "anon",
             kunmapanon(g)
      PROVE  TablesInv'
  <2>1. g \in [v : Nat, n : Nat]
    BY RangeAssumption
  <2> QED
    BY <1>1, <1>3, <1>6, <2>1, UnmapStart
<1>7. ASSUME NEW m \in IoSizes, kmap(m, IoFrame + io_size)
      PROVE  TablesInv'
  <2>1. PICK ph : ph = IoFrame + io_size
    OBVIOUS
  <2>2. ph \in Nat /\ ph >= IoFrame /\ m \in Nat
    BY <1>2, <2>1, PoolAssumption, RangeAssumption
  <2>3. kmap(m, ph)
    BY <1>7, <2>1
  <2> QED
    BY <1>1, <1>3, <2>2, <2>3, IoStart
<1> QED
  BY <1>5, <1>6, <1>7 DEF KernelCall

\* The process being created is a process, and the only one not loaded.
LEMMA NewestIn ==
  ASSUME Roots, load # 0
  PROVE  Newest \in procs /\ procs = loaded \cup {Newest}
<1>1. PICK p \in procs : procs \ loaded = {p} /\ loaded \subseteq procs
  BY DEF Roots
<1>2. Newest \in procs /\ Newest \notin loaded
  BY <1>1 DEF Newest
<1> QED
  BY <1>1, <1>2

\* The program is one of those the initram holds, and stays the same.
Known == prog \in Programs

LEMMA SameProgram ==
  ASSUME [Next]_vars
  PROVE  prog' = prog /\ Items' = Items
<1>1. prog' = prog
  BY DEF Next, Walks, Returns, MapsZero, proc_create, proc_alloc, Fill, Fault, vars, pvars
<1>2. Items' = Items
  BY <1>1 DEF Items
<1> QED
  BY <1>1, <1>2

\* Rounding up gives a natural number.
LEMMA CeilNat ==
  ASSUME NEW a \in Nat, NEW P \in Nat \ {0}
  PROVE  Ceil(a, P) \in Nat
<1>1. a + P - 1 \in Nat
  OBVIOUS
<1>2. PICK q \in Nat : q = (a + P - 1) \div P
  BY <1>1, Division
<1> QED
  BY <1>2 DEF Ceil

\* The parts of a program are ranges of bytes, with a protection, and the pages
\* that are found for them.
LEMMA ItemTypes ==
  ASSUME Known, NEW k \in DOMAIN Items
  PROVE  /\ k \in Nat \ {0} /\ k <= Len(Items) /\ Len(Items) \in Nat
         /\ Items[k].v \in Nat /\ Items[k].n \in Nat
         /\ Items[k].addr \in Nat /\ Items[k].memsz \in Nat /\ Items[k].file \in Nat
         /\ Items[k].prot \in Prots /\ {"U", "W"} \subseteq Items[k].prot
<1>1. PICK S : S = [addr : Nat, memsz : Nat, file : Nat]
  OBVIOUS
<1>2. prog \in Seq(S)
  BY <1>1, ProgramAssumption DEF Known
<1>3. PICK N \in Nat : N = Len(prog) /\ DOMAIN prog = 1..N
  BY <1>2
<1>4. PICK T : T = [addr : Nat, memsz : Nat, file : Nat,
                    prot : {p \in Prots : {"U", "W"} \subseteq p}, v : Nat, n : Nat]
  OBVIOUS
<1>5. ASSUME NEW s, s.addr \in Nat, s.memsz \in Nat, NEW f \in Nat,
             NEW p \in Prots, {"U", "W"} \subseteq p
      PROVE  Item(s, f, p) \in T
  <2>1. PICK a \in Nat, z \in Nat : a = s.addr /\ z = s.memsz
    BY <1>5
  <2>2. PICK v \in Nat : v = a \div PAGE
    BY Division, ProgramAssumption
  <2>3. PICK n \in Nat : n = Ceil(z, PAGE)
    BY CeilNat, ProgramAssumption
  <2>4. Item(s, f, p) = [addr |-> a, memsz |-> z, file |-> f, prot |-> p, v |-> v, n |-> n]
    BY <2>1, <2>2, <2>3 DEF Item
  <2> QED
    BY <1>4, <1>5, <2>4
<1>6. PICK q : q = [j \in DOMAIN prog |-> Item(prog[j], prog[j].file, {"W", "X", "U"})]
  OBVIOUS
<1>7. PICK e : e = Item(Stack, 0, {"W", "U"})
  OBVIOUS
<1>8. e \in T
  <2>1. Stack.addr \in Nat /\ Stack.memsz \in Nat
    BY ProgramAssumption
  <2>2. {"W", "U"} \in Prots /\ {"U", "W"} \subseteq {"W", "U"}
    BY DEF Prots
  <2> QED
    BY <1>5, <1>7, <2>1, <2>2
<1>9. ASSUME NEW j \in 1..N
      PROVE  q[j] \in T
  <2>1. prog[j] \in S
    BY <1>2, <1>3
  <2>2. prog[j].addr \in Nat /\ prog[j].memsz \in Nat /\ prog[j].file \in Nat
    BY <1>1, <2>1
  <2>3. {"W", "X", "U"} \in Prots /\ {"U", "W"} \subseteq {"W", "X", "U"}
    BY DEF Prots
  <2>4. Item(prog[j], prog[j].file, {"W", "X", "U"}) \in T
    BY <1>5, <2>2, <2>3
  <2> QED
    BY <1>3, <1>6, <2>4
<1>10. q \in [1..N -> T]
  BY <1>3, <1>6, <1>9
<1>11. q \in Seq(T)
  BY <1>10
<1>12. Append(q, e) \in Seq(T)
  BY <1>8, <1>11
<1>13. Items = Append(q, e)
  BY <1>6, <1>7 DEF Items, ItemsOf
<1>14. k \in Nat \ {0} /\ k <= Len(Items) /\ Len(Items) \in Nat /\ Items[k] \in T
  BY <1>12, <1>13
<1> QED
  BY <1>4, <1>14

\* A program is in the lower half, and so are the pages it is given.
LEMMA ItemPlace ==
  ASSUME Known, NEW k \in DOMAIN Items
  PROVE  /\ \A v \in PagesOf(Items[k]) : v \div Span(3) < F \div 2
         /\ \A b \in BytesOf(Items[k]) : (b \div PAGE) \div Span(3) < F \div 2
  BY ProgramAssumption DEF Known, Items

\* A process has its items mapped one after the other.
LEMMA AllocStep ==
  ASSUME TablesInv, Known, InFull', proc_alloc
  PROVE  TablesInv'
<1>1. /\ pc = "idle" /\ UNCHANGED <<load, loaded, todo>> /\ todo > Len(Sections) + 3
      /\ load \in DOMAIN Items /\ cr3' = Newest
  BY DEF proc_alloc, Ready
<1>2. todo \in Nat \ {0} /\ Roots
  BY Zenon DEF TablesInv, Types
<1>3. todo' \in Nat \ {0} /\ todo <= todo' /\ ~(todo' <= Len(Sections) + 1)
  <2>1. PICK N \in Nat : N = Len(Sections)
    BY SectionCount
  <2> QED
    BY <1>1, <1>2, <2>1
<1>4. PICK g, a, m, p : g = Items[load] /\ a = g.v /\ m = g.n /\ p = g.prot
  OBVIOUS
<1>5. a \in Nat /\ m \in Nat /\ p \in Prots /\ load # 0
  BY <1>1, <1>4, ItemTypes
<1>6. cr3' \in {cr3} \cup procs
  BY <1>1, <1>2, <1>5, NewestIn
<1>7. /\ Start([op |-> "anon", v |-> a, n |-> m, prot |-> p, phys |-> 0])
      /\ Wanted(g, "anon", 0, p) /\ UNCHANGED <<tab, free, nx, io_size, procs>>
  BY <1>4 DEF proc_alloc, kmapanon
<1> QED
  BY <1>1, <1>3, <1>4, <1>5, <1>6, <1>7, AnonStart

\* What the tables say does not depend on what the frames hold.
LEMMA SameState ==
  ASSUME TablesInv, UNCHANGED tvars
  PROVE  Types' /\ Halves' /\ Place' /\ Early' /\ Translates' /\ (\E L : Trees(L))'
<1>1. Types /\ Halves /\ Place /\ Early /\ Translates /\ \E L : Trees(L)
  BY Zenon DEF TablesInv
<1>2. /\ UNCHANGED <<pc, todo, call, chunk, i, tab, free, want>>
      /\ UNCHANGED <<nx, io_size, procs, calls>>
      /\ UNCHANGED <<dir, offset, len, len_current, index, lvl>>
  BY DEF tvars, kvars, itervars
<1>3. Types' /\ Halves' /\ Place' /\ Early'
  BY <1>1, <1>2 DEF Types, Halves, KernelHalfShared, Early, Place, Walking, Walk3,
     Walk2, Walk1, Walk0, Between, Finished, Turn, Down2, Down3, Made, Fresh2, Fresh1, Fresh0,
     InLoop, Behind, Ahead, Entry1, Entry2, Entry3
<1>4. (\E L : Trees(L))'
  BY <1>1, <1>2, SameTrees, Zenon
<1>5. Cursor' = Cursor /\ Pending' = Pending
  BY <1>2 DEF Cursor, Ahead, Pending
<1>6. Translates'
  <2>1. CASE pc = "wild"
    BY <1>2, <2>1 DEF Translates
  <2>2. CASE pc # "wild"
    <3>1. \A v \in Pages : Leaf(tab', v) = Leaf(tab, v)
      BY <1>2 DEF Leaf, Reached, Entry1, Entry2, Entry3
    <3> QED
      BY <1>1, <1>2, <1>5, <2>2, <3>1, SameTranslation
  <2> QED
    BY <2>1, <2>2
<1> QED
  BY <1>3, <1>4, <1>6

\* Filling a page changes no table.
LEMMA FillStep ==
  ASSUME TablesInv, Known, Fill
  PROVE  TablesInv'
<1>1. UNCHANGED tvars /\ UNCHANGED cr3 /\ load \in DOMAIN Items
  BY DEF Fill
<1>2. load \in Nat \ {0} /\ Roots
  BY <1>1, ItemTypes, Zenon DEF TablesInv
<1>3. procs = loaded \cup {Newest} /\ Newest \in procs
  BY <1>2, NewestIn
<1>4. \/ load' = 0 /\ loaded' = loaded \cup {Newest}
      \/ load' = load + 1 /\ loaded' = loaded
  BY DEF Fill
<1>5. procs' = procs
  BY <1>1 DEF tvars, kvars
<1>6. Roots'
  <2>1. CASE load' = 0 /\ loaded' = loaded \cup {Newest}
    BY <1>1, <1>2, <1>3, <1>5, <2>1 DEF Roots
  <2>2. CASE load' = load + 1 /\ loaded' = loaded
    BY <1>1, <1>2, <1>5, <2>2 DEF Roots
  <2> QED
    BY <1>4, <2>1, <2>2
<1>7. Types' /\ Halves' /\ Place' /\ Early' /\ Translates' /\ (\E L : Trees(L))'
  BY <1>1, SameState
<1> QED
  BY <1>6, <1>7, Zenon DEF TablesInv

\* After the last call of a behaviour nothing changes.
LEMMA HaltStep ==
  ASSUME TablesInv, UNCHANGED vars
  PROVE  TablesInv'
<1>1. UNCHANGED tvars /\ UNCHANGED <<cr3, load, loaded>>
  BY DEF vars, pvars
<1>2. procs' = procs /\ Roots
  BY <1>1, Zenon DEF tvars, kvars, TablesInv
<1>3. Roots'
  BY <1>1, <1>2 DEF Roots
<1>4. Types' /\ Halves' /\ Place' /\ Early' /\ Translates' /\ (\E L : Trees(L))'
  BY <1>1, SameState
<1> QED
  BY <1>3, <1>4, Zenon DEF TablesInv

\* unmap_lomem takes the first entries of the root away, and the pages under them.
LEMMA LomemStep ==
  ASSUME TablesInv, unmap_lomem, UNCHANGED pvars
  PROVE  TablesInv'
<1>1. Types /\ Halves /\ Roots /\ Place /\ Translates /\ \E L : Trees(L)
  BY Zenon DEF TablesInv
<1>2. PICK L : Trees(L)
  BY <1>1
<1>3. Tree(tab, L, procs)
  BY <1>1, <1>2, StateTree
<1>4. PICK N \in Nat : N = Len(Sections)
  BY SectionCount
<1>5. pc = "idle" /\ todo = N + 3 /\ todo' = N + 4
  BY <1>4 DEF unmap_lomem, InitStep
<1>6. /\ UNCHANGED <<pc, nx, io_size, procs, call, chunk, i, free, cr3, load, loaded>>
      /\ UNCHANGED <<dir, offset, len, len_current, index, lvl>>
  BY DEF unmap_lomem, itervars, pvars
<1>7. tab' = [tab EXCEPT ![Root] = [x \in Index |-> IF x \in Lomem THEN Absent ELSE tab[Root][x]]]
  BY DEF unmap_lomem
<1>8. /\ Tree(tab', L, procs) /\ DOMAIN tab' = DOMAIN tab
      /\ \A t \in DOMAIN tab, x \in Index :
           tab'[t][x] = IF t = Root /\ x \in Lomem THEN Absent ELSE tab[t][x]
      /\ \A w \in Nat : Leaf(tab', w) = IF Offset0(w, 3) \in Lomem THEN Absent ELSE Leaf(tab, w)
  <2>1. tab' = Cleared(tab)
    BY <1>7 DEF Cleared
  <2>2. PICK U : U = tab'
    OBVIOUS
  <2>3. /\ Tree(U, L, procs) /\ DOMAIN U = DOMAIN tab
        /\ \A t \in DOMAIN tab, x \in Index :
             U[t][x] = IF t = Root /\ x \in Lomem THEN Absent ELSE tab[t][x]
        /\ \A w \in Nat : Leaf(U, w) = IF Offset0(w, 3) \in Lomem THEN Absent ELSE Leaf(tab, w)
    BY <1>3, <2>1, <2>2, ClearLow
  <2> QED
    BY <2>2, <2>3
<1>9. procs = {}
  BY <1>1, <1>4, <1>5 DEF Halves
<1>10. Trees(L)'
  <2>1. ~Absent.present
    BY ZeroEntries
  <2>2. ASSUME NEW t \in DOMAIN tab, NEW x \in Index, tab'[t][x].present
        PROVE  tab[t][x].present /\ tab'[t][x] = tab[t][x]
    BY <1>8, <2>1, <2>2
  <2>3. \A t \in DOMAIN tab, x \in Index : tab'[t][x].present =>
          /\ tab'[t][x].frame \notin free
          /\ L[t] = 0 => tab'[t][x].frame \notin Pool \cap DOMAIN tab
    BY <1>2, <2>2, Zenon DEF Trees
  <2>4. free \cap DOMAIN tab = {}
    BY <1>2 DEF Trees
  <2>5. Leveled(tab', L, {Root} \cup procs) /\ PointedOnce(tab', L, DOMAIN tab' \ procs, Pool)
    BY <1>8 DEF Tree
  <2>6. procs' = procs /\ free' = free
    BY <1>6
  <2> QED
    BY <1>8, <2>3, <2>4, <2>5, <2>6 DEF Trees
<1>11. want' = [v \in {u \in DOMAIN want : u \div Span(3) \notin Lomem} |-> want[v]]
  BY DEF unmap_lomem
<1>12. DOMAIN want \subseteq Pages /\ want \in [DOMAIN want -> Wants]
       /\ \A v \in DOMAIN want : want[v].kind # "anon" => want[v].frame \notin Pool
  BY <1>1 DEF Types
<1>13. DOMAIN want' \subseteq Pages /\ want' \in [DOMAIN want' -> Wants]
       /\ \A v \in DOMAIN want' : want'[v].kind # "anon" => want'[v].frame \notin Pool
  BY <1>11, <1>12
<1>14. todo' \in Nat \ {0}
  BY <1>5
<1>15. Types'
  BY <1>1, <1>6, <1>13, <1>14 DEF Types
<1>16. call = NoCallYet /\ Pending = {} /\ \A v \in Pages : Kept(v)
  BY <1>1, <1>5, AtRest
<1>17. Place'
  BY <1>5, <1>6, <1>16 DEF Place, Walking
<1>18. Pending' = {}
  BY <1>6, <1>16 DEF Pending, Cursor, Ahead
<1>19. ASSUME NEW v \in Pages
       PROVE  Kept(v)'
  <2>1. v \in Nat /\ Offset0(v, 3) = v \div Span(3)
    BY TopIndex
  <2>2. Leaf(tab, v)' = IF v \div Span(3) \in Lomem THEN Absent ELSE Leaf(tab, v)
    <3>1. Leaf(tab', v) = IF v \div Span(3) \in Lomem THEN Absent ELSE Leaf(tab, v)
      BY <1>8, <2>1
    <3> QED
      BY <3>1 DEF Leaf, Reached, Entry1, Entry2, Entry3
  <2>3. v \in DOMAIN want' <=> v \in DOMAIN want /\ v \div Span(3) \notin Lomem
    BY <1>11
  <2>4. v \in DOMAIN want' => want'[v] = want[v]
    BY <1>11
  <2>5. ~Absent.present
    BY ZeroEntries
  <2>6. Kept(v)
    BY <1>16
  <2>7. CASE v \div Span(3) \in Lomem
    <3>1. Leaf(tab, v)' = Absent /\ v \notin DOMAIN want'
      BY <2>2, <2>3, <2>7
    <3> QED
      BY <2>5, <3>1 DEF Kept
  <2>8. CASE v \div Span(3) \notin Lomem
    <3>1. Leaf(tab, v)' = Leaf(tab, v) /\ (v \in DOMAIN want' <=> v \in DOMAIN want)
      BY <2>2, <2>3, <2>8
    <3> QED
      BY <2>4, <2>6, <3>1, Zenon DEF Kept, Backed
  <2> QED
    BY <2>7, <2>8
<1>20. Translates'
  BY <1>18, <1>19 DEF Translates
<1>21. Halves'
  <2>1. KernelHalfShared'
    BY <1>6, <1>9 DEF KernelHalfShared
  <2>2. Root \in DOMAIN tab
    BY <1>3 DEF Tree, Leveled
  <2>3. ASSUME NEW x \in Kernel
        PROVE  x \in Index /\ x \notin Lomem
    BY <2>3, Sizes, TableAssumption DEF Kernel, Index, Lomem
  <2>4. \A x \in Kernel : tab'[Root][x].present
    BY <1>1, <1>5, <1>8, <2>2, <2>3 DEF Halves
  <2> QED
    BY <1>4, <1>5, <1>6, <1>9, <2>1, <2>4 DEF Halves
<1>22. Roots'
  BY <1>1, <1>6, Zenon DEF Roots
<1>23. Early'
  BY <1>4, <1>5 DEF Early
<1> QED
  BY <1>10, <1>15, <1>17, <1>20, <1>21, <1>22, <1>23, Zenon DEF TablesInv

\* proc_create makes one more root, with the kernel half of the one loaded.
LEMMA CreateGets ==
  ASSUME TablesInv, proc_create, free # {}
  PROVE  TablesInv'
<1>1. Types /\ Halves /\ Roots /\ Place /\ Translates /\ \E L : Trees(L)
  BY Zenon DEF TablesInv
<1>2. PICK L : Trees(L)
  BY <1>1
<1>3. Tree(tab, L, procs) /\ Pool \subseteq Nat /\ Root \notin Pool /\ procs \subseteq Pool
      /\ free \subseteq Pool
  BY <1>1, <1>2, StateTree
<1>4. PICK f : f = Lowest(free)
  OBVIOUS
<1>5. f \in free /\ f \in Pool
  <2>1. free # {} /\ free \subseteq Nat
    BY <1>3 DEF proc_create, create_cr3
  <2>2. Lowest(free) \in free
    BY <2>1, LowestIn
  <2> QED
    BY <1>3, <1>4, <2>2
<1>6. f \notin DOMAIN tab /\ f # Root /\ f \notin procs
  BY <1>2, <1>3, <1>5 DEF Trees, Tree, Leveled
<1>7. /\ pc = "idle" /\ todo > Len(Sections) + 3 /\ load = 0 /\ load' = 1
      /\ UNCHANGED <<pc, todo, nx, io_size, calls, call, chunk, i, want, cr3, loaded>>
      /\ UNCHANGED <<dir, offset, len, len_current, index, lvl>>
      /\ free' = free \ {f} /\ procs' = procs \cup {f}
  BY <1>4 DEF proc_create, create_cr3, Ready, itervars
<1>8. PICK r : r = cr3
  OBVIOUS
<1>9. r \in {Root} \cup procs
  BY <1>1, <1>8 DEF Roots
<1>10. PICK U : U = tab'
  OBVIOUS
<1>11. tab' = [x \in DOMAIN tab \cup {f} |->
                 IF x = f THEN [y \in Index |-> IF y \in Copied THEN tab[r][y] ELSE Absent]
                 ELSE tab[x]]
  BY <1>4, <1>8 DEF proc_create, create_cr3
<1>12. /\ DOMAIN U = DOMAIN tab \cup {f}
       /\ U = [t \in DOMAIN U |-> IF t = f THEN [y \in Index |-> IF y \in Copied THEN tab[r][y] ELSE Absent]
                                  ELSE tab[t]]
  BY <1>10, <1>11
<1>13. PICK M : M = [x \in DOMAIN tab \cup {f} |-> IF x = f THEN 3 ELSE L[x]]
  OBVIOUS
<1>14. /\ Tree(U, M, procs \cup {f})
       /\ \A x \in Index : U[f][x] = IF x \in Kernel THEN tab[r][x] ELSE Absent
       /\ \A w \in Nat : Leaf(U, w) = Leaf(tab, w)
  <2>1. Tree(tab, L, procs) /\ f \in Pool /\ f \notin DOMAIN tab /\ r \in {Root} \cup procs
    BY <1>3, <1>5, <1>6, <1>9
  <2>2. /\ Tree(U, M, procs \cup {f})
        /\ \A x \in Index : U[f][x] = IF x \in Kernel THEN tab[r][x] ELSE Absent
        /\ \A w \in Nat : Entry3(U, w) = Entry3(tab, w) /\ Leaf(U, w) = Leaf(tab, w)
    BY <1>12, <1>13, <2>1, NewRoot, SMTT(30)
  <2> QED
    BY <2>2
<1>15. \A t \in DOMAIN tab : U[t] = tab[t]
  BY <1>6, <1>12
<1>16. Root \in DOMAIN tab /\ r \in DOMAIN tab /\ procs \subseteq DOMAIN tab
  BY <1>3, <1>9 DEF Tree, Leveled
<1>17. Trees(M)'
  <2>1. free' \cap DOMAIN U = {}
    BY <1>2, <1>7, <1>12 DEF Trees
  <2>2. ASSUME NEW t \in DOMAIN tab, NEW x \in Index, tab[t][x].present
        PROVE  tab[t][x].frame \notin free /\ (L[t] = 0 => tab[t][x].frame \notin Pool \cap DOMAIN tab)
    BY <1>2, <2>2 DEF Trees
  <2>3. ASSUME NEW t \in DOMAIN U, NEW x \in Index, U[t][x].present
        PROVE  /\ U[t][x].frame \notin free'
               /\ M[t] = 0 => U[t][x].frame \notin Pool \cap DOMAIN U
    <3>1. CASE t = f
      <4>1. ~Absent.present
        BY ZeroEntries
      <4>2. U[f][x] = tab[r][x] /\ tab[r][x].present
        BY <1>14, <2>3, <3>1, <4>1
      <4>3. U[t][x].frame \notin free
        BY <1>16, <2>2, <3>1, <4>2
      <4>4. M[t] = 3
        BY <1>13, <3>1
      <4> QED
        BY <1>7, <4>3, <4>4
    <3>2. CASE t # f
      <4>1. t \in DOMAIN tab /\ U[t][x] = tab[t][x] /\ M[t] = L[t]
        BY <1>12, <1>13, <1>15, <3>2
      <4>2. U[t][x].frame \notin free /\ (M[t] = 0 => U[t][x].frame \notin Pool \cap DOMAIN tab)
        BY <2>2, <2>3, <4>1
      <4>3. U[t][x].frame # f
        BY <1>5, <4>2
      <4> QED
        BY <1>7, <1>12, <4>2, <4>3
    <3> QED
      BY <3>1, <3>2
  <2>4. Leveled(tab', M, {Root} \cup procs') /\ PointedOnce(tab', M, DOMAIN tab' \ procs', Pool)
    <3>1. {Root} \cup procs' = {Root} \cup (procs \cup {f})
      BY <1>7
    <3> QED
      BY <1>7, <1>10, <1>14, <3>1 DEF Tree
  <2> QED
    BY <1>10, <2>1, <2>3, <2>4 DEF Trees
<1>18. (\E K : Trees(K))'
  BY <1>17
<1>19. Types'
  BY <1>1, <1>3, <1>5, <1>7 DEF Types
<1>20. Place'
  BY <1>1, <1>7 DEF Place, Walking
<1>21. Translates'
  <2>1. Pending' = Pending /\ Cursor' = Cursor
    BY <1>7 DEF Pending, Cursor, Ahead
  <2>2. \A v \in Pages : Leaf(tab', v) = Leaf(tab, v)
    BY <1>10, <1>14, TopIndex
  <2> QED
    BY <1>1, <1>7, <2>1, <2>2, SameTranslation
<1>22. Halves'
  <2>1. \A x \in Kernel : x \in Index
    BY Sizes, TableAssumption DEF Kernel, Index
  <2>2. \A p \in procs, x \in Kernel : tab[p][x] = tab[Root][x]
    BY <1>1 DEF Halves, KernelHalfShared
  <2>3. ASSUME NEW p \in procs \cup {f}, NEW x \in Kernel
        PROVE  U[p][x] = U[Root][x]
    BY <1>9, <1>14, <1>15, <1>16, <2>1, <2>2
  <2>4. KernelHalfShared'
    BY <1>7, <1>10, <2>3 DEF KernelHalfShared
  <2>5. \A x \in Kernel : tab'[Root][x].present
    BY <1>1, <1>7, <1>10, <1>15, <1>16 DEF Halves
  <2>6. ~(todo' <= Len(Sections) + 3)
    <3>1. PICK N \in Nat : N = Len(Sections)
      BY SectionCount
    <3> QED
      BY <1>1, <1>7, <3>1 DEF Types
  <2> QED
    BY <1>7, <2>4, <2>5, <2>6 DEF Halves
<1>23. Roots'
  <2>1. procs' \ loaded' = {f} /\ loaded' \subseteq procs' /\ f \in procs' /\ cr3' \in {Root} \cup procs'
    BY <1>1, <1>6, <1>7 DEF Roots
  <2>2. load' # 0
    BY <1>7
  <2>3. \E p \in procs' : procs' \ loaded' = {p}
    BY <2>1
  <2> QED
    BY <2>1, <2>2, <2>3 DEF Roots
<1>24. Early'
  <2>1. PICK N \in Nat : N = Len(Sections)
    BY SectionCount
  <2>2. ~(todo' <= Len(Sections) + 1)
    BY <1>1, <1>7, <2>1 DEF Types
  <2> QED
    BY <2>2 DEF Early
<1> QED
  BY <1>18, <1>19, <1>20, <1>21, <1>22, <1>23, <1>24, Zenon DEF TablesInv

\* Without a frame for its root no process is created.
LEMMA CreateStep ==
  ASSUME TablesInv, proc_create
  PROVE  TablesInv'
<1>1. CASE free = {}
  <2>1. /\ pc' = "wild" /\ UNCHANGED <<cr3, load, loaded>>
        /\ UNCHANGED <<todo, call, itervars, chunk, i, tab, free, kvars, want>>
    BY <1>1 DEF proc_create, create_cr3, kvars
  <2> QED
    BY <2>1, WildStep
<1> QED
  BY <1>1, CreateGets

\* init_nx maps nothing.
LEMMA NxStep ==
  ASSUME TablesInv, init_nx, UNCHANGED pvars
  PROVE  TablesInv'
<1>1. Types /\ Halves /\ Roots /\ Place /\ Translates /\ Early /\ \E L : Trees(L)
  BY Zenon DEF TablesInv
<1>2. /\ pc = "nx" /\ pc' = "half"
      /\ UNCHANGED <<todo, io_size, procs, calls, call, chunk, i, tab, free, want>>
      /\ UNCHANGED <<dir, offset, len, len_current, index, lvl>>
      /\ UNCHANGED <<cr3, load, loaded>>
  BY DEF init_nx, itervars, pvars
<1>3. Types'
  BY <1>1, <1>2 DEF Types
<1>4. Halves'
  BY <1>1, <1>2 DEF Halves, KernelHalfShared
<1>5. Roots' /\ Early'
  BY <1>1, <1>2 DEF Roots, Early
<1>6. (\E L : Trees(L))'
  BY <1>1, <1>2, SameTrees, Zenon
<1>7. call = NoCallYet /\ Pending = {} /\ \A v \in Pages : Kept(v)
  BY <1>1, <1>2, AtRest
<1>8. Place'
  BY <1>2, <1>7 DEF Place, Walking
<1>9. PagesOf(call) = {} /\ call' = call
  BY <1>2, <1>7 DEF PagesOf, NoCallYet
<1>10. Pending' = {}
  BY <1>9 DEF Pending, PagesOf
<1>11. ASSUME NEW v \in Pages
       PROVE  Kept(v)'
  <2>1. Leaf(tab, v)' = Leaf(tab, v)
    BY <1>2 DEF Leaf, Reached, Entry1, Entry2, Entry3
  <2> QED
    BY <1>2, <1>7, <2>1 DEF Kept, Backed
<1>12. Translates'
  BY <1>10, <1>11 DEF Translates
<1> QED
  BY <1>3, <1>4, <1>5, <1>6, <1>8, <1>12, Zenon DEF TablesInv

\* Before init_mem has completed the kernel half nothing is kept but its state.
LEMMA HalfRest ==
  ASSUME TablesInv, pc = "half", DOMAIN tab \subseteq DOMAIN tab',
         UNCHANGED <<todo, io_size, procs, call, chunk, i>>,
         UNCHANGED <<dir, offset, len, len_current, index, lvl>>,
         UNCHANGED <<cr3, load, loaded>>,
         pc' \in {"half", "idle"}, free' \subseteq Pool,
         pc' = "idle" => \A x \in Kernel : tab'[Root][x].present,
         DOMAIN want' = DOMAIN want, want' \in [DOMAIN want -> Wants],
         \A v \in DOMAIN want : want'[v].kind = want[v].kind /\ want'[v].frame = want[v].frame,
         \A v \in Pages : Kept(v)'
  PROVE  /\ Types' /\ Halves' /\ Roots' /\ Place' /\ Translates' /\ Early'
         /\ procs = {} /\ todo = 1
<1>1. Types /\ Halves /\ Roots /\ Place /\ Translates /\ Early
  BY Zenon DEF TablesInv
<1>2. todo = 1 /\ procs = {}
  <2>1. PICK N \in Nat : N = Len(Sections)
    BY SectionCount
  <2>2. todo = 1
    BY <1>1 DEF Halves
  <2>3. todo <= N + 3
    BY <2>2
  <2> QED
    BY <1>1, <2>1, <2>2, <2>3 DEF Halves
<1>3. Types'
  BY <1>1 DEF Types
<1>4. Halves'
  BY <1>2 DEF Halves, KernelHalfShared
<1>5. Roots'
  BY <1>1 DEF Roots
<1>6. Early'
  <2>1. todo <= Len(Sections) + 1 => DOMAIN want = DOMAIN BootWant
                                     /\ \A v \in DOMAIN want : want[v].kind = "image"
    BY <1>1, Zenon DEF Early
  <2> QED
    BY <2>1, Zenon DEF Early
<1>7. call = NoCallYet /\ Pending = {}
  BY <1>1, AtRest
<1>8. Place'
  BY <1>7 DEF Place, Walking
<1>9. PagesOf(call) = {} /\ call' = call
  BY <1>7 DEF PagesOf, NoCallYet
<1>10. Pending' = {}
  BY <1>9 DEF Pending, PagesOf
<1>12. Translates'
  BY <1>10 DEF Translates
<1> QED
  BY <1>2, <1>3, <1>4, <1>5, <1>6, <1>8, <1>12

\* A missing entry of the kernel half gets an empty table.
LEMMA HalfAdds ==
  ASSUME Types, NEW L, Trees(L), set_kernel_half, free # {}
  PROVE  \E c, z, e : Adds(c, z, e) /\ c = Root /\ z \in Kernel
<1>1. Tree(tab, L, procs) /\ Pool \subseteq Nat /\ free \subseteq Pool
  BY StateTree
<1>2. Missing # {} /\ free # {} /\ UNCHANGED procs
  BY DEF set_kernel_half, kvars
<1>3. PICK c \in DOMAIN tab \ procs : c = Root
  BY <1>1 DEF Tree, Leveled
<1>4. PICK z \in Index : z = Lowest(Missing) /\ ~tab[c][z].present /\ z \in Kernel
  <2>1. Missing \subseteq Nat
    BY Sizes, TableAssumption DEF Missing, Kernel
  <2>2. Lowest(Missing) \in Missing
    BY <1>2, <2>1, LowestIn
  <2>3. Kernel \subseteq Index
    BY Sizes, TableAssumption DEF Kernel, Index
  <2>4. \A x \in Missing : x \in Kernel /\ ~tab[Root][x].present
    BY DEF Missing
  <2> QED
    BY <1>3, <2>2, <2>3, <2>4
<1>5. c \in DOMAIN tab \ procs /\ z \in Index /\ ~tab[c][z].present
  BY <1>3, <1>4
<1>6. PICK f \in free : f = Lowest(free)
  BY <1>1, <1>2, LowestIn
<1>7. PICK e \in EntryType : e = Entry(f, {"U"}) /\ e.present /\ e.frame = f
  <2>1. f \in Nat
    BY <1>1, <1>6
  <2>2. Entry(f, {"U"}) \in EntryType
    BY <2>1 DEF Entry, EntryType, Flags
  <2> QED
    BY <2>2 DEF Entry
<1>8. /\ tab' = [x \in DOMAIN tab \cup {f} |->
                   IF x = f THEN ZeroTable
                   ELSE IF x = c THEN [tab[x] EXCEPT ![z] = e] ELSE tab[x]]
      /\ free' = free \ {f}
  BY <1>3, <1>4, <1>6, <1>7 DEF set_kernel_half
<1>9. Adds(c, z, e)
  BY <1>2, <1>5, <1>6, <1>7, <1>8 DEF Adds
<1> QED
  BY <1>3, <1>4, <1>9

\* A missing entry of the kernel half gets a table, while there are frames.
LEMMA HalfGets ==
  ASSUME TablesInv, set_kernel_half, free # {}, UNCHANGED pvars
  PROVE  TablesInv'
<1>1. Types /\ Halves /\ Place /\ Translates /\ \E L : Trees(L)
  BY Zenon DEF TablesInv
<1>2. PICK L : Trees(L)
  BY <1>1
<1>3. Tree(tab, L, procs)
  BY <1>1, <1>2, StateTree
<1>31. Pool \subseteq Nat /\ free \subseteq Pool
  BY <1>1, <1>2, StateTree
<1>4. /\ pc = "half" /\ pc' = "half" /\ Missing # {} /\ free # {}
      /\ UNCHANGED <<todo, io_size, procs, call, chunk, i, want, nx>>
      /\ UNCHANGED <<dir, offset, len, len_current, index, lvl>>
      /\ UNCHANGED <<cr3, load, loaded>>
  BY DEF set_kernel_half, itervars, kvars, pvars
<1>5. PICK c, z, e : Adds(c, z, e) /\ c = Root
  BY <1>1, <1>2, HalfAdds
<1>6. L[c] > 0
  BY <1>3, <1>5 DEF Tree, Leveled
<1>12. Adds(c, z, e) /\ free' = free \ {e.frame}
  BY <1>5 DEF Adds
<1>13. Added(c, z, e)
  BY <1>1, <1>2, <1>12, AddedEntries
<1>14. (\E M : Trees(M))'
  BY <1>1, <1>2, <1>6, <1>12, AddedTree
<1>21. \A v \in Pages : Kept(v)
  BY <1>1, <1>4, AtRest
<1>22. ASSUME NEW v \in Pages
       PROVE  Kept(v)'
  <2>1. Leaf(tab', v) = Leaf(tab, v)
    BY <1>1, <1>2, <1>6, <1>12, AddedLeaf
  <2>2. Leaf(tab, v)' = Leaf(tab, v)
    BY <2>1 DEF Leaf, Reached, Entry1, Entry2, Entry3
  <2> QED
    BY <1>4, <1>21, <2>2 DEF Kept, Backed
<1>23. want \in [DOMAIN want -> Wants]
  BY <1>1 DEF Types
<1>24. free' \subseteq Pool /\ DOMAIN tab \subseteq DOMAIN tab'
  BY <1>31, <1>12, <1>13 DEF Added
<1>25. Types' /\ Halves' /\ Roots' /\ Place' /\ Translates' /\ Early'
  BY <1>4, <1>22, <1>23, <1>24, HalfRest
<1> QED
  BY <1>14, <1>25, Zenon DEF TablesInv

LEMMA HalfStep ==
  ASSUME TablesInv, set_kernel_half, UNCHANGED pvars
  PROVE  TablesInv'
<1>1. CASE free = {}
  <2>1. /\ pc' = "wild" /\ UNCHANGED <<cr3, load, loaded>>
        /\ UNCHANGED <<todo, call, itervars, chunk, i, tab, free, kvars, want>>
    BY <1>1 DEF set_kernel_half, pvars
  <2> QED
    BY <2>1, WildStep
<1> QED
  BY <1>1, HalfGets

\* Every table of the image gets its present entries marked writable.
LEMMA HierarchyEntries ==
  ASSUME NEW L, NEW P, Tree(tab, L, P), NEW S, S = ImageTables, set_kernel_hierarchy_mem_prot
  PROVE  /\ DOMAIN tab' = DOMAIN tab /\ tab' \in [DOMAIN tab' -> TableType]
         /\ \A t \in DOMAIN tab, x \in Index :
              /\ tab'[t][x] \in EntryType
              /\ tab'[t][x].present = tab[t][x].present /\ tab'[t][x].frame = tab[t][x].frame
              /\ (tab[t][x].present /\ t \in S) => tab'[t][x].flags = tab[t][x].flags \cup {"W"}
              /\ t \notin S => tab'[t][x].flags = tab[t][x].flags
<1>1. tab' = [t \in DOMAIN tab |->
                IF t \notin S THEN tab[t]
                ELSE [x \in Index |-> IF tab[t][x].present
                                      THEN [tab[t][x] EXCEPT !.flags = @ \cup {"W"}]
                                      ELSE tab[t][x]]]
  BY DEF set_kernel_hierarchy_mem_prot
<1>2. ASSUME NEW t \in DOMAIN tab, NEW x \in Index
      PROVE  /\ tab'[t][x] \in EntryType
             /\ tab'[t][x].present = tab[t][x].present /\ tab'[t][x].frame = tab[t][x].frame
             /\ (tab[t][x].present /\ t \in S) => tab'[t][x].flags = tab[t][x].flags \cup {"W"}
             /\ t \notin S => tab'[t][x].flags = tab[t][x].flags
  <2>1. tab[t][x] \in EntryType
    BY EntryIn DEF Tree
  <2>2. tab'[t][x] = IF t \notin S THEN tab[t][x]
                     ELSE IF tab[t][x].present
                     THEN [tab[t][x] EXCEPT !.flags = @ \cup {"W"}] ELSE tab[t][x]
    BY <1>1
  <2> QED
    BY <2>1, <2>2 DEF EntryType, Flags
<1>3. \A t \in DOMAIN tab : tab[t] \in TableType
  BY DEF Tree, Leveled
<1>4. ASSUME NEW t \in DOMAIN tab
      PROVE  tab'[t] \in TableType
  <2>1. tab'[t] = [x \in Index |-> tab'[t][x]]
    BY <1>1, <1>3 DEF TableType
  <2> QED
    BY <1>2, <2>1, Zenon DEF TableType
<1>5. DOMAIN tab' = DOMAIN tab /\ tab' \in [DOMAIN tab' -> TableType]
  BY <1>1, <1>4
<1> QED
  BY <1>2, <1>5

\* The pages of the image become writable.
LEMMA HierarchyStep ==
  ASSUME TablesInv, set_kernel_hierarchy_mem_prot, UNCHANGED pvars
  PROVE  TablesInv'
<1>1. Types /\ Halves /\ Place /\ Translates /\ \E L : Trees(L)
  BY Zenon DEF TablesInv
<1>2. PICK L : Trees(L)
  BY <1>1
<1>3. Tree(tab, L, procs)
  BY <1>1, <1>2, StateTree
<1>4. /\ pc = "half" /\ pc' = "idle" /\ Missing = {}
      /\ UNCHANGED <<todo, io_size, procs, call, chunk, i, free, nx>>
      /\ UNCHANGED <<dir, offset, len, len_current, index, lvl>>
      /\ UNCHANGED <<cr3, load, loaded>>
  BY DEF set_kernel_hierarchy_mem_prot, itervars, kvars, pvars
<1>5. /\ Kernel \subseteq Index /\ F - 1 \in Kernel
  BY Sizes, TableAssumption DEF Kernel, Index
<1>6. \A x \in Kernel : tab[Root][x].present
  BY <1>4 DEF Missing
<1>7. PICK S : S = ImageTables
  OBVIOUS
<1>8. want' = [v \in DOMAIN want |-> IF v \div Span(3) = F - 1
                                    THEN [want[v] EXCEPT !.flags = @ \cup {"W"}] ELSE want[v]]
  BY DEF set_kernel_hierarchy_mem_prot
<1>9. \A t \in DOMAIN tab, x \in Index :
        /\ tab'[t][x] \in EntryType
        /\ tab'[t][x].present = tab[t][x].present /\ tab'[t][x].frame = tab[t][x].frame
        /\ (tab[t][x].present /\ t \in S) => tab'[t][x].flags = tab[t][x].flags \cup {"W"}
        /\ t \notin S => tab'[t][x].flags = tab[t][x].flags
  BY <1>3, <1>7, HierarchyEntries
<1>10. DOMAIN tab' = DOMAIN tab /\ tab' \in [DOMAIN tab' -> TableType]
  BY <1>3, <1>7, HierarchyEntries
<1>11. Tree(tab', L, procs)
  <2>1. \A t \in DOMAIN tab, x \in Index :
          tab'[t][x].present => tab[t][x].present /\ tab'[t][x].frame = tab[t][x].frame
    BY <1>9
  <2> QED
    BY <1>3, <1>10, <2>1, Thinned
<1>12. Trees(L)'
  <2>1. \A t \in DOMAIN tab, x \in Index : tab'[t][x].present =>
          /\ tab'[t][x].frame \notin free
          /\ L[t] = 0 => tab'[t][x].frame \notin Pool \cap DOMAIN tab
    BY <1>2, <1>9 DEF Trees
  <2>2. free \cap DOMAIN tab = {}
    BY <1>2 DEF Trees
  <2> QED
    BY <1>4, <1>10, <1>11, <2>1, <2>2 DEF Trees, Tree
<1>13. ASSUME NEW v \in Pages
       PROVE  /\ Leaf(tab', v).present <=> Leaf(tab, v).present
              /\ Leaf(tab, v).present =>
                   /\ Leaf(tab', v).frame = Leaf(tab, v).frame
                   /\ Leaf(tab', v).flags = IF v \div Span(3) = F - 1
                                            THEN Leaf(tab, v).flags \cup {"W"}
                                            ELSE Leaf(tab, v).flags
  <2>1. v \in Nat /\ Offset0(v, 3) = v \div Span(3)
    BY TopIndex
  <2>2. /\ Root \in DOMAIN tab
        /\ Entry3(tab, v).present => Entry3(tab, v).frame \in DOMAIN tab
        /\ Entry3(tab, v).present /\ Entry2(tab, v).present => Entry2(tab, v).frame \in DOMAIN tab
        /\ Reached(tab, v) => Entry1(tab, v).frame \in DOMAIN tab
    BY <1>3, <2>1, WayLevels
  <2>3. /\ Offset0(v, 1) \in Index /\ Offset0(v, 2) \in Index /\ Offset0(v, 3) \in Index
        /\ v % F \in Index
    BY <2>1, IndexIn
  <2>4. Entry3(tab', v).present = Entry3(tab, v).present
        /\ Entry3(tab', v).frame = Entry3(tab, v).frame
    BY <1>9, <2>2, <2>3 DEF Entry3
  <2>5. Entry3(tab, v).present => /\ Entry2(tab', v).present = Entry2(tab, v).present
                                  /\ Entry2(tab', v).frame = Entry2(tab, v).frame
    BY <1>9, <2>2, <2>3, <2>4 DEF Entry2
  <2>6. (Entry3(tab, v).present /\ Entry2(tab, v).present) =>
          /\ Entry1(tab', v).present = Entry1(tab, v).present
          /\ Entry1(tab', v).frame = Entry1(tab, v).frame
    BY <1>9, <2>2, <2>3, <2>4, <2>5 DEF Entry1
  <2>7. CASE ~Reached(tab, v)
    <3>1. ~Reached(tab', v)
      BY <2>4, <2>5, <2>6, <2>7 DEF Reached
    <3> QED
      BY <2>7, <3>1, ZeroEntries DEF Leaf
  <2>8. CASE Reached(tab, v)
    <3>1. Reached(tab', v) /\ Entry1(tab', v).frame = Entry1(tab, v).frame
      BY <2>4, <2>5, <2>6, <2>8 DEF Reached
    <3>2. PICK t \in DOMAIN tab, x \in Index : t = Entry1(tab, v).frame /\ x = v % F
      BY <2>2, <2>3, <2>8
    <3>3. Leaf(tab, v) = tab[t][x] /\ Leaf(tab', v) = tab'[t][x]
      BY <2>8, <3>1, <3>2 DEF Leaf
    <3>4. t \in S <=> v \div Span(3) = F - 1
      BY <1>3, <1>5, <1>6, <1>7, <2>1, <2>8, <3>2, ImagePages
    <3>5. /\ tab'[t][x].present = tab[t][x].present /\ tab'[t][x].frame = tab[t][x].frame
          /\ (tab[t][x].present /\ t \in S) => tab'[t][x].flags = tab[t][x].flags \cup {"W"}
          /\ t \notin S => tab'[t][x].flags = tab[t][x].flags
      BY <1>9
    <3> QED
      BY <3>3, <3>4, <3>5
  <2> QED
    BY <2>7, <2>8
<1>14. DOMAIN want \subseteq Pages /\ want \in [DOMAIN want -> Wants] /\ free \subseteq Pool
  BY <1>1 DEF Types
<1>15. ASSUME NEW v \in DOMAIN want
       PROVE  /\ want'[v] \in Wants /\ want'[v].kind = want[v].kind /\ want'[v].frame = want[v].frame
              /\ want'[v].flags = IF v \div Span(3) = F - 1 THEN want[v].flags \cup {"W"}
                                  ELSE want[v].flags
  <2>1. want[v] \in Wants
    BY <1>14
  <2>2. want'[v] = IF v \div Span(3) = F - 1
                   THEN [want[v] EXCEPT !.flags = @ \cup {"W"}] ELSE want[v]
    BY <1>8
  <2> QED
    BY <2>1, <2>2 DEF Wants, Flags
<1>16. DOMAIN want' = DOMAIN want /\ want' \in [DOMAIN want -> Wants]
  BY <1>8, <1>15
<1>17. \A v \in Pages : Kept(v)
  BY <1>1, <1>4, AtRest
<1>18. ASSUME NEW v \in Pages
       PROVE  Kept(v)'
  <2>1. Leaf(tab, v)' = Leaf(tab', v)
    BY DEF Leaf, Reached, Entry1, Entry2, Entry3
  <2>2. Kept(v)
    BY <1>17
  <2>3. ASSUME v \in DOMAIN want
        PROVE  Leaf(tab', v).flags = want'[v].flags /\ Leaf(tab', v).frame = Leaf(tab, v).frame
    BY <1>13, <1>15, <2>2, <2>3 DEF Kept
  <2>4. ASSUME v \in DOMAIN want
        PROVE  Backed(v)'
    BY <1>15, <2>1, <2>2, <2>3, <2>4 DEF Kept, Backed
  <2>5. Leaf(tab', v).present <=> v \in DOMAIN want'
    BY <1>13, <1>16, <2>2 DEF Kept
  <2> QED
    BY <1>16, <2>1, <2>3, <2>4, <2>5 DEF Kept
<1>19. \A x \in Kernel : tab'[Root][x].present
  BY <1>3, <1>5, <1>6, <1>9 DEF Tree, Leveled
<1>20. Types' /\ Halves' /\ Roots' /\ Place' /\ Translates' /\ Early'
  <2>1. free' \subseteq Pool /\ DOMAIN tab \subseteq DOMAIN tab'
    BY <1>4, <1>10, <1>14
  <2>2. \A v \in DOMAIN want : want'[v].kind = want[v].kind /\ want'[v].frame = want[v].frame
    BY <1>15
  <2> QED
    BY <1>4, <1>16, <1>18, <1>19, <2>1, <2>2, HalfRest
<1> QED
  BY <1>12, <1>20, Zenon DEF TablesInv

(* The whole system *)

\* The image is the pages the boot loader's tables translate.
LEMMA ImageIs ==
  BootWant = [v \in {u \in Pages : Leaf(BootTables, u).present} |->
                [kind |-> "image", frame |-> Leaf(BootTables, v).frame,
                 flags |-> Leaf(BootTables, v).flags]]
  BY DEF BootWant, Leaf, Reached, Entry1, Entry2, Entry3, Offset0

\* The boot loader's tables are a tree whose leaves are entries that point
\* outside the pool.
LEMMA BootTree ==
  \E L : /\ Tree(BootTables, L, {})
         /\ \A v \in Pages : Leaf(BootTables, v).present =>
              /\ Leaf(BootTables, v).frame \in Nat \ Pool
              /\ Leaf(BootTables, v).flags \subseteq Flags
<1>1. PICK L : Leveled(BootTables, L, {Root}) /\ PointedOnce(BootTables, L, DOMAIN BootTables, {})
  BY BootTreeAssumption
<1>2. \A t \in DOMAIN BootTables, x \in Index :
        BootTables[t][x].present => BootTables[t][x].frame \notin Pool
  BY BootTreeAssumption
<1>3. Tree(BootTables, L, {})
  <2>1. PointedOnce(BootTables, L, DOMAIN BootTables \ {}, Pool)
    BY <1>1, <1>2 DEF PointedOnce
  <2>2. {Root} \cup {} = {Root}
    OBVIOUS
  <2> QED
    BY <1>1, <2>1, <2>2 DEF Tree
<1>4. ASSUME NEW v \in Pages, Leaf(BootTables, v).present
      PROVE  /\ Leaf(BootTables, v).frame \in Nat \ Pool
             /\ Leaf(BootTables, v).flags \subseteq Flags
  <2>1. v \in Nat
    BY TopIndex
  <2>2. Reached(BootTables, v)
    BY <1>4, ZeroEntries DEF Leaf
  <2>3. PICK t \in DOMAIN BootTables : t = Entry1(BootTables, v).frame
    BY <1>3, <2>1, <2>2, WayLevels
  <2>4. PICK x \in Index : x = v % F
    BY <2>1, IndexIn
  <2>5. Leaf(BootTables, v) = BootTables[t][x]
    BY <2>2, <2>3, <2>4 DEF Leaf
  <2>6. BootTables[t][x] \in EntryType
    BY <1>1, <2>3, <2>4, EntryIn
  <2> QED
    BY <1>2, <1>4, <2>3, <2>4, <2>5, <2>6 DEF EntryType
<1> QED
  BY <1>3, <1>4

\* The system starts with the boot loader's tables.
LEMMA InitTables ==
  ASSUME Init
  PROVE  TablesInv
<1>1. /\ pc = "nx" /\ todo = 1 /\ nx = FALSE /\ io_size = 0 /\ call = NoCallYet
      /\ dir = [l \in Levels |-> Root]
      /\ offset = Fresh /\ len = Fresh /\ len_current = Fresh /\ index = Fresh
      /\ lvl = 3 /\ chunk = NoChunk /\ i = 0
      /\ tab = BootTables /\ free = BootFree /\ procs = {} /\ want = BootWant
      /\ cr3 = Root /\ load = 0 /\ loaded = {}
  BY DEF Init, TablesInit
<1>2. PICK L : /\ Tree(BootTables, L, {})
               /\ \A v \in Pages : Leaf(BootTables, v).present =>
                    /\ Leaf(BootTables, v).frame \in Nat \ Pool
                    /\ Leaf(BootTables, v).flags \subseteq Flags
  BY BootTree
<1>3. PICK D : D = {u \in Pages : Leaf(BootTables, u).present}
  OBVIOUS
<1>4. /\ want = [v \in D |-> [kind |-> "image", frame |-> Leaf(BootTables, v).frame,
                              flags |-> Leaf(BootTables, v).flags]]
      /\ D \subseteq Pages
  BY <1>1, <1>3, ImageIs
<1>5. ASSUME NEW v \in D
      PROVE  want[v] \in Wants /\ want[v].kind = "image" /\ want[v].frame \notin Pool
             /\ want[v].frame = Leaf(BootTables, v).frame
             /\ want[v].flags = Leaf(BootTables, v).flags
  <2>1. Leaf(BootTables, v).frame \in Nat \ Pool /\ Leaf(BootTables, v).flags \subseteq Flags
    BY <1>2, <1>3
  <2> QED
    BY <1>4, <2>1 DEF Wants
<1>6. DOMAIN want = D /\ want \in [D -> Wants]
  BY <1>4, <1>5
<1>7. Types
  <2>1. call \in Calls
    BY <1>1 DEF NoCallYet, Calls, Prots
  <2>2. /\ dir \in [Levels -> Nat] /\ lvl \in Levels /\ Fresh \in [Levels -> Int]
        /\ chunk \in [depth : Levels, table : Nat, first : Int, length : Int]
    BY <1>1, PoolAssumption DEF Fresh, NoChunk, Levels
  <2>3. free \subseteq Pool /\ procs \subseteq Pool
    BY <1>1, PoolAssumption
  <2>4. /\ DOMAIN want \subseteq Pages /\ want \in [DOMAIN want -> Wants]
        /\ \A v \in DOMAIN want : want[v].kind # "anon" => want[v].frame \notin Pool
    BY <1>4, <1>5, <1>6
  <2>5. pc \in {"nx", "half", "idle", "iter", "chunk", "wild"} /\ todo \in Nat \ {0}
        /\ io_size \in Nat /\ i \in Nat
    BY <1>1
  <2> QED
    BY <1>1, <2>1, <2>2, <2>3, <2>4, <2>5 DEF Types
<1>8. Halves
  BY <1>1 DEF Halves, KernelHalfShared
<1>9. Roots /\ Early
  BY <1>1, <1>5, <1>6 DEF Roots, Early
<1>10. Place
  BY <1>1 DEF Place, Walking
<1>11. PagesOf(call) = {} /\ Pending = {}
  BY <1>1 DEF PagesOf, NoCallYet, Pending
<1>12. ASSUME NEW v \in Pages
       PROVE  Kept(v)
  <2>1. Leaf(tab, v) = Leaf(BootTables, v)
    BY <1>1
  <2>2. v \in D <=> Leaf(tab, v).present
    BY <1>3, <2>1
  <2> QED
    BY <1>5, <1>6, <2>1, <2>2 DEF Kept, Backed
<1>13. Translates
  BY <1>11, <1>12 DEF Translates
<1>14. Trees(L)
  <2>1. Leveled(tab, L, {Root} \cup procs) /\ PointedOnce(tab, L, DOMAIN tab \ procs, Pool)
    BY <1>1, <1>2 DEF Tree
  <2>2. free \cap DOMAIN tab = {}
    BY <1>1, PoolAssumption
  <2>3. \A t \in DOMAIN tab, x \in Index : tab[t][x].present => tab[t][x].frame \notin Pool
    BY <1>1, BootTreeAssumption
  <2> QED
    BY <1>1, <2>1, <2>2, <2>3, PoolAssumption DEF Trees
<1> QED
  BY <1>7, <1>8, <1>9, <1>10, <1>13, <1>14, Zenon DEF TablesInv

\* Every step keeps the invariant, when calls are for ranges the iterator
\* walks in full.
LEMMA NextTables ==
  ASSUME TablesInv, Known, InFull, InFull', [Next]_vars
  PROVE  TablesInv'
<1>1. CASE Walks
  <2>1. CASE Walk /\ UNCHANGED pvars
    <3>1. CASE (\E d \in 1..3 : Descend(d)) \/ (\E d \in 1..2 : Ascend(d)) \/ ChunkDone
      BY <2>1, <3>1, IteratorStep
    <3>2. CASE MakeTable
      BY <2>1, <3>2, MakeTableStep
    <3>3. CASE OutOfFrames
      BY <2>1, <3>3, OutOfFramesStep
    <3>4. CASE MapIo
      BY <2>1, <3>4, MapIoStep
    <3>5. CASE Unmap
      BY <2>1, <3>5, UnmapStep
    <3>6. CASE Protect
      BY <2>1, <3>6, ProtectStep
    <3> QED
      BY <2>1, <3>1, <3>2, <3>3, <3>4, <3>5, <3>6 DEF Walk
  <2>2. CASE Returns
    BY <2>2, ReturnStep
  <2>3. CASE MapsZero
    BY <2>3, MapAnonStep DEF MapsZero
  <2> QED
    BY <1>1, <2>1, <2>2, <2>3 DEF Walks
<1>2. CASE InitMem /\ UNCHANGED pvars
  BY <1>2, NxStep, HalfStep, HierarchyStep, InitCallStep, LomemStep DEF InitMem
<1>3. CASE KernelCall /\ load = 0 /\ UNCHANGED pvars
  BY <1>3, KernelCallStep
<1>4. CASE proc_create
  BY <1>4, CreateStep
<1>5. CASE proc_alloc
  BY <1>5, AllocStep
<1>6. CASE Fill
  BY <1>6, FillStep
<1>7. CASE (Halt /\ UNCHANGED pvars) \/ Fault \/ UNCHANGED vars
  BY <1>7, HaltStep DEF Halt, Fault, vars
<1> QED
  BY <1>1, <1>2, <1>3, <1>4, <1>5, <1>6, <1>7 DEF Next

\* The program stays one of those the initram holds.
LEMMA ProgramKnown == Spec => []Known
<1>1. Init => Known
  BY DEF Init, Known
<1>2. Known /\ [Next]_vars => Known'
  BY SameProgram DEF Known
<1> QED
  BY <1>1, <1>2, PTL DEF Spec

\* The tables stay a tree that translates what the calls have asked for, as
\* long as every call is for a range the iterator walks in full.
THEOREM TablesHold == Spec /\ []InFull => []TablesInv
<1>1. Init => TablesInv
  BY InitTables
<1>2. TablesInv /\ Known /\ InFull /\ InFull' /\ [Next]_vars => TablesInv'
  BY NextTables
<1> QED
  BY <1>1, <1>2, ProgramKnown, PTL DEF Spec

\* The translation under the kernel's root.
LEMMA AtRoot ==
  ASSUME NEW v
  PROVE  At(Root, v) = Leaf(tab, v)
  BY DEF At, Leaf, Reached, Entry1, Entry2, Entry3, Offset0

\* Every process's root keeps the kernel half of the kernel's root.
THEOREM KernelHalfSharedHolds == Spec /\ []InFull => []KernelHalfShared
<1>1. TablesInv => KernelHalfShared
  BY DEF TablesInv, Halves
<1> QED
  BY <1>1, TablesHold, PTL

\* Between calls the tables translate exactly the pages that were asked for,
\* with the flags and the device frames of the last call about them.
THEOREM MapExactHolds == Spec /\ []InFull => []MapExact
<1>1. ASSUME TablesInv, pc = "idle"
      PROVE  /\ MappedAt(Root) = DOMAIN want
             /\ \A v \in DOMAIN want :
                  /\ At(Root, v).flags = want[v].flags
                  /\ want[v].kind # "anon" => At(Root, v).frame = want[v].frame
  <2>1. Place /\ Translates /\ DOMAIN want \subseteq Pages
    BY <1>1 DEF TablesInv, Types
  <2>2. \A v \in Pages : Kept(v)
    BY <1>1, <2>1, AtRest
  <2>3. ASSUME NEW v \in Pages
        PROVE  /\ At(Root, v).present <=> v \in DOMAIN want
               /\ v \in DOMAIN want =>
                    /\ At(Root, v).flags = want[v].flags
                    /\ want[v].kind # "anon" => At(Root, v).frame = want[v].frame
    BY <2>2, AtRoot DEF Kept, Backed
  <2> QED
    BY <2>1, <2>3 DEF MappedAt
<1>2. TablesInv => MapExact
  BY <1>1 DEF MapExact
<1> QED
  BY <1>2, TablesHold, PTL

\* No walk leaves the tables while there are frames: the entries it follows
\* have been made.
THEOREM StaysInTablesHolds == Spec /\ []InFull => []StaysInTables
<1>1. Init => StaysInTables
  BY DEF Init, TablesInit, StaysInTables
<1>2. ASSUME TablesInv, InFull, StaysInTables, [Next]_vars
      PROVE  StaysInTables'
  <2>1. Types /\ Place
    BY <1>2 DEF TablesInv
  <2>2. ASSUME UNCHANGED <<pc, free>>
        PROVE  StaysInTables'
    BY <1>2, <2>2 DEF StaysInTables
  <2>3. ASSUME pc' # "wild"
        PROVE  StaysInTables'
    BY <2>3 DEF StaysInTables
  <2>4. ASSUME NEW d \in 1..3, Descend(d)
        PROVE  pc' # "wild"
    BY <1>2, <2>1, <2>4, DescendPlace
  <2>5. ASSUME \/ \E d \in 1..2 : Ascend(d)
               \/ ChunkDone \/ MakeTable \/ MapIo \/ Unmap \/ Protect \/ MapAnon \/ Return
        PROVE  pc' # "wild"
    BY <2>5 DEF Ascend, ChunkDone, MakeTable, MapIo, Unmap, Protect, MapAnon, Return, Advance,
       InChunk
  <2>6. ASSUME OutOfFrames
        PROVE  StaysInTables'
    BY <2>6 DEF OutOfFrames, StaysInTables
  <2>7. ASSUME InitMem
        PROVE  StaysInTables'
    BY <2>7 DEF StaysInTables, InitMem, init_nx, set_kernel_half, set_kernel_hierarchy_mem_prot, InitCall,
       InitStep, kmprotect, kmapanon, kmap, Start, unmap_lomem
  <2>8. ASSUME KernelCall \/ proc_create \/ proc_alloc
        PROVE  StaysInTables'
    BY <2>8 DEF StaysInTables, KernelCall, proc_create, proc_alloc, create_cr3, Ready, Callable, kmapanon,
       kunmapanon, kmap, Start
  <2>9. ASSUME Fill \/ Fault \/ Halt \/ UNCHANGED vars
        PROVE  UNCHANGED <<pc, free>>
    BY <2>9 DEF Fill, Fault, Halt, vars, tvars
  <2> QED
    BY <1>2, <2>2, <2>3, <2>4, <2>5, <2>6, <2>7, <2>8, <2>9
       DEF Next, Walks, Walk, Returns, MapsZero
<1> QED
  BY <1>1, <1>2, TablesHold, PTL DEF Spec
----------------------------------------------------------------------------
(* No page the kernel answers for is writable and executable *)

Safe(fl) == ~("W" \in fl /\ "NX" \notin fl)

\* a page no section covers, or of a section that init_mem has still to protect
Excused(v) == v \in BootRam \/ \E k \in DOMAIN Sections : k >= todo /\ v \in PagesOf(Sections[k])

\* Once the NX bit is known, a page of the kernel half is safe or excused.
Guarded ==
  /\ pc # "nx" => nx = HasNx
  /\ HasNx => \A v \in DOMAIN want : v \div Span(3) \in Kernel =>
       Safe(want[v].flags) \/ Excused(v)

\* Flags made from a protection are safe when it is not both writable and executable.
LEMMA SafeProt ==
  ASSUME NEW prot, nx, ~("W" \in prot /\ "X" \in prot)
  PROVE  Safe(page_prot_flags(prot))
  BY DEF Safe, page_prot_flags

\* A step that asks for nothing keeps it.
LEMMA GuardedSame ==
  ASSUME Guarded, UNCHANGED <<want, nx, todo>>, pc = "nx" => pc' = "nx"
  PROVE  Guarded'
  BY DEF Guarded, Excused, Safe, PagesOf

\* A call that asks for safe flags keeps it.
LEMMA GuardedCall ==
  ASSUME Guarded, TablesInv, pc = "idle", nx' = nx, todo' \in Nat, todo <= todo',
         \A v \in DOMAIN want' : (v \div Span(3) \in Kernel /\ nx) =>
           \/ Safe(want'[v].flags)
           \/ /\ v \in DOMAIN want /\ want'[v] = want[v]
              /\ todo' # todo => \A k \in DOMAIN Sections : k = todo => v \notin PagesOf(Sections[k]),
         todo' \in {todo, todo + 1}
  PROVE  Guarded'
<1>1. nx = HasNx /\ nx' = HasNx
  BY DEF Guarded
<1>2. todo \in Nat \ {0}
  BY Zenon DEF TablesInv, Types
<1>3. ASSUME NEW k \in DOMAIN Sections, k >= todo, k # todo \/ todo' = todo
      PROVE  k >= todo'
  BY <1>2, <1>3, SectionCount
<1>4. ASSUME HasNx, NEW v \in DOMAIN want', v \div Span(3) \in Kernel, ~Safe(want'[v].flags)
      PROVE  v \in BootRam \/ \E k \in DOMAIN Sections : k >= todo' /\ v \in PagesOf(Sections[k])
  <2>1. /\ v \in DOMAIN want /\ want'[v] = want[v]
        /\ todo' # todo => \A k \in DOMAIN Sections : k = todo => v \notin PagesOf(Sections[k])
    BY <1>1, <1>4
  <2>2. ASSUME v \notin BootRam
        PROVE  \E k \in DOMAIN Sections : k >= todo' /\ v \in PagesOf(Sections[k])
    <3>1. PICK k \in DOMAIN Sections : k >= todo /\ v \in PagesOf(Sections[k])
      BY <1>4, <2>1, <2>2 DEF Guarded, Excused
    <3>2. k >= todo'
      BY <1>3, <2>1, <3>1
    <3> QED
      BY <3>1, <3>2
  <2> QED
    BY <2>2
<1>5. (HasNx => \A v \in DOMAIN want : v \div Span(3) \in Kernel =>
         Safe(want[v].flags) \/ Excused(v))'
  BY <1>4 DEF Safe, Excused, PagesOf
<1> QED
  BY <1>1, <1>5 DEF Guarded

\* Before the sections are protected, every page of the kernel half is excused.
LEMMA SectionsAhead ==
  ASSUME NEW v \in DOMAIN BootWant, v \div Span(3) \in Kernel
  PROVE  v \in BootRam \/ \E k \in DOMAIN Sections : k >= 1 /\ v \in PagesOf(Sections[k])
  BY SectionCount DEF BootRam

\* kmapanon and kmap ask for pages that may be written, and no kernel page but
\* for those is asked for.
LEMMA GuardedAnon ==
  ASSUME Guarded, TablesInv, pc = "idle", nx' = nx, todo' \in {todo, todo + 1},
         todo # todo' => ~(todo \in DOMAIN Sections),
         NEW g, NEW kind, NEW frame, NEW prot, Wanted(g, kind, frame, prot),
         prot = {"W"} \/ \A v \in PagesOf(g) : v \div Span(3) \notin Kernel
  PROVE  Guarded'
<1>1. todo \in Nat \ {0}
  BY Zenon DEF TablesInv, Types
<1>2. ASSUME NEW v \in DOMAIN want', v \div Span(3) \in Kernel, nx
      PROVE  \/ Safe(want'[v].flags)
             \/ v \in DOMAIN want /\ want'[v] = want[v]
  <2>1. CASE v \in PagesOf(g)
    <3>1. prot = {"W"}
      BY <1>2, <2>1
    <3>2. want'[v].flags = page_prot_flags(prot)
      BY <2>1 DEF Wanted
    <3>3. Safe(page_prot_flags(prot))
      BY <1>2, <3>1, SafeProt
    <3> QED
      BY <3>2, <3>3
  <2>2. CASE v \notin PagesOf(g)
    BY <1>2, <2>2 DEF Wanted
  <2> QED
    BY <2>1, <2>2
<1>3. todo' \in Nat /\ todo <= todo'
  BY <1>1
<1> QED
  BY <1>2, <1>3, GuardedCall

\* Protecting a section makes its pages safe.
LEMMA GuardedProtect ==
  ASSUME Guarded, TablesInv, pc = "idle", NEW k \in DOMAIN Sections, InitStep(k),
         kmprotect(Sections[k])
  PROVE  Guarded'
<1>1. todo \in Nat \ {0}
  BY Zenon DEF TablesInv, Types
<1>2. todo = k /\ todo' = k + 1 /\ nx' = nx
  BY DEF InitStep, kmprotect
<1>3. Sections[k].prot # {"W", "X"} /\ Sections[k].prot \subseteq {"W", "X"}
  <2>1. PICK S : S = [v : Nat, n : Nat, prot : SUBSET {"W", "X"}]
    OBVIOUS
  <2>2. Sections \in Seq(S)
    BY <2>1, SectionAssumption
  <2>3. Sections[k] \in S
    BY <2>2
  <2>4. Sections[k].prot # {"W", "X"}
    BY SectionAssumption
  <2> QED
    BY <2>1, <2>3, <2>4
<1>4. PICK D : D = DOMAIN want
  OBVIOUS
<1>5. want \in [D -> Wants]
  BY <1>4, Zenon DEF TablesInv, Types
<1>6. want' = [v \in D |-> IF v \in PagesOf(Sections[k])
                           THEN [want[v] EXCEPT !.flags = page_prot_flags(Sections[k].prot)]
                           ELSE want[v]]
  BY <1>4 DEF kmprotect
<1>7. ASSUME NEW v \in DOMAIN want', nx
      PROVE  \/ Safe(want'[v].flags)
             \/ v \in DOMAIN want /\ want'[v] = want[v] /\ v \notin PagesOf(Sections[k])
  <2>1. CASE v \in PagesOf(Sections[k])
    <3>1. want[v] \in Wants
      BY <1>5, <1>6, <1>7
    <3>2. want'[v].flags = page_prot_flags(Sections[k].prot)
      BY <1>6, <1>7, <2>1, <3>1 DEF Wants
    <3>3. Safe(page_prot_flags(Sections[k].prot))
      BY <1>3, <1>7, SafeProt
    <3> QED
      BY <3>2, <3>3
  <2>2. CASE v \notin PagesOf(Sections[k])
    BY <1>4, <1>6, <1>7, <2>2
  <2> QED
    BY <2>1, <2>2
<1>8. todo' \in Nat /\ todo <= todo' /\ todo' \in {todo, todo + 1}
  BY <1>1, <1>2
<1> QED
  BY <1>2, <1>7, <1>8, GuardedCall

\* Every step keeps it.
LEMMA GuardedStep ==
  ASSUME Guarded, TablesInv, Known, [Next]_vars
  PROVE  Guarded'
<1>1. CASE Walks
  <2>1. UNCHANGED <<want, nx, todo>> /\ pc # "nx"
    BY <1>1 DEF Walks, Walk, Returns, MapsZero, Descend, Ascend, ChunkDone, MakeTable, OutOfFrames,
       MapIo, Unmap, Protect, MapAnon, Return, Advance, InChunk, kvars
  <2> QED
    BY <2>1, GuardedSame
<1>2. CASE init_nx
  <2>1. nx' = HasNx /\ UNCHANGED <<want, todo>>
    BY <1>2 DEF init_nx
  <2> QED
    BY <2>1 DEF Guarded, Excused, Safe, PagesOf
<1>3. CASE set_kernel_half
  <2>1. UNCHANGED <<want, nx, todo>> /\ pc # "nx"
    BY <1>3 DEF set_kernel_half, kvars
  <2> QED
    BY <2>1, GuardedSame
<1>4. CASE set_kernel_hierarchy_mem_prot
  <2>1. /\ UNCHANGED <<nx, todo>> /\ pc = "half" /\ DOMAIN want' = DOMAIN want
    BY <1>4 DEF set_kernel_hierarchy_mem_prot, kvars
  <2>2. todo = 1 /\ Early
    BY <2>1, Zenon DEF TablesInv, Halves
  <2>3. DOMAIN want' = DOMAIN BootWant
    BY <2>1, <2>2, SectionCount DEF Early
  <2>4. nx' = HasNx
    BY <2>1 DEF Guarded
  <2>5. \A v \in DOMAIN want' : v \div Span(3) \in Kernel =>
          v \in BootRam \/ \E k \in DOMAIN Sections : k >= todo' /\ v \in PagesOf(Sections[k])
    BY <2>1, <2>2, <2>3, SectionsAhead
  <2> QED
    BY <2>4, <2>5 DEF Guarded, Excused, Safe, PagesOf
<1>5. CASE InitCall
  <2>1. CASE \E k \in DOMAIN Sections : InitStep(k) /\ kmprotect(Sections[k])
    BY <2>1, GuardedProtect DEF InitStep
  <2>2. CASE InitStep(Len(Sections) + 1) /\ kmapanon(Initram, {"W"})
    <3>1. /\ pc = "idle" /\ todo' \in {todo, todo + 1} /\ nx' = nx /\ ~(todo \in DOMAIN Sections)
          /\ Wanted(Initram, "anon", 0, {"W"})
      BY <2>2, SectionCount DEF InitStep, kmapanon
    <3> QED
      BY <3>1, GuardedAnon
  <2>3. CASE InitStep(Len(Sections) + 2) /\ kmap(VideoPages, IoFrame)
    <3>1. /\ pc = "idle" /\ todo' \in {todo, todo + 1} /\ nx' = nx /\ ~(todo \in DOMAIN Sections)
          /\ \E g : Wanted(g, "io", IoFrame, {"W"})
      BY <2>3, SectionCount DEF InitStep, kmap
    <3> QED
      BY <3>1, GuardedAnon
  <2> QED
    BY <1>5, <2>1, <2>2, <2>3 DEF InitCall
<1>6. CASE unmap_lomem
  <2>1. pc = "idle" /\ nx' = nx /\ todo = Len(Sections) + 3 /\ todo' = todo + 1
        /\ want' = [v \in {u \in DOMAIN want : u \div Span(3) \notin Lomem} |-> want[v]]
    BY <1>6 DEF unmap_lomem, InitStep
  <2>2. \A v \in DOMAIN want' : v \in DOMAIN want /\ want'[v] = want[v]
    BY <2>1
  <2>3. todo' \in Nat /\ todo <= todo' /\ todo' \in {todo, todo + 1}
        /\ \A k \in DOMAIN Sections : k # todo
    BY <2>1, SectionCount
  <2> QED
    BY <2>1, <2>2, <2>3, GuardedCall
<1>7. CASE KernelCall
  <2>1. pc = "idle" /\ todo' = todo /\ todo \in Nat \ {0}
    BY <1>7, Zenon DEF KernelCall, Callable, Ready, TablesInv, Types
  <2>2. ASSUME NEW g, kmapanon(g, {"W"})
        PROVE  Guarded'
    BY <2>1, <2>2, GuardedAnon DEF kmapanon
  <2>3. ASSUME NEW m, NEW phys, kmap(m, phys)
        PROVE  Guarded'
    BY <2>1, <2>3, GuardedAnon DEF kmap
  <2>4. ASSUME NEW g, kunmapanon(g)
        PROVE  Guarded'
    <3>1. nx' = nx /\ \A v \in DOMAIN want' : v \in DOMAIN want /\ want'[v] = want[v]
      BY <2>4 DEF kunmapanon
    <3>2. todo' \in Nat /\ todo <= todo' /\ todo' \in {todo, todo + 1}
      BY <2>1
    <3> QED
      BY <2>1, <3>1, <3>2, GuardedCall
  <2> QED
    BY <1>7, <2>2, <2>3, <2>4 DEF KernelCall
<1>8. CASE proc_create \/ Fill \/ Fault \/ Halt \/ UNCHANGED vars
  <2>1. UNCHANGED <<want, nx, todo>> /\ (pc = "nx" => pc' = "nx")
    BY <1>8 DEF proc_create, create_cr3, Ready, Fill, Fault, Halt, vars, tvars, kvars
  <2> QED
    BY <2>1, GuardedSame
<1>9. CASE proc_alloc
  <2>1. /\ pc = "idle" /\ todo' = todo /\ load \in DOMAIN Items
        /\ kmapanon(Items[load], Items[load].prot)
    BY <1>9 DEF proc_alloc, Ready
  <2>2. \A v \in PagesOf(Items[load]) : v \div Span(3) \notin Kernel
    <3>1. \A v \in PagesOf(Items[load]) : v \div Span(3) < F \div 2
      BY <2>1, ItemPlace
    <3>2. ASSUME NEW a \in Kernel
          PROVE  ~(a < F \div 2)
      BY Sizes DEF Kernel
    <3> QED
      BY <3>1, <3>2
  <2>3. nx' = nx /\ Wanted(Items[load], "anon", 0, Items[load].prot)
    BY <2>1 DEF kmapanon
  <2> QED
    BY <2>1, <2>2, <2>3, GuardedAnon
<1> QED
  BY <1>1, <1>2, <1>3, <1>4, <1>5, <1>6, <1>7, <1>8, <1>9 DEF Next, InitMem

\* Once init_mem is done, if the processor has the NX bit, no page of the kernel
\* half is writable and executable but those of the physical map and those the
\* boot loader left outside the sections.
THEOREM WriteXorExecuteHolds == Spec /\ []InFull => []WriteXorExecute
<1>1. Init => Guarded
  <2>1. SUFFICES ASSUME Init
                 PROVE  Guarded
    OBVIOUS
  <2>2. pc = "nx" /\ todo = 1 /\ want = BootWant
    BY <2>1 DEF Init, TablesInit
  <2> QED
    BY <2>2, SectionsAhead DEF Guarded, Excused
<1>2. Guarded /\ TablesInv /\ Known /\ [Next]_vars => Guarded'
  BY GuardedStep
<1>3. ASSUME Guarded, TablesInv, Ready, HasNx, NEW v \in Pages, v \div Span(3) \in Kernel,
             At(Root, v).present, v \notin BootRam
      PROVE  Safe(At(Root, v).flags)
  <2>1. pc = "idle"
    BY <1>3 DEF Ready
  <2>2. Place /\ Translates
    BY <1>3 DEF TablesInv
  <2>3. Kept(v)
    BY <2>1, <2>2, AtRest
  <2>4. v \in DOMAIN want /\ At(Root, v).flags = want[v].flags
    BY <1>3, <2>3, AtRoot DEF Kept
  <2>5. \A k \in DOMAIN Sections : ~(k >= todo)
    <3>1. todo \in Nat /\ todo > Len(Sections) + 3
      BY <1>3 DEF TablesInv, Types, Ready
    <3> QED
      BY <3>1, SectionCount
  <2> QED
    BY <1>3, <2>4, <2>5 DEF Guarded, Excused, Ready
<1>4. ASSUME Guarded, TablesInv, Ready, HasNx, NEW v \in Pages,
             v \div Span(3) \in Kernel, v \div Span(3) # PHYSICAL, v \notin BootRam,
             Translate(Root, v).present
      PROVE  Safe(Translate(Root, v).flags)
  <2>1. Translate(Root, v) = At(Root, v)
    BY <1>4 DEF Translate
  <2> QED
    BY <1>3, <1>4, <2>1
<1>5. Guarded /\ TablesInv => WriteXorExecute
  BY <1>4 DEF WriteXorExecute, Safe
<1> QED
  BY <1>1, <1>2, <1>5, TablesHold, ProgramKnown, PTL DEF Spec
----------------------------------------------------------------------------
(* What a walk does to the translation *)

\* A turn over a page table writes one entry: a frame just taken, a device's
\* frame, nothing, or the frame that was there.
LEMMA Writes ==
  ASSUME TablesInv, InFull, NEW L, Trees(L), chunk.depth = 0,
         MapAnon \/ MapIo \/ Unmap \/ Protect
  PROVE  \E e \in EntryType :
           /\ PageWritten(L, e) /\ InChunk
           /\ \/ /\ call.op = "anon" /\ e.present /\ e.frame \in free
                 /\ e.frame = Lowest(free) /\ free' = free \ {e.frame}
              \/ call.op = "io" /\ free' = free
              \/ /\ call.op = "unmap"
                 /\ free' = free \cup ({tab[chunk.table][Here].frame} \cap Pool)
              \/ /\ call.op = "protect" /\ free' = free
                 /\ e.present = tab[chunk.table][Here].present
                 /\ e.frame = tab[chunk.table][Here].frame
<1>1. Types /\ Place
  BY DEF TablesInv
<1>2. Tree(tab, L, procs)
  BY <1>1, StateTree
<1>3. /\ InChunk /\ Advance /\ pc = "chunk" /\ i < chunk.length
      /\ call'.v = call.v /\ call'.n = call.n /\ call'.op = call.op
  <2>1. InChunk /\ Advance /\ (UNCHANGED call \/ call' = NextPhys)
    BY DEF MapAnon, MapIo, Unmap, Protect
  <2>2. call \in Calls
    BY <1>1 DEF Types
  <2> QED
    BY <2>1, <2>2 DEF InChunk, NextPhys, Calls
<1>4. ASSUME NEW e \in EntryType, SetEntry(e)
      PROVE  PageWritten(L, e)
  BY <1>1, <1>2, <1>3, <1>4, PageWrite
<1>5. CASE MapAnon
  <2>1. free # {} /\ free \subseteq Nat
    BY <1>1, <1>5, PoolAssumption DEF MapAnon, Types
  <2>2. PICK f \in free : f = Lowest(free) /\ f \in Nat
    BY <2>1, LowestIn
  <2>3. PICK e \in EntryType : e = Entry(f, page_prot_flags(call.prot)) /\ e.present /\ e.frame = f
    <3>1. Entry(f, page_prot_flags(call.prot)) \in EntryType
      BY <2>2, ProtFlags DEF Entry, EntryType
    <3> QED
      BY <3>1 DEF Entry
  <2>4. SetEntry(e) /\ call.op = "anon" /\ free' = free \ {f}
    BY <1>5, <2>2, <2>3 DEF MapAnon
  <2> QED
    BY <1>3, <1>4, <2>2, <2>3, <2>4
<1>6. CASE MapIo
  <2>1. call.phys \in Nat
    BY <1>1 DEF Types, Calls
  <2>2. PICK e : e = Entry(call.phys, page_prot_flags(call.prot))
    OBVIOUS
  <2>3. e \in EntryType
    BY <2>1, <2>2, ProtFlags DEF Entry, EntryType
  <2>4. SetEntry(e) /\ call.op = "io" /\ free' = free
    BY <1>6, <2>2 DEF MapIo
  <2> QED
    BY <1>3, <1>4, <2>3, <2>4
<1>7. CASE Unmap
  <2>1. SetEntry(Absent) /\ call.op = "unmap"
        /\ free' = free \cup ({tab[chunk.table][Here].frame} \cap Pool)
    BY <1>7 DEF Unmap
  <2> QED
    BY <1>3, <1>4, <2>1, ZeroEntries
<1>8. CASE Protect
  <2>1. chunk.table \in DOMAIN tab /\ Here \in Index
    BY <1>1, <1>2, <1>3, AtEntry
  <2>2. PICK o : o = tab[chunk.table][Here]
    OBVIOUS
  <2>3. o \in EntryType
    BY <1>2, <2>1, <2>2, EntryIn DEF Tree
  <2>4. PICK e : e = [o EXCEPT !.flags = page_prot_flags(call.prot)]
    OBVIOUS
  <2>5. e \in EntryType /\ e.present = o.present /\ e.frame = o.frame
    BY <2>3, <2>4, ProtFlags DEF EntryType
  <2>6. SetEntry(e) /\ call.op = "protect" /\ free' = free
    BY <1>8, <2>2, <2>4 DEF Protect
  <2> QED
    BY <1>3, <1>4, <2>2, <2>5, <2>6
<1> QED
  BY <1>5, <1>6, <1>7, <1>8

\* In the tables above the last, kunmapanon and kmprotect only pass.
LEMMA Passes ==
  ASSUME TablesInv, InFull, Unmap \/ Protect, chunk.depth # 0
  PROVE  UNCHANGED <<tab, free>> /\ Pending' = Pending
<1>1. Types /\ Place
  BY DEF TablesInv
<1>2. PICK L : Trees(L)
  BY DEF TablesInv
<1>3. Tree(tab, L, procs)
  BY <1>1, <1>2, StateTree
<1>4. InChunk /\ Advance /\ UNCHANGED <<tab, free, call>> /\ call.op \in {"unmap", "protect"}
  BY DEF Unmap, Protect
<1>5. Place /\ pc = "chunk" /\ pc' = "chunk" /\ UNCHANGED <<chunk, len>>
  BY <1>1, <1>4 DEF InChunk, Advance, itervars
<1>6. Cursor' = Cursor
  BY <1>4, <1>5 DEF Cursor, Ahead
<1> QED
  BY <1>4, <1>6 DEF Pending, PagesOf

\* A step of a walk changes the translation of pages it comes to, and no other.
LEMMA WalkLeaves ==
  ASSUME TablesInv, InFull, Walks, pc' # "wild"
  PROVE  \A v \in Pages : /\ v \in Pending' => v \in Pending
                          /\ v \notin Pending \/ v \in Pending' => Leaf(tab', v) = Leaf(tab, v)
<1>1. Types /\ Place
  BY DEF TablesInv
<1>2. PICK L : Trees(L)
  BY DEF TablesInv
<1>3. ASSUME UNCHANGED <<tab, call>>, Cursor' = Cursor
      PROVE  \A v \in Pages : /\ v \in Pending' => v \in Pending
                              /\ Leaf(tab', v) = Leaf(tab, v)
  BY <1>3 DEF Pending, PagesOf
<1>4. CASE (\E d \in 1..3 : Descend(d)) \/ (\E d \in 1..2 : Ascend(d)) \/ ChunkDone
  <2>1. UNCHANGED <<tab, call>>
    BY <1>4 DEF Descend, Ascend, ChunkDone
  <2>2. Cursor' = Cursor
    BY <1>1, <1>4, DescendPlace, AscendPlace, ChunkDonePlace
  <2> QED
    BY <1>3, <2>1, <2>2
<1>5. CASE Returns
  <2>1. Pending' = {} /\ tab' = tab
    BY <1>1, <1>5, ReturnPlace DEF Returns, Return
  <2> QED
    BY <2>1
<1>6. CASE MakeTable
  BY <1>2, <1>6, MakesTable
<1>7. CASE chunk.depth = 0 /\ (MapAnon \/ MapIo \/ Unmap \/ Protect)
  <2>1. PICK e \in EntryType : PageWritten(L, e)
    BY <1>2, <1>7, Writes
  <2>2. PICK p \in Pages :
          /\ \A w \in Pages : Leaf(tab', w) = IF w = p THEN e ELSE Leaf(tab, w)
          /\ p \in Pending /\ p \notin Pending'
          /\ \A v \in Pages : v # p => (v \in Pending <=> v \in Pending')
    BY <2>1, Zenon DEF PageWritten
  <2> QED
    BY <2>2
<1>8. CASE chunk.depth # 0 /\ (Unmap \/ Protect)
  <2>1. UNCHANGED <<tab, free>> /\ Pending' = Pending
    BY <1>8, Passes
  <2> QED
    BY <2>1
<1>9. ~OutOfFrames
  BY DEF OutOfFrames
<1>10. (MapAnon \/ MapIo) => chunk.depth = 0
  BY DEF MapAnon, MapIo
<1> QED
  BY <1>4, <1>5, <1>6, <1>7, <1>8, <1>9, <1>10 DEF Walks, Walk, MapsZero
----------------------------------------------------------------------------
(* No frame of the pool is lost *)

\* some table, not a process's root, has an entry that points to f
Owned(f) == \E t \in DOMAIN tab \ procs, x \in Index : tab[t][x].present /\ tab[t][x].frame = f

NoneLost == pc # "wild" => \A f \in Pool : f \notin free /\ f \notin procs => Owned(f)

\* The entries a call will overwrite hold no frame of the pool.
Vacant == pc # "wild" /\ call.op \in {"anon", "io"} =>
  \A v \in Pages : v \in Pending /\ Leaf(tab, v).present => Leaf(tab, v).frame \notin Pool

Lower(v) == v \div Span(3) < F \div 2

\* Device addresses are not used for anything else.
BelowIo == \A v \in DOMAIN want : want[v].kind = "anon" => v < IO_BASE

\* Until unmap_lomem what it clears holds no frame of the pool.
LowHalf == todo <= Len(Sections) + 3 =>
  /\ call.op \in {"anon", "io"} => Offset0(call.v, 3) \in Kernel
  /\ \A x \in Lomem : tab[Root][x].present => tab[Root][x].frame \notin Pool

\* One process is made at most; in the lower half only its items are mapped,
\* those it has come to.
OneProcess ==
  /\ procs = {} \/ \E p : procs = {p}
  /\ \A v \in DOMAIN want : (want[v].kind = "anon" /\ Lower(v)) =>
       /\ procs # {}
       /\ \E k \in DOMAIN Items : /\ v \in PagesOf(Items[k])
                                  /\ load = 0 \/ k < load \/ (k = load /\ filled)

Frugal == NoneLost /\ Vacant /\ BelowIo /\ LowHalf /\ OneProcess
\* A frame that an entry points to stays owned while the entry stays.
LEMMA StillOwned ==
  ASSUME NEW f, Owned(f), DOMAIN tab \subseteq DOMAIN tab', procs' \cap DOMAIN tab \subseteq procs,
         \A t \in DOMAIN tab \ procs, x \in Index : (tab[t][x].present /\ tab[t][x].frame = f) =>
           tab'[t][x].present /\ tab'[t][x].frame = f
  PROVE  Owned(f)'
  BY DEF Owned

\* A frame that becomes a table is owned by the entry that points to it.
LEMMA AddsFrames ==
  ASSUME Types, NoneLost, pc # "wild", NEW L, Trees(L), NEW c, NEW z, NEW e, Adds(c, z, e)
  PROVE  NoneLost'
<1>1. Added(c, z, e)
  BY AddedEntries
<1>2. /\ c \in DOMAIN tab \ procs /\ z \in Index /\ ~tab[c][z].present /\ e.present
      /\ free' = free \ {e.frame} /\ procs' = procs
  BY DEF Adds
<1>3. /\ DOMAIN tab \subseteq DOMAIN tab'
      /\ \A t \in DOMAIN tab, x \in Index : tab'[t][x] = IF t = c /\ x = z THEN e ELSE tab[t][x]
  BY <1>1 DEF Added
<1>4. ASSUME NEW f \in Pool, f \notin free', f \notin procs'
      PROVE  Owned(f)'
  <2>1. CASE f = e.frame
    <3>1. c \in DOMAIN tab' \ procs' /\ tab'[c][z] = e
      BY <1>2, <1>3
    <3> QED
      BY <1>2, <2>1, <3>1 DEF Owned
  <2>2. CASE f # e.frame
    <3>1. Owned(f)
      BY <1>2, <1>4, <2>2 DEF NoneLost
    <3> QED
      BY <1>2, <1>3, <3>1, StillOwned
  <2> QED
    BY <2>1, <2>2
<1> QED
  BY <1>4 DEF NoneLost

\* A page's entry is overwritten only when it holds no frame of the pool, or
\* when its frame is given back.
LEMMA WriteFrames ==
  ASSUME TablesInv, InFull, NoneLost, Vacant, chunk.depth = 0,
         MapAnon \/ MapIo \/ Unmap \/ Protect
  PROVE  NoneLost'
<1>1. PICK L : Trees(L)
  BY DEF TablesInv
<1>2. PICK e \in EntryType :
           /\ PageWritten(L, e) /\ InChunk
           /\ \/ /\ call.op = "anon" /\ e.present /\ e.frame \in free
                 /\ e.frame = Lowest(free) /\ free' = free \ {e.frame}
              \/ call.op = "io" /\ free' = free
              \/ /\ call.op = "unmap"
                 /\ free' = free \cup ({tab[chunk.table][Here].frame} \cap Pool)
              \/ /\ call.op = "protect" /\ free' = free
                 /\ e.present = tab[chunk.table][Here].present
                 /\ e.frame = tab[chunk.table][Here].frame
  BY <1>1, Writes
<1>3. PICK p \in Pages, c \in DOMAIN tab \ procs, z \in Index :
           /\ c = chunk.table /\ z = Here /\ Leaf(tab, p) = tab[c][z] /\ DOMAIN tab' = DOMAIN tab
           /\ \A t \in DOMAIN tab, x \in Index :
                tab'[t][x] = IF t = c /\ x = z THEN e ELSE tab[t][x]
           /\ p \in Pending
  BY <1>2, Zenon DEF PageWritten
<1>4. pc # "wild" /\ procs' = procs
  BY <1>2 DEF InChunk, MapAnon, MapIo, Unmap, Protect, Advance, kvars
<1>5. ASSUME NEW f \in Pool, f \notin free', f \notin procs'
      PROVE  Owned(f)'
  <2>1. CASE f \in free
    <3>1. f = e.frame /\ e.present
      BY <1>2, <1>5, <2>1
    <3>2. c \in DOMAIN tab' \ procs' /\ tab'[c][z] = e
      BY <1>3, <1>4
    <3> QED
      BY <3>1, <3>2 DEF Owned
  <2>2. CASE f \notin free
    <3>1. Owned(f)
      BY <1>4, <1>5, <2>2 DEF NoneLost
    <3>2. ASSUME tab[c][z].present, tab[c][z].frame = f
          PROVE  e.present /\ e.frame = f
      <4>1. ~(call.op \in {"anon", "io"})
        BY <1>3, <1>4, <1>5, <3>2 DEF Vacant
      <4>2. call.op # "unmap"
        BY <1>2, <1>3, <1>5, <3>2
      <4> QED
        BY <1>2, <1>3, <3>2, <4>1, <4>2
    <3>3. \A t \in DOMAIN tab \ procs, x \in Index :
            (tab[t][x].present /\ tab[t][x].frame = f) => tab'[t][x].present /\ tab'[t][x].frame = f
      BY <1>3, <3>2
    <3> QED
      BY <1>3, <1>4, <3>1, <3>3, StillOwned
  <2> QED
    BY <2>1, <2>2
<1> QED
  BY <1>5 DEF NoneLost

\* No step of a walk loses a frame.
LEMMA WalkFrames ==
  ASSUME TablesInv, InFull, NoneLost, Vacant, Walks
  PROVE  NoneLost'
<1>1. pc # "wild" /\ procs' = procs
  BY DEF Walks, Walk, Returns, MapsZero, Descend, Ascend, ChunkDone, MakeTable, OutOfFrames, MapIo,
     Unmap, Protect, MapAnon, Return, Advance, InChunk, kvars
<1>2. ASSUME UNCHANGED <<tab, free>>
      PROVE  NoneLost'
  BY <1>1, <1>2 DEF NoneLost, Owned
<1>3. CASE (\E d \in 1..3 : Descend(d)) \/ (\E d \in 1..2 : Ascend(d)) \/ ChunkDone \/ Returns
           \/ OutOfFrames
  BY <1>2, <1>3 DEF Descend, Ascend, ChunkDone, Returns, Return, OutOfFrames
<1>4. CASE MakeTable
  <2>1. PICK L : Trees(L)
    BY DEF TablesInv
  <2>2. UNCHANGED <<tab, free>> \/ \E c, z, e : Adds(c, z, e)
    BY <1>4, <2>1, MakesTable
  <2>3. Types
    BY Zenon DEF TablesInv
  <2> QED
    BY <1>1, <1>2, <2>1, <2>2, <2>3, AddsFrames
<1>5. CASE chunk.depth = 0 /\ (MapAnon \/ MapIo \/ Unmap \/ Protect)
  BY <1>5, WriteFrames
<1>6. CASE chunk.depth # 0 /\ (Unmap \/ Protect)
  BY <1>2, <1>6, Passes
<1>7. (MapAnon \/ MapIo) => chunk.depth = 0
  BY DEF MapAnon, MapIo
<1> QED
  BY <1>3, <1>4, <1>5, <1>6, <1>7 DEF Walks, Walk, MapsZero

\* A walk overwrites no more than it set out to.
LEMMA WalkVacant ==
  ASSUME TablesInv, InFull, Vacant, Walks
  PROVE  Vacant'
<1>1. SUFFICES ASSUME pc' # "wild", call'.op \in {"anon", "io"}, NEW v \in Pages,
                      v \in Pending', Leaf(tab', v).present
               PROVE  Leaf(tab', v).frame \notin Pool
  BY DEF Vacant, Leaf, Reached, Entry1, Entry2, Entry3
<1>2. v \in Pending /\ Leaf(tab', v) = Leaf(tab, v)
  BY <1>1, WalkLeaves
<1>3. pc # "wild" /\ call'.op = call.op
  <2>1. call \in Calls
    BY Zenon DEF TablesInv, Types
  <2>2. call' = call \/ call' = NextPhys \/ Returns
    BY DEF Walks, Walk, MapsZero, Descend, Ascend, ChunkDone, MakeTable, OutOfFrames, MapIo,
       Unmap, Protect, MapAnon
  <2>3. NextPhys.op = call.op
    BY <2>1 DEF NextPhys, Calls
  <2>4. ~Returns
    BY <1>1 DEF Returns, Return, NoCallYet
  <2>5. pc # "wild"
    BY DEF Walks, Walk, Returns, MapsZero, Descend, Ascend, ChunkDone, MakeTable, OutOfFrames,
       MapIo, Unmap, Protect, MapAnon, Return, InChunk
  <2> QED
    BY <2>2, <2>3, <2>4, <2>5
<1> QED
  BY <1>1, <1>2, <1>3 DEF Vacant
\* What unmap_lomem clears is in the lower half.
LEMMA LowIndex ==
  ASSUME NEW x \in Lomem
  PROVE  x \in Index /\ x \notin Kernel
<1>1. F \in Nat /\ F >= 2
  BY Sizes
<1>2. x \in Int /\ x >= 0 /\ x <= F \div 4 - 1
  BY <1>1 DEF Lomem
<1> QED
  BY <1>1, <1>2 DEF Index, Kernel

\* A walk gives the root no new entry in the lower half before unmap_lomem.
LEMMA WalkLow ==
  ASSUME TablesInv, InFull, LowHalf, Walks
  PROVE  LowHalf'
<1>1. Types /\ Place /\ call \in Calls
  BY Zenon DEF TablesInv, Types
<1>2. PICK L : Trees(L)
  BY DEF TablesInv
<1>3. Tree(tab, L, procs)
  BY <1>1, <1>2, StateTree
<1>4. Root \in DOMAIN tab /\ L[Root] = 3
  BY <1>3 DEF Tree, Leveled
<1>5. todo' = todo
  BY DEF Walks, Walk, Returns, MapsZero, Descend, Ascend, ChunkDone, MakeTable, OutOfFrames, MapIo,
     Unmap, Protect, MapAnon, Return, Advance
<1>6. call'.op \in {"anon", "io"} => call'.op = call.op /\ call'.v = call.v
  <2>1. call' = call \/ call' = NextPhys \/ Returns
    BY DEF Walks, Walk, MapsZero, Descend, Ascend, ChunkDone, MakeTable, OutOfFrames, MapIo,
       Unmap, Protect, MapAnon
  <2>2. NextPhys.op = call.op /\ NextPhys.v = call.v
    BY <1>1 DEF NextPhys, Calls
  <2>3. Returns => call'.op = "none"
    BY DEF Returns, Return, NoCallYet
  <2> QED
    BY <2>1, <2>2, <2>3
<1>7. ASSUME todo <= Len(Sections) + 3, NEW x \in Lomem
      PROVE  tab'[Root][x] = tab[Root][x]
  <2>1. x \in Index /\ x \notin Kernel
    BY LowIndex
  <2>2. CASE (\E d \in 1..3 : Descend(d)) \/ (\E d \in 1..2 : Ascend(d)) \/ ChunkDone \/ Returns
             \/ OutOfFrames
    BY <2>2 DEF Descend, Ascend, ChunkDone, Returns, Return, OutOfFrames
  <2>3. CASE MakeTable
    <3>1. CASE UNCHANGED <<tab, free>>
      BY <3>1
    <3>2. CASE \E c, z, e : Adds(c, z, e) /\ L[c] > 0 /\ c = chunk.table /\ z = Here
      <4>1. PICK c, z, e : Adds(c, z, e) /\ c = chunk.table /\ z = Here
        BY <3>2
      <4>2. Added(c, z, e)
        BY <1>1, <1>2, <4>1, AddedEntries
      <4>3. tab'[Root][x] = IF Root = c /\ x = z THEN e ELSE tab[Root][x]
        BY <1>4, <2>1, <4>2 DEF Added
      <4>4. ASSUME c = Root
            PROVE  z \in Kernel
        <5>1. pc = "chunk" /\ i < chunk.length /\ call.op \in {"anon", "io"}
          BY <2>3 DEF MakeTable, InChunk
        <5>2. L[chunk.table] = chunk.depth /\ (chunk.depth = 3 => Here = Offset0(call.v, 3))
          BY <1>1, <1>3, <5>1, AtEntry
        <5>3. Here = Offset0(call.v, 3)
          BY <1>4, <4>1, <4>4, <5>2
        <5> QED
          BY <1>7, <4>1, <5>1, <5>3 DEF LowHalf
      <4> QED
        BY <2>1, <4>3, <4>4
    <3> QED
      BY <1>2, <2>3, <3>1, <3>2, MakesTable
  <2>4. CASE chunk.depth = 0 /\ (MapAnon \/ MapIo \/ Unmap \/ Protect)
    <3>1. PICK e \in EntryType : PageWritten(L, e)
      BY <1>2, <2>4, Writes
    <3>2. PICK c \in DOMAIN tab \ procs, z \in Index :
            /\ L[c] = 0
            /\ \A t \in DOMAIN tab, y \in Index :
                 tab'[t][y] = IF t = c /\ y = z THEN e ELSE tab[t][y]
      BY <3>1, Zenon DEF PageWritten
    <3>3. c # Root
      BY <1>4, <3>2
    <3> QED
      BY <1>4, <2>1, <3>2, <3>3
  <2>5. CASE chunk.depth # 0 /\ (Unmap \/ Protect)
    BY <2>5, Passes
  <2>6. (MapAnon \/ MapIo) => chunk.depth = 0
    BY DEF MapAnon, MapIo
  <2> QED
    BY <2>2, <2>3, <2>4, <2>5, <2>6 DEF Walks, Walk, MapsZero
<1> QED
  BY <1>5, <1>6, <1>7 DEF LowHalf

\* A step of a walk keeps the rest.
LEMMA WalkFrugal ==
  ASSUME TablesInv, InFull, Frugal, Walks
  PROVE  Frugal'
<1>1. UNCHANGED <<want, procs, load, filled, prog>>
  BY DEF Walks, Walk, Returns, MapsZero, Descend, Ascend, ChunkDone, MakeTable, OutOfFrames, MapIo,
     Unmap, Protect, MapAnon, Return, Advance, kvars, pvars
<1>2. NoneLost' /\ Vacant' /\ LowHalf'
  BY WalkFrames, WalkVacant, WalkLow DEF Frugal
<1>3. BelowIo'
  BY <1>1 DEF Frugal, BelowIo
<1>4. OneProcess'
  BY <1>1 DEF Frugal, OneProcess, Lower, PagesOf, Items
<1> QED
  BY <1>2, <1>3, <1>4 DEF Frugal
----------------------------------------------------------------------------
(* What a call leaves to do *)

\* A call that maps pages finds no frame of the pool at them, when none of
\* them is mapped as memory.
LEMMA VacantStart ==
  ASSUME TablesInv, pc = "idle", NEW c \in Calls, Start(c), c.op # "none", Fits(c), tab' = tab,
         c.op \in {"anon", "io"} => \A v \in PagesOf(c) : v \in DOMAIN want => want[v].kind # "anon"
  PROVE  Vacant'
<1>1. Types /\ Place /\ Translates
  BY Zenon DEF TablesInv
<1>2. call' = c /\ Pending' = PagesOf(c)
  BY <1>1, StartPlace DEF Start
<1>3. \A v \in Pages : Kept(v)
  BY <1>1, AtRest
<1>4. ASSUME c.op \in {"anon", "io"}, NEW v \in Pages, v \in PagesOf(c), Leaf(tab, v).present
      PROVE  Leaf(tab, v).frame \notin Pool
  <2>1. v \in DOMAIN want /\ want[v].kind # "anon"
    BY <1>3, <1>4 DEF Kept
  <2>2. Leaf(tab, v).frame = want[v].frame
    BY <1>3, <2>1 DEF Kept, Backed
  <2> QED
    BY <1>1, <2>1, <2>2 DEF Types
<1>5. \A v : Leaf(tab, v)' = Leaf(tab, v)
  BY DEF Leaf, Reached, Entry1, Entry2, Entry3
<1> QED
  BY <1>2, <1>4, <1>5 DEF Vacant

\* What is above the heap's first page is in the kernel half.
LEMMA Above ==
  ASSUME NEW a \in Nat, NEW v \in Nat, a <= v, a \div Span(3) >= F \div 2
  PROVE  ~Lower(v)
<1>1. Span(3) \in Nat \ {0}
  BY Sizes, Z3
<1>2. PICK P \in Nat \ {0} : P = Span(3)
  BY <1>1
<1>3. a \div P <= v \div P
  BY <1>2, QuotientOrder
<1>4. a \div P \in Int /\ v \div P \in Int /\ F \div 2 \in Int
  BY <1>2, Sizes
<1> QED
  BY <1>2, <1>3, <1>4 DEF Lower

\* The entry of the root an address is under
LEMMA QuotientIn ==
  ASSUME NEW a \in Nat
  PROVE  a \div Span(3) \in Nat
<1>1. Span(3) \in Nat \ {0}
  BY Sizes, Z3
<1> QED
  BY <1>1, Division

\* The device addresses are in the kernel half.
LEMMA IoAbove == IO_BASE \in Nat /\ IO_BASE \div Span(3) >= F \div 2
<1>1. PICK g \in [v : Nat, n : Nat] : g.v \div Span(3) > PHYSICAL /\ g.v + g.n <= IO_BASE
  BY RangeAssumption
<1>2. IO_BASE \in Nat
  BY RangeAssumption, TopIndex
<1>3. ~Lower(IO_BASE)
  <2>1. PICK q \in Nat : q = g.v \div Span(3)
    BY <1>1, QuotientIn
  <2>2. q >= F \div 2
    BY <1>1, <2>1, Sizes DEF PHYSICAL
  <2> QED
    BY <1>1, <1>2, <2>1, <2>2, Above
<1>4. IO_BASE \div Span(3) \in Int
  BY RangeAssumption, TopIndex DEF Index
<1> QED
  BY <1>2, <1>3, <1>4, Sizes DEF Lower
\* A page that is not in the lower half is under an entry of the kernel half.
LEMMA HighIndex ==
  ASSUME NEW v \in Pages, ~Lower(v)
  PROVE  Offset0(v, 3) \in Kernel
<1>1. Offset0(v, 3) = v \div Span(3) /\ v \div Span(3) \in Index
  BY TopIndex
<1>2. F \in Nat /\ F >= 2
  BY Sizes
<1> QED
  BY <1>1, <1>2 DEF Lower, Index, Kernel

\* The heap and the copy of the initram are above the lower half and below the
\* device addresses.
LEMMA HeapPages ==
  ASSUME NEW g \in AnonRanges \cup {Initram}, NEW v \in PagesOf(g)
  PROVE  v < IO_BASE /\ ~Lower(v)
<1>1. PICK a \in Nat, m \in Nat : a = g.v /\ m = g.n /\ a \div Span(3) > PHYSICAL /\ a + m <= IO_BASE
  BY RangeAssumption
<1>2. IO_BASE \in Nat
  BY IoAbove
<1>3. v \in Nat /\ a <= v /\ v < IO_BASE
  BY <1>1, <1>2 DEF PagesOf
<1>4. PICK q \in Nat : q = a \div Span(3)
  BY <1>1, QuotientIn
<1>5. q >= F \div 2
  BY <1>1, <1>4, Sizes DEF PHYSICAL
<1> QED
  BY <1>3, <1>4, <1>5, Above

\* A call that begins keeps the rest, when it finds its pages vacant.
LEMMA StartFrugal ==
  ASSUME TablesInv, Frugal, pc = "idle", NEW c \in Calls, Start(c), c.op # "none", Fits(c),
         UNCHANGED <<tab, free, procs>>, todo' \in {todo, todo + 1},
         c.op \in {"anon", "io"} => \A v \in PagesOf(c) : v \in DOMAIN want => want[v].kind # "anon",
         (c.op \in {"anon", "io"} /\ todo' <= Len(Sections) + 3) => ~Lower(c.v),
         BelowIo', OneProcess'
  PROVE  Frugal'
<1>1. todo \in Nat /\ Len(Sections) \in Nat
  BY Zenon, SectionCount DEF TablesInv, Types
<1>2. call' = c /\ pc' = "chunk"
  BY DEF Start
<1>3. Vacant'
  BY VacantStart
<1>4. NoneLost'
  BY <1>2 DEF Frugal, NoneLost, Owned
<1>5. c.v \in Pages
  <2>1. c.v \in Nat /\ c.n \in Nat /\ c.n > 0
    BY DEF Calls, Fits
  <2>2. c.v \in PagesOf(c)
    BY <2>1 DEF PagesOf
  <2> QED
    BY <2>1, <2>2, FitPages
<1>6. LowHalf'
  <2>1. todo' <= Len(Sections) + 3 => todo <= Len(Sections) + 3
    BY <1>1
  <2>2. (c.op \in {"anon", "io"} /\ todo' <= Len(Sections) + 3) => Offset0(c.v, 3) \in Kernel
    BY <1>5, HighIndex
  <2> QED
    BY <1>2, <2>1, <2>2 DEF Frugal, LowHalf
<1> QED
  BY <1>3, <1>4, <1>6 DEF Frugal

\* A step that asks for no memory but above the lower half and below the device
\* addresses keeps what is said of the pages asked for.
LEMMA MoreWanted ==
  ASSUME Frugal, UNCHANGED <<procs, load, filled, prog>>,
         \A v \in DOMAIN want' : want'[v].kind = "anon" =>
           (v \in DOMAIN want /\ want[v].kind = "anon") \/ (v < IO_BASE /\ ~Lower(v))
  PROVE  BelowIo' /\ OneProcess'
<1>1. BelowIo'
  BY DEF Frugal, BelowIo
<1>2. OneProcess'
  BY DEF Frugal, OneProcess, Lower, PagesOf, Items
<1> QED
  BY <1>1, <1>2

\* kmapanon of memory where none is mapped
LEMMA AnonFrugal ==
  ASSUME TablesInv, InFull', Frugal, pc = "idle", NEW g, NEW prot \in Prots,
         NEW a \in Nat, NEW m \in Nat, a = g.v, m = g.n,
         Start([op |-> "anon", v |-> a, n |-> m, prot |-> prot, phys |-> 0]),
         UNCHANGED <<tab, free, procs>>, todo' \in {todo, todo + 1},
         \A v \in PagesOf(g) : v \in DOMAIN want => want[v].kind # "anon",
         todo' <= Len(Sections) + 3 => \A v \in PagesOf(g) : ~Lower(v),
         BelowIo', OneProcess'
  PROVE  Frugal'
<1>1. PICK c : c = [op |-> "anon", v |-> a, n |-> m, prot |-> prot, phys |-> 0]
  OBVIOUS
<1>2. c \in Calls /\ c.op = "anon" /\ c.v = a /\ c.n = m
  BY <1>1 DEF Calls
<1>3. Start(c) /\ call' = c
  BY <1>1 DEF Start
<1>4. Fits(c) /\ c.n > 0
  BY <1>2, <1>3 DEF InFull, Fits
<1>5. PagesOf(c) = PagesOf(g) /\ c.v \in PagesOf(g)
  BY <1>2, <1>4 DEF PagesOf
<1>6. c.op # "none"
  BY <1>2
<1>7. c.op \in {"anon", "io"} => \A v \in PagesOf(c) : v \in DOMAIN want => want[v].kind # "anon"
  BY <1>5
<1>8. (c.op \in {"anon", "io"} /\ todo' <= Len(Sections) + 3) => ~Lower(c.v)
  BY <1>5
<1> QED
  BY <1>2, <1>3, <1>4, <1>6, <1>7, <1>8, StartFrugal

\* kmap of device pages
LEMMA IoFrugal ==
  ASSUME TablesInv, InFull', Frugal, pc = "idle", NEW m \in Nat, NEW phys \in Nat,
         kmap(m, phys), UNCHANGED <<load, filled, prog>>, todo' \in {todo, todo + 1}
  PROVE  Frugal'
<1>1. PICK a \in Nat : a = IO_BASE + io_size /\ a >= IO_BASE
  <2>1. io_size \in Nat
    BY Zenon DEF TablesInv, Types
  <2> QED
    BY <2>1, IoAbove
<1>2. PICK c : c = [op |-> "io", v |-> a, n |-> m, prot |-> {"W"}, phys |-> phys]
  OBVIOUS
<1>3. PICK g : g = [v |-> a, n |-> m]
  OBVIOUS
<1>4. c \in Calls /\ c.op = "io" /\ c.v = a /\ c.n = m /\ g.v = a /\ g.n = m
  BY <1>2, <1>3 DEF Calls, Prots
<1>5. Start(c) /\ call' = c /\ UNCHANGED <<tab, free, procs>> /\ Wanted(g, "io", phys, {"W"})
  BY <1>1, <1>2, <1>3 DEF Start, kmap
<1>6. Fits(c) /\ c.op # "none"
  BY <1>4, <1>5 DEF InFull
<1>7. PagesOf(c) = PagesOf(g) /\ \A v \in PagesOf(g) : ~(v < IO_BASE)
  BY <1>1, <1>4, IoAbove DEF PagesOf
<1>8. c.op \in {"anon", "io"} => \A v \in PagesOf(c) : v \in DOMAIN want => want[v].kind # "anon"
  BY <1>7 DEF Frugal, BelowIo
<1>9. ~Lower(c.v)
  BY <1>1, <1>4, IoAbove, Above
<1>10. \A v \in DOMAIN want' : want'[v].kind = "anon" => v \in DOMAIN want /\ want[v].kind = "anon"
  BY <1>5 DEF Wanted
<1>11. UNCHANGED <<procs, load, filled, prog>>
  BY <1>5
<1>12. BelowIo' /\ OneProcess'
  BY <1>10, <1>11, MoreWanted
<1> QED
  BY <1>4, <1>5, <1>6, <1>8, <1>9, <1>12, StartFrugal
\* The calls of init_mem
LEMMA InitCallFrugal ==
  ASSUME TablesInv, InFull', Frugal, InitCall, UNCHANGED pvars
  PROVE  Frugal'
<1>1. pc = "idle" /\ UNCHANGED <<load, filled, prog>> /\ todo' = todo + 1 /\ todo' \in {todo, todo + 1}
  BY DEF InitCall, InitStep, pvars
<1>2. CASE \E k \in DOMAIN Sections : InitStep(k) /\ kmprotect(Sections[k])
  <2>1. PICK k \in DOMAIN Sections : kmprotect(Sections[k])
    BY <1>2
  <2>2. Sections[k] \in [v : Nat, n : Nat, prot : SUBSET {"W", "X"}]
    <3>1. PICK S : S = [v : Nat, n : Nat, prot : SUBSET {"W", "X"}]
      OBVIOUS
    <3>2. Sections \in Seq(S)
      BY <3>1, SectionAssumption
    <3>3. Sections[k] \in S
      BY <3>2
    <3> QED
      BY <3>1, <3>3
  <2>3. PICK s : s = Sections[k]
    OBVIOUS
  <2>4. PICK c : c = [op |-> "protect", v |-> s.v, n |-> s.n, prot |-> s.prot, phys |-> 0]
    OBVIOUS
  <2>5. c \in Calls /\ c.op = "protect"
    BY <2>2, <2>3, <2>4 DEF Calls, Prots
  <2>6. Start(c) /\ call' = c /\ UNCHANGED <<tab, free, procs>>
    BY <2>1, <2>3, <2>4 DEF kmprotect, Start
  <2>7. Fits(c) /\ c.op # "none" /\ c.op \notin {"anon", "io"}
    BY <2>5, <2>6 DEF InFull
  <2>8. \A v \in DOMAIN want' : v \in DOMAIN want /\ want'[v].kind = want[v].kind
    <3>1. PICK D : D = DOMAIN want
      OBVIOUS
    <3>2. want \in [D -> Wants]
      BY <3>1, Zenon DEF TablesInv, Types
    <3>3. want' = [v \in D |-> IF v \in PagesOf(s)
                               THEN [want[v] EXCEPT !.flags = page_prot_flags(s.prot)] ELSE want[v]]
      BY <2>1, <2>3, <3>1 DEF kmprotect
    <3>4. ASSUME NEW v \in D
          PROVE  want'[v].kind = want[v].kind
      <4>1. want[v] \in Wants
        BY <3>2
      <4> QED
        BY <3>3, <4>1 DEF Wants
    <3> QED
      BY <3>1, <3>3, <3>4
  <2>9. BelowIo' /\ OneProcess'
    <3>1. UNCHANGED <<procs, load, filled, prog>>
      BY <1>1, <2>6
    <3> QED
      BY <2>8, <3>1, MoreWanted
  <2> QED
    BY <1>1, <2>5, <2>6, <2>7, <2>9, StartFrugal
<1>3. CASE InitStep(Len(Sections) + 1) /\ kmapanon(Initram, {"W"})
  <2>1. PICK a \in Nat, m \in Nat : a = Initram.v /\ m = Initram.n
    BY RangeAssumption
  <2>2. /\ Start([op |-> "anon", v |-> a, n |-> m, prot |-> {"W"}, phys |-> 0])
        /\ Wanted(Initram, "anon", 0, {"W"}) /\ UNCHANGED <<tab, free, procs>>
    BY <1>3, <2>1 DEF kmapanon
  <2>3. {"W"} \in Prots
    BY DEF Prots
  <2>4. \A v \in PagesOf(Initram) : v < IO_BASE /\ ~Lower(v)
    BY HeapPages
  <2>5. \A v \in PagesOf(Initram) : v \in DOMAIN want => want[v].kind # "anon"
    <3>1. todo <= Len(Sections) + 1
      BY <1>3, SectionCount DEF InitStep
    <3> QED
      BY <3>1 DEF TablesInv, Early
  <2>6. BelowIo' /\ OneProcess'
    <3>1. UNCHANGED <<procs, load, filled, prog>>
      BY <1>1, <2>2
    <3>2. \A v \in DOMAIN want' : want'[v].kind = "anon" =>
            (v \in DOMAIN want /\ want[v].kind = "anon") \/ (v < IO_BASE /\ ~Lower(v))
      BY <2>2, <2>4 DEF Wanted
    <3> QED
      BY <3>1, <3>2, MoreWanted
  <2> QED
    BY <1>1, <2>1, <2>2, <2>3, <2>4, <2>5, <2>6, AnonFrugal
<1>4. CASE InitStep(Len(Sections) + 2) /\ kmap(VideoPages, IoFrame)
  <2>1. VideoPages \in Nat /\ IoFrame \in Nat
    BY RangeAssumption, PoolAssumption
  <2> QED
    BY <1>1, <1>4, <2>1, IoFrugal
<1> QED
  BY <1>2, <1>3, <1>4 DEF InitCall

\* The calls the kernel makes later
LEMMA KernelCallFrugal ==
  ASSUME TablesInv, InFull', Frugal, KernelCall, UNCHANGED pvars
  PROVE  Frugal'
<1>1. /\ pc = "idle" /\ UNCHANGED <<load, filled, prog, todo>> /\ todo > Len(Sections) + 3
      /\ todo' \in {todo, todo + 1}
  BY DEF KernelCall, pvars, Callable, Ready
<1>2. ~(todo' <= Len(Sections) + 3)
  <2>1. todo \in Nat /\ Len(Sections) \in Nat
    BY Zenon, SectionCount DEF TablesInv, Types
  <2> QED
    BY <1>1, <2>1
<1>3. ASSUME NEW g \in AnonRanges, PagesOf(g) \cap DOMAIN want = {}, kmapanon(g, {"W"})
      PROVE  Frugal'
  <2>1. PICK a \in Nat, m \in Nat : a = g.v /\ m = g.n
    BY RangeAssumption
  <2>2. /\ Start([op |-> "anon", v |-> a, n |-> m, prot |-> {"W"}, phys |-> 0])
        /\ Wanted(g, "anon", 0, {"W"}) /\ UNCHANGED <<tab, free, procs>>
    BY <1>3, <2>1 DEF kmapanon
  <2>3. {"W"} \in Prots
    BY DEF Prots
  <2>4. \A v \in PagesOf(g) : v < IO_BASE /\ ~Lower(v)
    BY HeapPages
  <2>5. \A v \in PagesOf(g) : v \in DOMAIN want => want[v].kind # "anon"
    BY <1>3
  <2>6. BelowIo' /\ OneProcess'
    <3>1. UNCHANGED <<procs, load, filled, prog>>
      BY <1>1, <2>2
    <3>2. \A v \in DOMAIN want' : want'[v].kind = "anon" =>
            (v \in DOMAIN want /\ want[v].kind = "anon") \/ (v < IO_BASE /\ ~Lower(v))
      BY <2>2, <2>4 DEF Wanted
    <3> QED
      BY <3>1, <3>2, MoreWanted
  <2> QED
    BY <1>1, <2>1, <2>2, <2>3, <2>4, <2>5, <2>6, AnonFrugal
<1>4. ASSUME NEW g \in AnonRanges, kunmapanon(g)
      PROVE  Frugal'
  <2>1. PICK a \in Nat, m \in Nat : a = g.v /\ m = g.n
    BY RangeAssumption
  <2>2. PICK c : c = [op |-> "unmap", v |-> a, n |-> m, prot |-> {}, phys |-> 0]
    OBVIOUS
  <2>3. c \in Calls /\ c.op = "unmap"
    BY <2>2 DEF Calls, Prots
  <2>4. Start(c) /\ call' = c /\ UNCHANGED <<tab, free, procs>>
    BY <1>4, <2>1, <2>2 DEF kunmapanon, Start
  <2>5. Fits(c) /\ c.op # "none" /\ c.op \notin {"anon", "io"}
    BY <2>3, <2>4 DEF InFull
  <2>6. BelowIo' /\ OneProcess'
    <3>1. UNCHANGED <<procs, load, filled, prog>>
      BY <1>1, <2>4
    <3>2. \A v \in DOMAIN want' : v \in DOMAIN want /\ want'[v] = want[v]
      BY <1>4 DEF kunmapanon
    <3> QED
      BY <3>1, <3>2, MoreWanted
  <2> QED
    BY <1>1, <2>3, <2>4, <2>5, <2>6, StartFrugal
<1>5. ASSUME NEW m \in IoSizes, kmap(m, IoFrame + io_size)
      PROVE  Frugal'
  <2>1. PICK ph \in Nat : ph = IoFrame + io_size
    <3>1. io_size \in Nat
      BY Zenon DEF TablesInv, Types
    <3> QED
      BY <3>1, PoolAssumption
  <2>2. kmap(m, ph) /\ m \in Nat
    BY <1>5, <2>1, RangeAssumption
  <2> QED
    BY <1>1, <2>1, <2>2, IoFrugal
<1> QED
  BY <1>3, <1>4, <1>5 DEF KernelCall

\* unmap_lomem drops entries of the root that hold no frame of the pool.
LEMMA LomemFrugal ==
  ASSUME TablesInv, Frugal, unmap_lomem, UNCHANGED pvars
  PROVE  Frugal'
<1>1. /\ pc = "idle" /\ todo = Len(Sections) + 3 /\ todo' = todo + 1
      /\ UNCHANGED <<pc, procs, call, free, load, filled, prog>>
      /\ tab' = [tab EXCEPT ![Root] = [x \in Index |-> IF x \in Lomem THEN Absent ELSE @[x]]]
      /\ want' = [v \in {u \in DOMAIN want : u \div Span(3) \notin Lomem} |-> want[v]]
  BY DEF unmap_lomem, InitStep, pvars
<1>2. Types /\ Place /\ Translates
  BY Zenon DEF TablesInv
<1>3. PICK L : Trees(L)
  BY DEF TablesInv
<1>4. Tree(tab, L, procs)
  BY <1>2, <1>3, StateTree
<1>5. /\ DOMAIN tab' = DOMAIN tab
      /\ \A t \in DOMAIN tab, x \in Index :
           tab'[t][x] = IF t = Root /\ x \in Lomem THEN Absent ELSE tab[t][x]
  <2>1. tab' = Cleared(tab)
    BY <1>1 DEF Cleared
  <2>2. PICK U : U = tab'
    OBVIOUS
  <2>3. /\ Tree(U, L, procs) /\ DOMAIN U = DOMAIN tab
        /\ \A t \in DOMAIN tab, x \in Index :
             U[t][x] = IF t = Root /\ x \in Lomem THEN Absent ELSE tab[t][x]
        /\ \A w \in Nat : Leaf(U, w) = IF Offset0(w, 3) \in Lomem THEN Absent ELSE Leaf(tab, w)
    BY <1>4, <2>1, <2>2, ClearLow
  <2> QED
    BY <2>2, <2>3
<1>6. ASSUME NEW f \in Pool, f \notin free', f \notin procs'
      PROVE  Owned(f)'
  <2>1. Owned(f)
    BY <1>1, <1>6 DEF Frugal, NoneLost
  <2>2. ASSUME NEW x \in Lomem, tab[Root][x].present
        PROVE  tab[Root][x].frame # f
    BY <1>1, <1>6, <2>2, SectionCount DEF Frugal, LowHalf
  <2>3. \A t \in DOMAIN tab \ procs, x \in Index : (tab[t][x].present /\ tab[t][x].frame = f) =>
          tab'[t][x].present /\ tab'[t][x].frame = f
    BY <1>5, <2>2
  <2> QED
    BY <1>1, <1>5, <2>1, <2>3, StillOwned
<1>7. NoneLost'
  BY <1>6 DEF NoneLost
<1>8. call'.op = "none"
  BY <1>1, <1>2, AtRest DEF NoCallYet
<1>9. Vacant'
  BY <1>8 DEF Vacant
<1>10. LowHalf'
  BY <1>1, SectionCount DEF LowHalf
<1>11. BelowIo' /\ OneProcess'
  <2>1. UNCHANGED <<procs, load, filled, prog>>
    BY <1>1
  <2>2. \A v \in DOMAIN want' : v \in DOMAIN want /\ want'[v] = want[v]
    BY <1>1
  <2> QED
    BY <2>1, <2>2, MoreWanted
<1> QED
  BY <1>7, <1>9, <1>10, <1>11 DEF Frugal
\* What is said of the frames is said until the pool is exhausted.
LEMMA WildFrugal ==
  ASSUME Frugal, pc' = "wild",
         UNCHANGED <<todo, call, tab, free, procs, want, load, filled, prog>>
  PROVE  Frugal'
  BY DEF Frugal, NoneLost, Vacant, BelowIo, LowHalf, OneProcess, Lower, PagesOf, Items

\* init_mem_prot gives frames to the kernel half of the root and to nothing else.
LEMMA HalfFrugal ==
  ASSUME TablesInv, Frugal, set_kernel_half, UNCHANGED pvars, free # {}
  PROVE  Frugal'
<1>1. Types /\ Place /\ Translates
  BY Zenon DEF TablesInv
<1>2. PICK L : Trees(L)
  BY DEF TablesInv
<1>3. Root \in DOMAIN tab
  BY <1>1, <1>2, StateTree DEF Tree, Leveled
<1>4. /\ pc = "half" /\ pc' = "half"
      /\ UNCHANGED <<todo, procs, call, want, load, filled, prog>>
  BY DEF set_kernel_half, kvars, pvars
<1>5. PICK c, z, e : Adds(c, z, e) /\ c = Root /\ z \in Kernel
  BY <1>1, <1>2, HalfAdds
<1>6. Added(c, z, e)
  BY <1>1, <1>2, <1>5, AddedEntries
<1>7. NoneLost'
  BY <1>1, <1>2, <1>4, <1>5, AddsFrames DEF Frugal
<1>8. call'.op = "none"
  BY <1>1, <1>4, AtRest DEF NoCallYet
<1>9. Vacant'
  BY <1>8 DEF Vacant
<1>10. LowHalf'
  <2>1. ASSUME NEW x \in Lomem
        PROVE  tab'[Root][x] = tab[Root][x]
    <3>1. x \in Index /\ x # z
      BY <1>5, LowIndex
    <3> QED
      BY <1>3, <1>6, <3>1 DEF Added
  <2> QED
    BY <1>4, <1>8, <2>1 DEF Frugal, LowHalf
<1>11. BelowIo' /\ OneProcess'
  <2>1. UNCHANGED <<procs, load, filled, prog>>
    BY <1>4
  <2>2. \A v \in DOMAIN want' : v \in DOMAIN want /\ want'[v] = want[v]
    BY <1>4
  <2> QED
    BY <2>1, <2>2, MoreWanted
<1> QED
  BY <1>7, <1>9, <1>10, <1>11 DEF Frugal

\* Marking the image writable moves no frame.
LEMMA HierarchyFrugal ==
  ASSUME TablesInv, Frugal, set_kernel_hierarchy_mem_prot, UNCHANGED pvars
  PROVE  Frugal'
<1>1. Types /\ Place /\ Translates
  BY Zenon DEF TablesInv
<1>2. PICK L : Trees(L)
  BY DEF TablesInv
<1>3. Tree(tab, L, procs) /\ Root \in DOMAIN tab
  BY <1>1, <1>2, StateTree DEF Tree, Leveled
<1>4. /\ pc = "half" /\ pc' = "idle"
      /\ UNCHANGED <<todo, procs, call, free, load, filled, prog>>
  BY DEF set_kernel_hierarchy_mem_prot, kvars, pvars
<1>5. PICK S : S = ImageTables
  OBVIOUS
<1>6. \A t \in DOMAIN tab, x \in Index :
        /\ tab'[t][x] \in EntryType
        /\ tab'[t][x].present = tab[t][x].present /\ tab'[t][x].frame = tab[t][x].frame
        /\ (tab[t][x].present /\ t \in S) => tab'[t][x].flags = tab[t][x].flags \cup {"W"}
        /\ t \notin S => tab'[t][x].flags = tab[t][x].flags
  BY <1>3, <1>5, HierarchyEntries
<1>7. DOMAIN tab' = DOMAIN tab
  BY DEF set_kernel_hierarchy_mem_prot
<1>8. NoneLost'
  <2>1. ASSUME NEW f, Owned(f)
        PROVE  Owned(f)'
    BY <1>4, <1>6, <1>7, <2>1, StillOwned
  <2> QED
    BY <1>4, <2>1 DEF Frugal, NoneLost
<1>9. call'.op = "none"
  BY <1>1, <1>4, AtRest DEF NoCallYet
<1>10. Vacant'
  BY <1>9 DEF Vacant
<1>11. LowHalf'
  <2>1. \A x \in Lomem : x \in Index
    BY LowIndex
  <2> QED
    BY <1>3, <1>4, <1>6, <1>9, <2>1 DEF Frugal, LowHalf
<1>12. BelowIo' /\ OneProcess'
  <2>1. UNCHANGED <<procs, load, filled, prog>>
    BY <1>4
  <2>2. \A v \in DOMAIN want' : v \in DOMAIN want /\ want'[v].kind = want[v].kind
    <3>1. PICK D : D = DOMAIN want
      OBVIOUS
    <3>2. want \in [D -> Wants]
      BY <3>1, Zenon DEF TablesInv, Types
    <3>3. want' = [v \in D |-> IF v \div Span(3) = F - 1
                               THEN [want[v] EXCEPT !.flags = @ \cup {"W"}] ELSE want[v]]
      BY <3>1 DEF set_kernel_hierarchy_mem_prot
    <3>4. ASSUME NEW v \in D
          PROVE  want'[v].kind = want[v].kind
      <4>1. want[v] \in Wants
        BY <3>2
      <4> QED
        BY <3>3, <4>1 DEF Wants
    <3> QED
      BY <3>1, <3>3, <3>4
  <2> QED
    BY <2>1, <2>2, MoreWanted
<1> QED
  BY <1>8, <1>10, <1>11, <1>12 DEF Frugal

\* One process may be made: before it nothing is mapped in the lower half.
LEMMA CreateFrugal ==
  ASSUME MaxProcs \in 0..1, TablesInv, Frugal, proc_create, free # {}
  PROVE  Frugal'
<1>1. Types /\ Place /\ Translates
  BY Zenon DEF TablesInv
<1>2. PICK L : Trees(L)
  BY DEF TablesInv
<1>3. /\ pc = "idle" /\ todo > Len(Sections) + 3 /\ load' = 1
      /\ UNCHANGED <<pc, todo, call, want, filled, prog>> /\ Cardinality(procs) < MaxProcs
  BY DEF proc_create, create_cr3, Ready
<1>4. PICK f : /\ f = Lowest(free) /\ free' = free \ {f} /\ procs' = procs \cup {f}
               /\ tab' = [x \in DOMAIN tab \cup {f} |->
                  IF x = f THEN [y \in Index |-> IF y \in Copied THEN tab[cr3][y] ELSE Absent]
                  ELSE tab[x]]
  BY DEF proc_create, create_cr3
<1>5. f \notin DOMAIN tab
  <2>1. free \subseteq Nat
    BY <1>1, <1>2, StateTree
  <2>2. f \in free
    BY <1>3, <1>4, <2>1, LowestIn
  <2> QED
    BY <1>2, <2>2 DEF Trees
<1>6. DOMAIN tab \subseteq DOMAIN tab' /\ \A t \in DOMAIN tab : tab'[t] = tab[t]
  BY <1>4, <1>5
<1>7. procs = {}
  <2>1. ASSUME NEW p, procs = {p}
        PROVE  FALSE
    <3>1. Cardinality(procs) = 1
      BY <2>1, FS_Singleton
    <3> QED
      BY <1>3, <3>1
  <2> QED
    BY <2>1 DEF Frugal, OneProcess
<1>8. NoneLost'
  <2>1. ASSUME NEW g \in Pool, g \notin free', g \notin procs'
        PROVE  Owned(g)'
    <3>1. Owned(g)
      BY <1>3, <1>4, <2>1 DEF Frugal, NoneLost
    <3> QED
      BY <1>4, <1>5, <1>6, <3>1, StillOwned
  <2> QED
    BY <2>1 DEF NoneLost
<1>9. call'.op = "none"
  BY <1>1, <1>3, AtRest DEF NoCallYet
<1>10. Vacant'
  BY <1>9 DEF Vacant
<1>11. LowHalf'
  <2>1. todo \in Nat /\ Len(Sections) \in Nat
    BY <1>1, SectionCount DEF Types
  <2> QED
    BY <1>3, <2>1 DEF LowHalf
<1>12. BelowIo'
  BY <1>3 DEF Frugal, BelowIo
<1>13. OneProcess'
  <2>1. procs' = {f}
    BY <1>4, <1>7
  <2>2. \A v \in DOMAIN want : ~(want[v].kind = "anon" /\ Lower(v))
    BY <1>7 DEF Frugal, OneProcess
  <2> QED
    BY <1>3, <2>1, <2>2 DEF OneProcess, Lower, Items
<1> QED
  BY <1>8, <1>10, <1>11, <1>12, <1>13 DEF Frugal

\* The items of the program are apart: each is mapped where nothing is.
LEMMA AllocFrugal ==
  ASSUME TablesInv, Known, Apart, InFull', Frugal, proc_alloc
  PROVE  Frugal'
<1>1. /\ pc = "idle" /\ todo > Len(Sections) + 3 /\ load \in DOMAIN Items /\ ~filled
      /\ filled' = TRUE /\ UNCHANGED <<todo, load, prog>> /\ todo' \in {todo, todo + 1}
  BY DEF proc_alloc, Ready
<1>2. PICK g, p : g = Items[load] /\ p = g.prot
  OBVIOUS
<1>3. PICK a \in Nat, m \in Nat : a = g.v /\ m = g.n /\ p \in Prots /\ load \in Nat \ {0}
  BY <1>1, <1>2, ItemTypes
<1>4. /\ Start([op |-> "anon", v |-> a, n |-> m, prot |-> p, phys |-> 0])
      /\ Wanted(g, "anon", 0, p) /\ UNCHANGED <<tab, free, procs>>
  BY <1>2, <1>3 DEF proc_alloc, kmapanon
<1>5. ASSUME NEW v \in PagesOf(g)
      PROVE  v < IO_BASE /\ Lower(v) /\ v \in Nat
  <2>1. Lower(v) /\ v \in Nat
    BY <1>1, <1>2, <1>3, ItemPlace DEF Lower, PagesOf
  <2>2. ~(IO_BASE <= v)
    BY <2>1, IoAbove, Above
  <2> QED
    BY <2>1, <2>2, IoAbove
<1>6. ASSUME NEW v \in PagesOf(g), v \in DOMAIN want, want[v].kind = "anon"
      PROVE  FALSE
  <2>1. Lower(v)
    BY <1>5
  <2>2. PICK k \in DOMAIN Items : /\ v \in PagesOf(Items[k])
                                  /\ load = 0 \/ k < load \/ (k = load /\ filled)
    BY <1>6, <2>1 DEF Frugal, OneProcess
  <2>3. k \in Nat /\ k < load
    BY <1>1, <1>3, <2>2, ItemTypes
  <2>4. k # load
    BY <1>3, <2>3
  <2>5. PagesOf(Items[k]) \cap PagesOf(Items[load]) = {}
    BY <1>1, <2>4 DEF Apart
  <2> QED
    BY <1>2, <2>2, <2>5
<1>7. \A v \in PagesOf(g) : v \in DOMAIN want => want[v].kind # "anon"
  BY <1>6
<1>8. ~(todo' <= Len(Sections) + 3)
  <2>1. todo \in Nat /\ Len(Sections) \in Nat
    BY Zenon, SectionCount DEF TablesInv, Types
  <2> QED
    BY <1>1, <2>1
<1>9. \A v \in DOMAIN want' : want'[v].kind = "anon" =>
        (v \in DOMAIN want /\ want[v].kind = "anon") \/ v \in PagesOf(g)
  BY <1>4 DEF Wanted
<1>10. BelowIo'
  BY <1>5, <1>9 DEF Frugal, BelowIo
<1>11. OneProcess'
  <2>1. procs # {} /\ UNCHANGED procs
    <3>1. Roots
      BY Zenon DEF TablesInv
    <3> QED
      BY <1>3, <1>4, <3>1, NewestIn
  <2>2. ASSUME NEW v \in DOMAIN want', want'[v].kind = "anon", Lower(v)
        PROVE  \E k \in DOMAIN Items : v \in PagesOf(Items[k]) /\ (k < load \/ k = load)
    <3>1. CASE v \in PagesOf(g)
      BY <1>1, <1>2, <3>1
    <3>2. CASE v \in DOMAIN want /\ want[v].kind = "anon"
      BY <1>1, <1>3, <2>2, <3>2 DEF Frugal, OneProcess
    <3> QED
      BY <1>9, <2>2, <3>1, <3>2
  <2> QED
    BY <1>1, <2>1, <2>2 DEF Frugal, OneProcess, Lower, PagesOf, Items
<1> QED
  BY <1>1, <1>2, <1>3, <1>4, <1>7, <1>8, <1>10, <1>11, AnonFrugal

\* Filling an item moves no frame.
LEMMA FillFrugal ==
  ASSUME TablesInv, Known, Frugal, Fill
  PROVE  Frugal'
<1>1. UNCHANGED <<pc, todo, call, tab, free, procs, want, prog>> /\ UNCHANGED tvars
      /\ load \in DOMAIN Items /\ (load' = 0 \/ load' = load + 1)
  BY DEF Fill, tvars, kvars
<1>2. Pending' = Pending
  BY <1>1 DEF tvars, itervars, Pending, PagesOf, Cursor, Ahead
<1>3. NoneLost' /\ Vacant' /\ BelowIo' /\ LowHalf'
  <2>1. NoneLost' /\ BelowIo' /\ LowHalf'
    BY <1>1 DEF Frugal, NoneLost, Owned, BelowIo, LowHalf
  <2>2. Vacant'
    BY <1>1, <1>2 DEF Frugal, Vacant, Leaf, Reached, Entry1, Entry2, Entry3
  <2> QED
    BY <2>1, <2>2
<1>4. ASSUME NEW k \in DOMAIN Items, load = 0 \/ k < load \/ (k = load /\ filled)
      PROVE  load' = 0 \/ k < load'
  <2>1. k \in Nat \ {0} /\ load \in Nat \ {0}
    BY <1>1, ItemTypes
  <2> QED
    BY <1>1, <1>4, <2>1
<1>5. OneProcess'
  BY <1>1, <1>4 DEF Frugal, OneProcess, Lower, PagesOf, Items
<1> QED
  BY <1>3, <1>5 DEF Frugal
\* A step that changes neither tables nor calls keeps the rest.
LEMMA SameFrugal ==
  ASSUME TablesInv, Frugal, pc' # "wild" => pc # "wild", call'.op = "none" \/ UNCHANGED tvars,
         UNCHANGED <<todo, call, tab, free, procs, want, load, filled, prog>>
  PROVE  Frugal'
<1>1. NoneLost' /\ BelowIo' /\ LowHalf' /\ OneProcess'
  BY DEF Frugal, NoneLost, Owned, BelowIo, LowHalf, OneProcess, Lower, PagesOf, Items
<1>2. Vacant'
  <2>1. CASE call'.op = "none"
    BY <2>1 DEF Vacant
  <2>2. CASE UNCHANGED tvars
    <3>1. Pending' = Pending
      BY <2>2 DEF tvars, itervars, Pending, PagesOf, Cursor, Ahead
    <3> QED
      BY <3>1 DEF Frugal, Vacant, Leaf, Reached, Entry1, Entry2, Entry3
  <2> QED
    BY <2>1, <2>2
<1> QED
  BY <1>1, <1>2 DEF Frugal

\* Every step keeps it, when one process is made at most, of a program whose
\* items share no page.
LEMMA FrugalStep ==
  ASSUME MaxProcs \in 0..1, TablesInv, Known, Apart, InFull, InFull', Frugal, [Next]_vars
  PROVE  Frugal'
<1>1. CASE init_nx /\ UNCHANGED pvars
  <2>1. Place /\ Translates
    BY Zenon DEF TablesInv
  <2>2. /\ pc = "nx" /\ UNCHANGED <<todo, call, tab, free, procs, want, load, filled, prog>>
    BY <1>1 DEF init_nx, pvars
  <2>3. call'.op = "none"
    BY <2>1, <2>2, AtRest DEF NoCallYet
  <2> QED
    BY <2>2, <2>3, SameFrugal
<1>2. CASE UNCHANGED vars \/ Fault \/ (Halt /\ UNCHANGED pvars)
  <2>1. UNCHANGED tvars /\ UNCHANGED <<pc, todo, call, tab, free, procs, want, load, filled, prog>>
    BY <1>2 DEF Halt, Fault, vars, tvars, kvars, pvars
  <2> QED
    BY <2>1, SameFrugal
<1>3. CASE InitMem /\ UNCHANGED pvars
  <2>1. CASE set_kernel_half /\ free = {}
    <3>1. pc' = "wild" /\ UNCHANGED <<todo, call, tab, free, procs, want, load, filled, prog>>
      BY <1>3, <2>1 DEF set_kernel_half, kvars, pvars
    <3> QED
      BY <3>1, WildFrugal
  <2> QED
    BY <1>1, <1>3, <2>1, HalfFrugal, HierarchyFrugal, InitCallFrugal, LomemFrugal DEF InitMem
<1>4. CASE Walks
  BY <1>4, WalkFrugal
<1>5. CASE KernelCall /\ load = 0 /\ UNCHANGED pvars
  BY <1>5, KernelCallFrugal
<1>6. CASE proc_create
  <2>1. CASE free = {}
    <3>1. pc' = "wild" /\ UNCHANGED <<todo, call, tab, free, procs, want, load, filled, prog>>
      BY <1>6, <2>1 DEF proc_create, create_cr3
    <3> QED
      BY <3>1, WildFrugal
  <2> QED
    BY <1>6, <2>1, CreateFrugal
<1>7. CASE proc_alloc
  BY <1>7, AllocFrugal
<1>8. CASE Fill
  BY <1>8, FillFrugal
<1> QED
  BY <1>2, <1>3, <1>4, <1>5, <1>6, <1>7, <1>8 DEF Next

\* All of the pool is free when the kernel starts.
LEMMA InitFrugal ==
  ASSUME BootFree = Pool, Init
  PROVE  Frugal
<1>1. /\ todo = 1 /\ call = NoCallYet /\ tab = BootTables /\ free = Pool /\ procs = {}
      /\ want = BootWant
  BY DEF Init, TablesInit
<1>2. \A v \in DOMAIN want : want[v].kind = "image"
  BY <1>1, ImageIs
<1>3. NoneLost /\ BelowIo /\ OneProcess
  BY <1>1, <1>2 DEF NoneLost, BelowIo, OneProcess
<1>4. Vacant
  BY <1>1 DEF Vacant, NoCallYet
<1>5. LowHalf
  BY <1>1, LowIndex, PoolAssumption, BootTreeAssumption DEF LowHalf, NoCallYet
<1> QED
  BY <1>3, <1>4, <1>5 DEF Frugal

\* A frame of the pool that an entry points to is not free, and no other entry
\* points to it. If all of the pool was free and one process is made at most, of
\* a program whose items share no page, then no frame is lost either: each is
\* free, a process's root, or what one entry points to.
THEOREM FrameUseHolds ==
  ASSUME MaxProcs \in 0..1, BootFree = Pool
  PROVE  Spec /\ []InFull => []FrameUse
<1>1. Init => (Apart => Frugal)
  BY InitFrugal
<1>2. ASSUME TablesInv, Known, InFull, InFull', Apart => Frugal, [Next]_vars
      PROVE  Apart' => Frugal'
  <2>1. Items' = Items
    BY <1>2, SameProgram
  <2>2. Apart' => Apart
    BY <2>1 DEF Apart, PagesOf
  <2> QED
    BY <1>2, <2>2, FrugalStep
<1>3. ASSUME TablesInv, Apart => Frugal, pc # "wild"
      PROVE  FrameUse
  <2>1. PICK L : Trees(L)
    BY <1>3 DEF TablesInv
  <2>2. PICK D, S : D = DOMAIN tab \ procs /\ S = Pointers
    OBVIOUS
  <2>3. \A p \in S : /\ p[1] \in D /\ p[2] \in Index /\ p = <<p[1], p[2]>>
                     /\ tab[p[1]][p[2]].present /\ tab[p[1]][p[2]].frame \in Pool
    BY <2>2 DEF Pointers
  <2>4. ASSUME NEW p \in S, NEW q \in S, tab[p[1]][p[2]].frame = tab[q[1]][q[2]].frame
        PROVE  p = q
    <3>1. PointedOnce(tab, L, D, Pool)
      BY <2>1, <2>2 DEF Trees
    <3>2. p[1] = q[1] /\ p[2] = q[2]
      BY <2>3, <2>4, <3>1 DEF PointedOnce
    <3> QED
      BY <2>3, <3>2
  <2>5. \A p \in S : tab[p[1]][p[2]].frame \notin free
    BY <2>1, <2>2, <2>3 DEF Trees
  <2>6. ASSUME Apart, NEW f \in Pool, f \notin free, f \notin procs
        PROVE  \E p \in S : tab[p[1]][p[2]].frame = f
    <3>1. PICK t \in D, x \in Index : tab[t][x].present /\ tab[t][x].frame = f
      BY <1>3, <2>2, <2>6 DEF Frugal, NoneLost, Owned
    <3>2. <<t, x>> \in S
      BY <2>2, <2>6, <3>1 DEF Pointers
    <3> QED
      BY <3>1, <3>2
  <2>7. PICK used : used = {tab[p[1]][p[2]].frame : p \in S}
    OBVIOUS
  <2>8. used \cap free = {} /\ (Apart => Pool \subseteq used \cup free \cup procs)
    BY <2>5, <2>6, <2>7
  <2> QED
    BY <2>2, <2>4, <2>7, <2>8 DEF FrameUse
<1>4. TablesInv /\ (Apart => Frugal) => FrameUse
  BY <1>3 DEF FrameUse
<1> QED
  BY <1>1, <1>2, <1>4, TablesHold, ProgramKnown, PTL DEF Spec
----------------------------------------------------------------------------
(* A program stays where it was loaded *)

\* Between calls the kernel's root is in the register.
Register == ~Walking /\ pc # "wild" => cr3 = Root

\* item k of the program has been mapped and filled
Done(k) == k < load \/ (load = 0 /\ loaded # {})

\* page v is asked for, as memory user mode may write
Given(v) == v \in DOMAIN want /\ want[v].kind = "anon" /\ {"U", "W"} \subseteq want[v].flags

\* byte b holds what item k has there
Held(b, k) ==
  /\ Given(b \div PAGE) /\ b \div PAGE \notin Pending
  /\ data[Leaf(tab, b \div PAGE).frame][b % PAGE] = Filled(b - Items[k].addr, k)

Contents == pc # "wild" =>
  \A k \in DOMAIN Items : Done(k) => \A b \in BytesOf(Items[k]) : Lasting(b, k) => Held(b, k)

\* Only programs have pages in the lower half, once unmap_lomem has cleared it.
LowPages == \A v \in DOMAIN want : Lower(v) =>
  IF todo <= Len(Sections) + 3 THEN v \div Span(3) \in Lomem ELSE Given(v)

Loading == Register /\ DOMAIN data = Pool /\ Contents /\ LowPages

\* A byte of a program is in the lower half.
LEMMA BytePlace ==
  ASSUME Known, NEW k \in DOMAIN Items, NEW b \in BytesOf(Items[k])
  PROVE  /\ b \in Nat /\ b \div PAGE \in Pages /\ Lower(b \div PAGE) /\ b % PAGE \in Offsets
<1>1. PICK a \in Nat, z \in Nat : a = Items[k].addr /\ z = Items[k].memsz
  BY ItemTypes
<1>2. b \in Nat
  BY <1>1 DEF BytesOf
<1>3. PICK P \in Nat \ {0} : P = PAGE
  BY ProgramAssumption
<1>4. PICK q \in Nat, r \in Nat : q = b \div P /\ r = b % P /\ r < P
  BY <1>2, Division
<1>5. Lower(q)
  BY <1>3, <1>4, ItemPlace DEF Lower
<1>6. PICK S \in Nat \ {0} : S = Span(3)
  <2>1. Span(3) \in Nat \ {0}
    BY Sizes, Z3
  <2> QED
    BY <2>1
<1>7. q < F * S
  <2>1. q \div S < F
    <3>1. PICK h \in Nat : h = q \div S
      BY <1>6, Division
    <3>2. h < F \div 2 /\ F \div 2 <= F
      BY <1>5, <1>6, <3>1, Sizes DEF Lower
    <3> QED
      BY <3>1, <3>2, Sizes
  <2>2. PICK y \in Int : y = F * S
    BY Times, Sizes
  <2> QED
    BY <1>6, <2>1, <2>2, QuotientBelow, Sizes
<1>8. q \in Pages
  <2>1. PICK y \in Int : y = F * S
    BY Times, Sizes
  <2> QED
    BY <1>6, <1>7, <2>1 DEF Pages
<1>9. r \in Offsets
  BY <1>3, <1>4 DEF Offsets
<1> QED
  BY <1>2, <1>3, <1>4, <1>5, <1>8, <1>9

\* The claim about the bytes, of the next state.
LEMMA ContentsNext ==
  ASSUME Items' = Items,
         \A k \in DOMAIN Items : \A b \in BytesOf(Items[k]) :
           (pc' # "wild" /\ Done(k)' /\ Lasting(b, k)) => Held(b, k)'
  PROVE  Contents'
<1>1. ASSUME NEW k \in DOMAIN Items
      PROVE  BytesOf(Items[k])' = BytesOf(Items[k])
  BY DEF BytesOf
<1>2. ASSUME NEW b, NEW k
      PROVE  Lasting(b, k)' <=> Lasting(b, k)
  BY DEF Lasting, BytesOf, PagesOf
<1> QED
  BY <1>1, <1>2 DEF Contents

\* The entry of a page is an entry of a page table.
LEMMA LeafEntry ==
  ASSUME Types, NEW L, Trees(L), NEW v \in Pages, Leaf(tab, v).present
  PROVE  \E t \in DOMAIN tab \ procs, x \in Index :
           /\ t = Entry1(tab, v).frame /\ x = v % F /\ Leaf(tab, v) = tab[t][x]
           /\ Reached(tab, v)
<1>1. Tree(tab, L, procs) /\ v \in Nat
  BY StateTree, TopIndex
<1>2. Reached(tab, v)
  BY ZeroEntries DEF Leaf
<1>3. PICK t \in DOMAIN tab \ procs : t = Entry1(tab, v).frame
  BY <1>1, <1>2, WayLevels
<1>4. PICK x \in Index : x = v % F
  BY <1>1, IndexIn
<1>5. Leaf(tab, v) = tab[t][x]
  BY <1>2, <1>3, <1>4 DEF Leaf
<1> QED
  BY <1>2, <1>3, <1>4, <1>5

\* The frame of a page is not free.
LEMMA LeafUsed ==
  ASSUME Types, NEW L, Trees(L), NEW v \in Pages, Leaf(tab, v).present
  PROVE  Leaf(tab, v).frame \notin free
<1>1. PICK t \in DOMAIN tab \ procs, x \in Index : Leaf(tab, v) = tab[t][x]
  BY LeafEntry
<1> QED
  BY <1>1 DEF Trees

\* No frame of the pool holds two pages.
LEMMA LeafOwn ==
  ASSUME Types, NEW L, Trees(L), NEW v \in Pages, NEW w \in Pages,
         Leaf(tab, v).present, Leaf(tab, w).present, Leaf(tab, v).frame = Leaf(tab, w).frame,
         Leaf(tab, v).frame \in Pool
  PROVE  v = w
<1>1. Tree(tab, L, procs)
  BY StateTree
<1>2. PICK t \in DOMAIN tab \ procs, x \in Index :
           /\ t = Entry1(tab, v).frame /\ x = v % F /\ Leaf(tab, v) = tab[t][x]
           /\ Reached(tab, v)
  BY LeafEntry
<1>3. PICK u \in DOMAIN tab \ procs, y \in Index :
           /\ u = Entry1(tab, w).frame /\ y = w % F /\ Leaf(tab, w) = tab[u][y]
           /\ Reached(tab, w)
  BY LeafEntry
<1>4. PointedOnce(tab, L, DOMAIN tab \ procs, Pool)
  BY DEF Trees
<1>5. t = u /\ x = y
  BY <1>2, <1>3, <1>4 DEF PointedOnce
<1> QED
  BY <1>1, <1>2, <1>3, <1>5, OwnEntry

\* A page that is asked for and done with is there, in a frame of the pool.
LEMMA GivenPage ==
  ASSUME TablesInv, pc # "wild", NEW v, Given(v), v \notin Pending
  PROVE  /\ v \in Pages /\ Leaf(tab, v).present /\ Leaf(tab, v).frame \in Pool
         /\ {"U", "W"} \subseteq Leaf(tab, v).flags
<1>1. Types /\ Translates
  BY Zenon DEF TablesInv
<1>2. v \in Pages
  BY <1>1 DEF Types, Given
<1>3. Kept(v)
  BY <1>1, <1>2 DEF Translates
<1> QED
  BY <1>2, <1>3 DEF Kept, Backed, Given

\* A page an item has been filled in stays as it is during a walk.
LEMMA WalkHeld ==
  ASSUME TablesInv, InFull, DOMAIN data = Pool, Walks, pc' # "wild", NEW b, NEW k, Held(b, k)
  PROVE  Held(b, k)'
<1>1. Types
  BY Zenon DEF TablesInv
<1>2. PICK L : Trees(L)
  BY DEF TablesInv
<1>3. pc # "wild" /\ want' = want
  BY DEF Walks, Walk, Returns, MapsZero, Descend, Ascend, ChunkDone, MakeTable, OutOfFrames,
     MapIo, Unmap, Protect, MapAnon, Return, InChunk, Advance
<1>4. PICK v : v = b \div PAGE
  OBVIOUS
<1>5. Given(v) /\ v \notin Pending /\ data[Leaf(tab, v).frame][b % PAGE] = Filled(b - Items[k].addr, k)
  BY <1>4 DEF Held
<1>6. v \in Pages /\ Leaf(tab, v).present /\ Leaf(tab, v).frame \in Pool
  BY <1>3, <1>5, GivenPage
<1>7. v \notin Pending' /\ Leaf(tab', v) = Leaf(tab, v)
  BY <1>6, <1>5, WalkLeaves
<1>8. PICK f : f = Leaf(tab, v).frame
  OBVIOUS
<1>9. f \in Pool /\ f \notin free
  BY <1>1, <1>2, <1>6, <1>8, LeafUsed
<1>10. data'[f] = data[f]
  <2>1. CASE MapsZero
    <3>1. free # {} /\ free \subseteq Nat
      BY <1>1, <2>1, PoolAssumption DEF MapsZero, MapAnon, Types
    <3>2. Lowest(free) # f
      BY <1>9, <3>1, LowestIn
    <3> QED
      BY <1>9, <2>1, <3>2 DEF MapsZero
  <2>2. ~MapsZero => UNCHANGED data
    BY DEF Walks, Returns, pvars
  <2> QED
    BY <2>1, <2>2
<1>11. Leaf(tab, v)' = Leaf(tab', v) /\ Given(v)'
  BY <1>3, <1>5 DEF Leaf, Reached, Entry1, Entry2, Entry3, Given
<1>12. Items' = Items
  BY DEF Items, Walks, Returns, MapsZero, pvars
<1>13. (Filled(b - Items[k].addr, k))' = Filled(b - Items[k].addr, k)
  BY <1>12 DEF Filled
<1>14. (data[Leaf(tab, v).frame][b % PAGE])' = Filled(b - Items[k].addr, k)
  BY <1>7, <1>8, <1>10, <1>11, <1>5
<1> QED
  BY <1>4, <1>7, <1>11, <1>13, <1>14 DEF Held

\* A walk keeps what is loaded.
LEMMA WalkLoading ==
  ASSUME TablesInv, InFull, Loading, Walks
  PROVE  Loading'
<1>1. UNCHANGED <<want, load, loaded, todo, prog>>
  BY DEF Walks, Walk, Returns, MapsZero, Descend, Ascend, ChunkDone, MakeTable, OutOfFrames,
     MapIo, Unmap, Protect, MapAnon, Return, Advance, pvars
<1>2. pc # "wild"
  BY DEF Walks, Walk, Returns, MapsZero, Descend, Ascend, ChunkDone, MakeTable, OutOfFrames,
     MapIo, Unmap, Protect, MapAnon, Return, InChunk
<1>3. Register'
  <2>1. pc' \in {"iter", "chunk", "wild"} \/ cr3' = Root
    BY DEF Walks, Walk, Returns, MapsZero, Descend, Ascend, ChunkDone, MakeTable, OutOfFrames,
       MapIo, Unmap, Protect, MapAnon, InChunk, Advance
  <2> QED
    BY <2>1 DEF Register, Walking
<1>4. DOMAIN data' = Pool
  BY DEF Loading, Walks, Returns, MapsZero, pvars
<1>5. Contents'
  <2>1. ASSUME pc' # "wild", NEW k \in DOMAIN Items, Done(k)', NEW b \in BytesOf(Items[k]),
               Lasting(b, k)
        PROVE  Held(b, k)'
    <3>1. Done(k)
      BY <1>1, <2>1 DEF Done
    <3>2. Held(b, k)
      BY <1>2, <2>1, <3>1 DEF Loading, Contents
    <3> QED
      BY <2>1, <3>2, WalkHeld DEF Loading
  <2>2. Items' = Items
    BY <1>1 DEF Items
  <2> QED
    BY <2>1, <2>2, ContentsNext
<1>6. LowPages'
  BY <1>1 DEF Loading, LowPages, Lower, Given
<1> QED
  BY <1>3, <1>4, <1>5, <1>6 DEF Loading
\* A call that is not about the items that are filled keeps them.
LEMMA StartHeld ==
  ASSUME TablesInv, Loading, pc = "idle", NEW c \in Calls, Start(c), c.op # "none", Fits(c),
         UNCHANGED <<tab, data, load, loaded, prog>>,
         \A k \in DOMAIN Items : \A b \in BytesOf(Items[k]) : (Done(k) /\ Lasting(b, k)) =>
           /\ b \div PAGE \notin PagesOf(c)
           /\ b \div PAGE \in DOMAIN want =>
                b \div PAGE \in DOMAIN want' /\ want'[b \div PAGE] = want[b \div PAGE]
  PROVE  Contents'
<1>1. Types
  BY Zenon DEF TablesInv
<1>2. Pending' = PagesOf(c)
  BY <1>1, StartPlace
<1>3. Items' = Items
  BY DEF Items
<1>4. ASSUME NEW k \in DOMAIN Items, Done(k)', NEW b \in BytesOf(Items[k]), Lasting(b, k)
      PROVE  Held(b, k)'
  <2>1. Done(k)
    BY <1>4 DEF Done
  <2>2. PICK v : v = b \div PAGE
    OBVIOUS
  <2>3. Held(b, k)
    BY <1>4, <2>1 DEF Loading, Contents
  <2>4. Given(v) /\ data[Leaf(tab, v).frame][b % PAGE] = Filled(b - Items[k].addr, k)
    BY <2>2, <2>3 DEF Held
  <2>5. v \notin PagesOf(c) /\ v \in DOMAIN want' /\ want'[v] = want[v]
    BY <1>4, <2>1, <2>2, <2>4 DEF Given
  <2>6. Given(v)' /\ Leaf(tab, v)' = Leaf(tab, v)
    BY <2>4, <2>5 DEF Given, Leaf, Reached, Entry1, Entry2, Entry3
  <2>7. (Filled(b - Items[k].addr, k))' = Filled(b - Items[k].addr, k)
    BY <1>3 DEF Filled
  <2>8. (data[Leaf(tab, v).frame][b % PAGE])' = Filled(b - Items[k].addr, k)
    BY <2>4, <2>6
  <2> QED
    BY <1>2, <2>2, <2>5, <2>6, <2>7, <2>8 DEF Held
<1> QED
  BY <1>3, <1>4, ContentsNext

\* init_mem runs before there is a process.
LEMMA NoProcess ==
  ASSUME TablesInv, todo <= Len(Sections) + 3
  PROVE  load = 0 /\ loaded = {}
<1>1. Halves /\ Roots
  BY Zenon DEF TablesInv
<1>2. procs = {}
  BY <1>1 DEF Halves
<1> QED
  BY <1>1, <1>2 DEF Roots

\* The boot loader maps nothing in what unmap_lomem keeps of the lower half.
LEMMA InitLow ==
  ASSUME Init
  PROVE  LowPages
<1>1. tab = BootTables /\ want = BootWant /\ todo = 1
  BY DEF Init, TablesInit
<1>2. ASSUME NEW v \in DOMAIN want, Lower(v)
      PROVE  v \div Span(3) \in Lomem
  <2>1. v \in Pages /\ tab[Root][(v \div Span(3)) % F].present
    BY <1>1, <1>2 DEF BootWant, Absent
  <2>2. PICK x \in Index : x = v \div Span(3) /\ x = (v \div Span(3)) % F
    BY <2>1, TopIndex DEF Offset0
  <2>3. x \in Lomem \cup Kernel
    BY <1>1, <2>1, <2>2, RootAssumption
  <2>4. x \notin Kernel
    BY <1>2, <2>2, Sizes DEF Lower, Kernel, Index
  <2> QED
    BY <2>2, <2>3, <2>4
<1>3. todo <= Len(Sections) + 3
  BY <1>1, SectionCount
<1> QED
  BY <1>2, <1>3 DEF LowPages

\* init_mem gives the lower half no page, and ends by clearing it.
LEMMA InitMemLow ==
  ASSUME TablesInv, LowPages, InitMem
  PROVE  LowPages'
<1>1. todo \in Nat /\ Len(Sections) \in Nat /\ DOMAIN Sections = 1..Len(Sections)
  BY Zenon, SectionCount DEF TablesInv, Types
<1>2. ASSUME todo' <= Len(Sections) + 3 => todo <= Len(Sections) + 3, todo' <= Len(Sections) + 3,
             \A v \in DOMAIN want' : v \in DOMAIN want \/ ~Lower(v)
      PROVE  LowPages'
  BY <1>2 DEF LowPages, Lower
<1>3. CASE init_nx \/ set_kernel_half \/ set_kernel_hierarchy_mem_prot
  <2>1. todo' = todo /\ DOMAIN want' = DOMAIN want /\ todo = 1
    <3>1. Halves
      BY Zenon DEF TablesInv
    <3> QED
      BY <1>3, <3>1 DEF init_nx, set_kernel_half, set_kernel_hierarchy_mem_prot, kvars, Halves
  <2> QED
    BY <1>1, <1>2, <2>1
<1>4. CASE InitCall
  <2>1. \A v \in DOMAIN want' : v \in DOMAIN want \/ ~Lower(v)
    <3>1. CASE \E k \in DOMAIN Sections : kmprotect(Sections[k])
      BY <3>1 DEF kmprotect
    <3>2. CASE kmapanon(Initram, {"W"})
      BY <3>2, HeapPages DEF kmapanon, Wanted
    <3>3. CASE kmap(VideoPages, IoFrame)
      <4>1. PICK a \in Nat : a = IO_BASE + io_size /\ a >= IO_BASE
        <5>1. io_size \in Nat
          BY Zenon DEF TablesInv, Types
        <5> QED
          BY <5>1, IoAbove
      <4>2. PICK g : g = [v |-> a, n |-> VideoPages]
        OBVIOUS
      <4>3. Wanted(g, "io", IoFrame, {"W"})
        BY <3>3, <4>1, <4>2 DEF kmap
      <4>4. ASSUME NEW v \in PagesOf(g)
            PROVE  ~Lower(v)
        <5>1. v \in Nat /\ IO_BASE <= v
          BY <4>1, <4>2, RangeAssumption, IoAbove DEF PagesOf
        <5> QED
          BY <5>1, IoAbove, Above
      <4> QED
        BY <4>3, <4>4 DEF Wanted
    <3> QED
      BY <1>4, <3>1, <3>2, <3>3 DEF InitCall
  <2>2. todo' = todo + 1 /\ todo <= Len(Sections) + 2
    BY <1>1, <1>4 DEF InitCall, InitStep
  <2> QED
    BY <1>1, <1>2, <2>1, <2>2
<1>5. CASE unmap_lomem
  <2>1. /\ todo = Len(Sections) + 3 /\ todo' = todo + 1
        /\ want' = [v \in {u \in DOMAIN want : u \div Span(3) \notin Lomem} |-> want[v]]
    BY <1>5 DEF unmap_lomem, InitStep
  <2>2. todo <= Len(Sections) + 3
    BY <1>1, <2>1
  <2>3. \A v \in DOMAIN want' : ~Lower(v)
    BY <2>1, <2>2 DEF LowPages
  <2> QED
    BY <2>3 DEF LowPages, Lower
<1> QED
  BY <1>3, <1>4, <1>5 DEF InitMem

\* A step of init_mem keeps it, there being no program.
LEMMA InitMemLoading ==
  ASSUME TablesInv, Known, Loading, InitMem, UNCHANGED pvars
  PROVE  Loading'
<1>1. todo <= Len(Sections) + 3
  <2>1. PICK N \in Nat : N = Len(Sections) /\ DOMAIN Sections = 1..N
    BY SectionCount
  <2>2. pc \in {"nx", "half"} => todo = 1
    BY Zenon DEF TablesInv, Halves
  <2>3. todo = 1 \/ (\E k \in DOMAIN Sections : todo = k) \/ todo = N + 1 \/ todo = N + 2
        \/ todo = N + 3
    BY <2>1, <2>2 DEF InitMem, init_nx, set_kernel_half, set_kernel_hierarchy_mem_prot, InitCall,
       InitStep, unmap_lomem
  <2> QED
    BY <2>1, <2>3
<1>2. load = 0 /\ loaded = {}
  BY <1>1, NoProcess
<1>3. UNCHANGED <<cr3, load, data, loaded, prog>> /\ Items' = Items
  BY DEF pvars, Items
<1>4. Register'
  <2>1. pc # "wild" /\ ~Walking
    BY DEF InitMem, init_nx, set_kernel_half, set_kernel_hierarchy_mem_prot, InitCall,
       InitStep, unmap_lomem, Walking
  <2> QED
    BY <1>3, <2>1 DEF Loading, Register
<1>5. Contents'
  <2>1. ASSUME NEW k \in DOMAIN Items
        PROVE  ~Done(k)'
    BY <1>2, <1>3, ItemTypes DEF Done
  <2> QED
    BY <1>3, <2>1, ContentsNext
<1>6. LowPages'
  BY InitMemLow DEF Loading
<1> QED
  BY <1>3, <1>4, <1>5, <1>6 DEF Loading

\* A call for pages of the kernel half keeps what is loaded.
LEMMA HighStart ==
  ASSUME TablesInv, Known, InFull', Loading, todo' = todo, pc = "idle", load = 0, NEW c \in Calls, Start(c), c.op # "none",
         UNCHANGED <<tab, pvars>>, \A v \in PagesOf(c) : ~Lower(v),
         \A v \in DOMAIN want : v \notin PagesOf(c) => v \in DOMAIN want' /\ want'[v] = want[v],
         \A v \in DOMAIN want' : v \notin PagesOf(c) => v \in DOMAIN want /\ want'[v] = want[v]
  PROVE  Loading'
<1>1. call' = c /\ pc' = "chunk"
  BY DEF Start
<1>2. Fits(c)
  BY <1>1 DEF InFull
<1>3. UNCHANGED <<data, load, loaded, prog>>
  BY DEF pvars
<1>4. ASSUME NEW k \in DOMAIN Items, NEW b \in BytesOf(Items[k])
      PROVE  /\ b \div PAGE \notin PagesOf(c)
             /\ b \div PAGE \in DOMAIN want =>
                  b \div PAGE \in DOMAIN want' /\ want'[b \div PAGE] = want[b \div PAGE]
  <2>1. Lower(b \div PAGE)
    BY BytePlace
  <2> QED
    BY <2>1
<1>5. Contents'
  BY <1>2, <1>3, <1>4, StartHeld
<1>6. Register'
  BY <1>1 DEF Register, Walking
<1>7. LowPages'
  <2>1. ASSUME NEW v \in DOMAIN want', Lower(v)
        PROVE  v \in DOMAIN want /\ want'[v] = want[v]
    BY <2>1
  <2> QED
    BY <2>1 DEF Loading, LowPages, Lower, Given
<1> QED
  BY <1>3, <1>5, <1>6, <1>7 DEF Loading

\* The calls the kernel makes later keep what is loaded.
LEMMA KernelCallLoading ==
  ASSUME TablesInv, Known, InFull', Loading, KernelCall, load = 0, UNCHANGED pvars
  PROVE  Loading'
<1>1. pc = "idle" /\ todo' = todo
  BY DEF KernelCall, Callable, Ready
<1>2. ASSUME NEW g \in AnonRanges, kmapanon(g, {"W"}) \/ kunmapanon(g)
      PROVE  Loading'
  <2>1. PICK a \in Nat, m \in Nat : a = g.v /\ m = g.n
    BY RangeAssumption
  <2>2. PICK c : /\ Start(c) /\ c.v = a /\ c.n = m /\ c \in Calls /\ c.op # "none"
    <3>1. CASE kmapanon(g, {"W"})
      <4>1. PICK c : c = [op |-> "anon", v |-> a, n |-> m, prot |-> {"W"}, phys |-> 0]
        OBVIOUS
      <4>2. c.v = a /\ c.n = m /\ c \in Calls /\ c.op # "none"
        BY <4>1 DEF Calls, Prots
      <4>3. Start(c)
        BY <2>1, <3>1, <4>1 DEF kmapanon
      <4> QED
        BY <4>2, <4>3
    <3>2. CASE kunmapanon(g)
      <4>1. PICK c : c = [op |-> "unmap", v |-> a, n |-> m, prot |-> {}, phys |-> 0]
        OBVIOUS
      <4>2. c.v = a /\ c.n = m /\ c \in Calls /\ c.op # "none"
        BY <4>1 DEF Calls, Prots
      <4>3. Start(c)
        BY <2>1, <3>2, <4>1 DEF kunmapanon
      <4> QED
        BY <4>2, <4>3
    <3> QED
      BY <1>2, <3>1, <3>2
  <2>3. PagesOf(c) = PagesOf(g) /\ \A v \in PagesOf(g) : ~Lower(v)
    BY <2>1, <2>2, HeapPages DEF PagesOf
  <2>4. UNCHANGED <<tab, pvars>>
    BY <1>2 DEF kmapanon, kunmapanon
  <2>5. /\ \A v \in DOMAIN want : v \notin PagesOf(g) => v \in DOMAIN want' /\ want'[v] = want[v]
        /\ \A v \in DOMAIN want' : v \notin PagesOf(g) => v \in DOMAIN want /\ want'[v] = want[v]
    BY <1>2 DEF kmapanon, kunmapanon, Wanted
  <2> QED
    BY <1>1, <2>2, <2>3, <2>4, <2>5, HighStart
<1>3. ASSUME NEW m \in IoSizes, kmap(m, IoFrame + io_size)
      PROVE  Loading'
  <2>1. PICK a \in Nat, ph \in Nat : a = IO_BASE + io_size /\ a >= IO_BASE /\ ph = IoFrame + io_size
    <3>1. io_size \in Nat
      BY Zenon DEF TablesInv, Types
    <3> QED
      BY <3>1, IoAbove, PoolAssumption
  <2>2. PICK g : g = [v |-> a, n |-> m]
    OBVIOUS
  <2>3. PICK c : c = [op |-> "io", v |-> a, n |-> m, prot |-> {"W"}, phys |-> ph]
    OBVIOUS
  <2>4. c \in Calls /\ c.op # "none" /\ PagesOf(c) = PagesOf(g) /\ PagesOf(g) = a..(a + m - 1)
    BY <2>2, <2>3, RangeAssumption DEF Calls, Prots, PagesOf
  <2>5. Start(c) /\ UNCHANGED <<tab, pvars>> /\ Wanted(g, "io", ph, {"W"})
    BY <1>3, <2>1, <2>2, <2>3 DEF kmap
  <2>6. \A v \in PagesOf(g) : ~Lower(v)
    <3>1. ASSUME NEW v \in PagesOf(g)
          PROVE  v \in Nat /\ IO_BASE <= v
      BY <2>1, <2>4, RangeAssumption, IoAbove
    <3> QED
      BY <3>1, IoAbove, Above
  <2>7. /\ \A v \in DOMAIN want : v \notin PagesOf(g) => v \in DOMAIN want' /\ want'[v] = want[v]
        /\ \A v \in DOMAIN want' : v \notin PagesOf(g) => v \in DOMAIN want /\ want'[v] = want[v]
    BY <2>5 DEF Wanted
  <2> QED
    BY <1>1, <2>4, <2>5, <2>6, <2>7, HighStart
<1> QED
  BY <1>2, <1>3 DEF KernelCall

\* A new process has nothing loaded.
LEMMA CreateLoading ==
  ASSUME Known, Loading, proc_create
  PROVE  Loading'
<1>1. /\ UNCHANGED <<cr3, data, loaded, want, todo>> /\ Items' = Items
      /\ pc' = "wild" \/ (load' = 1 /\ pc' = pc)
  BY DEF proc_create, create_cr3, Items
<1>2. ASSUME NEW k \in DOMAIN Items, load' = 1
      PROVE  ~Done(k)'
  BY <1>2, ItemTypes DEF Done
<1>3. Contents'
  BY <1>1, <1>2, ContentsNext
<1>4. LowPages'
  BY <1>1 DEF Loading, LowPages, Lower, Given
<1> QED
  BY <1>1, <1>3, <1>4 DEF Loading, Register, Walking

\* An item is asked for as memory user mode may write, apart from the items
\* before it.
LEMMA AllocLoading ==
  ASSUME TablesInv, Known, InFull', Loading, proc_alloc
  PROVE  Loading'
<1>1. /\ pc = "idle" /\ load \in DOMAIN Items /\ todo > Len(Sections) + 3
      /\ UNCHANGED <<load, data, loaded, todo, prog>>
  BY DEF proc_alloc, Ready
<1>2. PICK g, p : g = Items[load] /\ p = g.prot
  OBVIOUS
<1>3. PICK a \in Nat, m \in Nat : /\ a = g.v /\ m = g.n /\ p \in Prots /\ load \in Nat \ {0}
                                  /\ {"U", "W"} \subseteq p
  BY <1>1, <1>2, ItemTypes
<1>4. PICK c : c = [op |-> "anon", v |-> a, n |-> m, prot |-> p, phys |-> 0]
  OBVIOUS
<1>5. c \in Calls /\ c.op # "none" /\ PagesOf(c) = PagesOf(g)
  BY <1>3, <1>4 DEF Calls, PagesOf
<1>6. Start(c) /\ Wanted(g, "anon", 0, p) /\ UNCHANGED tab
  BY <1>2, <1>3, <1>4 DEF proc_alloc, kmapanon
<1>7. pc' = "chunk" /\ Fits(c)
  BY <1>5, <1>6 DEF Start, InFull
<1>8. ASSUME NEW k \in DOMAIN Items, Done(k), NEW b \in BytesOf(Items[k]), Lasting(b, k)
      PROVE  /\ b \div PAGE \notin PagesOf(c)
             /\ b \div PAGE \in DOMAIN want =>
                  b \div PAGE \in DOMAIN want' /\ want'[b \div PAGE] = want[b \div PAGE]
  <2>1. k \in Nat /\ load > k
    BY <1>3, <1>8, ItemTypes DEF Done
  <2>2. b \div PAGE \notin PagesOf(g)
    BY <1>1, <1>2, <1>8, <2>1 DEF Lasting
  <2> QED
    BY <1>5, <1>6, <2>2 DEF Wanted
<1>9. Contents'
  BY <1>1, <1>5, <1>6, <1>7, <1>8, StartHeld
<1>10. ASSUME NEW v \in PagesOf(g)
       PROVE  Given(v)'
  <2>1. v \in DOMAIN want' /\ want'[v].kind = "anon" /\ want'[v].flags = page_prot_flags(p)
    BY <1>6 DEF Wanted
  <2>2. {"U", "W"} \subseteq page_prot_flags(p)
    BY <1>3 DEF page_prot_flags
  <2> QED
    BY <2>1, <2>2 DEF Given
<1>11. LowPages'
  <2>1. ~(todo <= Len(Sections) + 3)
    <3>1. todo \in Nat /\ Len(Sections) \in Nat
      BY Zenon, SectionCount DEF TablesInv, Types
    <3> QED
      BY <1>1, <3>1
  <2>2. ASSUME NEW v \in DOMAIN want', Lower(v), v \notin PagesOf(g)
        PROVE  Given(v)'
    <3>1. v \in DOMAIN want /\ want'[v] = want[v]
      BY <1>6, <2>2 DEF Wanted
    <3>2. Given(v)
      BY <2>1, <2>2, <3>1 DEF Loading, LowPages
    <3> QED
      BY <3>1, <3>2 DEF Given
  <2> QED
    BY <1>1, <1>10, <2>1, <2>2 DEF LowPages, Lower
<1>12. Register'
  BY <1>7 DEF Register, Walking
<1> QED
  BY <1>1, <1>9, <1>11, <1>12 DEF Loading
\* memset and memcpy fill the bytes of one item, and no other byte of a program.
LEMMA FillData ==
  ASSUME TablesInv, Known, Loading, Fill, NEW b \in Nat, b \div PAGE \in Pages, b % PAGE \in Offsets,
         Given(b \div PAGE), NEW d, d = data'[Leaf(tab, b \div PAGE).frame][b % PAGE]
  PROVE  IF b \in BytesOf(Items[load]) THEN d = Filled(b - Items[load].addr, load)
         ELSE d = data[Leaf(tab, b \div PAGE).frame][b % PAGE]
<1>1. pc = "idle" /\ load \in DOMAIN Items /\ cr3 = Root
  BY DEF Fill, Ready, Loading, Register, Walking
<1>2. Types /\ Place /\ Translates
  BY Zenon DEF TablesInv
<1>3. PICK L : Trees(L)
  BY DEF TablesInv
<1>4. Pending = {} /\ pc # "wild"
  BY <1>1, <1>2, AtRest
<1>5. PICK f, o : f = Leaf(tab, b \div PAGE).frame /\ o = b % PAGE
  OBVIOUS
<1>6. Leaf(tab, b \div PAGE).present /\ f \in Pool /\ o \in Offsets
  BY <1>4, <1>5, GivenPage
<1>7. d = IF Stored(load, f, o) # {}
          THEN Filled((CHOOSE x \in Stored(load, f, o) : TRUE) - Items[load].addr, load)
          ELSE data[f][o]
  <2>1. data' = [g \in Pool |-> [x \in Offsets |->
                   IF Stored(load, g, x) # {}
                   THEN Filled((CHOOSE y \in Stored(load, g, x) : TRUE) - Items[load].addr, load)
                   ELSE data[g][x]]]
    BY DEF Fill
  <2> QED
    BY <1>5, <1>6, <2>1
<1>8. ASSUME NEW x \in Stored(load, f, o)
      PROVE  x = b /\ b \in BytesOf(Items[load])
  <2>1. x \in BytesOf(Items[load]) /\ At(cr3, x \div PAGE).frame = f /\ x % PAGE = o
    BY DEF Stored
  <2>2. x \in Nat /\ x \div PAGE \in Pages
    BY <1>1, <2>1, BytePlace
  <2>3. At(cr3, x \div PAGE).present /\ At(cr3, x \div PAGE) = Leaf(tab, x \div PAGE)
    BY <1>1, <2>1, AtRoot DEF Fill, There
  <2>4. x \div PAGE = b \div PAGE
    BY <1>2, <1>3, <1>5, <1>6, <2>1, <2>2, <2>3, LeafOwn
  <2>5. x = b
    BY <1>5, <2>1, <2>2, <2>4, SameParts, ProgramAssumption
  <2> QED
    BY <2>1, <2>5
<1>9. CASE b \in BytesOf(Items[load])
  <2>1. b \in Stored(load, f, o)
    BY <1>1, <1>5, <1>9, AtRoot DEF Stored
  <2>2. (CHOOSE x \in Stored(load, f, o) : TRUE) \in Stored(load, f, o)
    BY <2>1
  <2>3. (CHOOSE x \in Stored(load, f, o) : TRUE) = b
    BY <1>8, <2>2
  <2>4. d = Filled(b - Items[load].addr, load)
    BY <1>7, <2>1, <2>3
  <2> QED
    BY <1>9, <2>4
<1>10. CASE b \notin BytesOf(Items[load])
  <2>1. Stored(load, f, o) = {}
    BY <1>8, <1>10
  <2> QED
    BY <1>5, <1>7, <1>10, <2>1
<1> QED
  BY <1>9, <1>10

\* An item that has been filled is held, as are those before it.
LEMMA FillLoading ==
  ASSUME TablesInv, Known, Loading, Fill
  PROVE  Loading'
<1>1. /\ pc = "idle" /\ load \in DOMAIN Items /\ DOMAIN data' = Pool /\ todo > Len(Sections) + 3
      /\ UNCHANGED <<pc, tab, want, cr3, todo>> /\ UNCHANGED tvars /\ Items' = Items
      /\ (load = Len(Items) /\ load' = 0) \/ load' = load + 1
  BY DEF Fill, Ready, tvars, Items
<1>2. Types /\ Place /\ Translates
  BY Zenon DEF TablesInv
<1>3. Pending' = {} /\ Pending = {} /\ \A v \in Pages : Kept(v)
  <2>1. Pending' = Pending
    BY <1>1 DEF tvars, itervars, Pending, PagesOf, Cursor, Ahead
  <2> QED
    BY <1>1, <1>2, <2>1, AtRest
<1>4. load \in Nat \ {0} /\ cr3 = Root
  BY <1>1, ItemTypes DEF Loading, Register, Walking
<1>5. ~(todo <= Len(Sections) + 3)
  <2>1. todo \in Nat /\ Len(Sections) \in Nat
    BY <1>2, SectionCount DEF Types
  <2> QED
    BY <1>1, <2>1
<1>6. ASSUME NEW k \in DOMAIN Items, Done(k)', NEW b \in BytesOf(Items[k]), Lasting(b, k)
      PROVE  Held(b, k)'
  <2>1. k \in Nat /\ k <= Len(Items) /\ Len(Items) \in Nat
    BY ItemTypes
  <2>2. k = load \/ (k < load /\ k # load /\ load > k)
    BY <1>1, <1>4, <1>6, <2>1 DEF Done
  <2>3. b \in Nat /\ b \div PAGE \in Pages /\ Lower(b \div PAGE) /\ b % PAGE \in Offsets
    BY BytePlace
  <2>4. PICK v : v = b \div PAGE
    OBVIOUS
  <2>5. PICK d : d = data'[Leaf(tab, v).frame][b % PAGE]
    OBVIOUS
  <2>6. Given(v) /\ d = Filled(b - Items[k].addr, k)
    <3>1. CASE k = load
      <4>1. At(cr3, v).present
        BY <1>6, <2>4, <3>1 DEF Fill, There
      <4>2. v \in DOMAIN want
        BY <1>3, <1>4, <2>3, <2>4, <4>1, AtRoot DEF Kept
      <4>3. Given(v)
        BY <1>5, <2>3, <2>4, <4>2 DEF Loading, LowPages
      <4>4. d = Filled(b - Items[load].addr, load)
        BY <1>6, <2>3, <2>4, <2>5, <3>1, <4>3, FillData
      <4> QED
        BY <3>1, <4>3, <4>4
    <3>2. CASE k < load /\ load > k
      <4>1. Done(k)
        BY <3>2 DEF Done
      <4>2. Held(b, k)
        BY <1>1, <1>6, <4>1 DEF Loading, Contents
      <4>3. Given(v) /\ data[Leaf(tab, v).frame][b % PAGE] = Filled(b - Items[k].addr, k)
        BY <2>4, <4>2 DEF Held
      <4>4. b \notin BytesOf(Items[load])
        BY <1>1, <1>6, <3>2 DEF Lasting
      <4>5. d = data[Leaf(tab, v).frame][b % PAGE]
        BY <2>3, <2>4, <2>5, <4>3, <4>4, FillData
      <4> QED
        BY <4>3, <4>5
    <3> QED
      BY <2>2, <3>1, <3>2
  <2>7. Given(v)' /\ Leaf(tab, v)' = Leaf(tab, v)
    BY <1>1, <2>6 DEF Given, Leaf, Reached, Entry1, Entry2, Entry3
  <2>8. (Filled(b - Items[k].addr, k))' = Filled(b - Items[k].addr, k)
    BY <1>1 DEF Filled
  <2>9. (data[Leaf(tab, v).frame][b % PAGE])' = Filled(b - Items[k].addr, k)
    BY <2>5, <2>6, <2>7
  <2> QED
    BY <1>3, <2>4, <2>7, <2>8, <2>9 DEF Held
<1>7. Contents'
  BY <1>1, <1>6, ContentsNext
<1>8. LowPages'
  BY <1>1 DEF Loading, LowPages, Lower, Given
<1> QED
  BY <1>1, <1>7, <1>8 DEF Loading, Register, Walking

\* Every step keeps it.
LEMMA LoadingStep ==
  ASSUME TablesInv, Known, InFull, InFull', Loading, [Next]_vars
  PROVE  Loading'
<1>1. CASE UNCHANGED vars \/ Fault \/ (Halt /\ UNCHANGED pvars)
  <2>1. UNCHANGED tvars /\ UNCHANGED pvars
    BY <1>1 DEF Halt, Fault, vars
  <2>2. Pending' = Pending
    BY <2>1 DEF tvars, itervars, Pending, PagesOf, Cursor, Ahead
  <2>3. UNCHANGED <<pc, tab, want, todo>> /\ UNCHANGED <<cr3, load, data, loaded>> /\ Items' = Items
    BY <2>1 DEF tvars, pvars, Items
  <2>4. Register'
    BY <2>3 DEF Loading, Register, Walking
  <2>5. ASSUME NEW v
        PROVE  Given(v)' <=> Given(v)
    BY <2>3 DEF Given
  <2>6. ASSUME NEW b, NEW k
        PROVE  Held(b, k)' <=> Held(b, k)
    <3>1. PICK v : v = b \div PAGE
      OBVIOUS
    <3>2. Leaf(tab, v)' = Leaf(tab, v)
      BY <2>3 DEF Leaf, Reached, Entry1, Entry2, Entry3
    <3>3. (Filled(b - Items[k].addr, k))' = Filled(b - Items[k].addr, k)
      BY <2>3 DEF Filled
    <3> QED
      BY <2>2, <2>3, <2>5, <3>1, <3>2, <3>3 DEF Held
  <2>7. \A k : Done(k)' <=> Done(k)
    BY <2>3 DEF Done
  <2>8. Contents'
    BY <2>3, <2>6, <2>7, ContentsNext DEF Loading, Contents
  <2> QED
    BY <2>3, <2>4, <2>8 DEF Loading, LowPages, Lower, Given
<1>2. CASE InitMem /\ UNCHANGED pvars
  BY <1>2, InitMemLoading
<1>3. CASE Walks
  BY <1>3, WalkLoading
<1>4. CASE KernelCall /\ load = 0 /\ UNCHANGED pvars
  BY <1>4, KernelCallLoading
<1>5. CASE proc_create
  BY <1>5, CreateLoading
<1>6. CASE proc_alloc
  BY <1>6, AllocLoading
<1>7. CASE Fill
  BY <1>7, FillLoading
<1> QED
  BY <1>1, <1>2, <1>3, <1>4, <1>5, <1>6, <1>7 DEF Next

\* A process that was loaded stays loaded: at each byte of its segments and of
\* its stack there is the file's byte, or zero after them, in a page user mode
\* may write, whatever the kernel maps and unmaps later; but for the bytes a
\* later item writes over, or loses by being given their page anew.
THEOREM ImageLoadedHolds == Spec /\ []InFull => []ImageLoaded
<1>1. ASSUME Init
      PROVE  Loading
  <2>1. load = 0 /\ loaded = {} /\ Known /\ cr3 = Root /\ DOMAIN data = Pool
    BY <1>1 DEF Init, Known
  <2>2. \A k \in DOMAIN Items : ~Done(k)
    BY <2>1, ItemTypes DEF Done
  <2> QED
    BY <1>1, <2>1, <2>2, InitLow DEF Loading, Register, Contents
<1>2. TablesInv /\ Known /\ InFull /\ InFull' /\ Loading /\ [Next]_vars => Loading'
  BY LoadingStep
<1>3. ASSUME TablesInv, Loading, loaded # {}, pc = "idle", load = 0, NEW k \in DOMAIN Items,
             NEW b \in BytesOf(Items[k]), Lasting(b, k), NEW e, e = At(cr3, b \div PAGE),
             NEW m, m = b - Items[k].addr
      PROVE  /\ e.present /\ {"U", "W"} \subseteq e.flags
             /\ data[e.frame][b % PAGE] = IF m < Items[k].file THEN <<k, m>> ELSE Zero
  <2>1. PICK v : v = b \div PAGE
    OBVIOUS
  <2>2. Held(b, k)
    BY <1>3 DEF Loading, Contents, Done
  <2>3. e = Leaf(tab, v)
    BY <1>3, <2>1, AtRoot DEF Loading, Register, Walking
  <2>4. Leaf(tab, v).present /\ {"U", "W"} \subseteq Leaf(tab, v).flags
    BY <1>3, <2>1, <2>2, GivenPage DEF Held
  <2>5. data[e.frame][b % PAGE] = Filled(m, k)
    BY <1>3, <2>1, <2>2, <2>3 DEF Held
  <2> QED
    BY <2>3, <2>4, <2>5 DEF Filled
<1>4. TablesInv /\ Loading => ImageLoaded
  BY <1>3 DEF ImageLoaded
<1> QED
  BY <1>1, <1>2, <1>4, TablesHold, ProgramKnown, PTL DEF Spec
=============================================================================
