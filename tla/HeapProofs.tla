----------------------------- MODULE HeapProofs -----------------------------
(***************************************************************************)
(* The safety properties of Heap, for every arena, every table of regions  *)
(* and every set of layouts, and for all sizes of pages, headers and       *)
(* footers that keep the relations of HeapAssumption.                      *)
(***************************************************************************)
EXTENDS Heap, TLAPS

Header == [size : Nat, free : BOOLEAN]

Region == [start : Nat, len : Nat]

HeapType ==
  [hdr : [Addr -> Header], foot : [Addr -> Nat], list : Seq(Addr), regions : Seq(Region)]

Top == (ArenaPages + 1) * PAGE_SIZE

\* What vmarena gave: runs of pages that do not overlap.
SpansOK(S) ==
  /\ S \subseteq Region
  /\ \A r \in S : r.len > 0 /\ r.start >= PAGE_SIZE /\ r.start + r.len <= Top
  /\ \A r, s \in S : r # s => r.start + r.len <= s.start \/ s.start + s.len <= r.start

Aligned(x) == x % ALIGN = 0

\* Where the footer before q leads to.
Before(ft, q) == q - ft[q - FOOTER_SIZE]

Inside(b, size, S) == \E r \in S : r.start <= b /\ b + size <= r.start + r.len

\* Address p is not inside one of the blocks A, and if it is where one begins,
\* then of the one that ends at q.
Leads(A, z, p, q) ==
  \A c \in A : /\ c < p => c + z[c] <= p
               /\ c = p => c + z[c] = q

\* The footer before q, unless q begins a span, leads to an address of the same
\* span: the block before q, or one that was merged into another and is neither
\* in use nor free any more.
Tagged(A, z, ft, S, q) ==
  \A r \in S : r.start < q /\ q < r.start + r.len =>
    /\ r.start + FOOTER_SIZE <= q /\ r.start <= Before(ft, q)
    /\ Leads(A, z, Before(ft, q), q)

\* The blocks A, in use or free, whose sizes are in z, lie in the spans, do not
\* overlap, and can be found from the block behind.
Geometry(A, z, ft, S) ==
  /\ A \subseteq Addr
  /\ \A b \in A : Aligned(b) /\ z[b] >= HEADER_SIZE + FOOTER_SIZE /\ Inside(b, z[b], S)
  /\ \A b, c \in A : b < c => b + z[b] <= c
  /\ \A q \in A : Tagged(A, z, ft, S, q)

SizeOf(h) == [a \in Addr |-> h.hdr[a].size]

Active(h, L) == L \cup Range(h.list)

\* The list and the table of regions, when the blocks L are in use.
ListOK(h, L, S) ==
  /\ h \in HeapType /\ IsInjective(h.list) /\ L \cap Range(h.list) = {}
  /\ Range(h.regions) \subseteq S /\ Len(h.regions) <= MAX_REGIONS
  /\ \A a \in Addr : h.hdr[a].free => a \in Range(h.list)

HeapOK(h, L, S) == ListOK(h, L, S) /\ Geometry(Active(h, L), SizeOf(h), h.foot, S)

Allocation == [ptr : Nat, size : Nat, align : Nat \ {0}]

IInv ==
  /\ SpansOK(spans) /\ HeapOK(heap, LiveBlocks, spans)
  /\ live \subseteq Allocation
  /\ \A a, c \in live : a.ptr = c.ptr => a = c
  /\ Served /\ oom \in BOOLEAN

-----------------------------------------------------------------------------
(* Arithmetic.                                                             *)

LEMMA Constants ==
  /\ PAGE_SIZE \in Nat \ {0} /\ ALIGN \in Nat \ {0} /\ HEADER_SIZE \in Nat \ {0}
  /\ FOOTER_SIZE \in Nat \ {0} /\ MIN_PAYLOAD \in Nat \ {0} /\ InitialPages \in Nat \ {0}
  /\ ArenaPages \in Nat /\ Top \in Nat /\ Addr = PAGE_SIZE .. (Top - 1)
BY HeapAssumption DEF Top, Addr

LEMMA AddrNat == Addr \subseteq Nat
BY Constants

LEMMA Sizes == FOOTER_SIZE \in Nat /\ FOOTER_SIZE > 0 /\ HEADER_SIZE \in Nat /\ HEADER_SIZE > 0
BY HeapAssumption

LEMMA DivMod ==
  ASSUME NEW n \in Nat \ {0}, NEW a \in Int
  PROVE  a \div n \in Int /\ a % n \in 0 .. (n - 1) /\ a = n * (a \div n) + (a % n)
OBVIOUS

LEMMA ModMultiple ==
  ASSUME NEW n \in Nat \ {0}, NEW k \in Int
  PROVE  (n * k) % n = 0
OBVIOUS

LEMMA ModSum ==
  ASSUME NEW n \in Nat \ {0}, NEW a \in Int, NEW b \in Int, a % n = 0, b % n = 0
  PROVE  (a + b) % n = 0 /\ (a - b) % n = 0
<1>1. PICK i \in Int : i = a \div n
  BY DivMod
<1>2. PICK j \in Int : j = b \div n
  BY DivMod
<1>3. a = n * i /\ b = n * j
  BY <1>1, <1>2, DivMod
<1>4. a + b = n * (i + j) /\ a - b = n * (i - j)
  BY <1>3
<1>5. (n * (i + j)) % n = 0 /\ (n * (i - j)) % n = 0
  <2>1. i + j \in Int /\ i - j \in Int
    OBVIOUS
  <2>2. QED
    BY <2>1, ModMultiple
<1>6. QED
  BY <1>4, <1>5

LEMMA AlignedSum ==
  ASSUME NEW a \in Int, NEW b \in Int, Aligned(a), Aligned(b)
  PROVE  Aligned(a + b) /\ Aligned(a - b)
<1>1. ALIGN \in Nat \ {0}
  BY Constants
<1>2. a % ALIGN = 0 /\ b % ALIGN = 0
  BY Zenon DEF Aligned
<1>3. (a + b) % ALIGN = 0 /\ (a - b) % ALIGN = 0
  BY <1>1, <1>2, ModSum, Zenon
<1>4. QED
  BY <1>3, Zenon DEF Aligned

LEMMA ModTransitive ==
  ASSUME NEW n \in Nat \ {0}, NEW m \in Nat \ {0}, NEW a \in Int, m % n = 0, a % m = 0
  PROVE  a % n = 0
<1>1. PICK i \in Int : i = a \div m
  BY DivMod
<1>2. PICK j \in Int : j = m \div n
  BY DivMod
<1>3. a = m * i /\ m = n * j
  BY <1>1, <1>2, DivMod
<1>4. a = n * (j * i) /\ j * i \in Int
  BY <1>3
<1>5. QED
  BY <1>4, ModMultiple

\* align_up gives the next multiple.
LEMMA AlignUp ==
  ASSUME NEW n \in Nat \ {0}, NEW x \in Nat
  PROVE  /\ align_up(x, n) \in Nat /\ align_up(x, n) % n = 0
         /\ align_up(x, n) >= x /\ align_up(x, n) < x + n
<1>1. PICK y \in Nat : y = x + n - 1
  OBVIOUS
<1>2. PICK d \in Int : d = y \div n
  BY DivMod
<1>3. PICK m \in 0 .. (n - 1) : m = y % n
  BY DivMod
<1>4. y = n * d + m
  BY <1>2, <1>3, DivMod
<1>5. PICK p \in Int : p = n * d
  OBVIOUS
<1>6. align_up(x, n) = p
  BY <1>1, <1>2, <1>5 DEF align_up
<1>7. p >= x /\ p < x + n
  BY <1>1, <1>3, <1>4, <1>5
<1>8. p % n = 0
  BY <1>5, ModMultiple
<1>9. QED
  BY <1>6, <1>7, <1>8

LEMMA MinBlock == MIN_BLOCK \in Nat /\ MIN_BLOCK >= HEADER_SIZE + FOOTER_SIZE
<1>1. PICK x \in Nat : x = HEADER_SIZE + FOOTER_SIZE + MIN_PAYLOAD
  BY Constants
<1>2. align_up(x, ALIGN) \in Nat /\ align_up(x, ALIGN) >= x
  BY AlignUp, Constants, Zenon
<1>3. QED
  BY <1>1, <1>2, Constants DEF MIN_BLOCK

\* What alloc asks for holds the payload, the header and the footer.
LEMMA NeedIs ==
  ASSUME NEW size \in Nat
  PROVE  Need(size) \in Nat /\ Need(size) >= size + HEADER_SIZE + FOOTER_SIZE
<1>1. PICK x \in Nat : x = max(size, MIN_PAYLOAD)
  BY Constants DEF max
<1>2. x >= size
  BY <1>1, Constants DEF max
<1>3. PICK y \in Nat : y = align_up(x, ALIGN)
  BY AlignUp, Constants
<1>4. y >= x
  BY <1>3, AlignUp, Constants
<1>5. Need(size) = HEADER_SIZE + y + FOOTER_SIZE
  BY <1>1, <1>3 DEF Need
<1>6. QED
  BY <1>2, <1>4, <1>5, Constants

-----------------------------------------------------------------------------
(* Splitting, merging and adding blocks: what the changes of headers and   *)
(* footers, given one address at a time, do to the geometry.               *)

LEMMA OneSpan ==
  ASSUME NEW S, SpansOK(S), NEW r \in S, NEW s \in S, NEW x \in Int,
         r.start <= x, x < r.start + r.len, s.start <= x, x < s.start + s.len
  PROVE  r = s
BY DEF SpansOK, Region

\* The bytes of a block are addresses of the arena.
LEMMA BlockBytes ==
  ASSUME NEW S, SpansOK(S), NEW b \in Int, NEW size \in Nat, Inside(b, size, S),
         NEW x \in Int, b <= x, x < b + size
  PROVE  x \in Addr
<1>1. PICK r \in S : r.start <= b /\ b + size <= r.start + r.len
  BY DEF Inside
<1>2. r.start \in Nat /\ r.len \in Nat /\ r.start >= PAGE_SIZE /\ r.start + r.len <= Top
  BY DEF SpansOK, Region
<1>3. QED
  BY <1>1, <1>2, Constants

\* A block that ends where another begins, which does not begin its span, is in
\* the same span.
LEMMA BesideSpan ==
  ASSUME NEW S, SpansOK(S), NEW b \in Int, NEW size \in Nat \ {0}, NEW r \in S, NEW s \in S,
         r.start <= b, b + size <= r.start + r.len,
         s.start < b + size, b + size < s.start + s.len
  PROVE  r = s
BY DEF SpansOK, Region

\* A footer that is left alone leads where it did.
LEMMA TagKept ==
  ASSUME NEW S, SpansOK(S), NEW A, NEW B, NEW z, NEW z2, NEW ft \in [Addr -> Nat], NEW ft2,
         NEW q \in Int, Tagged(A, z, ft, S, q),
         \A x \in Addr : x = q - FOOTER_SIZE => ft2[x] = ft[x],
         \A p \in Int : Leads(A, z, p, q) => Leads(B, z2, p, q)
  PROVE  Tagged(B, z2, ft2, S, q)
<1> SUFFICES ASSUME NEW r \in S, r.start < q, q < r.start + r.len
             PROVE  /\ r.start + FOOTER_SIZE <= q /\ r.start <= Before(ft2, q)
                    /\ Leads(B, z2, Before(ft2, q), q)
  BY Zenon DEF Tagged
<1>1. /\ r.start + FOOTER_SIZE <= q /\ r.start <= Before(ft, q)
      /\ Leads(A, z, Before(ft, q), q)
  BY Zenon DEF Tagged
<1>2. r.start \in Nat /\ r.len \in Nat /\ r.start >= PAGE_SIZE /\ r.start + r.len <= Top
  BY DEF SpansOK, Region
<1>3. PICK x \in Addr : x = q - FOOTER_SIZE
  BY <1>1, <1>2, Constants
<1>4. ft2[x] = ft[x] /\ ft[x] \in Nat
  BY <1>3
<1>5. Before(ft2, q) = Before(ft, q) /\ Before(ft, q) \in Int
  BY <1>3, <1>4 DEF Before
<1>6. QED
  BY <1>1, <1>5

\* A footer just written before q leads to p.
LEMMA TagNew ==
  ASSUME NEW S, SpansOK(S), NEW B, NEW z2, NEW ft2, NEW q \in Int, NEW p \in Int,
         NEW s \in S, s.start <= p, p + FOOTER_SIZE <= q, q <= s.start + s.len,
         ft2[q - FOOTER_SIZE] = q - p, Leads(B, z2, p, q)
  PROVE  Tagged(B, z2, ft2, S, q)
<1>1. Before(ft2, q) = p
  BY DEF Before
<1>2. ASSUME NEW r \in S, r.start < q, q < r.start + r.len
      PROVE  r.start + FOOTER_SIZE <= q /\ r.start <= p
  <2>1. PICK m \in Nat \ {0} : m = q - p
    BY Constants
  <2>2. q = p + m
    BY <2>1
  <2>3. r = s
    BY <1>2, <2>2, BesideSpan
  <2>4. s.start \in Nat
    BY DEF SpansOK, Region
  <2>5. QED
    BY <2>3, <2>4, Constants
<1>3. QED
  BY <1>1, <1>2, Zenon DEF Tagged

\* What Geometry says of one block and of two.
LEMMA BlockIs ==
  ASSUME NEW S, NEW A, NEW z \in [Addr -> Nat], NEW ft, Geometry(A, z, ft, S), NEW b \in A
  PROVE  /\ b \in Addr /\ b \in Nat /\ Aligned(b) /\ z[b] \in Nat
         /\ z[b] >= HEADER_SIZE + FOOTER_SIZE /\ z[b] > 0 /\ Inside(b, z[b], S)
         /\ Tagged(A, z, ft, S, b)
<1>1. b \in Addr /\ Aligned(b) /\ z[b] >= HEADER_SIZE + FOOTER_SIZE /\ Inside(b, z[b], S)
      /\ Tagged(A, z, ft, S, b)
  BY Zenon DEF Geometry
<1>2. QED
  BY <1>1, Constants

LEMMA BlocksApart ==
  ASSUME NEW S, NEW A, NEW z, NEW ft, Geometry(A, z, ft, S), NEW b \in A, NEW c \in A, b < c
  PROVE  b + z[b] <= c
BY Zenon DEF Geometry

\* Block b is cut in two at n.
Cut(A, z, z2, ft, ft2, b, n, s, d) ==
  /\ z2[b] = d /\ z2[n] = s - d
  /\ \A a \in A \ {b} : z2[a] = z[a]
  /\ ft2[n - FOOTER_SIZE] = d /\ ft2[(b + s) - FOOTER_SIZE] = s - d
  /\ \A x \in Addr : x # n - FOOTER_SIZE /\ x # (b + s) - FOOTER_SIZE => ft2[x] = ft[x]

LEMMA GeoSplit ==
  ASSUME NEW S, SpansOK(S), NEW A, NEW z \in [Addr -> Nat], NEW z2,
         NEW ft \in [Addr -> Nat], NEW ft2, Geometry(A, z, ft, S),
         NEW b \in A, NEW s \in Nat, s = z[b],
         NEW d \in Nat, Aligned(d), d >= HEADER_SIZE + FOOTER_SIZE,
         s - d >= HEADER_SIZE + FOOTER_SIZE, NEW n \in Int, n = b + d,
         Cut(A, z, z2, ft, ft2, b, n, s, d)
  PROVE  n \in Addr /\ n \notin A /\ Geometry(A \cup {n}, z2, ft2, S)
<1> DEFINE B == A \cup {n}
<1>1. b \in Addr /\ b \in Nat /\ Aligned(b) /\ Inside(b, s, S)
  BY BlockIs, Zenon
<1>2. b < n /\ n < b + s /\ n \in Nat
  BY <1>1, Constants
<1>3. n \in Addr
  BY <1>1, <1>2, BlockBytes
<1>4. \A a \in A : a \in Nat /\ z[a] \in Nat /\ z[a] > 0
  BY BlockIs, Zenon
<1>5. \A c \in A : (c < b => c + z[c] <= b) /\ (b < c => b + s <= c)
  BY BlocksApart
<1>6. n \notin A
  BY <1>1, <1>2, <1>5
<1>7. \A c \in A : c # b => c \in Nat /\ z2[c] = z[c]
  BY <1>4, Zenon DEF Cut
<1>8. z2[b] = d /\ z2[n] = s - d
  BY Zenon DEF Cut
<1>9. PICK t \in S : t.start <= b /\ b + s <= t.start + t.len
  BY <1>1, Zenon DEF Inside
<1>10. t.start \in Nat /\ t.len \in Nat
  BY Zenon DEF SpansOK, Region
<1>11. \A c \in B : Aligned(c) /\ z2[c] >= HEADER_SIZE + FOOTER_SIZE /\ Inside(c, z2[c], S)
  <2>1. Aligned(n)
    BY <1>1, AlignedSum
  <2>2. Inside(b, d, S) /\ Inside(n, s - d, S)
    BY <1>1, <1>2, <1>9, <1>10 DEF Inside
  <2>3. \A c \in A : c # b => Aligned(c) /\ z2[c] >= HEADER_SIZE + FOOTER_SIZE /\ Inside(c, z2[c], S)
    BY <1>7, BlockIs, Zenon
  <2>4. QED
    BY <1>1, <1>8, <2>1, <2>2, <2>3
<1>12. ASSUME NEW c \in B, NEW e \in B, c < e
       PROVE  c + z2[c] <= e
  <2>1. CASE c \in A /\ c # b /\ e \in A
    BY <1>7, <1>12, <2>1, BlocksApart
  <2>2. CASE c \in A /\ c # b /\ e = n
    <3>1. c < b
      BY <1>1, <1>2, <1>4, <1>5, <1>12, <2>2
    <3>2. QED
      BY <1>1, <1>2, <1>4, <1>5, <1>7, <2>2, <3>1
  <2>3. CASE c = b /\ e \in A
    BY <1>1, <1>2, <1>4, <1>5, <1>8, <1>12, <2>3
  <2>4. CASE c = n /\ e \in A
    BY <1>1, <1>2, <1>4, <1>5, <1>8, <1>12, <2>4
  <2>5. CASE c = b /\ e = n
    BY <1>8, <2>5
  <2>6. QED
    BY <1>2, <1>12, <2>1, <2>2, <2>3, <2>4, <2>5
<1>13. ASSUME NEW q \in B
       PROVE  Tagged(B, z2, ft2, S, q)
  <2>1. CASE q = n
    <3>1. ft2[q - FOOTER_SIZE] = q - b
      BY <1>1, <2>1 DEF Cut
    <3>2. Leads(B, z2, b, q)
      BY <1>1, <1>2, <1>4, <1>5, <1>7, <1>8, <2>1 DEF Leads
    <3>3. b + FOOTER_SIZE <= q /\ q <= t.start + t.len
      <4>1. PICK u \in Nat, v \in Nat : u = t.start /\ v = t.start + t.len
        BY <1>10
      <4>2. u <= b /\ b + s <= v
        BY <1>9, <4>1
      <4>3. b + FOOTER_SIZE <= n
        BY <1>1, <1>2, Sizes
      <4>4. QED
        BY <1>1, <1>2, <2>1, <4>1, <4>2, <4>3
    <3>4. QED
      BY <1>1, <1>2, <1>9, <2>1, <3>1, <3>2, <3>3, TagNew
  <2>2. CASE q = b + s
    <3>1. ft2[q - FOOTER_SIZE] = q - n
      <4>1. ft2[q - FOOTER_SIZE] = s - d
        <5>1. q - FOOTER_SIZE = (b + s) - FOOTER_SIZE
          BY <2>2, Zenon
        <5>2. ft2[(b + s) - FOOTER_SIZE] = s - d
          BY Zenon DEF Cut
        <5>3. QED
          BY <5>1, <5>2, Zenon
      <4>2. QED
        BY <1>1, <2>2, <4>1
    <3>2. Leads(B, z2, n, q)
      BY <1>1, <1>2, <1>4, <1>5, <1>7, <1>8, <2>2 DEF Leads
    <3>3. q \in Int /\ n + FOOTER_SIZE <= q /\ q <= t.start + t.len /\ t.start <= n
      <4>1. PICK u \in Nat, v \in Nat : u = t.start /\ v = t.start + t.len
        BY <1>10
      <4>2. u <= b /\ b + s <= v
        BY <1>9, <4>1
      <4>3. n + FOOTER_SIZE <= b + s
        BY <1>1, <1>2, Sizes
      <4>4. QED
        BY <1>1, <1>2, <2>2, <4>1, <4>2, <4>3
    <3>4. QED
      BY <1>2, <3>1, <3>2, <3>3, TagNew
  <2>3. CASE q \in A /\ q # b + s
    <3>1. q \in Int /\ q # n /\ Tagged(A, z, ft, S, q)
      BY <1>4, <1>6, <2>3, BlockIs
    <3>2. ASSUME NEW x \in Addr, x = q - FOOTER_SIZE
          PROVE  ft2[x] = ft[x]
      <4>1. x # n - FOOTER_SIZE /\ x # (b + s) - FOOTER_SIZE
        BY <1>1, <1>2, <2>3, <3>1, <3>2, Sizes
      <4>2. QED
        BY <4>1, Zenon DEF Cut
    <3>3. ASSUME NEW p \in Int, Leads(A, z, p, q)
          PROVE  Leads(B, z2, p, q)
      <4>1. \A c \in A : (c < p => c + z[c] <= p) /\ (c = p => c + z[c] = q)
        BY <3>3, Zenon DEF Leads
      <4>2. b # p /\ (b < p => b + s <= p)
        BY <2>3, <4>1
      <4>3. n # p /\ (n < p => n + (s - d) <= p) /\ (b < p => b + d <= p)
        BY <1>1, <1>2, <4>2
      <4>4. QED
        BY <1>7, <1>8, <4>1, <4>2, <4>3 DEF Leads
    <3>4. QED
      BY <3>1, <3>2, <3>3, TagKept, Zenon
  <2>4. QED
    BY <2>1, <2>2, <2>3
<1>14. B \subseteq Addr
  BY <1>3, Zenon DEF Geometry
<1>15. Geometry(B, z2, ft2, S)
  BY <1>11, <1>12, <1>13, <1>14, Zenon DEF Geometry
<1>16. QED
  BY <1>3, <1>6, <1>15

\* Fewer blocks are still apart.
LEMMA GeoSubset ==
  ASSUME NEW S, SpansOK(S), NEW A, NEW B, B \subseteq A, NEW z \in [Addr -> Nat],
         NEW ft \in [Addr -> Nat], Geometry(A, z, ft, S)
  PROVE  Geometry(B, z, ft, S)
<1>1. ASSUME NEW q \in B
      PROVE  Tagged(B, z, ft, S, q)
  <2>1. q \in Int /\ Tagged(A, z, ft, S, q)
    BY BlockIs
  <2>2. \A p \in Int : Leads(A, z, p, q) => Leads(B, z, p, q)
    BY Zenon DEF Leads
  <2>3. QED
    BY <2>1, <2>2, TagKept
<1>2. QED
  BY <1>1, Zenon DEF Geometry

\* The footer before e is written and leads to p.
Foot(ft, ft2, e, p) ==
  /\ ft2[e - FOOTER_SIZE] = e - p
  /\ \A x \in Addr : x # e - FOOTER_SIZE => ft2[x] = ft[x]

LEMMA GeoFoot ==
  ASSUME NEW S, SpansOK(S), NEW A, NEW z \in [Addr -> Nat], NEW z2, \A a \in A : z2[a] = z[a],
         NEW ft \in [Addr -> Nat], NEW ft2, Geometry(A, z, ft, S),
         NEW t \in S, NEW e \in Int, NEW p \in Int,
         t.start <= p, p + FOOTER_SIZE <= e, e <= t.start + t.len,
         Foot(ft, ft2, e, p), Leads(A, z, p, e)
  PROVE  Geometry(A, z2, ft2, S)
<1>1. ASSUME NEW q \in Int, NEW p2 \in Int, Leads(A, z, p2, q)
      PROVE  Leads(A, z2, p2, q)
  BY <1>1, Zenon DEF Leads
<1>2. ASSUME NEW q \in A
      PROVE  Tagged(A, z2, ft2, S, q)
  <2>1. q \in Int /\ Tagged(A, z, ft, S, q)
    BY BlockIs
  <2>2. CASE q = e
    <3>1. Leads(A, z2, p, q) /\ ft2[q - FOOTER_SIZE] = q - p
      BY <1>1, <2>2, Zenon DEF Foot
    <3>2. QED
      BY <2>2, <3>1, TagNew
  <2>3. CASE q # e
    <3>1. \A x \in Addr : x = q - FOOTER_SIZE => ft2[x] = ft[x]
      BY <2>1, <2>3, Constants DEF Foot
    <3>2. QED
      BY <1>1, <2>1, <3>1, TagKept
  <2>4. QED
    BY <2>2, <2>3
<1>3. QED
  BY <1>2, Zenon DEF Geometry

\* Block n is added to block b, which it follows.
Join(A, z, z2, ft, ft2, b, n) ==
  /\ z2[b] = z[b] + z[n] /\ \A a \in A \ {b, n} : z2[a] = z[a]
  /\ Foot(ft, ft2, n + z[n], b)

LEMMA GeoMerge ==
  ASSUME NEW S, SpansOK(S), NEW A, NEW z \in [Addr -> Nat], NEW z2,
         NEW ft \in [Addr -> Nat], NEW ft2, Geometry(A, z, ft, S),
         NEW b \in A, NEW n \in A, n = b + z[b], NEW t \in S,
         t.start <= b, b < t.start + t.len, n < t.start + t.len,
         Join(A, z, z2, ft, ft2, b, n)
  PROVE  Geometry(A \ {n}, z2, ft2, S)
<1> DEFINE B == A \ {n}
<1>1. PICK s \in Nat, m \in Nat : s = z[b] /\ m = z[n] /\ s > 0 /\ m > 0
  BY BlockIs
<1>2. /\ b \in Nat /\ n \in Nat /\ n = b + s /\ Inside(n, m, S)
      /\ s >= HEADER_SIZE + FOOTER_SIZE /\ m >= HEADER_SIZE + FOOTER_SIZE
  BY <1>1, BlockIs, Zenon
<1>3. t.start \in Nat /\ t.len \in Nat
  BY Zenon DEF SpansOK, Region
<1>4. n + m <= t.start + t.len
  <2>1. PICK r \in S : r.start <= n /\ n + m <= r.start + r.len
    BY <1>2, Zenon DEF Inside
  <2>2. r.start \in Nat /\ r.len \in Nat
    BY Zenon DEF SpansOK, Region
  <2>3. r = t
    BY <1>1, <1>2, <1>3, <2>1, <2>2, OneSpan
  <2>4. QED
    BY <2>1, <2>3
<1>5. \A a \in A : a \in Nat /\ z[a] \in Nat /\ z[a] > 0
  BY BlockIs, Zenon
<1>6. \A c \in A : c # b /\ c # n => z2[c] = z[c]
  BY Zenon DEF Join
<1>7. z2[b] = s + m
  BY <1>1, Zenon DEF Join
<1>8. \A c \in A : /\ c < b => c + z[c] <= b
                   /\ b < c => n <= c
                   /\ n < c => n + m <= c
  BY <1>1, <1>2, BlocksApart
<1>9. \A c \in B : Aligned(c) /\ z2[c] >= HEADER_SIZE + FOOTER_SIZE /\ Inside(c, z2[c], S)
  <2>1. Inside(b, s + m, S)
    BY <1>2, <1>3, <1>4 DEF Inside
  <2>2. s + m >= HEADER_SIZE + FOOTER_SIZE
    BY <1>1, <1>2, Constants
  <2>3. \A c \in A : c # b /\ c # n => Aligned(c) /\ z2[c] >= HEADER_SIZE + FOOTER_SIZE /\ Inside(c, z2[c], S)
    BY <1>6, BlockIs
  <2>4. Aligned(b)
    BY BlockIs, Zenon
  <2>5. QED
    BY <1>7, <2>1, <2>2, <2>3, <2>4
<1>10. ASSUME NEW c \in B, NEW e \in B, c < e
       PROVE  c + z2[c] <= e
  <2>1. CASE c = b
    BY <1>1, <1>2, <1>5, <1>7, <1>8, <1>10, <2>1
  <2>2. CASE c # b
    BY <1>6, <1>10, <2>2, BlocksApart
  <2>3. QED
    BY <2>1, <2>2
<1>11. ASSUME NEW q \in B
       PROVE  Tagged(B, z2, ft2, S, q)
  <2>1. q \in Int /\ Tagged(A, z, ft, S, q)
    BY BlockIs
  <2>2. CASE q = n + m
    <3>1. ft2[q - FOOTER_SIZE] = q - b
      BY <1>1, <2>2 DEF Join, Foot
    <3>2. Leads(B, z2, b, q)
      <4>1. ASSUME NEW c \in B
            PROVE  (c < b => c + z2[c] <= b) /\ (c = b => c + z2[c] = q)
        <5>1. CASE c = b
          BY <1>2, <1>7, <2>2, <5>1
        <5>2. CASE c # b
          BY <1>6, <1>8, <5>2
        <5>3. QED
          BY <5>1, <5>2
      <4>2. QED
        BY <4>1, Zenon DEF Leads
    <3>3. b + FOOTER_SIZE <= q /\ q <= t.start + t.len
      BY <1>2, <1>4, <2>2, Constants
    <3>4. QED
      BY <1>2, <2>1, <3>1, <3>2, <3>3, TagNew
  <2>3. CASE q # n + m
    <3>1. ASSUME NEW x \in Addr, x = q - FOOTER_SIZE
          PROVE  ft2[x] = ft[x]
      <4>1. x # (n + m) - FOOTER_SIZE
        BY <1>1, <1>2, <2>1, <2>3, <3>1, Sizes
      <4>2. QED
        <5>1. Foot(ft, ft2, n + m, b)
          BY <1>1, Zenon DEF Join
        <5>2. QED
          BY <4>1, <5>1, Zenon DEF Foot
    <3>2. ASSUME NEW p \in Int, Leads(A, z, p, q)
          PROVE  Leads(B, z2, p, q)
      <4>1. \A c \in A : (c < p => c + z[c] <= p) /\ (c = p => c + z[c] = q)
        BY <3>2, Zenon DEF Leads
      <4>2. n # p /\ b # p /\ (n < p => n + m <= p) /\ (b < p => n <= p)
        BY <1>1, <1>2, <2>3, <4>1
      <4>3. b < p => b + (s + m) <= p
        BY <1>2, <4>2
      <4>4. QED
        BY <1>6, <1>7, <4>1, <4>2, <4>3 DEF Leads
    <3>3. QED
      BY <2>1, <3>1, <3>2, TagKept
  <2>4. QED
    BY <2>2, <2>3
<1>12. B \subseteq Addr
  BY Zenon DEF Geometry
<1>13. QED
  BY <1>9, <1>10, <1>11, <1>12, Zenon DEF Geometry

\* A span becomes one block.
Span(z, z2, ft, ft2, A, t) ==
  /\ z2[t.start] = t.len /\ \A a \in A : z2[a] = z[a]
  /\ Foot(ft, ft2, t.start + t.len, t.start)

LEMMA GeoAdd ==
  ASSUME NEW S, SpansOK(S), NEW t \in Region, SpansOK(S \cup {t}),
         NEW A, NEW z \in [Addr -> Nat], NEW z2, NEW ft \in [Addr -> Nat], NEW ft2,
         Geometry(A, z, ft, S), t \notin S, t.start \in Addr, Aligned(t.start),
         t.len >= HEADER_SIZE + FOOTER_SIZE, Span(z, z2, ft, ft2, A, t)
  PROVE  t.start \notin A /\ Geometry(A \cup {t.start}, z2, ft2, S \cup {t})
<1> DEFINE B == A \cup {t.start}
           U == S \cup {t}
<1>1. PICK b \in Nat, n \in Nat : b = t.start /\ n = t.len /\ n > 0
  BY Constants DEF Region
<1>2. \A r \in S : r.start \in Nat /\ r.len \in Nat /\ r.len > 0
                   /\ (r.start + r.len <= b \/ b + n <= r.start)
  BY <1>1 DEF SpansOK, Region
<1>3. ASSUME NEW a \in A
      PROVE  /\ a \in Nat /\ z[a] \in Nat /\ z[a] > 0
             /\ (a + z[a] <= b \/ b + n <= a) /\ Inside(a, z[a], U)
  <2>1. a \in Nat /\ z[a] \in Nat /\ z[a] > 0 /\ Inside(a, z[a], S)
    BY BlockIs, Zenon
  <2>2. PICK r \in S : r.start <= a /\ a + z[a] <= r.start + r.len
    BY <2>1, Zenon DEF Inside
  <2>3. Inside(a, z[a], U)
    BY <2>2 DEF Inside
  <2>4. a + z[a] <= b \/ b + n <= a
    BY <1>1, <1>2, <2>1, <2>2
  <2>5. QED
    BY <2>1, <2>3, <2>4
<1>4. b \notin A
  BY <1>1, <1>3
<1>5. \A a \in A : z2[a] = z[a]
  BY Zenon DEF Span
<1>6. z2[b] = n
  BY <1>1, Zenon DEF Span
<1>7. \A c \in B : Aligned(c) /\ z2[c] >= HEADER_SIZE + FOOTER_SIZE /\ Inside(c, z2[c], U)
  <2>1. Inside(b, n, U)
    BY <1>1 DEF Inside
  <2>2. \A c \in A : Aligned(c) /\ z[c] >= HEADER_SIZE + FOOTER_SIZE
    BY BlockIs, Zenon
  <2>3. QED
    BY <1>1, <1>3, <1>5, <1>6, <2>1, <2>2
<1>8. ASSUME NEW c \in B, NEW e \in B, c < e
      PROVE  c + z2[c] <= e
  <2>1. CASE c \in A /\ e \in A
    BY <1>5, <1>8, <2>1, BlocksApart
  <2>2. CASE c = b /\ e \in A
    BY <1>1, <1>3, <1>6, <1>8, <2>2
  <2>3. CASE c \in A /\ e = b
    BY <1>1, <1>3, <1>5, <1>8, <2>3
  <2>4. QED
    BY <1>1, <1>8, <2>1, <2>2, <2>3
<1>9. Tagged(B, z2, ft2, U, b)
  <2>1. \A r \in U : ~(r.start < b /\ b < r.start + r.len)
    BY <1>1, <1>2
  <2>2. QED
    BY <2>1, Zenon DEF Tagged
<1>10. ASSUME NEW q \in A
       PROVE  Tagged(B, z2, ft2, U, q)
  <2> SUFFICES ASSUME NEW r \in U, r.start < q, q < r.start + r.len
               PROVE  /\ r.start + FOOTER_SIZE <= q /\ r.start <= Before(ft2, q)
                      /\ Leads(B, z2, Before(ft2, q), q)
    BY Zenon DEF Tagged
  <2>1. q \in Nat /\ z[q] \in Nat /\ z[q] > 0 /\ (q + z[q] <= b \/ b + n <= q)
    BY <1>3
  <2>2. r \in S
    BY <1>1, <2>1
  <2>3. /\ r.start + FOOTER_SIZE <= q /\ r.start <= Before(ft, q)
        /\ Leads(A, z, Before(ft, q), q)
    <3>1. Tagged(A, z, ft, S, q)
      BY BlockIs
    <3>2. QED
      BY <2>2, <3>1, Zenon DEF Tagged
  <2>4. /\ r.start \in Nat /\ r.len \in Nat /\ (r.start + r.len <= b \/ b + n <= r.start)
        /\ r.start >= PAGE_SIZE /\ r.start + r.len <= Top
    BY <1>2, <2>2 DEF SpansOK
  <2>5. PICK x \in Addr : x = q - FOOTER_SIZE
    BY <2>1, <2>3, <2>4, Constants
  <2>6. x # (b + n) - FOOTER_SIZE
    <3>1. PICK u \in Nat, v \in Nat : u = r.start /\ v = r.start + r.len
      BY <2>4
    <3>2. u + FOOTER_SIZE <= q /\ q < v /\ (v <= b \/ b + n <= u)
      BY <2>3, <2>4, <3>1
    <3>3. QED
      BY <1>1, <2>1, <2>5, <3>2, Sizes
  <2>7. ft2[x] = ft[x] /\ ft[x] \in Nat
    <3>1. Foot(ft, ft2, b + n, b)
      BY <1>1, Zenon DEF Span
    <3>2. ft2[x] = ft[x]
      BY <2>5, <2>6, <3>1, Zenon DEF Foot
    <3>3. QED
      BY <3>2
  <2>8. PICK p \in Int : p = Before(ft, q) /\ p = Before(ft2, q) /\ p <= q
    BY <2>1, <2>5, <2>7 DEF Before
  <2>9. Leads(B, z2, p, q)
    <3>1. \A c \in A : (c < p => c + z[c] <= p) /\ (c = p => c + z[c] = q)
      BY <2>3, <2>8, Zenon DEF Leads
    <3>2. b # p /\ (b < p => b + n <= p)
      BY <1>1, <2>1, <2>3, <2>4, <2>8
    <3>3. QED
      BY <1>1, <1>5, <1>6, <3>1, <3>2 DEF Leads
  <2>10. QED
    BY <2>3, <2>8, <2>9
<1>11. B \subseteq Addr
  BY Zenon DEF Geometry
<1>12. Geometry(B, z2, ft2, U)
  BY <1>1, <1>7, <1>8, <1>9, <1>10, <1>11, Zenon DEF Geometry
<1>13. QED
  BY <1>1, <1>4, <1>12

-----------------------------------------------------------------------------
(* The list, and what the operations write.                                *)

LEMMA PushList ==
  ASSUME NEW T, NEW l \in Seq(T), NEW b \in T, NEW m, m = <<b>> \o l
  PROVE  /\ m \in Seq(T) /\ Range(m) = {b} \cup Range(l)
         /\ b \notin Range(l) /\ IsInjective(l) => IsInjective(m)
<1>1. /\ m \in Seq(T) /\ Len(m) = Len(l) + 1 /\ m[1] = b /\ Len(l) \in Nat
      /\ \A i \in 1 .. Len(l) : m[i + 1] = l[i]
  OBVIOUS
<1>2. DOMAIN m = 1 .. Len(m) /\ DOMAIN l = 1 .. Len(l)
  BY <1>1
<1>3. \A i \in DOMAIN m : i = 1 \/ (i - 1 \in DOMAIN l /\ m[i] = l[i - 1])
  BY <1>1, <1>2
<1>4. 1 \in DOMAIN m /\ \A i \in DOMAIN l : i + 1 \in DOMAIN m /\ m[i + 1] = l[i]
  BY <1>1, <1>2
<1>5. Range(m) = {b} \cup Range(l)
  <2>1. \A i \in DOMAIN m : m[i] \in {b} \cup Range(l)
    BY <1>1, <1>3, Zenon DEF Range
  <2>2. b \in Range(m) /\ \A i \in DOMAIN l : l[i] \in Range(m)
    BY <1>1, <1>4, Zenon DEF Range
  <2>3. Range(m) \subseteq {b} \cup Range(l)
    <3>1. ASSUME NEW y \in Range(m) PROVE y \in {b} \cup Range(l)
      <4>1. PICK i \in DOMAIN m : y = m[i]
        BY Zenon DEF Range
      <4>2. QED
        BY <2>1, <4>1, Zenon
    <3>2. QED
      BY <3>1, Zenon
  <2>4. Range(l) \subseteq Range(m)
    <3>1. ASSUME NEW y \in Range(l) PROVE y \in Range(m)
      <4>1. PICK i \in DOMAIN l : y = l[i]
        BY Zenon DEF Range
      <4>2. QED
        BY <2>2, <4>1, Zenon
    <3>2. QED
      BY <3>1, Zenon
  <2>5. QED
    BY <2>2, <2>3, <2>4, Zenon
<1>6. ASSUME b \notin Range(l), IsInjective(l), NEW i \in DOMAIN m, NEW j \in DOMAIN m, m[i] = m[j]
      PROVE  i = j
  <2>1. \A k \in DOMAIN l : l[k] # b
    BY <1>6, Zenon DEF Range
  <2>2. CASE i = 1 \/ j = 1
    BY <1>1, <1>3, <1>6, <2>1, <2>2
  <2>3. CASE i # 1 /\ j # 1
    <3>1. i - 1 \in DOMAIN l /\ j - 1 \in DOMAIN l /\ l[i - 1] = l[j - 1]
      BY <1>3, <1>6, <2>3
    <3>2. i - 1 = j - 1
      BY <1>6, <3>1, Zenon DEF IsInjective
    <3>3. QED
      BY <1>2, <3>2
  <2>4. QED
    BY <2>2, <2>3
<1>7. QED
  BY <1>1, <1>5, <1>6, Zenon DEF IsInjective

LEMMA ConcatIs ==
  ASSUME NEW T, NEW x \in Seq(T), NEW y \in Seq(T)
  PROVE  /\ x \o y \in Seq(T) /\ Len(x \o y) = Len(x) + Len(y)
         /\ \A j \in 1 .. (Len(x) + Len(y)) :
              (x \o y)[j] = IF j <= Len(x) THEN x[j] ELSE y[j - Len(x)]
OBVIOUS

LEMMA UnlinkedIs ==
  ASSUME NEW T, NEW l \in Seq(T), IsInjective(l), NEW b \in Range(l), NEW m, m = Unlinked(l, b)
  PROVE  m \in Seq(T) /\ Range(m) = Range(l) \ {b} /\ IsInjective(m)
<1>1. PICK i \in DOMAIN l : i = (CHOOSE j \in DOMAIN l : l[j] = b) /\ l[i] = b
  BY DEF Range
<1>2. m = SubSeq(l, 1, i - 1) \o SubSeq(l, i + 1, Len(l))
  BY <1>1, Zenon DEF Unlinked
<1>3. PICK k \in Nat : k = Len(l)
  OBVIOUS
<1>4. DOMAIN l = 1 .. k /\ i \in 1 .. k
  BY <1>1, <1>3
<1>5. PICK x \in Seq(T) : /\ x = SubSeq(l, 1, i - 1) /\ Len(x) = i - 1
                          /\ \A j \in 1 .. (i - 1) : x[j] = l[j]
  <2>1. /\ SubSeq(l, 1, i - 1) \in Seq(T) /\ Len(SubSeq(l, 1, i - 1)) = i - 1
        /\ \A j \in 1 .. (i - 1) : SubSeq(l, 1, i - 1)[j] = l[j]
    BY <1>3, <1>4
  <2>2. QED
    BY <2>1, Zenon
<1>6. PICK y \in Seq(T) : /\ y = SubSeq(l, i + 1, Len(l)) /\ Len(y) = k - i
                          /\ \A j \in 1 .. (k - i) : y[j] = l[i + j]
  <2>1. /\ SubSeq(l, i + 1, k) \in Seq(T) /\ Len(SubSeq(l, i + 1, k)) = k - i
        /\ \A j \in 1 .. (k - i) : SubSeq(l, i + 1, k)[j] = l[i + j]
    BY <1>3, <1>4
  <2>2. QED
    BY <1>3, <2>1, Zenon
<1>7. m = x \o y
  BY <1>2, <1>5, <1>6
<1>8. /\ m \in Seq(T) /\ Len(m) = k - 1 /\ DOMAIN m = 1 .. (k - 1)
      /\ \A j \in 1 .. (i - 1) : m[j] = x[j]
      /\ \A j \in 1 .. (k - i) : m[i - 1 + j] = y[j]
  <2>1. /\ x \o y \in Seq(T) /\ Len(x \o y) = Len(x) + Len(y)
        /\ \A j \in 1 .. (Len(x) + Len(y)) :
             (x \o y)[j] = IF j <= Len(x) THEN x[j] ELSE y[j - Len(x)]
    BY ConcatIs, Zenon
  <2>2. PICK u \in Nat, v \in Nat : u = i - 1 /\ v = k - i /\ u + v = k - 1
    BY <1>3, <1>4
  <2>3. /\ m \in Seq(T) /\ Len(m) = u + v
        /\ \A j \in 1 .. (u + v) : m[j] = IF j <= u THEN x[j] ELSE y[j - u]
    BY <1>5, <1>6, <1>7, <2>1, <2>2, Zenon
  <2>4. \A j \in 1 .. u : m[j] = x[j]
    BY <2>3
  <2>5. \A j \in 1 .. v : m[u + j] = y[j]
    <3> TAKE j \in 1 .. v
    <3>1. PICK c \in 1 .. (u + v) : c = u + j /\ c > u /\ c - u = j
      OBVIOUS
    <3>2. QED
      BY <2>3, <3>1
  <2>6. DOMAIN m = 1 .. (k - 1)
    BY <2>2, <2>3
  <2>7. QED
    BY <2>2, <2>3, <2>4, <2>5, <2>6
<1>9. /\ \A j \in 1 .. (i - 1) : m[j] = l[j]
      /\ \A j \in i .. (k - 1) : m[j] = l[j + 1]
  <2>1. ASSUME NEW j \in i .. (k - 1)
        PROVE  m[j] = l[j + 1]
    <3>1. PICK n \in 1 .. (k - i) : j = i - 1 + n
      <4>1. j - i + 1 \in 1 .. (k - i) /\ j = i - 1 + (j - i + 1)
        BY <1>4
      <4>2. QED
        BY <4>1
    <3>2. m[j] = l[i + n]
      BY <1>6, <1>8, <3>1, Zenon
    <3>3. i + n = j + 1
      BY <1>4, <3>1
    <3>4. QED
      BY <3>2, <3>3
  <2>2. QED
    BY <1>5, <1>8, <2>1
<1>10. \A j \in DOMAIN m : /\ j < i => j \in DOMAIN l /\ m[j] = l[j]
                           /\ j >= i => j + 1 \in DOMAIN l /\ m[j] = l[j + 1]
  <2> TAKE j \in DOMAIN m
  <2>1. j \in 1 .. (k - 1)
    BY <1>8
  <2>2. CASE j < i
    <3>1. j \in 1 .. (i - 1) /\ j \in 1 .. k
      BY <1>3, <1>4, <2>1, <2>2
    <3>2. QED
      BY <1>4, <1>9, <2>2, <3>1
  <2>3. CASE j >= i
    <3>1. j \in i .. (k - 1) /\ j + 1 \in 1 .. k
      BY <1>3, <1>4, <2>1, <2>3
    <3>2. QED
      BY <1>4, <1>9, <2>3, <3>1
  <2>4. QED
    BY <1>4, <2>1, <2>2, <2>3
<1>11. \A j \in DOMAIN l : /\ j < i => j \in DOMAIN m
                           /\ j > i => j - 1 \in DOMAIN m /\ m[j - 1] = l[j]
  <2> TAKE j \in DOMAIN l
  <2>1. j \in 1 .. k
    BY <1>4
  <2>2. CASE j < i
    BY <1>3, <1>4, <1>8, <2>1, <2>2
  <2>3. CASE j > i
    <3>1. PICK n \in i .. (k - 1) : n = j - 1 /\ n + 1 = j /\ n \in 1 .. (k - 1)
      BY <1>3, <1>4, <2>1, <2>3
    <3>2. QED
      BY <1>8, <1>9, <2>3, <3>1
  <2>4. QED
    BY <1>4, <2>1, <2>2, <2>3
<1>12. \A j \in DOMAIN l : l[j] = b => j = i
  BY <1>1 DEF IsInjective
<1>13. Range(m) \subseteq Range(l) \ {b}
  <2> SUFFICES ASSUME NEW j \in DOMAIN m
               PROVE  m[j] \in Range(l) /\ m[j] # b
    BY DEF Range
  <2>1. j \in Int
    BY <1>8
  <2>2. PICK n \in DOMAIN l : m[j] = l[n] /\ n # i
    BY <1>4, <1>10, <2>1
  <2>3. QED
    BY <1>12, <2>2 DEF Range
<1>14. Range(l) \ {b} \subseteq Range(m)
  <2> SUFFICES ASSUME NEW j \in DOMAIN l, l[j] # b
               PROVE  l[j] \in Range(m)
    BY DEF Range
  <2>1. j \in Int /\ j # i
    BY <1>1, <1>4
  <2>2. PICK n \in DOMAIN m : m[n] = l[j]
    BY <1>4, <1>9, <1>11, <2>1, <1>10
  <2>3. QED
    BY <2>2 DEF Range
<1>15. IsInjective(m)
  <2> SUFFICES ASSUME NEW u \in DOMAIN m, NEW v \in DOMAIN m, m[u] = m[v]
               PROVE  u = v
    BY DEF IsInjective
  <2>1. u \in Int /\ v \in Int
    BY <1>8
  <2>2. \A c, d \in DOMAIN l : l[c] = l[d] => c = d
    BY Zenon DEF IsInjective
  <2>3. QED
    BY <1>4, <1>10, <2>1, <2>2
<1>16. QED
  BY <1>8, <1>13, <1>14, <1>15

\* What WriteBlock, push and remove leave of heap h.
Wrote(h, w, b, size, free, e) ==
  /\ w.list = h.list /\ w.regions = h.regions
  /\ w.hdr[b].size = size /\ w.hdr[b].free = free
  /\ \A a \in Addr : a # b => w.hdr[a] = h.hdr[a]
  /\ w.foot[e] = size /\ \A x \in Addr : x # e => w.foot[x] = h.foot[x]

Pushed(h, w, b) ==
  /\ w.foot = h.foot /\ w.regions = h.regions
  /\ Range(w.list) = {b} \cup Range(h.list) /\ IsInjective(w.list)
  /\ w.hdr[b].size = h.hdr[b].size
  /\ \A a \in Addr : a # b => w.hdr[a] = h.hdr[a]

Removed(h, w, b) ==
  /\ w.foot = h.foot /\ w.regions = h.regions
  /\ Range(w.list) = Range(h.list) \ {b} /\ IsInjective(w.list)
  /\ w.hdr[b].size = h.hdr[b].size /\ w.hdr[b].free = FALSE
  /\ \A a \in Addr : a # b => w.hdr[a] = h.hdr[a]

LEMMA WriteIs ==
  ASSUME NEW h \in HeapType, NEW b \in Addr, NEW size \in Nat, NEW free \in BOOLEAN,
         NEW e \in Addr, e = b + size - FOOTER_SIZE, NEW w, w = WriteBlock(h, b, size, free)
  PROVE  w \in HeapType /\ Wrote(h, w, b, size, free, e)
BY Zenon DEF HeapType, Header, WriteBlock, Wrote

LEMMA PushIs ==
  ASSUME NEW h \in HeapType, NEW b \in Addr, IsInjective(h.list), b \notin Range(h.list),
         NEW w, w = ListPush(h, b)
  PROVE  w \in HeapType /\ Pushed(h, w, b)
<1>1. h.list \in Seq(Addr)
  BY Zenon DEF HeapType
<1>2. w.list = <<b>> \o h.list
  BY DEF HeapType, ListPush
<1>3. w.list \in Seq(Addr) /\ Range(w.list) = {b} \cup Range(h.list) /\ IsInjective(w.list)
  BY <1>1, <1>2, PushList, Zenon
<1>4. /\ w.foot = h.foot /\ w.regions = h.regions /\ w.hdr[b].size = h.hdr[b].size
      /\ \A a \in Addr : a # b => w.hdr[a] = h.hdr[a]
  BY DEF HeapType, Header, ListPush
<1>5. w \in HeapType
  BY <1>2, <1>3, Zenon DEF HeapType, Header, ListPush
<1>6. QED
  BY <1>3, <1>4, <1>5, Zenon DEF Pushed

LEMMA RemoveIs ==
  ASSUME NEW h \in HeapType, NEW b \in Addr, IsInjective(h.list), b \in Range(h.list),
         NEW w, w = ListRemove(h, b)
  PROVE  w \in HeapType /\ Removed(h, w, b)
<1>1. h.list \in Seq(Addr)
  BY Zenon DEF HeapType
<1>2. w.list = Unlinked(h.list, b)
  BY DEF HeapType, ListRemove
<1>3. w.list \in Seq(Addr) /\ Range(w.list) = Range(h.list) \ {b} /\ IsInjective(w.list)
  BY <1>1, <1>2, UnlinkedIs, Zenon
<1>4. /\ w.foot = h.foot /\ w.regions = h.regions /\ w.hdr[b].size = h.hdr[b].size
      /\ w.hdr[b].free = FALSE
      /\ \A a \in Addr : a # b => w.hdr[a] = h.hdr[a]
  BY DEF HeapType, Header, ListRemove
<1>5. w \in HeapType
  BY <1>2, <1>3, Zenon DEF HeapType, Header, ListRemove
<1>6. QED
  BY <1>3, <1>4, <1>5, Zenon DEF Removed

LEMMA SizesAre ==
  ASSUME NEW h \in HeapType
  PROVE  SizeOf(h) \in [Addr -> Nat] /\ \A a \in Addr : SizeOf(h)[a] = Size(h, a) /\ Size(h, a) \in Nat
BY DEF HeapType, Header, SizeOf, Size

LEMMA HeapIs ==
  ASSUME NEW h, NEW L, NEW S, HeapOK(h, L, S)
  PROVE  /\ h \in HeapType /\ IsInjective(h.list) /\ L \cap Range(h.list) = {}
         /\ Range(h.regions) \subseteq S /\ Len(h.regions) <= MAX_REGIONS
         /\ \A a \in Addr : h.hdr[a].free => a \in Range(h.list)
         /\ L \subseteq Addr /\ Range(h.list) \subseteq Addr
         /\ SizeOf(h) \in [Addr -> Nat] /\ h.foot \in [Addr -> Nat]
         /\ Geometry(Active(h, L), SizeOf(h), h.foot, S)
<1>1. /\ h \in HeapType /\ IsInjective(h.list) /\ L \cap Range(h.list) = {}
      /\ Range(h.regions) \subseteq S /\ Len(h.regions) <= MAX_REGIONS
      /\ \A a \in Addr : h.hdr[a].free => a \in Range(h.list)
      /\ Geometry(Active(h, L), SizeOf(h), h.foot, S)
  BY Zenon DEF HeapOK, ListOK
<1>2. L \subseteq Addr /\ Range(h.list) \subseteq Addr
  BY <1>1, Zenon DEF Geometry, Active
<1>3. SizeOf(h) \in [Addr -> Nat] /\ h.foot \in [Addr -> Nat]
  BY <1>1, SizesAre, Zenon DEF HeapType
<1>4. QED
  BY <1>1, <1>2, <1>3, Zenon

LEMMA SameSizes ==
  ASSUME NEW h \in HeapType, NEW w \in HeapType, \A a \in Addr : w.hdr[a].size = h.hdr[a].size
  PROVE  SizeOf(w) = SizeOf(h)
BY Zenon DEF SizeOf

KeepsSizes(h, w, X) == \A a \in X : Size(w, a) = Size(h, a)

\* A block of the list is taken off it, one in use is put on it: the blocks are
\* the same.
LEMMA TakenOff ==
  ASSUME NEW h, NEW L, NEW S, HeapOK(h, L, S), NEW b \in Range(h.list),
         NEW w, w = ListRemove(h, b)
  PROVE  HeapOK(w, L \cup {b}, S) /\ KeepsSizes(h, w, Addr) /\ b \notin L /\ b \in Addr
<1>1. /\ h \in HeapType /\ IsInjective(h.list) /\ L \cap Range(h.list) = {}
      /\ Range(h.regions) \subseteq S /\ Len(h.regions) <= MAX_REGIONS
      /\ \A a \in Addr : h.hdr[a].free => a \in Range(h.list)
      /\ b \in Addr
  BY HeapIs, Zenon
<1>2. w \in HeapType /\ Removed(h, w, b)
  BY <1>1, RemoveIs, Zenon
<1>3. SizeOf(w) = SizeOf(h)
  <2>1. \A a \in Addr : w.hdr[a].size = h.hdr[a].size
    BY <1>2, Zenon DEF Removed
  <2>2. QED
    BY <1>1, <1>2, <2>1, SameSizes, Zenon
<1>4. Active(w, L \cup {b}) = Active(h, L)
  BY <1>1, <1>2 DEF Active, Removed
<1>5. ListOK(w, L \cup {b}, S)
  BY <1>1, <1>2 DEF ListOK, Removed
<1>6. HeapOK(w, L \cup {b}, S)
  BY <1>2, <1>3, <1>4, <1>5, HeapIs, Zenon DEF HeapOK, Removed
<1>7. KeepsSizes(h, w, Addr)
  BY <1>2, Zenon DEF Removed, KeepsSizes, Size
<1>8. b \notin L
  BY <1>1
<1>9. QED
  BY <1>1, <1>6, <1>7, <1>8, Zenon

LEMMA PutOn ==
  ASSUME NEW h, NEW L, NEW S, HeapOK(h, L, S), NEW b \in L, NEW w, w = ListPush(h, b)
  PROVE  HeapOK(w, L \ {b}, S) /\ KeepsSizes(h, w, Addr) /\ b \in Range(w.list)
<1>1. /\ h \in HeapType /\ IsInjective(h.list) /\ L \cap Range(h.list) = {}
      /\ Range(h.regions) \subseteq S /\ Len(h.regions) <= MAX_REGIONS
      /\ \A a \in Addr : h.hdr[a].free => a \in Range(h.list)
      /\ b \in Addr /\ b \notin Range(h.list)
  BY HeapIs, Zenon
<1>2. w \in HeapType /\ Pushed(h, w, b)
  BY <1>1, PushIs, Zenon
<1>3. SizeOf(w) = SizeOf(h)
  <2>1. \A a \in Addr : w.hdr[a].size = h.hdr[a].size
    BY <1>2, Zenon DEF Pushed
  <2>2. QED
    BY <1>1, <1>2, <2>1, SameSizes, Zenon
<1>4. Active(w, L \ {b}) = Active(h, L)
  BY <1>1, <1>2 DEF Active, Pushed
<1>5. ListOK(w, L \ {b}, S)
  BY <1>1, <1>2 DEF ListOK, Pushed
<1>6. HeapOK(w, L \ {b}, S)
  BY <1>2, <1>3, <1>4, <1>5, HeapIs, Zenon DEF HeapOK, Pushed
<1>7. KeepsSizes(h, w, Addr)
  BY <1>2, Zenon DEF Pushed, KeepsSizes, Size
<1>8. QED
  BY <1>2, <1>6, <1>7, Zenon DEF Pushed

\* Where the footers of block b, and of its first part up to n, are.
LEMMA FooterPlaces ==
  ASSUME NEW S, SpansOK(S), NEW A, NEW z \in [Addr -> Nat], NEW ft, Geometry(A, z, ft, S),
         NEW b \in A, NEW s \in Nat, s = z[b]
  PROVE  /\ (b + s) - FOOTER_SIZE \in Addr
         /\ \A n \in Int : b + FOOTER_SIZE <= n /\ n <= b + s => n - FOOTER_SIZE \in Addr
<1>1. b \in Nat /\ s >= FOOTER_SIZE /\ Inside(b, s, S)
  <2>1. b \in Nat /\ s >= HEADER_SIZE + FOOTER_SIZE /\ Inside(b, s, S)
    BY BlockIs
  <2>2. QED
    BY <2>1, Constants
<1>2. ASSUME NEW n \in Int, b + FOOTER_SIZE <= n, n <= b + s
      PROVE  n - FOOTER_SIZE \in Addr
  <2>1. PICK x \in Int : x = n - FOOTER_SIZE
    BY Constants
  <2>2. b <= x /\ x < b + s
    BY <1>1, <1>2, <2>1, Constants
  <2>3. QED
    BY <1>1, <2>1, <2>2, BlockBytes
<1>3. QED
  BY <1>1, <1>2, Constants

-----------------------------------------------------------------------------
(* alloc.                                                                  *)

\* Block b is cut at n into parts of d and m bytes, whose last footers are at e
\* and g.
Halves(b, n, s, d, m, e, g) ==
  /\ b \in Addr /\ n \in Addr /\ d \in Nat /\ m \in Nat /\ e \in Addr /\ g \in Addr
  /\ b # n /\ e # g /\ n = b + d /\ m = s - d /\ e = n - FOOTER_SIZE /\ g = (b + s) - FOOTER_SIZE
  /\ e = b + d - FOOTER_SIZE /\ g = n + m - FOOTER_SIZE

\* Both parts have been written.
Halved(h, w, b, n, d, m, e, g) ==
  /\ w.regions = h.regions
  /\ w.hdr[b].size = d /\ w.hdr[n].size = m
  /\ \A a \in Addr : a # b /\ a # n => w.hdr[a] = h.hdr[a]
  /\ w.foot[e] = d /\ w.foot[g] = m
  /\ \A x \in Addr : x # e /\ x # g => w.foot[x] = h.foot[x]

\* A block in use can be cut where both parts have room for header and footer.
LEMMA HalvesAre ==
  ASSUME NEW S, SpansOK(S), NEW h, NEW L, HeapOK(h, L, S), NEW b \in L, NEW s \in Nat,
         s = Size(h, b), NEW d \in Nat, d >= HEADER_SIZE + FOOTER_SIZE,
         s - d >= HEADER_SIZE + FOOTER_SIZE, NEW n \in Int, n = b + d
  PROVE  \E m, e, g : Halves(b, n, s, d, m, e, g)
<1>1. /\ h \in HeapType /\ b \in Addr /\ b \in Active(h, L)
      /\ SizeOf(h) \in [Addr -> Nat] /\ Geometry(Active(h, L), SizeOf(h), h.foot, S)
  BY HeapIs, Zenon DEF Active
<1>2. b \in Nat /\ s = SizeOf(h)[b]
  BY <1>1, SizesAre, Constants
<1>3. b < n /\ n < b + s /\ b + FOOTER_SIZE <= n
  BY <1>2, Sizes
<1>4. Inside(b, s, S)
  BY <1>1, <1>2, BlockIs, Zenon
<1>5. n \in Addr
  BY <1>2, <1>3, <1>4, BlockBytes
<1>6. PICK e \in Addr : e = n - FOOTER_SIZE
  <2>1. n <= b + s
    BY <1>2, <1>3
  <2>2. QED
    BY <1>1, <1>2, <1>3, <2>1, FooterPlaces, Zenon
<1>7. PICK g \in Addr : g = (b + s) - FOOTER_SIZE
  BY <1>1, <1>2, FooterPlaces, Zenon
<1>8. PICK m \in Nat : m = s - d
  BY Sizes
<1>9. e # g /\ e = b + d - FOOTER_SIZE /\ g = n + m - FOOTER_SIZE
  BY <1>2, <1>3, <1>6, <1>7, <1>8, Sizes
<1>10. b # n
  BY <1>2, <1>3
<1>11. Halves(b, n, s, d, m, e, g)
  BY <1>1, <1>5, <1>6, <1>7, <1>8, <1>9, <1>10, Zenon DEF Halves
<1>12. QED
  BY <1>11, Zenon

\* The two parts in place of the block.
LEMMA HalvedHeap ==
  ASSUME NEW S, SpansOK(S), NEW h, NEW L, HeapOK(h, L, S), NEW b \in L, NEW s \in Nat,
         s = Size(h, b), NEW d \in Nat, Aligned(d), d >= HEADER_SIZE + FOOTER_SIZE,
         s - d >= HEADER_SIZE + FOOTER_SIZE, NEW n \in Int, NEW m, NEW e, NEW g,
         Halves(b, n, s, d, m, e, g), NEW w \in HeapType, Halved(h, w, b, n, d, m, e, g)
  PROVE  n \notin Active(h, L) /\ Geometry(Active(h, L) \cup {n}, SizeOf(w), w.foot, S)
<1> DEFINE A == Active(h, L)
<1>1. /\ h \in HeapType /\ b \in Addr /\ b \in A /\ h.foot \in [Addr -> Nat]
      /\ SizeOf(h) \in [Addr -> Nat] /\ Geometry(A, SizeOf(h), h.foot, S)
  BY HeapIs, Zenon DEF Active
<1>2. PICK z \in [Addr -> Nat] : z = SizeOf(h)
  BY <1>1, Zenon
<1>3. PICK z2 \in [Addr -> Nat] : z2 = SizeOf(w)
  BY SizesAre, Zenon
<1>4. /\ n \in Addr /\ b # n /\ n = b + d /\ m = s - d
      /\ e = n - FOOTER_SIZE /\ g = (b + s) - FOOTER_SIZE
  BY Zenon DEF Halves
<1>5. s = z[b]
  BY <1>1, <1>2, SizesAre
<1>6. z2[b] = d /\ z2[n] = m
  BY <1>1, <1>3, <1>4, SizesAre, Zenon DEF Halved, Size
<1>7. \A a \in Addr : a # b /\ a # n => z2[a] = z[a]
  <2> SUFFICES ASSUME NEW a \in Addr, a # b, a # n PROVE z2[a] = z[a]
    OBVIOUS
  <2>1. w.hdr[a] = h.hdr[a]
    BY Zenon DEF Halved
  <2>2. QED
    BY <1>1, <1>2, <1>3, <2>1, SizesAre, Zenon DEF Size
<1>8. n \notin A
  <2>1. b \in Nat /\ n \in Nat /\ b < n /\ n < b + s
    <3>1. b \in Nat /\ n \in Nat
      BY <1>1, <1>4, AddrNat, Zenon
    <3>2. QED
      BY <1>4, <3>1, Sizes
  <2>2. ASSUME n \in A PROVE b + s <= n
    BY <1>1, <1>2, <1>5, <2>1, <2>2, BlocksApart, Zenon
  <2>3. QED
    BY <2>1, <2>2
<1>9. Cut(A, z, z2, h.foot, w.foot, b, n, s, d)
  <2>1. \A a \in A : a \in Addr
    BY <1>1, Zenon DEF Geometry
  <2>2. /\ w.foot[n - FOOTER_SIZE] = d /\ w.foot[(b + s) - FOOTER_SIZE] = s - d
        /\ \A x \in Addr : x # n - FOOTER_SIZE /\ x # (b + s) - FOOTER_SIZE => w.foot[x] = h.foot[x]
    BY <1>4, Zenon DEF Halved
  <2>3. QED
    BY <1>4, <1>6, <1>7, <1>8, <2>1, <2>2, Zenon DEF Cut
<1>10. Geometry(A \cup {n}, z2, w.foot, S)
  BY <1>1, <1>2, <1>4, <1>5, <1>9, GeoSplit, Zenon
<1>11. QED
  BY <1>3, <1>8, <1>10, Zenon

\* One part is written and put on the list, then the other is written.
LEMMA Chained ==
  ASSUME NEW h, NEW w1, NEW w2, NEW w, NEW x \in Addr, NEW y \in Addr, x # y,
         NEW c \in Addr, NEW f \in Addr, c # f, NEW i, NEW j, NEW u, NEW v,
         Wrote(h, w1, x, i, u, c), Pushed(w1, w2, x), Wrote(w2, w, y, j, v, f)
  PROVE  Halved(h, w, x, y, i, j, c, f)
<1>1. w.regions = h.regions /\ w.hdr[x].size = i /\ w.hdr[y].size = j
  BY Zenon DEF Wrote, Pushed
<1>2. ASSUME NEW a \in Addr, a # x, a # y PROVE w.hdr[a] = h.hdr[a]
  <2>1. w.hdr[a] = w2.hdr[a]
    BY <1>2, Zenon DEF Wrote
  <2>2. w2.hdr[a] = w1.hdr[a]
    BY <1>2, Zenon DEF Pushed
  <2>3. w1.hdr[a] = h.hdr[a]
    BY <1>2, Zenon DEF Wrote
  <2>4. QED
    BY <2>1, <2>2, <2>3, Zenon
<1>3. ASSUME NEW a \in Addr, a # f PROVE w.foot[a] = w1.foot[a]
  <2>1. w.foot[a] = w2.foot[a]
    BY <1>3, Zenon DEF Wrote
  <2>2. w2.foot = w1.foot
    BY Zenon DEF Pushed
  <2>3. QED
    BY <2>1, <2>2, Zenon
<1>4. w1.foot[c] = i /\ w.foot[f] = j
  BY Zenon DEF Wrote
<1>5. w.foot[c] = i
  BY <1>3, <1>4, Zenon
<1>6. ASSUME NEW a \in Addr, a # c, a # f PROVE w.foot[a] = h.foot[a]
  <2>1. w1.foot[a] = h.foot[a]
    BY <1>6, Zenon DEF Wrote
  <2>2. QED
    BY <1>3, <1>6, <2>1, Zenon
<1>7. QED
  BY <1>1, <1>2, <1>4, <1>5, <1>6, Zenon DEF Halved

\* Block b, of size s, is in use and can be cut in two at n.
CanCut(h, L, S, b, s, d, n) ==
  /\ SpansOK(S) /\ HeapOK(h, L, S) /\ b \in L /\ s \in Nat /\ s = Size(h, b)
  /\ d \in Nat /\ Aligned(d) /\ d >= HEADER_SIZE + FOOTER_SIZE
  /\ s - d >= HEADER_SIZE + FOOTER_SIZE /\ n \in Int /\ n = b + d

\* Block b now has size d, and the blocks X beside it have kept theirs.
Resized(h, w, X, b, d) == Size(w, b) = d /\ \A a \in X \ {b} : Size(w, a) = Size(h, a)

\* Block n, of size m, is in use in the place of b.
LeadGone(h, w, L, S, b, n, m) ==
  /\ HeapOK(w, (L \ {b}) \cup {n}, S) /\ n \notin L /\ n \in Addr
  /\ Resized(h, w, L \ {b}, n, m)

\* The lead, the first d bytes of block b, is given back and what follows is
\* kept.
LEMMA LeadOff ==
  ASSUME NEW S, NEW h, NEW L, NEW b, NEW s, NEW d, NEW n, CanCut(h, L, S, b, s, d, n), NEW w,
         w = WriteBlock(ListPush(WriteBlock(h, b, d, FALSE), b), n, s - d, FALSE)
  PROVE  LeadGone(h, w, L, S, b, n, s - d)
<1> DEFINE M == (L \ {b}) \cup {n}
<1> /\ SpansOK(S) /\ HeapOK(h, L, S) /\ b \in L /\ s \in Nat /\ s = Size(h, b)
    /\ d \in Nat /\ Aligned(d) /\ d >= HEADER_SIZE + FOOTER_SIZE
    /\ s - d >= HEADER_SIZE + FOOTER_SIZE /\ n \in Int /\ n = b + d
  BY Zenon DEF CanCut
<1>1. /\ h \in HeapType /\ IsInjective(h.list) /\ L \cap Range(h.list) = {}
      /\ Range(h.regions) \subseteq S /\ Len(h.regions) <= MAX_REGIONS
      /\ \A a \in Addr : h.hdr[a].free => a \in Range(h.list)
      /\ L \subseteq Addr /\ b \notin Range(h.list)
  BY HeapIs, Zenon
<1>2. PICK m, e, g : Halves(b, n, s, d, m, e, g)
  BY HalvesAre, Zenon
<1>3. PICK w1 : w1 = WriteBlock(h, b, d, FALSE)
  BY Zenon
<1>4. w1 \in HeapType /\ Wrote(h, w1, b, d, FALSE, e)
  BY <1>1, <1>2, <1>3, WriteIs, Zenon DEF Halves
<1>5. PICK w2 : w2 = ListPush(w1, b)
  OBVIOUS
<1>6. w2 \in HeapType /\ Pushed(w1, w2, b)
  <2>1. IsInjective(w1.list) /\ b \notin Range(w1.list) /\ b \in Addr
    BY <1>1, <1>2, <1>4, Zenon DEF Wrote, Halves
  <2>2. QED
    BY <1>4, <1>5, <2>1, PushIs, Zenon
<1>7. w = WriteBlock(w2, n, m, FALSE)
  BY <1>2, <1>3, <1>5, Zenon DEF Halves
<1>8. w \in HeapType /\ Wrote(w2, w, n, m, FALSE, g)
  BY <1>2, <1>6, <1>7, WriteIs, Zenon DEF Halves
<1>9. Halved(h, w, b, n, d, m, e, g)
  <2>1. b # n /\ e # g /\ b \in Addr /\ n \in Addr /\ e \in Addr /\ g \in Addr
    BY <1>2, Zenon DEF Halves
  <2>2. QED
    BY <1>4, <1>6, <1>8, <2>1, Chained, Zenon
<1>10. n \notin Active(h, L) /\ Geometry(Active(h, L) \cup {n}, SizeOf(w), w.foot, S)
  BY <1>2, <1>8, <1>9, HalvedHeap, Zenon
<1>11. Range(w.list) = {b} \cup Range(h.list) /\ IsInjective(w.list)
  BY <1>4, <1>6, <1>8, Zenon DEF Wrote, Pushed
<1>12. n \notin L /\ n \notin Range(h.list) /\ n \in Addr /\ b # n
  BY <1>2, <1>10, Zenon DEF Active, Halves
<1>13. Active(w, M) = Active(h, L) \cup {n}
  BY <1>11, Zenon DEF Active
<1>14. ListOK(w, M, S)
  <2>1. ASSUME NEW a \in Addr, w.hdr[a].free PROVE a \in Range(w.list)
    <3>1. a # n
      BY <1>8, <2>1, Zenon DEF Wrote
    <3>2. a # b => w.hdr[a] = h.hdr[a]
      BY <1>9, <3>1, Zenon DEF Halved
    <3>3. QED
      BY <1>1, <1>11, <2>1, <3>2, Zenon
  <2>2. M \cap Range(w.list) = {}
    BY <1>1, <1>11, <1>12, Zenon
  <2>3. QED
    BY <1>1, <1>8, <1>9, <1>11, <2>1, <2>2, Zenon DEF ListOK, Halved
<1>15. HeapOK(w, M, S)
  BY <1>10, <1>13, <1>14, Zenon DEF HeapOK
<1>16. Size(w, n) = s - d
  BY <1>2, <1>9, Zenon DEF Halves, Halved, Size
<1>17. ASSUME NEW a \in L \ {b} PROVE Size(w, a) = Size(h, a)
  BY <1>1, <1>9, <1>12, <1>17, Zenon DEF Halved, Size
<1>18. QED
  BY <1>12, <1>15, <1>16, <1>17, Zenon DEF LeadGone, Resized

\* The tail of block b, what follows its first d bytes, is given back.
LEMMA TailOff ==
  ASSUME NEW S, NEW h, NEW L, NEW b, NEW s, NEW d, NEW n, CanCut(h, L, S, b, s, d, n), NEW w,
         w = WriteBlock(ListPush(WriteBlock(h, n, s - d, TRUE), n), b, d, FALSE)
  PROVE  HeapOK(w, L, S) /\ Resized(h, w, L, b, d)
<1> /\ SpansOK(S) /\ HeapOK(h, L, S) /\ b \in L /\ s \in Nat /\ s = Size(h, b)
    /\ d \in Nat /\ Aligned(d) /\ d >= HEADER_SIZE + FOOTER_SIZE
    /\ s - d >= HEADER_SIZE + FOOTER_SIZE /\ n \in Int /\ n = b + d
  BY Zenon DEF CanCut
<1>1. /\ h \in HeapType /\ IsInjective(h.list) /\ L \cap Range(h.list) = {}
      /\ Range(h.regions) \subseteq S /\ Len(h.regions) <= MAX_REGIONS
      /\ \A a \in Addr : h.hdr[a].free => a \in Range(h.list)
      /\ L \subseteq Addr /\ b \notin Range(h.list)
      /\ SizeOf(h) \in [Addr -> Nat] /\ Geometry(Active(h, L), SizeOf(h), h.foot, S)
  BY HeapIs, Zenon
<1>2. PICK m, e, g : Halves(b, n, s, d, m, e, g)
  BY HalvesAre, Zenon
<1>3. n \notin Active(h, L)
  <2>1. b \in Nat /\ b < n /\ n < b + s
    <3>1. b \in Nat
      BY <1>1, AddrNat, Zenon
    <3>2. QED
      BY <3>1, Sizes
  <2>2. b \in Active(h, L) /\ s = SizeOf(h)[b]
    BY <1>1, SizesAre, Zenon DEF Active
  <2>3. n \in Active(h, L) => b + s <= n
    BY <1>1, <2>1, <2>2, BlocksApart, Zenon
  <2>4. QED
    BY <2>1, <2>3
<1>4. n \notin L /\ n \notin Range(h.list) /\ n \in Addr /\ b # n
  BY <1>2, <1>3, Zenon DEF Active, Halves
<1>5. PICK w1 : w1 = WriteBlock(h, n, m, TRUE)
  BY Zenon
<1>6. w1 \in HeapType /\ Wrote(h, w1, n, m, TRUE, g)
  BY <1>1, <1>2, <1>5, WriteIs, Zenon DEF Halves
<1>7. PICK w2 : w2 = ListPush(w1, n)
  OBVIOUS
<1>8. w2 \in HeapType /\ Pushed(w1, w2, n)
  <2>1. IsInjective(w1.list) /\ n \notin Range(w1.list)
    BY <1>1, <1>4, <1>6, Zenon DEF Wrote
  <2>2. QED
    BY <1>4, <1>6, <1>7, <2>1, PushIs, Zenon
<1>9. w = WriteBlock(w2, b, d, FALSE)
  BY <1>2, <1>5, <1>7, Zenon DEF Halves
<1>10. w \in HeapType /\ Wrote(w2, w, b, d, FALSE, e)
  BY <1>2, <1>8, <1>9, WriteIs, Zenon DEF Halves
<1>11. Halved(h, w, b, n, d, m, e, g)
  <2>1. b # n /\ e # g /\ b \in Addr /\ n \in Addr /\ e \in Addr /\ g \in Addr
    BY <1>2, Zenon DEF Halves
  <2>2. Halved(h, w, n, b, m, d, g, e)
    BY <1>6, <1>8, <1>10, <2>1, Chained, Zenon
  <2>3. QED
    BY <2>2, Zenon DEF Halved
<1>12. Geometry(Active(h, L) \cup {n}, SizeOf(w), w.foot, S)
  BY <1>2, <1>10, <1>11, HalvedHeap, Zenon
<1>13. Range(w.list) = {n} \cup Range(h.list) /\ IsInjective(w.list)
  BY <1>6, <1>8, <1>10, Zenon DEF Wrote, Pushed
<1>14. Active(w, L) = Active(h, L) \cup {n}
  BY <1>13, Zenon DEF Active
<1>15. ListOK(w, L, S)
  <2>1. ASSUME NEW a \in Addr, w.hdr[a].free PROVE a \in Range(w.list)
    <3>1. a # b
      BY <1>10, <2>1, Zenon DEF Wrote
    <3>2. a # n => w.hdr[a] = h.hdr[a]
      BY <1>11, <3>1, Zenon DEF Halved
    <3>3. QED
      BY <1>1, <1>13, <2>1, <3>2, Zenon
  <2>2. L \cap Range(w.list) = {}
    BY <1>1, <1>4, <1>13, Zenon
  <2>3. QED
    BY <1>1, <1>10, <1>11, <1>13, <2>1, <2>2, Zenon DEF ListOK, Halved
<1>16. HeapOK(w, L, S)
  BY <1>12, <1>14, <1>15, Zenon DEF HeapOK
<1>17. Size(w, b) = d
  BY <1>11, Zenon DEF Halved, Size
<1>18. ASSUME NEW a \in L \ {b} PROVE Size(w, a) = Size(h, a)
  BY <1>1, <1>4, <1>11, <1>18, Zenon DEF Halved, Size
<1>19. QED
  BY <1>16, <1>17, <1>18, Zenon DEF Resized

\* The block in use is written again as it is.
LEMMA FootOnly ==
  ASSUME NEW S, SpansOK(S), NEW h, NEW L, HeapOK(h, L, S), NEW b \in L,
         NEW w, w = WriteBlock(h, b, Size(h, b), FALSE)
  PROVE  HeapOK(w, L, S) /\ Resized(h, w, L, b, Size(h, b))
<1> DEFINE A == Active(h, L)
           z == SizeOf(h)
<1>1. /\ h \in HeapType /\ IsInjective(h.list) /\ L \cap Range(h.list) = {}
      /\ Range(h.regions) \subseteq S /\ Len(h.regions) <= MAX_REGIONS
      /\ \A a \in Addr : h.hdr[a].free => a \in Range(h.list)
      /\ L \subseteq Addr /\ b \in Addr /\ b \in A /\ z \in [Addr -> Nat]
      /\ Geometry(A, z, h.foot, S) /\ h.foot \in [Addr -> Nat]
  BY HeapIs, Zenon DEF Active
<1>2. PICK s \in Nat : s = Size(h, b) /\ s = z[b]
  BY <1>1, SizesAre, Zenon
<1> HIDE DEF A, z
<1>3. b \in Nat /\ s >= HEADER_SIZE + FOOTER_SIZE /\ Inside(b, s, S)
  <2>1. b \in Nat /\ z[b] >= HEADER_SIZE + FOOTER_SIZE /\ Inside(b, z[b], S)
    BY <1>1, BlockIs, Zenon
  <2>2. QED
    BY <1>2, <2>1, Zenon
<1>4. PICK e \in Int : e = b + s
  BY <1>3
<1>5. PICK x \in Addr : x = b + s - FOOTER_SIZE /\ x = e - FOOTER_SIZE
  <2>1. (b + s) - FOOTER_SIZE \in Addr
    BY <1>1, <1>2, FooterPlaces, Zenon
  <2>2. (b + s) - FOOTER_SIZE = b + s - FOOTER_SIZE
    BY <1>3, Sizes
  <2>3. QED
    BY <1>4, <2>1, <2>2
<1>6. w \in HeapType /\ Wrote(h, w, b, s, FALSE, x)
  BY <1>1, <1>2, <1>5, WriteIs, Zenon
<1>7. SizeOf(w) = SizeOf(h)
  <2>1. ASSUME NEW a \in Addr PROVE w.hdr[a].size = h.hdr[a].size
    BY <1>2, <1>6, Zenon DEF Wrote, Size
  <2>2. QED
    BY <1>1, <1>6, <2>1, SameSizes, Zenon
<1>8. Geometry(A, z, w.foot, S)
  <2>1. PICK t \in S : t.start <= b /\ e <= t.start + t.len
    BY <1>3, <1>4 DEF Inside
  <2>2. e - b = s /\ b + FOOTER_SIZE <= e
    BY <1>3, <1>4, Sizes
  <2>3. Foot(h.foot, w.foot, e, b)
    BY <1>5, <1>6, <2>2, Zenon DEF Foot, Wrote
  <2>4. Leads(A, z, b, e)
    <3>1. ASSUME NEW c \in A, c < b PROVE c + z[c] <= b
      BY <1>1, <3>1, BlocksApart, Zenon
    <3>2. QED
      BY <1>2, <1>4, <3>1, Zenon DEF Leads
  <2>5. b \in Int /\ \A a \in A : z[a] = z[a]
    BY <1>3
  <2>6. QED
    BY <1>1, <2>1, <2>2, <2>3, <2>4, <2>5, GeoFoot, Zenon
<1>9. ListOK(w, L, S)
  <2>1. ASSUME NEW a \in Addr, w.hdr[a].free PROVE a \in Range(w.list)
    BY <1>1, <1>6, <2>1, Zenon DEF Wrote
  <2>2. QED
    BY <1>1, <1>6, <2>1, Zenon DEF ListOK, Wrote
<1>10. Active(w, L) = Active(h, L)
  BY <1>6, Zenon DEF Active, Wrote
<1>11. Geometry(Active(w, L), SizeOf(w), w.foot, S)
  BY <1>7, <1>8, <1>10, Zenon DEF A, z
<1>12. Resized(h, w, L, b, Size(h, b))
  <2>1. ASSUME NEW a \in L PROVE Size(w, a) = Size(h, a)
    BY <1>1, <1>2, <1>6, Zenon DEF Wrote, Size
  <2>2. QED
    BY <2>1, Zenon DEF Resized
<1>13. QED
  BY <1>9, <1>11, <1>12, Zenon DEF HeapOK

\* What SplitTail leaves has room for what is asked for and for no less than the
\* block had.
LEMMA TailSplit ==
  ASSUME NEW S, SpansOK(S), NEW h, NEW L, HeapOK(h, L, S), NEW b \in L, NEW alloc \in Nat,
         Aligned(alloc), alloc >= HEADER_SIZE + FOOTER_SIZE, NEW k \in Nat, k <= alloc,
         k <= Size(h, b)
  PROVE  \E w : /\ w = SplitTail(h, b, alloc)
               /\ HeapOK(w, L, S) /\ Size(w, b) \in Nat /\ k <= Size(w, b)
               /\ \A a \in L \ {b} : Size(w, a) = Size(h, a)
<1>1. h \in HeapType /\ L \subseteq Addr /\ b \in Addr
  BY HeapIs, Zenon
<1>2. PICK s \in Nat : s = Size(h, b)
  BY <1>1, SizesAre
<1>3. CASE s >= alloc + MIN_BLOCK
  <2>1. s - alloc >= HEADER_SIZE + FOOTER_SIZE
    BY <1>3, MinBlock, Sizes
  <2>2. PICK n \in Int : n = b + alloc
    BY <1>1, AddrNat
  <2>3. PICK w : w = WriteBlock(ListPush(WriteBlock(h, n, s - alloc, TRUE), n), b, alloc, FALSE)
    BY Zenon
  <2>4. HeapOK(w, L, S) /\ Resized(h, w, L, b, alloc)
    <3>1. CanCut(h, L, S, b, s, alloc, n)
      BY <1>2, <2>1, <2>2, Zenon DEF CanCut
    <3>2. QED
      BY <2>3, <3>1, TailOff, Zenon
  <2>5. w = SplitTail(h, b, alloc)
    BY <1>2, <1>3, <2>2, <2>3, Zenon DEF SplitTail
  <2>6. QED
    BY <2>4, <2>5, Zenon DEF Resized
<1>4. CASE ~(s >= alloc + MIN_BLOCK)
  <2>1. PICK w : w = WriteBlock(h, b, Size(h, b), FALSE)
    BY Zenon
  <2>2. HeapOK(w, L, S) /\ Resized(h, w, L, b, Size(h, b))
    BY <2>1, FootOnly, Zenon
  <2>3. w = SplitTail(h, b, alloc)
    BY <1>2, <1>4, <2>1, Zenon DEF SplitTail
  <2>4. QED
    BY <1>2, <2>2, <2>3, Zenon DEF Resized
<1>5. QED
  BY <1>3, <1>4, Zenon

\* In w block u is new among those in use, and serves a request of need bytes.
Lent(h, w, L, S, u, need, align) ==
  /\ u \in Addr /\ u \notin L /\ HeapOK(w, L \cup {u}, S) /\ KeepsSizes(h, w, L)
  /\ need <= Size(w, u) /\ payload_ptr(u) % align = 0

\* SplitLead never absorbs a lead: find_fit takes no block whose lead is smaller
\* than a block, and a lead is a multiple of ALIGN.
LEMMA LeadSplit ==
  ASSUME NEW S, SpansOK(S), NEW h, NEW L, HeapOK(h, L, S), NEW b \in Range(h.list),
         NEW align \in Nat \ {0}, align % ALIGN = 0, NEW need \in Nat,
         need >= HEADER_SIZE + FOOTER_SIZE, Fits(h, b, need, align)
  PROVE  \E w, u : /\ SplitLead(h, b, align) = [heap |-> w, use |-> u, absorbed |-> 0]
                   /\ Lent(h, w, L, S, u, need, align)
<1>1. /\ h \in HeapType /\ b \in Addr /\ b \in Active(h, L) /\ L \subseteq Addr
      /\ SizeOf(h) \in [Addr -> Nat] /\ Geometry(Active(h, L), SizeOf(h), h.foot, S)
  BY HeapIs, Zenon DEF Active
<1>2. PICK s \in Nat : s = Size(h, b)
  BY <1>1, SizesAre
<1>3. PICK q \in Nat : q = payload_ptr(b) /\ q = b + HEADER_SIZE /\ Aligned(q)
  <2>1. b \in Int /\ Aligned(b)
    BY <1>1, BlockIs
  <2>2. HEADER_SIZE \in Int /\ Aligned(HEADER_SIZE)
    BY HeapAssumption DEF Aligned
  <2>3. Aligned(b + HEADER_SIZE)
    BY <2>1, <2>2, AlignedSum, Zenon
  <2>4. b + HEADER_SIZE \in Nat
    BY <1>1, AddrNat, Sizes
  <2>5. QED
    BY <2>3, <2>4, Zenon DEF payload_ptr
<1>4. PICK y \in Nat : y = align_up(q, align) /\ y % align = 0 /\ y >= q
  BY AlignUp, Zenon
<1>5. PICK ld \in Nat : ld = Lead(b, align) /\ ld = y - q
  BY <1>3, <1>4 DEF Lead
<1>6. s >= need + ld /\ (ld = 0 \/ ld >= MIN_BLOCK)
  BY <1>2, <1>5, Zenon DEF Fits
<1>7. Aligned(ld)
  <2>1. ALIGN \in Nat \ {0}
    BY Constants
  <2>2. y \in Int /\ q \in Int
    OBVIOUS
  <2>3. Aligned(y)
    BY <1>4, <2>1, <2>2, ModTransitive DEF Aligned
  <2>4. QED
    BY <1>3, <1>5, <2>2, <2>3, AlignedSum, Zenon
<1>8. ld - (ld % ALIGN) = ld
  BY <1>7 DEF Aligned
<1>9. PICK v : v = ListRemove(h, b)
  OBVIOUS
<1>10. HeapOK(v, L \cup {b}, S) /\ KeepsSizes(h, v, Addr) /\ b \notin L
  BY <1>9, TakenOff, Zenon
<1>11. s = Size(v, b) /\ KeepsSizes(h, v, L)
  BY <1>1, <1>2, <1>10, Zenon DEF KeepsSizes
<1>12. CASE ld = 0
  <2>1. ~(ld >= MIN_BLOCK)
    BY <1>12, MinBlock, Sizes
  <2>2. SplitLead(h, b, align) = [heap |-> v, use |-> b, absorbed |-> 0]
    BY <1>5, <1>8, <1>9, <1>12, <2>1, Zenon DEF SplitLead
  <2>3. q % align = 0
    <3>1. y = q
      BY <1>5, <1>12
    <3>2. QED
      BY <1>4, <3>1, Zenon
  <2>4. need <= s
    BY <1>6, <1>12
  <2>5. Lent(h, v, L, S, b, need, align)
    BY <1>1, <1>3, <1>10, <1>11, <2>3, <2>4, Zenon DEF Lent
  <2>6. QED
    BY <2>2, <2>5, Zenon
<1>13. CASE ld >= MIN_BLOCK
  <2>1. PICK n \in Int : n = b + ld /\ n + HEADER_SIZE = y
    <3>1. b \in Nat
      BY <1>1, AddrNat, Zenon
    <3>2. QED
      BY <1>3, <1>5, <3>1, Sizes
  <2>2. ld >= HEADER_SIZE + FOOTER_SIZE /\ s - ld >= HEADER_SIZE + FOOTER_SIZE /\ need <= s - ld
    BY <1>6, <1>13, MinBlock, Sizes
  <2>3. CanCut(v, L \cup {b}, S, b, s, ld, n)
    BY <1>7, <1>10, <1>11, <2>1, <2>2, Zenon DEF CanCut
  <2>4. PICK w : w = WriteBlock(ListPush(WriteBlock(v, b, ld, FALSE), b), n, s - ld, FALSE)
    BY Zenon
  <2>5. /\ HeapOK(w, ((L \cup {b}) \ {b}) \cup {n}, S) /\ n \notin L \cup {b} /\ n \in Addr
        /\ Resized(v, w, (L \cup {b}) \ {b}, n, s - ld)
    <3>1. PICK M : M = L \cup {b}
      BY Zenon
    <3>2. CanCut(v, M, S, b, s, ld, n)
      BY <2>3, <3>1, Zenon
    <3>3. LeadGone(v, w, M, S, b, n, s - ld)
      BY <2>4, <3>2, LeadOff, Zenon
    <3>4. QED
      BY <3>1, <3>3, Zenon DEF LeadGone
  <2>6. (L \cup {b}) \ {b} = L
    BY <1>10
  <2>7. HeapOK(w, L \cup {n}, S) /\ n \notin L /\ Resized(v, w, L, n, s - ld)
    BY <2>5, <2>6, Zenon
  <2>8. KeepsSizes(h, w, L) /\ need <= Size(w, n)
    BY <1>11, <2>2, <2>7, Zenon DEF Resized, KeepsSizes
  <2>9. payload_ptr(n) % align = 0
    BY <1>4, <2>1, Zenon DEF payload_ptr
  <2>10. Lent(h, w, L, S, n, need, align)
    BY <2>5, <2>7, <2>8, <2>9, Zenon DEF Lent
  <2>11. SplitLead(h, b, align) = [heap |-> w, use |-> n, absorbed |-> 0]
    BY <1>2, <1>5, <1>8, <1>9, <1>13, <2>1, <2>4, Zenon DEF SplitLead
  <2>12. QED
    BY <2>10, <2>11, Zenon
<1>14. QED
  BY <1>6, <1>12, <1>13, Zenon

\* alloc takes a block that fits: it was not in use, and it is aligned and large
\* enough.
LEMMA Taken ==
  ASSUME NEW S, SpansOK(S), NEW h, NEW L, HeapOK(h, L, S), NEW b \in Range(h.list),
         NEW align \in Nat \ {0}, align % ALIGN = 0, NEW size \in Nat,
         Fits(h, b, Need(size), align), Take(h, b, size, align)
  PROVE  \E u : /\ Lent(h, heap', L, S, u, Need(size), align)
                /\ live' = live \cup {[ptr |-> payload_ptr(u), size |-> size, align |-> align]}
<1>1. PICK need \in Nat : need = Need(size) /\ need >= HEADER_SIZE + FOOTER_SIZE
  BY NeedIs, Sizes
<1>2. PICK w, u : /\ SplitLead(h, b, align) = [heap |-> w, use |-> u, absorbed |-> 0]
                  /\ Lent(h, w, L, S, u, need, align)
  BY <1>1, LeadSplit, Zenon
<1>3. PICK alloc \in Nat : alloc = align_up(need, ALIGN) /\ Aligned(alloc) /\ need <= alloc
  BY AlignUp, Constants, Zenon DEF Aligned
<1>4. alloc >= HEADER_SIZE + FOOTER_SIZE
  BY <1>1, <1>3, Sizes
<1>5. /\ heap' = SplitTail(w, u, alloc)
      /\ live' = live \cup {[ptr |-> payload_ptr(u), size |-> size, align |-> align]}
  BY <1>1, <1>2, <1>3 DEF Take
<1>6. HeapOK(w, L \cup {u}, S) /\ u \in L \cup {u} /\ need <= Size(w, u) /\ u \notin L
  BY <1>2, Zenon DEF Lent
<1>7. PICK g : /\ g = SplitTail(w, u, alloc)
               /\ HeapOK(g, L \cup {u}, S) /\ need <= Size(g, u)
               /\ \A a \in (L \cup {u}) \ {u} : Size(g, a) = Size(w, a)
  <2>1. PICK M : M = L \cup {u}
    BY Zenon
  <2>2. HeapOK(w, M, S) /\ u \in M
    BY <1>6, <2>1, Zenon
  <2>3. \E g : /\ g = SplitTail(w, u, alloc)
               /\ HeapOK(g, M, S) /\ Size(g, u) \in Nat /\ need <= Size(g, u)
               /\ \A a \in M \ {u} : Size(g, a) = Size(w, a)
    BY <1>3, <1>4, <1>6, <2>2, TailSplit
  <2>4. QED
    BY <2>1, <2>3, Zenon
<1>8. KeepsSizes(h, g, L)
  <2>1. ASSUME NEW a \in L PROVE Size(g, a) = Size(h, a)
    <3>1. Size(g, a) = Size(w, a)
      BY <1>6, <1>7
    <3>2. QED
      BY <1>2, <3>1, Zenon DEF Lent, KeepsSizes
  <2>2. QED
    BY <2>1, Zenon DEF KeepsSizes
<1>9. Lent(h, g, L, S, u, need, align)
  BY <1>2, <1>7, <1>8, Zenon DEF Lent
<1>10. QED
  BY <1>1, <1>5, <1>7, <1>9, Zenon

-----------------------------------------------------------------------------
(* grow.                                                                   *)

Appended(l, t, m, T) == m \in Seq(T) /\ Len(m) = Len(l) + 1 /\ Range(m) = Range(l) \cup {t}

LEMMA AppendIs ==
  ASSUME NEW T, NEW l \in Seq(T), NEW t \in T, NEW m, m = Append(l, t)
  PROVE  Appended(l, t, m, T)
<1>1. m \in Seq(T) /\ Len(m) = Len(l) + 1 /\ Len(l) \in Nat
  OBVIOUS
<1>2. m[Len(l) + 1] = t /\ \A i \in 1 .. Len(l) : m[i] = l[i]
  OBVIOUS
<1>3. DOMAIN m = 1 .. (Len(l) + 1) /\ DOMAIN l = 1 .. Len(l)
  BY <1>1
<1>4. ASSUME NEW x \in Range(m) PROVE x \in Range(l) \cup {t}
  BY <1>1, <1>2, <1>3 DEF Range
<1>5. ASSUME NEW x \in Range(l) \cup {t} PROVE x \in Range(m)
  BY <1>1, <1>2, <1>3 DEF Range
<1>6. Range(m) = Range(l) \cup {t}
  BY <1>4, <1>5, Zenon
<1>7. QED
  BY <1>1, <1>6, Zenon DEF Appended

\* The table of regions after add_span: with the new span, or as it was when it
\* is full.
LEMMA RegionsAre ==
  ASSUME NEW v \in HeapType, NEW t \in Region, Len(v.regions) <= MAX_REGIONS, NEW w,
         w = IF Len(v.regions) < MAX_REGIONS
             THEN [v EXCEPT !.regions = Append(@, [start |-> t.start, len |-> t.len])]
             ELSE v
  PROVE  /\ w \in HeapType /\ w.hdr = v.hdr /\ w.foot = v.foot /\ w.list = v.list
         /\ Range(w.regions) \subseteq Range(v.regions) \cup {t} /\ Len(w.regions) <= MAX_REGIONS
<1>1. t = [start |-> t.start, len |-> t.len]
  BY DEF Region
<1>2. v.regions \in Seq(Region) /\ Len(v.regions) \in Nat /\ MAX_REGIONS \in Nat
  BY HeapAssumption DEF HeapType
<1>3. CASE Len(v.regions) < MAX_REGIONS
  <2>1. PICK m : m = Append(v.regions, t)
    BY Zenon
  <2>2. /\ m \in Seq(Region) /\ Len(m) = Len(v.regions) + 1
        /\ Range(m) = Range(v.regions) \cup {t}
    <3>1. Appended(v.regions, t, m, Region)
      BY <1>2, <2>1, AppendIs, Zenon
    <3>2. QED
      BY <3>1, Zenon DEF Appended
  <2>3. w = [v EXCEPT !.regions = m]
    BY <1>1, <1>3, <2>1
  <2>4. /\ w \in HeapType /\ w.hdr = v.hdr /\ w.foot = v.foot /\ w.list = v.list
        /\ w.regions = m
    BY <2>2, <2>3, Zenon DEF HeapType
  <2>5. Len(m) <= MAX_REGIONS
    BY <1>2, <1>3, <2>2
  <2>6. QED
    BY <2>2, <2>4, <2>5, Zenon
<1>4. CASE ~(Len(v.regions) < MAX_REGIONS)
  BY <1>4, Zenon
<1>5. QED
  BY <1>3, <1>4, Zenon

\* A span that overlaps no other can be added.
CanAdd(S, t) ==
  /\ SpansOK(S) /\ SpansOK(S \cup {t}) /\ t \in Region /\ t \notin S
  /\ t.start \in Addr /\ Aligned(t.start) /\ t.len >= HEADER_SIZE + FOOTER_SIZE

LEMMA SpanAdded ==
  ASSUME NEW S, NEW t, CanAdd(S, t), NEW h, NEW L, HeapOK(h, L, S),
         NEW w, w = add_span(h, t.start, t.len)
  PROVE  HeapOK(w, L, S \cup {t}) /\ KeepsSizes(h, w, L)
<1> DEFINE U == S \cup {t}
           A == Active(h, L)
<1>1. /\ SpansOK(S) /\ SpansOK(U) /\ t \in Region /\ t \notin S /\ t \in U
      /\ t.start \in Addr /\ Aligned(t.start) /\ t.len >= HEADER_SIZE + FOOTER_SIZE
  BY Zenon DEF CanAdd
<1>2. /\ h \in HeapType /\ IsInjective(h.list) /\ L \cap Range(h.list) = {}
      /\ Range(h.regions) \subseteq S /\ Len(h.regions) <= MAX_REGIONS
      /\ \A a \in Addr : h.hdr[a].free => a \in Range(h.list)
      /\ L \subseteq Addr /\ Range(h.list) \subseteq Addr
      /\ SizeOf(h) \in [Addr -> Nat] /\ h.foot \in [Addr -> Nat]
      /\ Geometry(A, SizeOf(h), h.foot, S)
  BY HeapIs, Zenon
<1>3. PICK b \in Addr, m \in Nat : b = t.start /\ m = t.len
  BY <1>1 DEF Region
<1>4. b \in Nat /\ m > 0
  <2>1. b \in Nat
    BY AddrNat, Zenon
  <2>2. m > 0
    BY <1>1, <1>3, Sizes
  <2>3. QED
    BY <2>1, <2>2
<1>5. PICK e \in Addr : e = b + m - FOOTER_SIZE /\ e = (b + m) - FOOTER_SIZE
  <2>1. Inside(b, m, U)
    <3>1. t.start <= b /\ b + m <= t.start + t.len
      BY <1>3, <1>4
    <3>2. QED
      BY <1>1, <3>1, Zenon DEF Inside
  <2>2. PICK x \in Int : x = (b + m) - FOOTER_SIZE
    BY <1>4, Sizes
  <2>3. b <= x /\ x < b + m /\ x = b + m - FOOTER_SIZE
    BY <1>1, <1>3, <1>4, <2>2, Sizes
  <2>4. b \in Int
    BY <1>4
  <2>5. x \in Addr
    BY <1>1, <2>1, <2>3, <2>4, BlockBytes, Zenon
  <2>6. QED
    BY <2>2, <2>3, <2>5, Zenon
<1>6. b \notin A
  <2>1. SUFFICES ASSUME b \in A PROVE FALSE
    OBVIOUS
  <2>2. PICK s \in Nat : s > 0 /\ Inside(b, s, S)
    <3>1. SizeOf(h)[b] \in Nat /\ SizeOf(h)[b] > 0 /\ Inside(b, SizeOf(h)[b], S)
      BY <1>2, <2>1, BlockIs, Zenon
    <3>2. QED
      BY <3>1, Zenon
  <2>3. PICK r \in S : r.start <= b /\ b + s <= r.start + r.len
    BY <2>2 DEF Inside
  <2>4. r \in U /\ r.start \in Nat /\ r.len \in Nat /\ t.start \in Nat /\ t.len \in Nat
    BY <1>1 DEF SpansOK, Region
  <2>5. b \in Int /\ b < r.start + r.len /\ t.start <= b /\ b < t.start + t.len
    BY <1>3, <1>4, <2>2, <2>3, <2>4
  <2>6. r = t
    BY <1>1, <2>3, <2>4, <2>5, OneSpan
  <2>7. QED
    BY <1>1, <2>6, Zenon
<1>7. PICK w1 : w1 = WriteBlock(h, b, m, TRUE)
  BY Zenon
<1>8. w1 \in HeapType /\ Wrote(h, w1, b, m, TRUE, e)
  BY <1>2, <1>5, <1>7, WriteIs, Zenon
<1>9. PICK w2 : w2 = ListPush(w1, b)
  OBVIOUS
<1>10. w2 \in HeapType /\ Pushed(w1, w2, b)
  <2>1. IsInjective(w1.list) /\ b \notin Range(w1.list)
    BY <1>2, <1>6, <1>8, Zenon DEF Wrote, Active
  <2>2. QED
    BY <1>8, <1>9, <2>1, PushIs, Zenon
<1>11. w2.regions = h.regions
  BY <1>8, <1>10, Zenon DEF Wrote, Pushed
<1>12. /\ w \in HeapType /\ w.hdr = w2.hdr /\ w.foot = w2.foot /\ w.list = w2.list
       /\ Range(w.regions) \subseteq Range(h.regions) \cup {t} /\ Len(w.regions) <= MAX_REGIONS
  <2>1. w = IF Len(w2.regions) < MAX_REGIONS
            THEN [w2 EXCEPT !.regions = Append(@, [start |-> t.start, len |-> t.len])]
            ELSE w2
    BY <1>3, <1>7, <1>9, <1>11, Zenon DEF add_span
  <2>2. Len(w2.regions) <= MAX_REGIONS
    BY <1>2, <1>11, Zenon
  <2>3. /\ w \in HeapType /\ w.hdr = w2.hdr /\ w.foot = w2.foot /\ w.list = w2.list
        /\ Range(w.regions) \subseteq Range(w2.regions) \cup {t} /\ Len(w.regions) <= MAX_REGIONS
    BY <1>1, <1>10, <2>1, <2>2, RegionsAre, Zenon
  <2>4. QED
    BY <1>11, <2>3, Zenon
<1>13. w.hdr[b].size = m /\ \A a \in Addr : a # b => w.hdr[a] = h.hdr[a]
  BY <1>8, <1>10, <1>12, Zenon DEF Wrote, Pushed
<1>14. w.foot[e] = m /\ \A x \in Addr : x # e => w.foot[x] = h.foot[x]
  BY <1>8, <1>10, <1>12, Zenon DEF Wrote, Pushed
<1>15. Range(w.list) = {b} \cup Range(h.list) /\ IsInjective(w.list)
  BY <1>8, <1>10, <1>12, Zenon DEF Wrote, Pushed
<1>16. A \subseteq Addr
  BY <1>2 DEF Active
<1>17. KeepsSizes(h, w, A)
  BY <1>6, <1>13, <1>16, Zenon DEF KeepsSizes, Size
<1>18. Span(SizeOf(h), SizeOf(w), h.foot, w.foot, A, t)
  <2>1. SizeOf(w)[b] = m
    BY <1>13, Zenon DEF SizeOf
  <2>2. ASSUME NEW a \in A PROVE SizeOf(w)[a] = SizeOf(h)[a]
    BY <1>2, <1>12, <1>16, <1>17, SizesAre, Zenon DEF KeepsSizes
  <2>3. (b + m) - b = m
    BY <1>4
  <2>4. Foot(h.foot, w.foot, b + m, b)
    BY <1>5, <1>14, <2>3, Zenon DEF Foot
  <2>5. QED
    BY <1>3, <2>1, <2>2, <2>4, Zenon DEF Span
<1>19. Geometry(A \cup {b}, SizeOf(w), w.foot, U)
  BY <1>1, <1>2, <1>3, <1>18, GeoAdd, Zenon
<1>20. Active(w, L) = A \cup {b}
  BY <1>15 DEF Active
<1>21. ListOK(w, L, U)
  <2>1. ASSUME NEW a \in Addr, w.hdr[a].free PROVE a \in Range(w.list)
    BY <1>2, <1>13, <1>15, <2>1
  <2>2. L \cap Range(w.list) = {}
    BY <1>2, <1>6, <1>15 DEF Active
  <2>3. Range(w.regions) \subseteq U
    BY <1>2, <1>12
  <2>4. QED
    BY <1>12, <1>15, <2>1, <2>2, <2>3, Zenon DEF ListOK
<1>22. KeepsSizes(h, w, L)
  BY <1>17, Zenon DEF KeepsSizes, Active
<1>23. QED
  BY <1>19, <1>20, <1>21, <1>22, Zenon DEF HeapOK

\* Whole pages hold what they were counted for.
LEMMA PagesHold ==
  ASSUME NEW need \in Nat, NEW pages, pages = align_up(need, PAGE_SIZE) \div PAGE_SIZE
  PROVE  pages * PAGE_SIZE \in Nat /\ pages * PAGE_SIZE >= need
<1>1. PICK n \in Nat \ {0} : n = PAGE_SIZE
  BY Constants
<1>2. PICK y \in Nat : y = align_up(need, n) /\ y % n = 0 /\ y >= need
  BY AlignUp, Zenon
<1>3. PICK k \in Int : k = y \div n
  BY <1>2, DivMod
<1>4. y = n * k + (y % n)
  <2>1. y \in Int
    BY <1>2
  <2>2. y = n * (y \div n) + (y % n)
    BY <1>1, <2>1, DivMod, Zenon
  <2>3. QED
    BY <1>3, <2>2, Zenon
<1>5. n * k = k * n
  OBVIOUS
<1>6. k * n = y
  BY <1>2, <1>4, <1>5
<1>7. pages = k
  BY <1>1, <1>2, <1>3, Zenon
<1>8. QED
  BY <1>1, <1>2, <1>6, <1>7, Zenon

\* A run of pages nobody has is a span that can be added.
LEMMA RunIsFree ==
  ASSUME SpansOK(spans), NEW start \in Addr, start % PAGE_SIZE = 0, NEW pages,
         FreeRun(start, pages), NEW len \in Nat, len = pages * PAGE_SIZE,
         len >= HEADER_SIZE + FOOTER_SIZE
  PROVE  CanAdd(spans, [start |-> start, len |-> len])
<1>1. PICK t : t = [start |-> start, len |-> len]
  BY Zenon
<1>2. start \in Nat /\ len > 0
  <2>1. start \in Nat
    BY AddrNat, Zenon
  <2>2. len > 0
    BY Sizes
  <2>3. QED
    BY <2>1, <2>2
<1>3. t \in Region /\ t.start = start /\ t.len = len
  BY <1>1, <1>2 DEF Region
<1>4. ASSUME NEW a \in start .. (start + len - 1)
      PROVE  a \in Addr /\ Within(spans, a) = {}
  BY DEF FreeRun
<1>5. ASSUME NEW r \in spans, NEW a \in start .. (start + len - 1),
             r.start <= a, a < r.start + r.len
      PROVE  FALSE
  <2>1. r.start \in Nat /\ a >= r.start
    BY <1>5 DEF SpansOK, Region
  <2>2. r \in Within(spans, a)
    BY <1>5, <2>1, Zenon DEF Within
  <2>3. QED
    BY <1>4, <2>2
<1>6. ASSUME NEW r \in spans
      PROVE  r.start + r.len <= start \/ start + len <= r.start
  <2>1. PICK u \in Nat, v \in Nat : u = r.start /\ v = r.len /\ v > 0
    BY DEF SpansOK, Region
  <2>2. CASE start <= u /\ u < start + len
    <3>1. u \in start .. (start + len - 1) /\ r.start <= u /\ u < r.start + r.len
      BY <1>2, <2>1, <2>2
    <3>2. QED
      BY <1>5, <3>1, Zenon
  <2>3. CASE u < start /\ start < u + v
    <3>1. start \in start .. (start + len - 1) /\ r.start <= start /\ start < r.start + r.len
      BY <1>2, <2>1, <2>3
    <3>2. QED
      BY <1>5, <3>1, Zenon
  <2>4. QED
    BY <1>2, <2>1, <2>2, <2>3
<1>7. start >= PAGE_SIZE /\ start + len <= Top
  <2>1. PICK a \in Int : a = start + len - 1 /\ a \in start .. (start + len - 1)
    BY <1>2
  <2>2. a \in Addr
    BY <1>4, <2>1, Zenon
  <2>3. QED
    BY <1>2, <2>1, <2>2, Constants
<1>8. t \notin spans
  BY <1>2, <1>3, <1>6
<1>9. SpansOK(spans \cup {t})
  <2>1. spans \cup {t} \subseteq Region
    BY <1>3 DEF SpansOK
  <2>2. ASSUME NEW r \in spans \cup {t}
        PROVE  r.len > 0 /\ r.start >= PAGE_SIZE /\ r.start + r.len <= Top
    BY <1>2, <1>3, <1>7 DEF SpansOK
  <2>3. ASSUME NEW r \in spans \cup {t}, NEW s \in spans \cup {t}, r # s
        PROVE  r.start + r.len <= s.start \/ s.start + s.len <= r.start
    <3>1. CASE r \in spans /\ s \in spans
      BY <2>3, <3>1, Zenon DEF SpansOK
    <3>2. CASE r \in spans /\ s = t
      BY <1>3, <1>6, <3>2, Zenon
    <3>3. CASE r = t /\ s \in spans
      BY <1>3, <1>6, <3>3, Zenon
    <3>4. QED
      BY <2>3, <3>1, <3>2, <3>3
  <2>4. QED
    BY <2>1, <2>2, <2>3, Zenon DEF SpansOK
<1>10. Aligned(start)
  <2>1. ALIGN \in Nat \ {0} /\ PAGE_SIZE \in Nat \ {0} /\ start \in Int /\ PAGE_SIZE % ALIGN = 0
    BY <1>2, HeapAssumption
  <2>2. QED
    BY <2>1, ModTransitive, Zenon DEF Aligned
<1>11. CanAdd(spans, t)
  BY <1>3, <1>8, <1>9, <1>10, Zenon DEF CanAdd
<1>12. QED
  BY <1>1, <1>11, Zenon

\* The heap after init.
LEMMA InitHeap == Init => IInv
<1> SUFFICES ASSUME Init PROVE IInv
  OBVIOUS
<1>1. PICK h : h = [hdr |-> [a \in Addr |-> [size |-> 0, free |-> FALSE]],
                    foot |-> [a \in Addr |-> 0], list |-> << >>, regions |-> << >>]
  BY Zenon
<1>2. h \in HeapType /\ h.list = << >> /\ h.regions = << >> /\ \A a \in Addr : ~h.hdr[a].free
  BY <1>1 DEF HeapType, Header
<1>3. Range(h.list) = {} /\ Range(h.regions) = {} /\ IsInjective(h.list) /\ Len(h.regions) = 0
  BY <1>2 DEF Range, IsInjective
<1>4. HeapOK(h, {}, {})
  <2>1. ListOK(h, {}, {})
    BY <1>2, <1>3, HeapAssumption DEF ListOK
  <2>2. Active(h, {}) = {}
    BY <1>3 DEF Active
  <2>3. Geometry({}, SizeOf(h), h.foot, {})
    BY DEF Geometry
  <2>4. QED
    BY <2>1, <2>2, <2>3, Zenon DEF HeapOK
<1>5. PICK p \in Nat, i \in Nat, n \in Nat : p = PAGE_SIZE /\ i = InitialPages /\ n = ArenaPages
  BY HeapAssumption
<1>6. p > 0 /\ i > 0 /\ i <= n
  BY <1>5, HeapAssumption
<1>7. i * p \in Nat /\ i * p >= p /\ p + i * p <= (n + 1) * p
  BY <1>6
<1>8. PICK t : t = [start |-> PAGE_SIZE, len |-> InitialPages * PAGE_SIZE]
  BY Zenon
<1>9. t \in Region /\ t.start = p /\ t.len = i * p
  BY <1>5, <1>7, <1>8 DEF Region
<1>10. p + i * p <= Top
  BY <1>5, <1>7, Zenon DEF Top
<1>11. CanAdd({}, t)
  <2>1. SpansOK({}) /\ SpansOK({} \cup {t})
    BY <1>5, <1>6, <1>7, <1>9, <1>10 DEF SpansOK
  <2>2. p \in Addr /\ Aligned(p)
    BY <1>5, <1>6, <1>7, <1>10, Constants, HeapAssumption DEF Aligned
  <2>3. i * p >= HEADER_SIZE + FOOTER_SIZE
    <3>1. MIN_BLOCK <= p
      BY <1>5, HeapAssumption
    <3>2. QED
      BY <1>7, <3>1, MinBlock, Sizes
  <2>4. QED
    BY <1>9, <2>1, <2>2, <2>3, Zenon DEF CanAdd
<1>12. heap = add_span(h, t.start, t.len) /\ spans = {t} /\ live = {} /\ oom = FALSE
  BY <1>1, <1>5, <1>8, <1>9 DEF Init
<1>13. HeapOK(heap, {}, {} \cup {t})
  BY <1>4, <1>11, <1>12, SpanAdded, Zenon
<1>14. LiveBlocks = {} /\ {} \cup {t} = spans
  BY <1>12 DEF LiveBlocks
<1>15. HeapOK(heap, LiveBlocks, spans) /\ SpansOK(spans)
  BY <1>11, <1>13, <1>14, Zenon DEF CanAdd
<1>16. QED
  BY <1>12, <1>15, Zenon DEF IInv, Served

-----------------------------------------------------------------------------
(* Alloc preserves the invariant.                                          *)

\* The sizes of the blocks in use, when they stay, keep the allocations served.
StillServed(w, X) ==
  \A a \in X : /\ a.ptr % a.align = 0
               /\ a.size + HEADER_SIZE + FOOTER_SIZE <= Size(w, a.ptr - HEADER_SIZE)

LEMMA ServedStays ==
  ASSUME Served, NEW X, X \subseteq live, NEW w, NEW L, KeepsSizes(heap, w, L),
         \A a \in X : a.ptr - HEADER_SIZE \in L
  PROVE  StillServed(w, X)
<1>1. ASSUME NEW a \in X
      PROVE  /\ a.ptr % a.align = 0
             /\ a.size + HEADER_SIZE + FOOTER_SIZE <= Size(w, a.ptr - HEADER_SIZE)
  <2>1. Size(w, a.ptr - HEADER_SIZE) = Size(heap, a.ptr - HEADER_SIZE)
    BY Zenon DEF KeepsSizes
  <2>2. /\ a.ptr % a.align = 0
        /\ a.size + HEADER_SIZE + FOOTER_SIZE <= Size(heap, a.ptr - HEADER_SIZE)
    BY Zenon DEF Served
  <2>3. QED
    BY <2>1, <2>2, Zenon
<1>2. QED
  BY <1>1, Zenon DEF StillServed

LEMMA LiveIs ==
  /\ \A a \in live : a.ptr - HEADER_SIZE \in LiveBlocks
  /\ \A b \in LiveBlocks : \E a \in live : b = a.ptr - HEADER_SIZE
BY Zenon DEF LiveBlocks

\* The heap has changed and the allocations are the same.
LEMMA KeptInv ==
  ASSUME IInv, SpansOK(spans'), HeapOK(heap', LiveBlocks, spans'),
         KeepsSizes(heap, heap', LiveBlocks), live' = live, oom' \in BOOLEAN
  PROVE  IInv'
<1>1. LiveBlocks' = LiveBlocks
  BY Zenon DEF LiveBlocks
<1>2. /\ live' \subseteq Allocation /\ Served
      /\ \A a, c \in live' : a.ptr = c.ptr => a = c
  BY Zenon DEF IInv
<1>3. live \subseteq live
  OBVIOUS
<1>4. StillServed(heap', live)
  BY <1>2, <1>3, LiveIs, ServedStays, Zenon
<1>5. Served'
  BY <1>4, Zenon DEF Served, StillServed
<1>6. HeapOK(heap', LiveBlocks', spans')
  BY <1>1, Zenon
<1>7. QED
  BY <1>2, <1>5, <1>6, Zenon DEF IInv

\* A block was lent.
LEMMA LentInv ==
  ASSUME IInv, SpansOK(spans'), NEW h, KeepsSizes(heap, h, LiveBlocks), NEW u,
         NEW size \in Nat, NEW align \in Nat \ {0},
         Lent(h, heap', LiveBlocks, spans', u, Need(size), align),
         live' = live \cup {[ptr |-> payload_ptr(u), size |-> size, align |-> align]},
         oom' \in BOOLEAN
  PROVE  IInv'
<1>1. PICK p : p = [ptr |-> payload_ptr(u), size |-> size, align |-> align]
  BY Zenon
<1>2. /\ u \in Addr /\ u \notin LiveBlocks /\ HeapOK(heap', LiveBlocks \cup {u}, spans')
      /\ KeepsSizes(h, heap', LiveBlocks) /\ Need(size) <= Size(heap', u)
      /\ payload_ptr(u) % align = 0
  BY Zenon DEF Lent
<1>3. /\ live \subseteq Allocation /\ Served
      /\ \A a, c \in live : a.ptr = c.ptr => a = c
  BY Zenon DEF IInv
<1>4. /\ p \in Allocation /\ p.ptr - HEADER_SIZE = u /\ p.size = size /\ p.align = align
      /\ p.ptr = payload_ptr(u)
  BY <1>1, <1>2, AddrNat, Sizes DEF Allocation, payload_ptr
<1>5. live' = live \cup {p}
  BY <1>1, Zenon
<1>6. LiveBlocks' = LiveBlocks \cup {u}
  BY <1>4, <1>5 DEF LiveBlocks
<1>7. live' \subseteq Allocation
  BY <1>3, <1>4, <1>5
<1>8. ASSUME NEW a \in live PROVE a.ptr # p.ptr
  BY <1>2, <1>4, LiveIs
<1>9. ASSUME NEW a \in live', NEW c \in live', a.ptr = c.ptr PROVE a = c
  BY <1>3, <1>5, <1>8, <1>9
<1>10. KeepsSizes(heap, heap', LiveBlocks)
  BY <1>2, Zenon DEF KeepsSizes
<1>11. StillServed(heap', live)
  <2>1. live \subseteq live
    OBVIOUS
  <2>2. QED
    BY <1>3, <1>10, <2>1, LiveIs, ServedStays, Zenon
<1>12. p.size + HEADER_SIZE + FOOTER_SIZE <= Size(heap', p.ptr - HEADER_SIZE)
  <2>1. heap' \in HeapType
    BY <1>2, HeapIs, Zenon
  <2>2. PICK k \in Nat : k = Size(heap', u)
    BY <1>2, <2>1, SizesAre, Zenon
  <2>3. PICK n \in Nat : n = Need(size) /\ n >= size + HEADER_SIZE + FOOTER_SIZE
    BY NeedIs
  <2>4. size + HEADER_SIZE + FOOTER_SIZE <= k
    BY <1>2, <2>2, <2>3, Sizes
  <2>5. QED
    BY <1>4, <2>2, <2>4, Zenon
<1>13. Served'
  <2>1. ASSUME NEW a \in live'
        PROVE  /\ a.ptr % a.align = 0
               /\ a.size + HEADER_SIZE + FOOTER_SIZE <= Size(heap', a.ptr - HEADER_SIZE)
    <3>1. CASE a \in live
      BY <1>11, <3>1, Zenon DEF StillServed
    <3>2. CASE a = p
      BY <1>2, <1>4, <1>12, <3>2, Zenon
    <3>3. QED
      BY <1>5, <2>1, <3>1, <3>2
  <2>2. QED
    BY <2>1, Zenon DEF Served
<1>14. HeapOK(heap', LiveBlocks', spans')
  BY <1>2, <1>6, Zenon
<1>15. QED
  BY <1>7, <1>9, <1>13, <1>14, Zenon DEF IInv

\* What find_fit finds is on the list and fits.
LEMMA Found ==
  ASSUME NEW h, NEW need, NEW align, NEW i \in find_fit(h, need, align)
  PROVE  h.list[i] \in Range(h.list) /\ Fits(h, h.list[i], need, align)
BY DEF find_fit, Range

\* The alignment alloc works with.
LEMMA AlignIs ==
  ASSUME NEW l \in Layouts, NEW align, align = max(l[2], ALIGN)
  PROVE  l[1] \in Nat /\ align \in Nat \ {0} /\ align % ALIGN = 0
<1>1. l[1] \in Nat /\ l[2] \in Nat /\ (l[2] <= ALIGN \/ l[2] % ALIGN = 0)
  BY HeapAssumption
<1>2. PICK n \in Nat \ {0} : n = ALIGN
  BY Constants
<1>3. n % n = 0
  <2>1. n = n * 1
    OBVIOUS
  <2>2. (n * 1) % n = 0
    BY ModMultiple
  <2>3. QED
    BY <2>1, <2>2
<1>4. CASE l[2] > n
  BY <1>1, <1>2, <1>4 DEF max
<1>5. CASE ~(l[2] > n)
  <2>1. align = n
    BY <1>1, <1>2, <1>5 DEF max
  <2>2. QED
    BY <1>1, <1>2, <1>3, <2>1
<1>6. QED
  BY <1>4, <1>5

LEMMA AllocInv ==
  ASSUME IInv, NEW l \in Layouts, Alloc(l[1], l[2])
  PROVE  IInv'
<1>1. PICK size : size = l[1]
  OBVIOUS
<1>2. PICK align : align = max(l[2], ALIGN)
  OBVIOUS
<1>3. size \in Nat /\ align \in Nat \ {0} /\ align % ALIGN = 0
  BY <1>1, <1>2, AlignIs, Zenon
<1>4. PICK need \in Nat : need = Need(size) /\ need >= HEADER_SIZE + FOOTER_SIZE
  BY <1>3, NeedIs, Sizes
<1>5. PICK pages : pages = align_up(need, PAGE_SIZE) \div PAGE_SIZE
  OBVIOUS
<1>6. SpansOK(spans) /\ HeapOK(heap, LiveBlocks, spans) /\ oom \in BOOLEAN
  BY Zenon DEF IInv
<1>7. KeepsSizes(heap, heap, LiveBlocks)
  BY Zenon DEF KeepsSizes
<1>8. CASE /\ \E i \in find_fit(heap, need, align) : Take(heap, heap.list[i], size, align)
           /\ UNCHANGED <<spans, oom>>
  <2>1. PICK i \in find_fit(heap, need, align) : Take(heap, heap.list[i], size, align)
    BY <1>8, Zenon
  <2>2. spans' = spans /\ oom' = oom
    BY <1>8
  <2>3. PICK b : b = heap.list[i]
    OBVIOUS
  <2>4. b \in Range(heap.list) /\ Fits(heap, b, Need(size), align) /\ Take(heap, b, size, align)
    BY <1>4, <2>1, <2>3, Found, Zenon
  <2>5. PICK u : /\ Lent(heap, heap', LiveBlocks, spans, u, Need(size), align)
                 /\ live' = live \cup {[ptr |-> payload_ptr(u), size |-> size, align |-> align]}
    BY <1>3, <1>6, <2>4, Taken
  <2>6. SpansOK(spans') /\ oom' \in BOOLEAN /\ Lent(heap, heap', LiveBlocks, spans', u, Need(size), align)
    BY <1>6, <2>2, <2>5, Zenon
  <2>7. QED
    BY <1>3, <1>7, <2>5, <2>6, LentInv
<1>9. ASSUME NEW start \in Addr, start % PAGE_SIZE = 0, FreeRun(start, pages),
             spans' = spans \cup {[start |-> start, len |-> pages * PAGE_SIZE]},
             Retry(add_span(heap, start, pages * PAGE_SIZE), size, align)
      PROVE  IInv'
  <2>1. PICK len \in Nat : len = pages * PAGE_SIZE /\ len >= HEADER_SIZE + FOOTER_SIZE
    <3>1. pages * PAGE_SIZE \in Nat /\ pages * PAGE_SIZE >= need
      BY <1>4, <1>5, PagesHold, Zenon
    <3>2. QED
      BY <1>4, <3>1, Sizes
  <2>2. PICK t : t = [start |-> start, len |-> len]
    BY Zenon
  <2>3. CanAdd(spans, t) /\ t.start = start /\ t.len = len
    <3>1. CanAdd(spans, [start |-> start, len |-> len])
      BY <1>6, <1>9, <2>1, RunIsFree, Zenon
    <3>2. QED
      BY <2>2, <3>1
  <2>4. spans' = spans \cup {t}
    BY <1>9, <2>1, <2>2, Zenon
  <2>5. PICK h : h = add_span(heap, t.start, t.len)
    OBVIOUS
  <2>6. HeapOK(h, LiveBlocks, spans \cup {t}) /\ KeepsSizes(heap, h, LiveBlocks)
    BY <1>6, <2>3, <2>5, SpanAdded, Zenon
  <2>7. SpansOK(spans') /\ HeapOK(h, LiveBlocks, spans')
    BY <2>3, <2>4, <2>6, Zenon DEF CanAdd
  <2>8. Retry(h, size, align)
    BY <1>9, <2>1, <2>3, <2>5, Zenon
  <2>9. CASE /\ \E i \in find_fit(h, need, align) : Take(h, h.list[i], size, align)
             /\ UNCHANGED oom
    <3>1. PICK i \in find_fit(h, need, align) : Take(h, h.list[i], size, align)
      BY <2>9, Zenon
    <3>2. PICK b : b = h.list[i]
      OBVIOUS
    <3>3. b \in Range(h.list) /\ Fits(h, b, Need(size), align) /\ Take(h, b, size, align)
      BY <1>4, <3>1, <3>2, Found, Zenon
    <3>4. PICK u : /\ Lent(h, heap', LiveBlocks, spans', u, Need(size), align)
                   /\ live' = live \cup {[ptr |-> payload_ptr(u), size |-> size, align |-> align]}
      <4>1. PICK S : S = spans'
        OBVIOUS
      <4>2. SpansOK(S) /\ HeapOK(h, LiveBlocks, S)
        BY <2>7, <4>1, Zenon
      <4>3. \E u : /\ Lent(h, heap', LiveBlocks, S, u, Need(size), align)
                  /\ live' = live \cup {[ptr |-> payload_ptr(u), size |-> size, align |-> align]}
        BY <1>3, <3>3, <4>2, Taken
      <4>4. QED
        BY <4>1, <4>3, Zenon
    <3>5. oom' \in BOOLEAN
      BY <1>6, <2>9
    <3>6. QED
      BY <1>3, <2>6, <2>7, <3>4, <3>5, LentInv
  <2>10. CASE heap' = h /\ oom' = TRUE /\ UNCHANGED live
    <3>1. live' = live /\ oom' \in BOOLEAN
      BY <2>10
    <3>2. HeapOK(heap', LiveBlocks, spans') /\ KeepsSizes(heap, heap', LiveBlocks)
      BY <2>6, <2>7, <2>10, Zenon
    <3>3. QED
      BY <2>7, <3>1, <3>2, KeptInv, Zenon
  <2>11. QED
    BY <1>4, <2>8, <2>9, <2>10, Zenon DEF Retry
<1>10. CASE oom' = TRUE /\ UNCHANGED <<heap, spans, live>>
  <2>1. heap' = heap /\ spans' = spans /\ live' = live /\ oom' \in BOOLEAN
    BY <1>10
  <2>2. SpansOK(spans') /\ HeapOK(heap', LiveBlocks, spans') /\ KeepsSizes(heap, heap', LiveBlocks)
    BY <1>6, <1>7, <2>1, Zenon
  <2>3. QED
    BY <2>1, <2>2, KeptInv, Zenon
<1>11. QED
  <2>1. \/ /\ \E i \in find_fit(heap, need, align) : Take(heap, heap.list[i], size, align)
           /\ UNCHANGED <<spans, oom>>
        \/ \E start \in {a \in Addr : a % PAGE_SIZE = 0} :
              /\ FreeRun(start, pages)
              /\ spans' = spans \cup {[start |-> start, len |-> pages * PAGE_SIZE]}
              /\ Retry(add_span(heap, start, pages * PAGE_SIZE), size, align)
        \/ oom' = TRUE /\ UNCHANGED <<heap, spans, live>>
    BY <1>1, <1>2, <1>4, <1>5, Zenon DEF Alloc
  <2>2. QED
    BY <1>8, <1>9, <1>10, <2>1, Zenon

-----------------------------------------------------------------------------
(* dealloc.                                                                *)

\* Block n has left the list, and x has been written with size k: what the two
\* merges have in common.
Merged(h, w, L, S, n, x, k, e) ==
  /\ w \in HeapType /\ ListOK(w, L, S) /\ Active(w, L) = Active(h, L) \ {n}
  /\ w.hdr[x].size = k /\ \A a \in Addr : a # x => w.hdr[a].size = h.hdr[a].size
  /\ w.foot[e] = k /\ \A y \in Addr : y # e => w.foot[y] = h.foot[y]

LEMMA MergedIs ==
  ASSUME NEW S, NEW h, NEW L, HeapOK(h, L, S), NEW n \in Range(h.list), NEW x \in Addr,
         NEW k \in Nat, NEW f \in BOOLEAN, f => x \in Range(h.list) \ {n},
         NEW e \in Addr, e = x + k - FOOTER_SIZE, NEW w, w = WriteBlock(ListRemove(h, n), x, k, f)
  PROVE  Merged(h, w, L, S, n, x, k, e)
<1>1. /\ h \in HeapType /\ IsInjective(h.list) /\ L \cap Range(h.list) = {}
      /\ Range(h.regions) \subseteq S /\ Len(h.regions) <= MAX_REGIONS
      /\ \A a \in Addr : h.hdr[a].free => a \in Range(h.list)
      /\ n \in Addr
  BY HeapIs, Zenon
<1>2. PICK v : v = ListRemove(h, n)
  OBVIOUS
<1>3. v \in HeapType /\ Removed(h, v, n)
  BY <1>1, <1>2, RemoveIs, Zenon
<1>4. w \in HeapType /\ Wrote(v, w, x, k, f, e)
  <2>1. w = WriteBlock(v, x, k, f)
    BY <1>2, Zenon
  <2>2. QED
    BY <1>3, <2>1, WriteIs, Zenon
<1>5. Range(w.list) = Range(h.list) \ {n} /\ IsInjective(w.list) /\ w.regions = h.regions
  BY <1>3, <1>4, Zenon DEF Removed, Wrote
<1>6. Active(w, L) = Active(h, L) \ {n}
  BY <1>1, <1>5 DEF Active
<1>7. ASSUME NEW a \in Addr, w.hdr[a].free PROVE a \in Range(w.list)
  <2>1. CASE a = x
    <3>1. f
      BY <1>4, <1>7, <2>1, Zenon DEF Wrote
    <3>2. QED
      BY <1>5, <2>1, <3>1, Zenon
  <2>2. CASE a # x
    <3>1. w.hdr[a] = v.hdr[a]
      BY <1>4, <2>2, Zenon DEF Wrote
    <3>2. a # n
      BY <1>3, <1>7, <3>1, Zenon DEF Removed
    <3>3. v.hdr[a] = h.hdr[a]
      BY <1>3, <3>2, Zenon DEF Removed
    <3>4. QED
      BY <1>1, <1>5, <1>7, <3>1, <3>2, <3>3
  <2>3. QED
    BY <2>1, <2>2, Zenon
<1>8. L \cap Range(w.list) = {}
  BY <1>1, <1>5
<1>9. ListOK(w, L, S)
  BY <1>1, <1>4, <1>5, <1>7, <1>8, Zenon DEF ListOK
<1>10. ASSUME NEW a \in Addr, a # x PROVE w.hdr[a].size = h.hdr[a].size
  <2>1. w.hdr[a] = v.hdr[a]
    BY <1>4, <1>10, Zenon DEF Wrote
  <2>2. v.hdr[a].size = h.hdr[a].size
    BY <1>3, Zenon DEF Removed
  <2>3. QED
    BY <2>1, <2>2, Zenon
<1>11. w.foot[e] = k /\ w.hdr[x].size = k
  BY <1>4, Zenon DEF Wrote
<1>12. ASSUME NEW y \in Addr, y # e PROVE w.foot[y] = h.foot[y]
  BY <1>3, <1>4, <1>12, Zenon DEF Wrote, Removed
<1>13. QED
  BY <1>4, <1>6, <1>9, <1>10, <1>11, <1>12, Zenon DEF Merged

LEMMA MergedKeeps ==
  ASSUME NEW S, NEW h \in HeapType, NEW L, NEW w, NEW n, NEW x, NEW k, NEW e,
         Merged(h, w, L, S, n, x, k, e), NEW X, X \subseteq Addr, x \notin X
  PROVE  KeepsSizes(h, w, X)
<1>1. ASSUME NEW a \in X PROVE w.hdr[a].size = h.hdr[a].size
  BY Zenon DEF Merged
<1>2. QED
  BY <1>1, Zenon DEF KeepsSizes, Size

\* What CoalescePrev leaves: a block x on the list, or the bytes of two former
\* blocks, which no block overlaps and which are neither in use nor on the list.
Ghost(h, x, L) ==
  /\ x \in Addr /\ x \notin Active(h, L) /\ Size(h, x) > 0
  /\ \A c \in Active(h, L) : c < x => c + SizeOf(h)[c] <= x

\* The footer behind b leads to a block before it that has been merged away.
LEMMA GhostMade ==
  ASSUME NEW S, SpansOK(S), NEW h, NEW L, HeapOK(h, L, S), NEW n \in Range(h.list),
         NEW x \in Addr, x \notin Active(h, L) \ {n},
         \A c \in Active(h, L) \ {n} : c < x => c + SizeOf(h)[c] <= x,
         NEW r \in S, r.start <= x, NEW k \in Nat, k > FOOTER_SIZE, x + k <= r.start + r.len,
         NEW e \in Addr, e = (x + k) - FOOTER_SIZE, NEW w, Merged(h, w, L, S, n, x, k, e)
  PROVE  HeapOK(w, L, S) /\ Ghost(w, x, L)
<1> DEFINE A == Active(h, L)
           B == A \ {n}
           z == SizeOf(h)
<1>1. /\ h \in HeapType /\ A \subseteq Addr /\ z \in [Addr -> Nat] /\ h.foot \in [Addr -> Nat]
      /\ Geometry(A, z, h.foot, S)
  <2>1. Geometry(A, z, h.foot, S)
    BY HeapIs, Zenon
  <2>2. QED
    BY <2>1, HeapIs, Zenon DEF Geometry
<1>2. Active(w, L) = B /\ ListOK(w, L, S) /\ w \in HeapType /\ w.hdr[x].size = k
  BY Zenon DEF Merged
<1>3. B \subseteq Addr /\ B \subseteq A
  BY <1>1
<1>4. ASSUME NEW a \in B PROVE SizeOf(w)[a] = z[a]
  <2>1. a \in Addr /\ a # x
    BY <1>3
  <2>2. w.hdr[a].size = h.hdr[a].size
    BY <2>1, Zenon DEF Merged
  <2>3. QED
    BY <2>1, <2>2, Zenon DEF SizeOf
<1>5. Geometry(B, z, h.foot, S)
  BY <1>1, <1>3, GeoSubset, Zenon
<1>6. x \in Nat
  BY AddrNat, Zenon
<1>7. PICK q \in Int : q = x + k
  BY <1>6
<1>8. Foot(h.foot, w.foot, q, x)
  <2>1. q - x = k
    BY <1>6, <1>7
  <2>2. e = q - FOOTER_SIZE
    BY <1>7, Zenon
  <2>3. QED
    BY <2>1, <2>2, Zenon DEF Foot, Merged
<1>9. Leads(B, z, x, q)
  BY Zenon DEF Leads
<1>10. x \in Int /\ x + FOOTER_SIZE <= q /\ q <= r.start + r.len
  BY <1>6, <1>7, Sizes
<1>11. Geometry(B, SizeOf(w), w.foot, S)
  <2> HIDE DEF A, B, z
  <2>1. QED
    BY <1>1, <1>4, <1>5, <1>8, <1>9, <1>10, GeoFoot, Zenon
<1>12. HeapOK(w, L, S)
  BY <1>2, <1>11, Zenon DEF HeapOK
<1>13. Size(w, x) > 0
  BY <1>2, Sizes DEF Size
<1>14. \A c \in B : c < x => c + SizeOf(w)[c] <= x
  BY <1>4, Zenon
<1>15. Ghost(w, x, L)
  BY <1>2, <1>13, <1>14, Zenon DEF Ghost
<1>16. QED
  BY <1>12, <1>15, Zenon

\* try_coalesce_with_prev: the free block before b, if there is one, really ends
\* where b begins.
LEMMA MergePrev ==
  ASSUME NEW S, SpansOK(S), NEW h, NEW L, HeapOK(h, L, S), NEW b \in Range(h.list)
  PROVE  \E w, x : /\ CoalescePrev(h, b) = [heap |-> w, b |-> x]
                   /\ HeapOK(w, L, S) /\ KeepsSizes(h, w, L)
                   /\ x \in Range(w.list) \/ Ghost(w, x, L)
<1> DEFINE A == Active(h, L)
           z == SizeOf(h)
           p == PrevAddr(h, b)
           Can == \E r \in region_bounds(h, b) :
                    /\ b >= r.start + FOOTER_SIZE
                    /\ h.foot[b - FOOTER_SIZE] # 0
                    /\ b >= h.foot[b - FOOTER_SIZE] + r.start
                    /\ h.hdr[p].free
<1>1. CASE ~Can
  <2>1. CoalescePrev(h, b) = [heap |-> h, b |-> b]
    BY <1>1, Zenon DEF CoalescePrev
  <2>2. KeepsSizes(h, h, L)
    BY Zenon DEF KeepsSizes
  <2>3. QED
    BY <2>1, <2>2, Zenon
<1>2. CASE Can
  <2>1. PICK w : w = WriteBlock(ListRemove(h, p), p, Size(h, p) + Size(h, b), FALSE)
    BY Zenon
  <2>2. CoalescePrev(h, b) = [heap |-> w, b |-> p]
    BY <1>2, <2>1, Zenon DEF CoalescePrev
  <2>3. PICK r \in region_bounds(h, b) :
                    /\ b >= r.start + FOOTER_SIZE
                    /\ h.foot[b - FOOTER_SIZE] # 0
                    /\ b >= h.foot[b - FOOTER_SIZE] + r.start
                    /\ h.hdr[p].free
    BY <1>2, Zenon
  <2>4. /\ h \in HeapType /\ Range(h.regions) \subseteq S
        /\ \A a \in Addr : h.hdr[a].free => a \in Range(h.list)
        /\ L \cap Range(h.list) = {} /\ L \subseteq Addr
        /\ z \in [Addr -> Nat] /\ h.foot \in [Addr -> Nat] /\ Geometry(A, z, h.foot, S)
    BY HeapIs, Zenon
  <2>5. r \in S /\ b >= r.start /\ b < r.start + r.len
    BY <2>4 DEF region_bounds, Within
  <2>6. PICK rs \in Nat, rl \in Nat : rs = r.start /\ rl = r.len /\ rs >= PAGE_SIZE /\ rs + rl <= Top
    BY <2>5 DEF SpansOK, Region
  <2>7. b \in Addr /\ b \in Nat /\ b \in A
    <3>1. b \in Addr
      BY HeapIs, Zenon
    <3>2. QED
      BY <3>1, AddrNat, Zenon DEF Active
  <2>8. b - FOOTER_SIZE \in Addr
    BY <2>3, <2>5, <2>6, <2>7, Constants, Sizes
  <2>9. PICK d \in Nat : d = h.foot[b - FOOTER_SIZE] /\ d # 0 /\ p = b - d
    BY <2>3, <2>4, <2>8 DEF PrevAddr
  <2>10. rs <= p /\ p < b /\ p \in Int
    BY <2>3, <2>6, <2>7, <2>9
  <2>11. p \in Addr /\ p \in Nat
    BY <2>5, <2>6, <2>7, <2>10, Constants
  <2>12. p \in Range(h.list) /\ p \in A
    BY <2>3, <2>4, <2>11, Zenon DEF Active
  <2> HIDE DEF A, z, p
  <2>13. PICK i \in Nat, j \in Nat : /\ i = Size(h, p) /\ j = Size(h, b) /\ i = z[p] /\ j = z[b]
                                     /\ i > 0 /\ j > FOOTER_SIZE /\ Inside(b, j, S)
    <3>1. Size(h, p) \in Nat /\ Size(h, b) \in Nat /\ z[p] = Size(h, p) /\ z[b] = Size(h, b)
      BY <2>4, <2>7, <2>11, SizesAre, Zenon DEF z
    <3>2. z[b] >= HEADER_SIZE + FOOTER_SIZE /\ Inside(b, z[b], S) /\ z[p] > 0
      BY <2>4, <2>7, <2>12, BlockIs, Zenon
    <3>3. z[b] > FOOTER_SIZE
      BY <3>1, <3>2, Sizes
    <3>4. QED
      BY <3>1, <3>2, <3>3, Zenon
  <2>14. p + i = b
    <3>1. Tagged(A, z, h.foot, S, b)
      BY <2>4, <2>7, BlockIs
    <3>2. r.start < b /\ b < r.start + r.len
      <4>1. rs < b
        BY <2>7, <2>10
      <4>2. QED
        BY <2>5, <2>6, <4>1, Zenon
    <3>3. Before(h.foot, b) = p
      BY Zenon DEF Before, p, PrevAddr
    <3>4. Leads(A, z, p, b)
      BY <2>5, <3>1, <3>2, <3>3, Zenon DEF Tagged
    <3>5. QED
      BY <2>12, <2>13, <3>4, Zenon DEF Leads
  <2>15. b + j <= r.start + r.len
    <3>1. PICK t \in S : t.start <= b /\ b + j <= t.start + t.len
      BY <2>13, Zenon DEF Inside
    <3>2. t.start \in Nat /\ t.len \in Nat
      BY DEF SpansOK, Region
    <3>3. b \in Int /\ b < t.start + t.len /\ r.start <= b
      BY <2>5, <2>6, <2>7, <2>13, <3>1, <3>2, Sizes
    <3>4. t = r
      BY <2>5, <3>1, <3>3, OneSpan
    <3>5. QED
      BY <3>1, <3>4, Zenon
  <2>16. PICK k \in Nat : k = i + j
    OBVIOUS
  <2>17. k > FOOTER_SIZE /\ p + k = b + j /\ r.start <= p
    BY <2>6, <2>10, <2>11, <2>13, <2>14, <2>16, <2>7, Sizes
  <2>18. PICK e \in Addr : e = (p + k) - FOOTER_SIZE /\ e = p + k - FOOTER_SIZE
    <3>1. (b + j) - FOOTER_SIZE \in Addr
      BY <2>4, <2>7, <2>13, FooterPlaces, Zenon
    <3>2. (p + k) - FOOTER_SIZE = p + k - FOOTER_SIZE
      BY <2>11, <2>16, Sizes
    <3>3. QED
      BY <2>17, <3>1, <3>2, Zenon
  <2>19. Merged(h, w, L, S, p, p, k, e)
    <3>1. w = WriteBlock(ListRemove(h, p), p, k, FALSE)
      BY <2>1, <2>13, <2>16, Zenon
    <3>2. FALSE => p \in Range(h.list) \ {p}
      OBVIOUS
    <3>3. QED
      BY <2>11, <2>12, <2>18, <3>1, <3>2, MergedIs, Zenon
  <2>20. HeapOK(w, L, S) /\ Ghost(w, p, L)
    <3>1. p \notin Active(h, L) \ {p}
      OBVIOUS
    <3>2. ASSUME NEW c \in Active(h, L) \ {p}, c < p PROVE c + SizeOf(h)[c] <= p
      BY <2>4, <2>12, <3>2, BlocksApart, Zenon DEF A, z
    <3>3. p + k <= r.start + r.len
      BY <2>15, <2>17, Zenon
    <3>4. QED
      BY <2>5, <2>11, <2>12, <2>17, <2>18, <2>19, <3>1, <3>2, <3>3, GhostMade
  <2>21. KeepsSizes(h, w, L)
    <3>1. p \notin L
      BY <2>4, <2>12
    <3>2. QED
      BY <2>4, <2>19, <3>1, MergedKeeps, Zenon
  <2>22. QED
    BY <2>2, <2>20, <2>21, Zenon
<1>3. QED
  BY <1>1, <1>2, Zenon

\* try_coalesce_with_next: the free block where x ends becomes part of it.
LEMMA MergeNext ==
  ASSUME NEW S, SpansOK(S), NEW h, NEW L, HeapOK(h, L, S), NEW x,
         x \in Range(h.list) \/ Ghost(h, x, L)
  PROVE  \E w : w = CoalesceNext(h, x) /\ HeapOK(w, L, S) /\ KeepsSizes(h, w, L)
<1> DEFINE A == Active(h, L)
           z == SizeOf(h)
           n == x + Size(h, x)
           Can == \E r \in region_bounds(h, x) : n < r.start + r.len /\ h.hdr[n].free
<1>1. CASE ~Can
  <2>1. CoalesceNext(h, x) = h
    BY <1>1, Zenon DEF CoalesceNext
  <2>2. KeepsSizes(h, h, L)
    BY Zenon DEF KeepsSizes
  <2>3. QED
    BY <2>1, <2>2, Zenon
<1>2. CASE Can
  <2>1. PICK w : w = WriteBlock(ListRemove(h, n), x, Size(h, x) + Size(h, n), h.hdr[x].free)
    OBVIOUS
  <2>2. w = CoalesceNext(h, x)
    BY <1>2, <2>1, Zenon DEF CoalesceNext
  <2>3. PICK r \in region_bounds(h, x) : n < r.start + r.len /\ h.hdr[n].free
    BY <1>2, Zenon
  <2>4. /\ h \in HeapType /\ Range(h.regions) \subseteq S
        /\ \A a \in Addr : h.hdr[a].free => a \in Range(h.list)
        /\ L \cap Range(h.list) = {} /\ L \subseteq Addr /\ Range(h.list) \subseteq Addr
        /\ z \in [Addr -> Nat] /\ h.foot \in [Addr -> Nat] /\ Geometry(A, z, h.foot, S)
    BY HeapIs, Zenon
  <2>5. r \in S /\ x >= r.start /\ x < r.start + r.len
    BY <2>4 DEF region_bounds, Within
  <2>6. PICK rs \in Nat, rl \in Nat : rs = r.start /\ rl = r.len /\ rs >= PAGE_SIZE /\ rs + rl <= Top
    BY <2>5 DEF SpansOK, Region
  <2>7. x \in Addr /\ x \in Nat /\ x \notin L
    <3>1. x \in Addr /\ x \notin L
      BY <2>4 DEF Ghost, Active
    <3>2. QED
      BY <3>1, AddrNat, Zenon
  <2>8. PICK i \in Nat : i = Size(h, x) /\ i = z[x] /\ i > 0
    <3>1. Size(h, x) \in Nat /\ z[x] = Size(h, x)
      BY <2>4, <2>7, SizesAre, Zenon
    <3>2. x \in A => z[x] > 0
      BY <2>4, BlockIs, Zenon
    <3>3. Size(h, x) > 0
      BY <3>1, <3>2, Zenon DEF Ghost, Active
    <3>4. QED
      BY <3>1, <3>3, Zenon
  <2>9. n = x + i /\ n \in Nat /\ n > x /\ n < rs + rl
    BY <2>3, <2>6, <2>7, <2>8
  <2>10. n \in Addr
    BY <2>5, <2>6, <2>7, <2>9, Constants
  <2>11. n \in Range(h.list) /\ n \in A
    BY <2>3, <2>4, <2>10, Zenon DEF Active
  <2> HIDE DEF A, z, n
  <2>12. PICK j \in Nat : /\ j = Size(h, n) /\ j = z[n] /\ j > FOOTER_SIZE /\ Inside(n, j, S)
    <3>1. Size(h, n) \in Nat /\ z[n] = Size(h, n)
      BY <2>4, <2>10, SizesAre, Zenon DEF z
    <3>2. z[n] >= HEADER_SIZE + FOOTER_SIZE /\ Inside(n, z[n], S)
      BY <2>4, <2>11, BlockIs, Zenon
    <3>3. z[n] > FOOTER_SIZE
      BY <3>1, <3>2, Sizes
    <3>4. QED
      BY <3>1, <3>2, <3>3, Zenon
  <2>13. n + j <= r.start + r.len
    <3>1. PICK t \in S : t.start <= n /\ n + j <= t.start + t.len
      BY <2>12, Zenon DEF Inside
    <3>2. t.start \in Nat /\ t.len \in Nat
      BY DEF SpansOK, Region
    <3>3. n \in Int /\ n < t.start + t.len /\ r.start <= n /\ n < r.start + r.len
      BY <2>3, <2>5, <2>6, <2>7, <2>9, <2>12, <3>1, <3>2, Sizes
    <3>4. t = r
      BY <2>5, <3>1, <3>3, OneSpan
    <3>5. QED
      BY <3>1, <3>4, Zenon
  <2>14. PICK k \in Nat : k = i + j
    OBVIOUS
  <2>15. k > FOOTER_SIZE /\ x + k = n + j /\ (n + j) - x = k
    BY <2>7, <2>8, <2>9, <2>12, <2>14, Sizes
  <2>16. PICK e \in Addr : e = (x + k) - FOOTER_SIZE /\ e = x + k - FOOTER_SIZE
    <3>1. (n + j) - FOOTER_SIZE \in Addr
      BY <2>4, <2>11, <2>12, FooterPlaces, Zenon
    <3>2. (x + k) - FOOTER_SIZE = x + k - FOOTER_SIZE
      BY <2>7, <2>14, Sizes
    <3>3. QED
      BY <2>15, <3>1, <3>2, Zenon
  <2>17. Merged(h, w, L, S, n, x, k, e)
    <3>1. PICK f : f = h.hdr[x].free
      OBVIOUS
    <3>2. f \in BOOLEAN
      BY <2>4, <2>7, <3>1 DEF HeapType, Header
    <3>3. x # n
      BY <2>7, <2>9
    <3>4. f => x \in Range(h.list) \ {n}
      BY <2>4, <2>7, <3>1, <3>3, Zenon
    <3>5. w = WriteBlock(ListRemove(h, n), x, k, f)
      BY <2>1, <2>8, <2>12, <2>14, <3>1, Zenon
    <3>6. QED
      BY <2>7, <2>11, <2>16, <3>2, <3>4, <3>5, MergedIs
  <2>18. HeapOK(w, L, S)
    <3>1. CASE x \in Range(h.list)
      <4>1. x \in A
        BY <3>1, Zenon DEF A, Active
      <4>2. /\ w \in HeapType /\ ListOK(w, L, S) /\ Active(w, L) = A \ {n}
            /\ w.hdr[x].size = k /\ \A a \in Addr : a # x => w.hdr[a].size = h.hdr[a].size
            /\ w.foot[e] = k /\ \A y \in Addr : y # e => w.foot[y] = h.foot[y]
        BY <2>17, Zenon DEF Merged, A
      <4>3. A \subseteq Addr
        BY <2>4, Zenon DEF Geometry
      <4>4. SizeOf(w)[x] = z[x] + z[n]
        BY <2>7, <2>8, <2>12, <2>14, <4>2, Zenon DEF SizeOf
      <4>5. ASSUME NEW a \in A \ {x, n} PROVE SizeOf(w)[a] = z[a]
        <5>1. a \in Addr /\ a # x
          BY <4>3, <4>5
        <5>2. QED
          BY <4>2, <5>1, Zenon DEF SizeOf, z
      <4>6. Foot(h.foot, w.foot, n + z[n], x)
        BY <2>12, <2>15, <2>16, <4>2, Zenon DEF Foot
      <4>7. Join(A, z, SizeOf(w), h.foot, w.foot, x, n)
        BY <4>4, <4>5, <4>6, Zenon DEF Join
      <4>8. n = x + z[x] /\ r.start <= x
        BY <2>5, <2>6, <2>7, <2>8, <2>9
      <4>9. Geometry(A \ {n}, SizeOf(w), w.foot, S)
        BY <2>3, <2>4, <2>5, <2>11, <4>1, <4>7, <4>8, GeoMerge, Zenon
      <4>10. QED
        BY <4>2, <4>9, Zenon DEF HeapOK
    <3>2. CASE Ghost(h, x, L)
      <4>1. x \notin Active(h, L) \ {n} /\ \A c \in Active(h, L) \ {n} : c < x => c + SizeOf(h)[c] <= x
        BY <3>2, Zenon DEF Ghost
      <4>2. x + k <= r.start + r.len /\ r.start <= x
        BY <2>5, <2>6, <2>7, <2>13, <2>15
      <4>3. QED
        BY <2>5, <2>7, <2>11, <2>15, <2>16, <2>17, <4>1, <4>2, GhostMade, Zenon
    <3>3. QED
      BY <3>1, <3>2, Zenon
  <2>19. KeepsSizes(h, w, L)
    BY <2>4, <2>7, <2>17, MergedKeeps, Zenon
  <2>20. QED
    BY <2>2, <2>18, <2>19, Zenon
<1>3. QED
  BY <1>1, <1>2, Zenon

LEMMA DeallocInv ==
  ASSUME IInv, NEW a \in live, Dealloc(a)
  PROVE  IInv'
<1>1. PICK b : b = a.ptr - HEADER_SIZE
  OBVIOUS
<1>2. /\ SpansOK(spans) /\ HeapOK(heap, LiveBlocks, spans) /\ oom \in BOOLEAN
      /\ live \subseteq Allocation /\ Served /\ \A c, d \in live : c.ptr = d.ptr => c = d
  BY Zenon DEF IInv
<1>3. b \in LiveBlocks
  BY <1>1, LiveIs, Zenon
<1>4. PICK h : h = ListPush(heap, b)
  OBVIOUS
<1>5. PICK M : M = LiveBlocks \ {b}
  BY Zenon
<1>6. HeapOK(h, M, spans) /\ KeepsSizes(heap, h, Addr) /\ b \in Range(h.list)
  BY <1>2, <1>3, <1>4, <1>5, PutOn, Zenon
<1>7. PICK v, x : /\ CoalescePrev(h, b) = [heap |-> v, b |-> x]
                  /\ HeapOK(v, M, spans) /\ KeepsSizes(h, v, M)
                  /\ x \in Range(v.list) \/ Ghost(v, x, M)
  BY <1>2, <1>6, MergePrev, Zenon
<1>8. PICK w : w = CoalesceNext(v, x) /\ HeapOK(w, M, spans) /\ KeepsSizes(v, w, M)
  BY <1>2, <1>7, MergeNext, Zenon
<1>9. /\ heap' = w /\ live' = live \ {a} /\ spans' = spans /\ oom' = oom
  BY <1>1, <1>4, <1>7, <1>8 DEF Dealloc
<1>10. M \subseteq Addr
  BY <1>6, HeapIs, Zenon
<1>11. KeepsSizes(heap, w, M)
  BY <1>6, <1>7, <1>8, <1>10 DEF KeepsSizes
<1>12. ASSUME NEW c \in live \ {a} PROVE c.ptr - HEADER_SIZE \in M
  <2>1. c.ptr \in Nat /\ a.ptr \in Nat
    BY <1>2 DEF Allocation
  <2>2. c.ptr # a.ptr
    BY <1>2, Zenon
  <2>3. c.ptr - HEADER_SIZE # b
    BY <1>1, <2>1, <2>2, Sizes
  <2>4. c.ptr - HEADER_SIZE \in LiveBlocks
    BY LiveIs, Zenon
  <2>5. QED
    BY <1>5, <2>3, <2>4, Zenon
<1>13. LiveBlocks' = M
  <2>1. ASSUME NEW c \in LiveBlocks' PROVE c \in M
    <3>1. PICK d \in live' : c = d.ptr - HEADER_SIZE
      BY Zenon DEF LiveBlocks
    <3>2. QED
      BY <1>9, <1>12, <3>1, Zenon
  <2>2. ASSUME NEW c \in M PROVE c \in LiveBlocks'
    <3>1. c \in LiveBlocks /\ c # b
      BY <1>5, <2>2, Zenon
    <3>2. PICK d \in live : c = d.ptr - HEADER_SIZE
      BY <3>1, LiveIs, Zenon
    <3>3. d \in live'
      BY <1>1, <1>9, <3>1, <3>2
    <3>4. QED
      BY <3>2, <3>3, Zenon DEF LiveBlocks
  <2>3. QED
    BY <2>1, <2>2, Zenon
<1>14. StillServed(w, live \ {a})
  <2>1. live \ {a} \subseteq live
    OBVIOUS
  <2>2. QED
    BY <1>2, <1>11, <1>12, <2>1, ServedStays, Zenon
<1>15. Served'
  BY <1>9, <1>14, Zenon DEF Served, StillServed
<1>16. /\ live' \subseteq Allocation /\ oom' \in BOOLEAN /\ SpansOK(spans')
       /\ \A c, d \in live' : c.ptr = d.ptr => c = d
  BY <1>2, <1>9, Zenon
<1>17. HeapOK(heap', LiveBlocks', spans')
  BY <1>8, <1>9, <1>13, Zenon
<1>18. QED
  BY <1>15, <1>16, <1>17, Zenon DEF IInv

-----------------------------------------------------------------------------
(* The theorems.                                                           *)

\* The invariant of the heap: every block in use or on the free list lies in one
\* span, none overlaps another, and the footer before a block leads to the block
\* before it or to one that no longer is a block.  init, alloc (with the split
\* of lead and tail and with grow) and dealloc (with both merges) keep it.
THEOREM Invariance == Spec => []IInv
<1>1. IInv /\ [Next]_vars => IInv'
  <2> SUFFICES ASSUME IInv, [Next]_vars PROVE IInv'
    OBVIOUS
  <2>1. CASE \E l \in Layouts : Alloc(l[1], l[2])
    BY <2>1, AllocInv
  <2>2. CASE \E a \in live : Dealloc(a)
    BY <2>2, DeallocInv
  <2>3. CASE UNCHANGED vars
    BY <2>3 DEF vars, IInv, LiveBlocks, Served
  <2>4. QED
    BY <2>1, <2>2, <2>3 DEF Next
<1>2. QED
  BY InitHeap, <1>1, PTL DEF Spec

\* The block of an allocation, and where its payload lies in it.
LEMMA LiveBlock ==
  ASSUME IInv, NEW a \in live
  PROVE  \E b \in Nat, m \in Nat :
           /\ b = a.ptr - HEADER_SIZE /\ b \in Active(heap, LiveBlocks) /\ m = SizeOf(heap)[b]
           /\ a.ptr \in Nat /\ a.size \in Nat /\ a.ptr = b + HEADER_SIZE
           /\ (a.ptr + a.size) + FOOTER_SIZE <= b + m
<1>1. /\ HeapOK(heap, LiveBlocks, spans) /\ live \subseteq Allocation /\ Served
  BY Zenon DEF IInv
<1>2. PICK b : b = a.ptr - HEADER_SIZE
  OBVIOUS
<1>3. b \in LiveBlocks /\ b \in Active(heap, LiveBlocks)
  BY <1>2, LiveIs, Zenon DEF Active
<1>4. b \in Addr /\ heap \in HeapType
  BY <1>1, <1>3, HeapIs, Zenon
<1>5. b \in Nat
  BY <1>4, AddrNat, Zenon
<1>6. PICK m \in Nat : m = SizeOf(heap)[b] /\ m = Size(heap, b)
  BY <1>4, SizesAre, Zenon
<1>7. a.ptr \in Nat /\ a.size \in Nat
  BY <1>1 DEF Allocation
<1>8. a.size + HEADER_SIZE + FOOTER_SIZE <= m
  BY <1>1, <1>2, <1>6, Zenon DEF Served
<1>9. a.ptr = b + HEADER_SIZE /\ (a.ptr + a.size) + FOOTER_SIZE <= b + m
  BY <1>2, <1>5, <1>7, <1>8, Sizes
<1>10. QED
  BY <1>2, <1>3, <1>5, <1>6, <1>7, <1>9, Zenon

\* Of the type of the heap only the place of the allocations needs the invariant
\* of the blocks.
LEMMA TypeHolds == IInv => TypeOK
<1> SUFFICES ASSUME IInv PROVE TypeOK
  OBVIOUS
<1>1. /\ SpansOK(spans) /\ HeapOK(heap, LiveBlocks, spans) /\ oom \in BOOLEAN
  BY Zenon DEF IInv
<1>2. /\ heap \in HeapType /\ Range(heap.regions) \subseteq spans
      /\ Len(heap.regions) <= MAX_REGIONS /\ SizeOf(heap) \in [Addr -> Nat]
      /\ Geometry(Active(heap, LiveBlocks), SizeOf(heap), heap.foot, spans)
  BY <1>1, HeapIs, Zenon
<1>3. ASSUME NEW a \in live PROVE a.ptr \in Addr
  <2>1. PICK b \in Nat, m \in Nat :
           /\ b = a.ptr - HEADER_SIZE /\ b \in Active(heap, LiveBlocks) /\ m = SizeOf(heap)[b]
           /\ a.ptr \in Nat /\ a.size \in Nat /\ a.ptr = b + HEADER_SIZE
           /\ (a.ptr + a.size) + FOOTER_SIZE <= b + m
    BY LiveBlock
  <2>2. Inside(b, m, spans)
    <3>1. Inside(b, SizeOf(heap)[b], spans)
      BY <1>2, <2>1, BlockIs, Zenon
    <3>2. QED
      BY <2>1, <3>1, Zenon
  <2>3. b \in Int /\ a.ptr \in Int /\ b <= a.ptr /\ a.ptr < b + m
    BY <2>1, Sizes
  <2>4. QED
    BY <1>1, <2>2, <2>3, BlockBytes, Zenon
<1>4. /\ heap.hdr \in [Addr -> [size : Nat, free : BOOLEAN]] /\ heap.foot \in [Addr -> Nat]
      /\ heap.list \in Seq(Addr)
  BY <1>2 DEF HeapType, Header
<1>5. QED
  BY <1>1, <1>2, <1>3, <1>4, Zenon DEF TypeOK

LEMMA OverlapHolds == IInv => NoOverlap
<1> SUFFICES ASSUME IInv PROVE NoOverlap
  OBVIOUS
<1> DEFINE A == LiveBlocks \cup ListBlocks
           z == SizeOf(heap)
<1>1. /\ SpansOK(spans) /\ HeapOK(heap, LiveBlocks, spans)
      /\ \A a, c \in live : a.ptr = c.ptr => a = c
  BY Zenon DEF IInv
<1>2. A = Active(heap, LiveBlocks)
  BY Zenon DEF ListBlocks, Active
<1>3. /\ heap \in HeapType /\ IsInjective(heap.list) /\ LiveBlocks \cap ListBlocks = {}
      /\ z \in [Addr -> Nat] /\ Geometry(A, z, heap.foot, spans)
  <2>1. /\ heap \in HeapType /\ IsInjective(heap.list) /\ LiveBlocks \cap Range(heap.list) = {}
        /\ z \in [Addr -> Nat] /\ Geometry(Active(heap, LiveBlocks), z, heap.foot, spans)
    BY <1>1, HeapIs, Zenon
  <2>2. LiveBlocks \cap ListBlocks = {}
    BY <2>1, Zenon DEF ListBlocks
  <2> HIDE DEF A
  <2>3. Geometry(A, z, heap.foot, spans)
    BY <1>2, <2>1, Zenon
  <2>4. QED
    BY <2>1, <2>2, <2>3, Zenon
<1> HIDE DEF A, z
<1>4. ASSUME NEW b \in A
      PROVE  /\ b \in Nat /\ Size(heap, b) = z[b] /\ z[b] \in Nat /\ z[b] > 0
             /\ Inside(b, z[b], spans)
  <2>1. b \in Addr /\ b \in Nat /\ z[b] \in Nat /\ z[b] > 0 /\ Inside(b, z[b], spans)
    BY <1>3, BlockIs
  <2>2. Size(heap, b) = z[b]
    BY <1>3, <2>1, SizesAre, Zenon DEF z
  <2>3. QED
    BY <2>1, <2>2, Zenon
<1>5. ASSUME NEW b \in A
      PROVE  \E r \in Within(spans, b) : b + Size(heap, b) <= r.start + r.len
  <2>1. PICK m \in Nat : m = Size(heap, b) /\ m > 0 /\ Inside(b, m, spans)
    BY <1>4, Zenon
  <2>2. PICK r \in spans : r.start <= b /\ b + m <= r.start + r.len
    BY <2>1, Zenon DEF Inside
  <2>3. b \in Nat /\ r.start \in Nat /\ r.len \in Nat
    BY <1>1, <1>4 DEF SpansOK, Region
  <2>4. b >= r.start /\ b < r.start + r.len
    BY <2>1, <2>2, <2>3
  <2>5. QED
    BY <2>1, <2>2, <2>4, Zenon DEF Within
<1>6. ASSUME NEW b \in A, NEW c \in A \ {b} PROVE Extent(b) \cap Extent(c) = {}
  <2>1. PICK m \in Nat : m = Size(heap, b) /\ m = z[b]
    BY <1>4, Zenon
  <2>2. PICK k \in Nat : k = Size(heap, c) /\ k = z[c]
    BY <1>4, Zenon
  <2>3. b \in Nat /\ c \in Nat /\ b # c
    BY <1>4
  <2>4. b < c => b + m <= c
    BY <1>3, <2>1, BlocksApart, Zenon
  <2>5. c < b => c + k <= b
    BY <1>3, <2>2, BlocksApart, Zenon
  <2>6. Extent(b) = b .. (b + m - 1) /\ Extent(c) = c .. (c + k - 1)
    BY <2>1, <2>2, Zenon DEF Extent
  <2>7. (b .. (b + m - 1)) \cap (c .. (c + k - 1)) = {}
    BY <2>3, <2>4, <2>5
  <2>8. QED
    BY <2>6, <2>7, Zenon
<1>7. QED
  BY <1>1, <1>3, <1>5, <1>6, Zenon DEF NoOverlap, A

\* The blocks alloc hands out overlap no other block, in use or free, lie in one
\* span each, and hold the payload with the alignment that was asked for.
THEOREM BlocksAreSound == Spec => []BlocksSound
<1>1. IInv => BlocksSound
  BY TypeHolds, OverlapHolds DEF IInv, BlocksSound
<1>2. QED
  BY <1>1, Invariance, PTL

\* A payload has no byte in common with what dealloc reads beside block b.
LEMMA ReadsMiss ==
  ASSUME IInv, NEW a \in live, NEW c \in live, NEW x \in Payload(c), NEW b,
         b = a.ptr - HEADER_SIZE
  PROVE  /\ x # b - FOOTER_SIZE
         /\ \A r \in region_bounds(heap, b) : b > r.start => x # PrevAddr(heap, b)
         /\ x # b + Size(heap, b)
<1> DEFINE A == Active(heap, LiveBlocks)
           z == SizeOf(heap)
<1>1. SpansOK(spans) /\ HeapOK(heap, LiveBlocks, spans)
  BY Zenon DEF IInv
<1>2. /\ heap \in HeapType /\ Range(heap.regions) \subseteq spans
      /\ z \in [Addr -> Nat] /\ Geometry(A, z, heap.foot, spans)
  BY <1>1, HeapIs, Zenon
<1>3. PICK m \in Nat : b \in Nat /\ b \in A /\ m = z[b] /\ m > 0
  <2>1. b \in Nat /\ b \in A
    BY LiveBlock
  <2>2. z[b] \in Nat /\ z[b] > 0
    BY <1>2, <2>1, BlockIs, Zenon
  <2>3. QED
    BY <2>1, <2>2, Zenon
<1>4. PICK d \in Nat, k \in Nat :
           /\ d = c.ptr - HEADER_SIZE /\ d \in A /\ k = z[d]
           /\ c.ptr \in Nat /\ c.size \in Nat /\ c.ptr = d + HEADER_SIZE
           /\ (c.ptr + c.size) + FOOTER_SIZE <= d + k
  BY LiveBlock
<1>5. x \in Int /\ d + HEADER_SIZE <= x /\ x + FOOTER_SIZE < d + k
  BY <1>4, Sizes DEF Payload
<1> HIDE DEF A, z
<1>6. d < b => d + k <= b
  BY <1>2, <1>3, <1>4, BlocksApart, Zenon
<1>7. b < d => b + m <= d
  BY <1>2, <1>3, <1>4, BlocksApart, Zenon
<1>8. d = b => k = m
  BY <1>3, <1>4, Zenon
<1>9. x # b - FOOTER_SIZE
  BY <1>3, <1>5, <1>6, Sizes
<1>10. x # b + m
  BY <1>3, <1>4, <1>5, <1>6, <1>7, <1>8, Sizes
<1>11. m = Size(heap, b)
  <2>1. b \in Addr
    BY <1>2, <1>3, BlockIs, Zenon
  <2>2. QED
    BY <1>2, <1>3, <2>1, SizesAre, Zenon DEF z
<1>12. ASSUME NEW r \in region_bounds(heap, b), b > r.start
       PROVE  x # PrevAddr(heap, b)
  <2>1. r \in spans /\ b < r.start + r.len
    BY <1>2 DEF region_bounds, Within
  <2>2. r.start \in Nat /\ r.len \in Nat
    BY <1>1, <2>1 DEF SpansOK, Region
  <2>3. r.start < b
    BY <1>3, <1>12, <2>2
  <2>4. Tagged(A, z, heap.foot, spans, b)
    BY <1>2, <1>3, BlockIs
  <2>5. Leads(A, z, PrevAddr(heap, b), b)
    <3>1. Before(heap.foot, b) = PrevAddr(heap, b)
      BY Zenon DEF Before, PrevAddr
    <3>2. QED
      BY <2>1, <2>3, <2>4, <3>1, Zenon DEF Tagged
  <2>6. SUFFICES ASSUME x = PrevAddr(heap, b) PROVE FALSE
    OBVIOUS
  <2>7. d < x => d + k <= x
    BY <1>4, <2>5, <2>6, Zenon DEF Leads
  <2>8. QED
    BY <1>4, <1>5, <2>7, Sizes
<1>13. QED
  BY <1>9, <1>10, <1>11, <1>12, Zenon

\* dealloc judges the blocks beside the one it frees by headers and footers that
\* no payload overlaps, although merged blocks leave theirs behind, and by free
\* flags that are set on blocks of the list only.
THEOREM TagsAreSound == Spec => []TagsSound
<1>1. IInv => FlagsSound
  <2> SUFFICES ASSUME IInv PROVE FlagsSound
    OBVIOUS
  <2>1. HeapOK(heap, LiveBlocks, spans)
    BY Zenon DEF IInv
  <2>2. QED
    BY <2>1, HeapIs, Zenon DEF FlagsSound, ListBlocks
<1>2. IInv => NeighboursSound
  <2> SUFFICES ASSUME IInv PROVE NeighboursSound
    OBVIOUS
  <2>1. ASSUME NEW a \in live, NEW c \in live, NEW x \in Payload(c), NEW b,
               b = a.ptr - HEADER_SIZE
        PROVE  /\ x # b - FOOTER_SIZE
               /\ \A r \in region_bounds(heap, b) : b > r.start => x # PrevAddr(heap, b)
               /\ x # b + Size(heap, b)
    BY <2>1, ReadsMiss
  <2>2. QED
    BY <2>1 DEF NeighboursSound
<1>3. IInv => TagsSound
  BY <1>1, <1>2, Zenon DEF TagsSound
<1>4. QED
  BY <1>3, Invariance, PTL

=============================================================================
