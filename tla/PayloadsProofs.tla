--------------------------- MODULE PayloadsProofs ---------------------------
(***************************************************************************)
(* Proofs about Payloads: for memories and filesystems of any size, a      *)
(* reading that partly fails never shows less usage than what could be     *)
(* read; for any number of ticks, the rounded shares of cpu are those of   *)
(* one whole; and on every path of every collect(), what is published fits *)
(* the field tables that /info lists and the alert engine reads.           *)
(***************************************************************************)
EXTENDS Payloads, Integers, TLAPS

-----------------------------------------------------------------------------
(* Arithmetic *)

LEMMA SaturatingSubFacts ==
    ASSUME NEW a \in Nat, NEW b \in Nat
    PROVE  /\ SaturatingSub(a, b) \in Nat
           /\ SaturatingSub(a, b) <= a
           /\ b <= a => SaturatingSub(a, b) = a - b
BY DEF SaturatingSub

LEMMA ProductOrder ==
    ASSUME NEW a \in Nat, NEW b \in Nat, NEW c \in Nat, a >= b
    PROVE  a * c >= b * c
<1>1. PICK d \in Nat : a = b + d
  <2>1. a - b \in Nat /\ a = b + (a - b)
    OBVIOUS
  <2> QED
    BY <2>1
<1>2. a * c = b * c + d * c
  BY <1>1
<1>3. d * c \in Nat /\ b * c \in Nat
  OBVIOUS
<1> QED
  BY <1>2, <1>3

\* A share of all blocks that counts the reserved ones as used is at least the
\* share of those that are not reserved.
LEMMA ReservedCountAsUsed ==
    ASSUME NEW blocks \in Nat, NEW bfree \in Nat, NEW bavail \in Nat,
           bavail <= bfree, bfree <= blocks
    PROVE  (blocks - bavail) * (blocks - bfree + bavail)
               >= (blocks - bfree) * blocks
<1>1. PICK u \in Nat : blocks = u + bfree
  <2>1. blocks - bfree \in Nat /\ blocks = (blocks - bfree) + bfree
    OBVIOUS
  <2> QED
    BY <2>1
<1>2. PICK r \in Nat : bfree = r + bavail
  <2>1. bfree - bavail \in Nat /\ bfree = (bfree - bavail) + bavail
    OBVIOUS
  <2> QED
    BY <2>1
<1>3. /\ blocks - bavail = u + r
      /\ blocks - bfree = u
      /\ blocks = u + r + bavail
  BY <1>1, <1>2
<1>4. (u + r) * (u + bavail) = u * (u + r + bavail) + r * bavail
  OBVIOUS
<1>5. r * bavail \in Nat /\ u * (u + r + bavail) \in Nat
  OBVIOUS
<1>6. (u + r) * (u + bavail) >= u * (u + r + bavail)
  BY <1>4, <1>5
<1> QED
  BY <1>3, <1>6

\* What division does.
LEMMA Division ==
    ASSUME NEW a \in Nat, NEW b \in Nat, b > 0
    PROVE  /\ a \div b \in Nat
           /\ (a \div b) * b <= a
           /\ a < (a \div b) * b + b
<1> DEFINE q == a \div b
           r == a % b
<1>1. q \in Int /\ r \in 0..(b - 1) /\ a = b * q + r
  BY SMT
<1>2. b * q <= a /\ a < b * q + b
  BY <1>1, SMT
<1>3. b * q = q * b
  BY <1>1, SMT
<1>4. q >= 0
  <2>1. ASSUME q < 0 PROVE FALSE
    <3>1. b * q <= -b
      BY <2>1, <1>1, SMT
    <3> QED
      BY <3>1, <1>2, SMT
  <2> QED
    BY <2>1, <1>1, SMT
<1> HIDE DEF q
<1> QED
  BY <1>1, <1>2, <1>3, <1>4, SMT

-----------------------------------------------------------------------------
(* Rounding to tenths of a percent *)

\* The integers next to a percentage, both for a tie and one otherwise.
LEMMA TenthsBounds ==
    ASSUME NEW part \in Nat, NEW whole \in Nat, whole > 0
    PROVE  LET U == TenthsUp(part, whole)
               D == TenthsDown(part, whole)
           IN  /\ U \in Nat /\ D \in Nat
               /\ 2 * (U * whole) <= 2000 * part + whole
               /\ 2000 * part < 2 * (U * whole) + whole
               /\ 2 * (D * whole) < 2000 * part + whole
               /\ 2000 * part <= 2 * (D * whole) + whole
<1> DEFINE a == 2000 * part + whole
           b == 2 * whole
           U == TenthsUp(part, whole)
           D == TenthsDown(part, whole)
<1>1. a \in Nat /\ a - 1 \in Nat /\ b \in Nat /\ b > 0
  BY SMT
<1>2. U = a \div b /\ D = (a - 1) \div b
  BY DEF TenthsUp, TenthsDown
<1> HIDE DEF U, D, a, b
<1>3. U \in Nat /\ U * b <= a /\ a < U * b + b
  BY <1>1, <1>2, Division
<1>4. D \in Nat /\ D * b <= a - 1 /\ a - 1 < D * b + b
  BY <1>1, <1>2, Division
<1>5. U * b = 2 * (U * whole) /\ D * b = 2 * (D * whole)
  BY <1>3, <1>4, SMT DEF b
<1>6. U * whole \in Nat /\ D * whole \in Nat
  BY <1>3, <1>4, SMT
<1>7. /\ 2 * (U * whole) <= a /\ a < 2 * (U * whole) + 2 * whole
      /\ 2 * (D * whole) <= a - 1 /\ a - 1 < 2 * (D * whole) + 2 * whole
  BY <1>3, <1>4, <1>5 DEF b
<1> DEFINE u == U * whole
           d == D * whole
<1> HIDE DEF u, d
<1>8. /\ u \in Nat /\ d \in Nat
      /\ 2 * u <= a /\ a < 2 * u + 2 * whole
      /\ 2 * d <= a - 1 /\ a - 1 < 2 * d + 2 * whole
  BY <1>6, <1>7 DEF u, d
<1>9. /\ 2 * u <= 2000 * part + whole /\ 2000 * part < 2 * u + whole
      /\ 2 * d < 2000 * part + whole /\ 2000 * part <= 2 * d + whole
  BY <1>8, SMT DEF a
<1> QED
  BY <1>3, <1>4, <1>9 DEF U, D, u, d

\* A product is below another if a factor is, and by a whole factor.
LEMMA ProductAbove ==
    ASSUME NEW a \in Nat, NEW b \in Nat, NEW c \in Nat, a < b
    PROVE  a * c + c <= b * c
<1>1. b * c >= (a + 1) * c
  BY ProductOrder
<1>2. (a + 1) * c = a * c + c
  OBVIOUS
<1>3. a * c \in Nat /\ b * c \in Nat
  OBVIOUS
<1> QED
  BY <1>1, <1>2, <1>3

\* A tie leaves a choice between two neighbours.
LEMMA TenthsChoice ==
    ASSUME NEW part \in Nat, NEW whole \in Nat, whole > 0
    PROVE  LET U == TenthsUp(part, whole)
               D == TenthsDown(part, whole)
           IN  /\ U \in Nat /\ D \in Nat /\ D <= U /\ U <= D + 1
               /\ Tenths(part, whole) = IF D \in TiesUp THEN U ELSE D
<1> DEFINE U == TenthsUp(part, whole)
           D == TenthsDown(part, whole)
           u == U * whole
           d == D * whole
<1>1. U \in Nat /\ D \in Nat
  BY TenthsBounds
<1>2. /\ 2 * u <= 2000 * part + whole /\ 2000 * part < 2 * u + whole
      /\ 2 * d < 2000 * part + whole /\ 2000 * part <= 2 * d + whole
  BY TenthsBounds
<1>3. Tenths(part, whole) = IF D \in TiesUp THEN U ELSE D
  BY DEF Tenths
<1> HIDE DEF U, D
<1>4. u \in Nat /\ d \in Nat
  BY <1>1
<1>5. U < D => u + whole <= d
  BY <1>1, ProductAbove
<1>6. D + 1 < U => d + 2 * whole <= u
  <2> SUFFICES ASSUME D + 1 < U PROVE d + 2 * whole <= u
    OBVIOUS
  <2>1. (D + 1) * whole + whole <= u
    BY <1>1, ProductAbove
  <2>2. (D + 1) * whole = d + whole
    BY <1>1
  <2> QED
    BY <1>4, <2>1, <2>2
<1> HIDE DEF u, d
<1>7. ~(U < D)
  BY <1>2, <1>4, <1>5, SMT
<1>8. ~(D + 1 < U)
  BY <1>2, <1>4, <1>6, SMT
<1> QED
  BY <1>1, <1>3, <1>7, <1>8 DEF U, D

\* A percentage is off by half a tenth at most.
LEMMA TenthsNear ==
    ASSUME NEW part \in Nat, NEW whole \in Nat, whole > 0
    PROVE  LET T == Tenths(part, whole)
           IN  /\ T \in Nat
               /\ 2 * (T * whole) <= 2000 * part + whole
               /\ 2000 * part <= 2 * (T * whole) + whole
<1> DEFINE U == TenthsUp(part, whole)
           D == TenthsDown(part, whole)
           T == Tenths(part, whole)
<1>1. /\ U \in Nat /\ D \in Nat
      /\ 2 * (U * whole) <= 2000 * part + whole
      /\ 2000 * part < 2 * (U * whole) + whole
      /\ 2 * (D * whole) < 2000 * part + whole
      /\ 2000 * part <= 2 * (D * whole) + whole
  BY TenthsBounds
<1>2. T = U \/ T = D
  BY TenthsChoice
<1> HIDE DEF U, D, T
<1>3. U * whole \in Nat /\ D * whole \in Nat
  BY <1>1
<1>4. /\ 2 * (U * whole) <= 2000 * part + whole
      /\ 2000 * part <= 2 * (U * whole) + whole
  BY <1>1, <1>3
<1>5. /\ 2 * (D * whole) <= 2000 * part + whole
      /\ 2000 * part <= 2 * (D * whole) + whole
  BY <1>1, <1>3
<1>6. CASE T = U
  BY <1>1, <1>4, <1>6 DEF T
<1>7. CASE T = D
  BY <1>1, <1>5, <1>7 DEF T
<1> QED
  BY <1>2, <1>6, <1>7

\* Rounding keeps the order of two percentages, of whatever wholes.  (u and d
\* are the integers next to the one, v and e those next to the other.)
LEMMA NeighboursKeepOrder ==
    ASSUME NEW p \in Nat, NEW w \in Nat, NEW q \in Nat, NEW x \in Nat,
           w > 0, x > 0, p * x >= q * w
    PROVE  /\ TenthsUp(q, x) <= TenthsUp(p, w)
           /\ TenthsDown(q, x) <= TenthsDown(p, w)
<1> DEFINE u == TenthsUp(p, w)
           v == TenthsUp(q, x)
           d == TenthsDown(p, w)
           e == TenthsDown(q, x)
<1>1. /\ u \in Nat /\ d \in Nat
      /\ 2000 * p < 2 * (u * w) + w
      /\ 2000 * p <= 2 * (d * w) + w
  BY TenthsBounds
<1>2. /\ v \in Nat /\ e \in Nat
      /\ 2 * (v * x) <= 2000 * q + x
      /\ 2 * (e * x) < 2000 * q + x
  BY TenthsBounds
<1> HIDE DEF u, v, d, e
<1>3. ASSUME NEW m \in Nat, NEW n \in Nat, m < n
      PROVE  (m * w) * x + w * x <= (n * x) * w
  <2>1. m * (w * x) + w * x <= n * (w * x)
    BY <1>3, ProductAbove
  <2>2. (m * w) * x = m * (w * x) /\ (n * x) * w = n * (w * x)
    BY SMT
  <2> QED
    BY <2>1, <2>2
<1>4. w * x \in Nat /\ x * w = w * x
  BY SMT
<1>5. ASSUME u < v PROVE FALSE
  <2>1. (u * w) * x + w * x <= (v * x) * w
    BY <1>1, <1>2, <1>3, <1>5
  <2> DEFINE a == u * w
             b == v * x
  <2>2. a \in Nat /\ b \in Nat /\ a * x + w * x <= b * w
    BY <1>1, <1>2, <2>1
  <2>3. 2000 * p < 2 * a + w /\ 2 * b <= 2000 * q + x
    BY <1>1, <1>2
  <2> HIDE DEF a, b
  <2>4. (2000 * p) * x + x <= (2 * a + w) * x
    BY <2>2, <2>3, ProductAbove
  <2>5. (2 * b) * w <= (2000 * q + x) * w
    BY <2>2, <2>3, ProductOrder
  <2>6. /\ (2000 * p) * x = 2000 * (p * x) /\ (2 * a + w) * x = 2 * (a * x) + w * x
        /\ (2 * b) * w = 2 * (b * w)
        /\ (2000 * q + x) * w = 2000 * (q * w) + w * x
    BY <2>2, SMT
  <2>7. /\ p * x \in Nat /\ q * w \in Nat /\ a * x \in Nat /\ b * w \in Nat
    BY <2>2, SMT
  <2>8. /\ 2000 * (p * x) + x <= 2 * (a * x) + w * x
        /\ 2 * (b * w) <= 2000 * (q * w) + w * x
    BY <2>4, <2>5, <2>6
  <2> QED
    BY <1>4, <2>2, <2>7, <2>8, SMT
<1>6. ASSUME d < e PROVE FALSE
  <2>1. (d * w) * x + w * x <= (e * x) * w
    BY <1>1, <1>2, <1>3, <1>6
  <2> DEFINE a == d * w
             b == e * x
  <2>2. a \in Nat /\ b \in Nat /\ a * x + w * x <= b * w
    BY <1>1, <1>2, <2>1
  <2>3. 2000 * p <= 2 * a + w /\ 2 * b < 2000 * q + x
    BY <1>1, <1>2
  <2> HIDE DEF a, b
  <2>4. (2000 * p) * x <= (2 * a + w) * x
    BY <2>2, <2>3, ProductOrder
  <2>5. (2 * b) * w + w <= (2000 * q + x) * w
    BY <2>2, <2>3, ProductAbove
  <2>6. /\ (2000 * p) * x = 2000 * (p * x) /\ (2 * a + w) * x = 2 * (a * x) + w * x
        /\ (2 * b) * w = 2 * (b * w)
        /\ (2000 * q + x) * w = 2000 * (q * w) + w * x
    BY <2>2, SMT
  <2>7. /\ p * x \in Nat /\ q * w \in Nat /\ a * x \in Nat /\ b * w \in Nat
    BY <2>2, SMT
  <2>8. /\ 2000 * (p * x) <= 2 * (a * x) + w * x
        /\ 2 * (b * w) + w <= 2000 * (q * w) + w * x
    BY <2>4, <2>5, <2>6
  <2> QED
    BY <1>4, <2>2, <2>7, <2>8, SMT
<1> QED
  BY <1>1, <1>2, <1>5, <1>6 DEF u, v, d, e

LEMMA TenthsKeepOrder ==
    ASSUME NEW p \in Nat, NEW w \in Nat, NEW q \in Nat, NEW x \in Nat,
           w > 0, x > 0, p * x >= q * w
    PROVE  Tenths(q, x) <= Tenths(p, w)
<1> DEFINE u == TenthsUp(p, w)
           v == TenthsUp(q, x)
           d == TenthsDown(p, w)
           e == TenthsDown(q, x)
<1>1. /\ u \in Nat /\ d \in Nat /\ d <= u /\ u <= d + 1
      /\ Tenths(p, w) = IF d \in TiesUp THEN u ELSE d
  BY TenthsChoice
<1>2. /\ v \in Nat /\ e \in Nat /\ e <= v /\ v <= e + 1
      /\ Tenths(q, x) = IF e \in TiesUp THEN v ELSE e
  BY TenthsChoice
<1>3. v <= u /\ e <= d
  BY NeighboursKeepOrder
<1> HIDE DEF u, v, d, e
<1>4. CASE e = d
  BY <1>1, <1>2, <1>3, <1>4
<1>5. CASE e < d
  <2>1. Tenths(q, x) \in {v, e} /\ Tenths(p, w) \in {u, d}
    BY <1>1, <1>2
  <2>2. v <= d
    BY <1>1, <1>2, <1>5
  <2> QED
    BY <1>1, <1>2, <2>1, <2>2
<1> QED
  BY <1>1, <1>2, <1>3, <1>4, <1>5

-----------------------------------------------------------------------------
(* Shares *)

\* A share of a part is 100 percent at most.
LEMMA ShareFacts ==
    ASSUME NEW part \in Nat, NEW whole \in Nat
    PROVE  /\ Share(part, whole).tenths \in Nat
           /\ part <= whole => Share(part, whole).tenths <= 1000
           /\ whole = 0 => Share(part, whole).tenths = 0
<1> DEFINE T == Tenths(part, whole)
<1>1. Share(part, whole).tenths = IF whole = 0 THEN 0 ELSE T
  BY DEF Share
<1>2. CASE whole = 0
  BY <1>1, <1>2
<1>3. CASE whole > 0
  <2>1. T \in Nat /\ 2 * (T * whole) <= 2000 * part + whole
    BY <1>3, TenthsNear
  <2> HIDE DEF T
  <2>2. ASSUME part <= whole, 1000 < T PROVE FALSE
    <3>1. 1000 * whole + whole <= T * whole
      BY <2>1, <2>2, ProductAbove
    <3>2. T * whole \in Nat
      BY <2>1
    <3> DEFINE t == T * whole
    <3>3. t \in Nat /\ 1000 * whole + whole <= t /\ 2 * t <= 2000 * part + whole
      BY <2>1, <3>1, <3>2
    <3> HIDE DEF t
    <3> QED
      BY <1>3, <2>2, <3>3, SMT
  <2> QED
    BY <1>1, <1>3, <2>1, <2>2
<1> QED
  BY <1>2, <1>3

\* Of one whole, the larger part has the larger share.
LEMMA LargerShare ==
    ASSUME NEW a \in Nat, NEW b \in Nat, NEW whole \in Nat, a >= b
    PROVE  Share(b, whole).tenths <= Share(a, whole).tenths
<1>1. CASE whole = 0
  BY <1>1 DEF Share
<1>2. CASE whole > 0
  <2>1. a * whole >= b * whole
    BY ProductOrder
  <2>2. Tenths(b, whole) <= Tenths(a, whole)
    BY <1>2, <2>1, TenthsKeepOrder
  <2> QED
    BY <1>2, <2>2 DEF Share
<1> QED
  BY <1>1, <1>2

-----------------------------------------------------------------------------
(* Records *)

LEMMA BothFacts ==
    ASSUME NEW a, NEW b
    PROVE  /\ \A f \in DOMAIN a : Both(a, b)[f] = a[f]
           /\ \A f \in DOMAIN b \ DOMAIN a : Both(a, b)[f] = b[f]
BY DEF Both

\* What an item that is judged shows.
Shows(item, total, used, whole) ==
    /\ item.percent = Share(used, whole)
    /\ (IF source.plugin = "fs" THEN item.size ELSE item.total) = Amount(total)

LEMMA UsageShown ==
    ASSUME NEW total \in Nat, NEW left \in Nat, NEW rest, source.plugin # "fs"
    PROVE  Shows(Both(Usage(total, left), rest), total,
                 SaturatingSub(total, left), total)
<1> DEFINE u == Usage(total, left)
<1>1. /\ DOMAIN u = {"total", "used", "percent"}
      /\ u.total = Amount(total)
      /\ u.percent = Share(SaturatingSub(total, left), total)
  BY DEF Usage
<1>2. Both(u, rest).total = u.total /\ Both(u, rest).percent = u.percent
  BY <1>1, BothFacts
<1> QED
  BY <1>1, <1>2 DEF Shows

-----------------------------------------------------------------------------
(* What the system says *)

FsReading ==
    IF source.statvfs THEN {source.blocks, source.bfree, source.bavail} \subseteq Nat
    ELSE {source.size, source.left, source.bfree} \subseteq Nat

SourceOK ==
    /\ source.plugin = "mem" => source \in MemSources
    /\ source.plugin = "memswap" => source \in SwapSources
    /\ source.plugin = "fs" => FsReading

LEMMA InitSourceOK == ASSUME Sizes \subseteq Nat, CollectInit PROVE SourceOK
<1>1. CASE source \in MemSources
  BY <1>1 DEF MemSources, SourceOK
<1>2. CASE source \in SwapSources
  BY <1>2 DEF SwapSources, SourceOK
<1>3. CASE source \in CpuSources
  BY <1>3 DEF CpuSources, SourceOK
<1>4. CASE source \in [plugin: {"load", "uptime", "system"}]
  BY <1>4 DEF SourceOK
<1>5. CASE source \in KeyedSources
  <2>1. PICK s \in [plugin: {"network", "diskio"}, linkKnown: BOOLEAN],
             f \in Filters : source = Both(s, f)
    BY <1>5 DEF KeyedSources
  <2>2. "plugin" \in DOMAIN s /\ s.plugin \in {"network", "diskio"}
    OBVIOUS
  <2>3. source.plugin \in {"network", "diskio"}
    BY <2>1, <2>2, BothFacts
  <2> QED
    BY <2>3 DEF SourceOK
<1>6. CASE source \in FsSources
  <2>1. PICK s \in FsRead \cup FsHeld, f \in Filters : source = Both(s, f)
    BY <1>6 DEF FsSources
  <2>2. \A g \in DOMAIN s : source[g] = s[g]
    BY <2>1, BothFacts
  <2>3. CASE s \in FsRead
    <3>1. /\ {"plugin", "statvfs", "blocks", "bfree", "bavail"} \subseteq DOMAIN s
          /\ s.plugin = "fs" /\ s.statvfs = TRUE
          /\ {s.blocks, s.bfree, s.bavail} \subseteq Nat
      BY <2>3 DEF FsRead
    <3>2. /\ source.plugin = "fs" /\ source.statvfs = TRUE
          /\ {source.blocks, source.bfree, source.bavail} \subseteq Nat
      BY <2>2, <3>1
    <3> QED
      BY <3>2 DEF SourceOK, FsReading
  <2>4. CASE s \in FsHeld
    <3>1. /\ {"plugin", "statvfs", "size", "left", "bfree"} \subseteq DOMAIN s
          /\ s.plugin = "fs" /\ s.statvfs = FALSE
          /\ {s.size, s.left, s.bfree} \subseteq Nat
      BY <2>4 DEF FsHeld
    <3>2. /\ source.plugin = "fs" /\ source.statvfs = FALSE
          /\ {source.size, source.left, source.bfree} \subseteq Nat
      BY <2>2, <3>1
    <3> QED
      BY <3>2 DEF SourceOK, FsReading
  <2> QED
    BY <2>1, <2>3, <2>4
<1> QED
  BY <1>1, <1>2, <1>3, <1>4, <1>5, <1>6 DEF CollectInit

-----------------------------------------------------------------------------
(* The items *)

\* What UsageAtLeastAsRead says of one item.
Honest(item) ==
    LET size == IF source.plugin = "fs" THEN item.size ELSE item.total
    IN  /\ item.percent.tenths <= 1000
        /\ size.amount # 0 /\ LeftIsFree =>
              item.percent.tenths >= LeastUsage.tenths

\* A share of the same whole that is no lower than the least there is.
LEMMA SameWholeIsHonest ==
    ASSUME NEW item, NEW total \in Nat, NEW used \in Nat, NEW least \in Nat,
           used <= total, Shows(item, total, used, total),
           total # 0 => least <= used /\ LeastUsage = Share(least, total)
    PROVE  Honest(item)
<1> DEFINE size == IF source.plugin = "fs" THEN item.size ELSE item.total
<1>1. size = Amount(total) /\ size.amount = total
  BY DEF Shows, Amount
<1>2. item.percent = Share(used, total)
  BY DEF Shows
<1>3. item.percent.tenths <= 1000
  BY <1>2, ShareFacts
<1>4. ASSUME total # 0
      PROVE  item.percent.tenths >= LeastUsage.tenths
  <2>1. Share(least, total).tenths <= Share(used, total).tenths
    BY <1>4, LargerShare
  <2>2. Share(least, total).tenths \in Nat /\ Share(used, total).tenths \in Nat
    BY ShareFacts
  <2> QED
    BY <1>2, <1>4, <2>1, <2>2
<1> QED
  BY <1>1, <1>3, <1>4 DEF Honest

\* What is left is no more than what a line that is there says.
LEMMA MemHonest ==
    ASSUME Sizes \subseteq Nat, SourceOK, source.plugin = "mem"
    PROVE  Honest(MemItem)
<1>1. source \in MemSources
  BY DEF SourceOK
<1>2. source.total \in Nat /\ source.available \in Nat /\ source.free \in Nat
  BY <1>1 DEF MemSources
<1>3. CASE ~source.readable
  <2>1. Shows(MemItem, 0, SaturatingSub(0, 0), 0)
    BY <1>3, UsageShown DEF MemItem
  <2>2. SaturatingSub(0, 0) = 0
    BY DEF SaturatingSub
  <2> QED
    BY <2>1, <2>2, SameWholeIsHonest
<1>4. CASE source.readable
  <2> DEFINE T == Line("MemTotal", source.total)
             A == Available
             M == IF source.available > source.free THEN source.available
                  ELSE source.free
  <2>1. /\ T \in Nat /\ A \in Nat /\ M \in Nat /\ A <= M
        /\ T # 0 => T = source.total
    BY <1>2 DEF Line, Available
  <2>2. Shows(MemItem, T, SaturatingSub(T, A), T)
    BY <1>4, <2>1, UsageShown DEF MemItem
  <2>3. T # 0 => LeastUsage = Share(SaturatingSub(T, M), T)
    BY <2>1 DEF LeastUsage
  <2> HIDE DEF T, A, M
  <2>4. /\ SaturatingSub(T, A) \in Nat /\ SaturatingSub(T, M) \in Nat
        /\ SaturatingSub(T, A) <= T /\ SaturatingSub(T, M) <= SaturatingSub(T, A)
    BY <2>1 DEF SaturatingSub
  <2> QED
    BY <2>1, <2>2, <2>3, <2>4, SameWholeIsHonest
<1> QED
  BY <1>3, <1>4

LEMMA SwapHonest ==
    ASSUME Sizes \subseteq Nat, SourceOK, source.plugin = "memswap"
    PROVE  Honest(MemSwapItem)
<1>1. source \in SwapSources
  BY DEF SourceOK
<1>2. source.total \in Nat /\ source.free \in Nat
  BY <1>1 DEF SwapSources
<1> DEFINE T == IF source.readable THEN Line("SwapTotal", source.total) ELSE 0
           F == IF source.readable THEN Line("SwapFree", source.free) ELSE 0
<1>3. /\ T \in Nat /\ F \in Nat /\ F <= source.free
      /\ T # 0 => T = source.total
  BY <1>2 DEF Line
<1>4. Shows(MemSwapItem, T, SaturatingSub(T, F), T)
  BY <1>3, UsageShown DEF MemSwapItem
<1>5. T # 0 => LeastUsage = Share(SaturatingSub(T, source.free), T)
  BY <1>3 DEF LeastUsage
<1> HIDE DEF T, F
<1>6. /\ SaturatingSub(T, F) \in Nat /\ SaturatingSub(T, F) <= T
      /\ SaturatingSub(T, source.free) \in Nat
      /\ SaturatingSub(T, source.free) <= SaturatingSub(T, F)
  BY <1>2, <1>3 DEF SaturatingSub
<1> QED
  BY <1>3, <1>4, <1>5, <1>6, SameWholeIsHonest

\* The fallback counts the reserved blocks as used in a share of all blocks, so
\* it shows no less than statvfs showed of the same figures.
LEMMA FsHonest ==
    ASSUME SourceOK, source.plugin = "fs"
    PROVE  Honest(FsItem)
<1>1. CASE source.statvfs
  <2> DEFINE U == SaturatingSub(source.blocks, source.bfree)
             V == source.bavail
  <2>1. U \in Nat /\ V \in Nat /\ U + V \in Nat /\ U <= U + V
    BY <1>1 DEF SourceOK, FsReading, SaturatingSub
  <2>2. /\ "percent" \in DOMAIN FsUsage /\ FsUsage.percent = Share(U, U + V)
        /\ FsItem.percent = FsUsage.percent
    BY <1>1, BothFacts DEF FsItem, FsUsage, FsPercent
  <2>3. LeastUsage = Share(U, U + V)
    BY <1>1 DEF LeastUsage
  <2> HIDE DEF U, V
  <2>4. Share(U, U + V).tenths <= 1000 /\ Share(U, U + V).tenths \in Nat
    BY <2>1, ShareFacts
  <2> QED
    BY <2>2, <2>3, <2>4 DEF Honest
<1>2. CASE ~source.statvfs
  <2> DEFINE S == source.size
             L == source.left
             F == source.bfree
             P == Share(SaturatingSub(S, L), S)
  <2>1. S \in Nat /\ L \in Nat /\ F \in Nat
    BY <1>2 DEF SourceOK, FsReading
  <2>2. /\ DOMAIN FsFallback = {"size", "used", "free", "percent"}
        /\ FsFallback.size = Amount(S) /\ FsFallback.percent = P
    BY DEF FsFallback
  <2>3. FsItem.size = Amount(S) /\ FsItem.percent = P
    BY <1>2, <2>2, BothFacts DEF FsItem
  <2>4. LeastUsage = Share(SaturatingSub(S, F), SaturatingSub(S, F) + L)
    BY <1>2 DEF LeastUsage
  <2>5. LeftIsFree => L <= F /\ F <= S
    BY <1>2 DEF LeftIsFree
  <2>6. P.tenths <= 1000 /\ P.tenths \in Nat
    <3> DEFINE u == SaturatingSub(S, L)
    <3>1. u \in Nat /\ u <= S
      BY <2>1, SaturatingSubFacts
    <3> HIDE DEF u
    <3>2. Share(u, S).tenths <= 1000 /\ Share(u, S).tenths \in Nat
      BY <2>1, <3>1, ShareFacts
    <3> QED
      BY <3>2 DEF u
  <2>7. ASSUME L <= F, F <= S, S # 0
        PROVE  P.tenths >= LeastUsage.tenths
    <3> DEFINE u == S - F
               w == S - F + L
    <3>1. /\ SaturatingSub(S, F) = u /\ SaturatingSub(S, L) = S - L
          /\ u \in Nat /\ w \in Nat /\ S - L \in Nat
      BY <2>1, <2>7 DEF SaturatingSub
    <3>2. LeastUsage = Share(u, w) /\ P = Share(S - L, S)
      BY <2>4, <3>1
    <3>3. (S - L) * w >= u * S
      BY <2>1, <2>7, ReservedCountAsUsed
    <3> HIDE DEF u, w, S, L, F, P
    <3>4. CASE w = 0
      BY <2>6, <3>1, <3>2, <3>4, ShareFacts
    <3>5. CASE w > 0
      <4>1. S \in Nat /\ S > 0
        BY <2>1, <2>7
      <4>2. Tenths(u, w) <= Tenths(S - L, S)
        BY <3>1, <3>3, <3>5, <4>1, TenthsKeepOrder
      <4>3. Tenths(u, w) \in Nat
        BY <3>1, <3>5, TenthsNear
      <4>4. Share(u, w).tenths = Tenths(u, w) /\ P.tenths = Tenths(S - L, S)
        BY <3>2, <3>5, <4>1 DEF Share
      <4> QED
        BY <2>6, <3>2, <4>2, <4>3, <4>4
    <3> QED
      BY <3>1, <3>4, <3>5
  <2> QED
    BY <1>2, <2>3, <2>5, <2>6, <2>7 DEF Honest, Amount
<1> QED
  BY <1>1, <1>2

-----------------------------------------------------------------------------

Judged == source.plugin \in {"mem", "memswap", "fs"}

Inv == SourceOK /\ (Judged => \A item \in payload.items : Honest(item))

LEMMA InitInv == ASSUME Sizes \subseteq Nat, CollectInit PROVE Inv
<1>1. payload.items = {}
  BY DEF CollectInit, NoPayload
<1> QED
  BY <1>1, InitSourceOK DEF Inv

LEMMA StepInv ==
    ASSUME Sizes \subseteq Nat, Inv, [CollectNext]_<<source, payload>>
    PROVE  Inv'
<1>1. source' = source
  BY DEF CollectNext
<1>2. SourceOK' /\ Judged' = Judged
  BY <1>1 DEF Inv, SourceOK, FsReading, Judged
<1>3. \A item : Honest(item)' = Honest(item)
  BY <1>1 DEF Honest, LeastUsage, LeftIsFree
<1>4. Judged => \A item \in payload'.items : Honest(item)
  <2> SUFFICES ASSUME Judged, NEW item \in payload'.items PROVE Honest(item)
    OBVIOUS
  <2>1. CASE UNCHANGED <<source, payload>>
    BY <2>1 DEF Inv
  <2>2. CASE CollectMem
    BY <2>2, MemHonest DEF CollectMem, Envelope, Inv
  <2>3. CASE CollectMemSwap
    BY <2>3, SwapHonest DEF CollectMemSwap, Envelope, Inv
  <2>4. CASE CollectFs
    BY <2>4, FsHonest DEF CollectFs, EnvelopeKeyed, Inv
  <2>5. CASE source.plugin \notin {"mem", "memswap", "fs"}
    BY <2>5 DEF Judged
  <2> QED
    BY <2>1, <2>2, <2>3, <2>4, <2>5 DEF CollectNext, CollectCpu, CollectNetwork,
       CollectDiskio, CollectLoad, CollectUptime, CollectSystem
<1> QED
  BY <1>1, <1>2, <1>3, <1>4 DEF Inv

(***************************************************************************)
(* Whatever lines of /proc/meminfo are missing, and when a mount can no    *)
(* longer be read (linux.rs:147-190, 285-324, fs.rs:62-74, 104-112), the   *)
(* published percentage is never below what the figures that could be read *)
(* leave room for, and never above 100; for sizes in any order, without a  *)
(* bound, and however floating point rounds a tie.                         *)
(***************************************************************************)
THEOREM PartialReadingsShowUsage ==
    ASSUME Sizes \subseteq Nat
    PROVE  CollectSpec => []UsageAtLeastAsRead
<1>1. CollectInit => Inv
  BY InitInv
<1>2. Inv /\ [CollectNext]_<<source, payload>> => Inv'
  BY StepInv
<1>3. Inv => UsageAtLeastAsRead
  BY DEF Inv, Judged, Honest, UsageAtLeastAsRead
<1> QED
  BY <1>1, <1>2, <1>3, PTL DEF CollectSpec

-----------------------------------------------------------------------------
(* The ticks of cpu *)

TicksAssumed == TickCounts \in [{Columns[i] : i \in DOMAIN Columns} -> SUBSET Nat]

\* The columns by their numbers.
LEMMA ColumnFacts ==
    /\ DOMAIN Columns = 1..10
    /\ Columns[1] = "user" /\ Columns[2] = "nice" /\ Columns[3] = "system"
    /\ Columns[4] = "idle" /\ Columns[5] = "iowait" /\ Columns[6] = "irq"
    /\ Columns[7] = "softirq" /\ Columns[8] = "steal" /\ Columns[9] = "guest"
    /\ Columns[10] = "guest_nice"
BY DEF Columns

ColumnOf(f) == CHOOSE i \in DOMAIN Columns : Columns[i] = f

\* No two columns have one name.
LEMMA ColumnOfFacts ==
    /\ ColumnOf("user") = 1 /\ ColumnOf("nice") = 2 /\ ColumnOf("system") = 3
    /\ ColumnOf("idle") = 4 /\ ColumnOf("iowait") = 5 /\ ColumnOf("irq") = 6
    /\ ColumnOf("steal") = 8 /\ ColumnOf("guest") = 9
<1>1. \A i \in 1..10 : i = 1 \/ i = 2 \/ i = 3 \/ i = 4 \/ i = 5 \/ i = 6
                       \/ i = 7 \/ i = 8 \/ i = 9 \/ i = 10
  OBVIOUS
<1>2. \A i, j \in 1..10 : Columns[i] = Columns[j] => i = j
  BY <1>1, ColumnFacts
<1>3. \A i \in 1..10 : ColumnOf(Columns[i]) = i
  BY <1>2, ColumnFacts DEF ColumnOf
<1> QED
  BY <1>3, ColumnFacts

CpuReading ==
    /\ source.columns \in {4, 8, 10}
    /\ \A i \in 1..10 : source[Columns[i]] \in Nat

\* What is counted of a reading.
LEMMA DeltaFacts ==
    ASSUME CpuReading
    PROVE  \A i \in 1..10 : Delta(i) \in Nat
BY DEF CpuReading, Delta, SaturatingSub

\* What SharesAddUp says of one item.
AddsUp(item) ==
    "total" \in DOMAIN item =>
        /\ Delta(9) <= Delta(1) =>
              /\ SumOfShares(item) <= 1004
              /\ \A f \in CpuShares \ {"idle"} :
                    item[f].tenths <= item.total.tenths
        /\ \/ /\ item.total.tenths + item.idle.tenths >= 999
              /\ item.total.tenths + item.idle.tenths <= 1001
           \/ \A f \in CpuShares \cup {"total"} : item[f].tenths = 0

\* The share of a column.
LEMMA PercentOf ==
    /\ CpuPercents["total"] = Share(Busy, Whole)
    /\ \A f \in CpuShares : CpuPercents[f] = Share(OwnTicks(ColumnOf(f)), Whole)
    /\ DOMAIN CpuPercents = CpuShares \cup {"total"}
BY DEF CpuPercents, CpuShares, ColumnOf

SumOf(p) == p[1] + p[2] + p[3] + p[4] + p[5] + p[6] + p[7] + p[8]

\* Sums of eight keep their order, and are multiplied term by term.
LEMMA SumFacts ==
    ASSUME NEW t \in [1..8 -> Nat], NEW whole \in Nat
    PROVE  /\ SumOf(t) \in Nat
           /\ SumOf(t) * whole = SumOf([i \in 1..8 |-> t[i] * whole])
<1>1. /\ t[1] \in Nat /\ t[2] \in Nat /\ t[3] \in Nat /\ t[4] \in Nat
      /\ t[5] \in Nat /\ t[6] \in Nat /\ t[7] \in Nat /\ t[8] \in Nat
  OBVIOUS
<1>2. SumOf(t) * whole = t[1] * whole + t[2] * whole + t[3] * whole
                           + t[4] * whole + t[5] * whole + t[6] * whole
                           + t[7] * whole + t[8] * whole
  BY <1>1, SMT DEF SumOf
<1>3. SumOf([i \in 1..8 |-> t[i] * whole])
        = t[1] * whole + t[2] * whole + t[3] * whole + t[4] * whole
            + t[5] * whole + t[6] * whole + t[7] * whole + t[8] * whole
  BY DEF SumOf
<1> QED
  BY <1>1, <1>2, <1>3 DEF SumOf

\* No x is above its part's percentage, rounded, times the whole.
Rounds(x, p, whole) == \A i \in 1..8 : 2 * x[i] <= 2000 * p[i] + whole

LEMMA SumBound ==
    ASSUME NEW x \in [1..8 -> Nat], NEW p \in [1..8 -> Nat], NEW whole \in Nat,
           Rounds(x, p, whole)
    PROVE  2 * SumOf(x) <= 2000 * SumOf(p) + 8 * whole
<1>1. /\ 2 * x[1] <= 2000 * p[1] + whole /\ 2 * x[2] <= 2000 * p[2] + whole
      /\ 2 * x[3] <= 2000 * p[3] + whole /\ 2 * x[4] <= 2000 * p[4] + whole
      /\ 2 * x[5] <= 2000 * p[5] + whole /\ 2 * x[6] <= 2000 * p[6] + whole
      /\ 2 * x[7] <= 2000 * p[7] + whole /\ 2 * x[8] <= 2000 * p[8] + whole
  BY DEF Rounds
<1>2. /\ x[1] \in Nat /\ x[2] \in Nat /\ x[3] \in Nat /\ x[4] \in Nat
      /\ x[5] \in Nat /\ x[6] \in Nat /\ x[7] \in Nat /\ x[8] \in Nat
      /\ p[1] \in Nat /\ p[2] \in Nat /\ p[3] \in Nat /\ p[4] \in Nat
      /\ p[5] \in Nat /\ p[6] \in Nat /\ p[7] \in Nat /\ p[8] \in Nat
  OBVIOUS
<1> QED
  BY <1>1, <1>2, SMT DEF SumOf

\* Eight parts of a whole, rounded one by one, are half a tenth above it each.
LEMMA EightShares ==
    ASSUME NEW whole \in Nat, whole > 0,
           NEW p \in [1..8 -> Nat], SumOf(p) <= whole
    PROVE  SumOf([i \in 1..8 |-> Tenths(p[i], whole)]) <= 1004
<1> DEFINE t == [i \in 1..8 |-> Tenths(p[i], whole)]
           x == [i \in 1..8 |-> t[i] * whole]
           s == SumOf(t)
<1>1. \A i \in 1..8 : /\ Tenths(p[i], whole) \in Nat
                       /\ 2 * (Tenths(p[i], whole) * whole) <= 2000 * p[i] + whole
  <2> TAKE i \in 1..8
  <2>1. PICK n \in Nat : n = p[i]
    OBVIOUS
  <2>2. /\ Tenths(n, whole) \in Nat
        /\ 2 * (Tenths(n, whole) * whole) <= 2000 * n + whole
    BY <2>1, TenthsNear
  <2> QED
    BY <2>1, <2>2
<1>2. t \in [1..8 -> Nat]
  BY <1>1
<1>3. \A i \in 1..8 : 2 * (t[i] * whole) <= 2000 * p[i] + whole
  BY <1>1
<1> HIDE DEF t
<1>4. x \in [1..8 -> Nat]
  BY <1>2
<1>5. Rounds(x, p, whole)
  BY <1>3 DEF Rounds
<1>6. s \in Nat /\ s * whole = SumOf(x)
  BY <1>2, SumFacts
<1> HIDE DEF x
<1>7. 2 * SumOf(x) <= 2000 * SumOf(p) + 8 * whole
  BY <1>4, <1>5, SumBound
<1>8. SumOf(p) \in Nat /\ SumOf(x) \in Nat
  BY <1>4, SumFacts
<1> HIDE DEF s
<1>9. 1004 < s => 1004 * whole + whole <= SumOf(x)
  BY <1>6, ProductAbove
<1>10. ~(1004 < s)
  BY <1>7, <1>8, <1>9, SMT
<1> QED
  BY <1>6, <1>10, SMT DEF s, t

\* A part and the rest of the whole, rounded one by one.
LEMMA PartAndRest ==
    ASSUME NEW whole \in Nat, NEW part \in Nat, NEW rest \in Nat, whole > 0,
           part + rest = whole
    PROVE  /\ Tenths(part, whole) + Tenths(rest, whole) >= 999
           /\ Tenths(part, whole) + Tenths(rest, whole) <= 1001
<1> DEFINE t == Tenths(part, whole)
           i == Tenths(rest, whole)
<1>1. /\ t \in Nat /\ 2 * (t * whole) <= 2000 * part + whole
      /\ 2000 * part <= 2 * (t * whole) + whole
  BY TenthsNear
<1>2. /\ i \in Nat /\ 2 * (i * whole) <= 2000 * rest + whole
      /\ 2000 * rest <= 2 * (i * whole) + whole
  BY TenthsNear
<1> HIDE DEF t, i
<1>3. /\ t + i \in Nat /\ t * whole \in Nat /\ i * whole \in Nat
      /\ (t + i) * whole = t * whole + i * whole
  BY <1>1, <1>2, SMT
<1> DEFINE y == (t + i) * whole
           v == t * whole
           w == i * whole
<1>4. /\ y = v + w /\ v \in Nat /\ w \in Nat
      /\ 2 * v <= 2000 * part + whole /\ 2000 * part <= 2 * v + whole
      /\ 2 * w <= 2000 * rest + whole /\ 2000 * rest <= 2 * w + whole
  BY <1>1, <1>2, <1>3
<1>5. t + i < 999 => y + whole <= 999 * whole
  BY <1>3, ProductAbove
<1>6. 1001 < t + i => 1001 * whole + whole <= y
  BY <1>3, ProductAbove
<1> HIDE DEF y, v, w
<1>7. ~(t + i < 999) /\ ~(1001 < t + i)
  BY <1>4, <1>5, <1>6, SMT
<1>8. t + i >= 999 /\ t + i <= 1001
  BY <1>3, <1>7, SMT
<1> QED
  BY <1>8 DEF t, i

\* The shares of a reading add up.
LEMMA PercentsAddUp ==
    ASSUME CpuReading
    PROVE  AddsUp(CpuPercents)
<1> DEFINE P == CpuPercents
           Own(i) == OwnTicks(i)
           Pct(n) == Share(n, Whole).tenths
<1>1. /\ P.user.tenths = Pct(Own(1)) /\ P.nice.tenths = Pct(Own(2))
      /\ P.system.tenths = Pct(Own(3)) /\ P.idle.tenths = Pct(Own(4))
      /\ P.iowait.tenths = Pct(Own(5)) /\ P.irq.tenths = Pct(Own(6))
      /\ P.steal.tenths = Pct(Own(8)) /\ P.guest.tenths = Pct(Own(9))
      /\ P.total.tenths = Pct(Busy)
  BY PercentOf, ColumnOfFacts DEF CpuShares
<1>2. /\ Own(1) = SaturatingSub(Delta(1), Delta(9))
      /\ Own(2) = SaturatingSub(Delta(2), Delta(10))
      /\ Own(3) = Delta(3) /\ Own(4) = Delta(4) /\ Own(5) = Delta(5)
      /\ Own(6) = Delta(6) /\ Own(8) = Delta(8) /\ Own(9) = Delta(9)
  BY DEF OwnTicks
<1>3. /\ Delta(1) \in Nat /\ Delta(2) \in Nat /\ Delta(3) \in Nat
      /\ Delta(4) \in Nat /\ Delta(5) \in Nat /\ Delta(6) \in Nat
      /\ Delta(7) \in Nat /\ Delta(8) \in Nat /\ Delta(9) \in Nat
      /\ Delta(10) \in Nat
  BY DeltaFacts
<1>4. /\ Own(1) \in Nat /\ Own(2) \in Nat /\ Own(3) \in Nat /\ Own(4) \in Nat
      /\ Own(5) \in Nat /\ Own(6) \in Nat /\ Own(8) \in Nat /\ Own(9) \in Nat
      /\ Own(1) <= Delta(1) /\ Own(2) <= Delta(2)
      /\ Delta(9) <= Delta(1) => Own(1) + Own(9) = Delta(1)
  BY <1>2, <1>3 DEF SaturatingSub
<1>5. /\ Whole \in Nat /\ Busy \in Nat /\ Busy + Own(4) = Whole
      /\ Busy = Delta(1) + Delta(2) + Delta(3) + Delta(5) + Delta(6) + Delta(7)
                  + Delta(8)
  BY <1>2, <1>3 DEF Whole, Busy
<1> HIDE DEF P, Own
<1>6. \A n \in Nat : Pct(n) \in Nat
  BY <1>5, ShareFacts
<1>7. ASSUME Delta(9) <= Delta(1)
      PROVE  /\ Own(1) <= Busy /\ Own(2) <= Busy /\ Own(3) <= Busy
             /\ Own(5) <= Busy /\ Own(6) <= Busy /\ Own(8) <= Busy
             /\ Own(9) <= Busy
             /\ Own(1) + Own(2) + Own(3) + Own(4) + Own(5) + Own(6) + Own(8)
                   + Own(9) <= Whole
  BY <1>2, <1>3, <1>4, <1>5, <1>7
<1>8. \A n \in Nat : n <= Busy => Pct(n) <= Pct(Busy)
  BY <1>5, LargerShare
<1> HIDE DEF Pct
<1>9. Delta(9) <= Delta(1) =>
        \A f \in CpuShares \ {"idle"} : P[f].tenths <= P.total.tenths
  BY <1>1, <1>4, <1>7, <1>8 DEF CpuShares
<1>10. SumOfShares(P) = Pct(Own(1)) + Pct(Own(2)) + Pct(Own(3)) + Pct(Own(4))
                          + Pct(Own(5)) + Pct(Own(6)) + Pct(Own(8)) + Pct(Own(9))
  BY <1>1 DEF SumOfShares
<1>11. CASE Whole = 0
  <2>1. \A n : Pct(n) = 0
    BY <1>11 DEF Share, Pct
  <2>2. \A f \in CpuShares \cup {"total"} : P[f].tenths = 0
    BY <1>1, <2>1 DEF CpuShares
  <2>3. SumOfShares(P) <= 1004
    BY <1>10, <2>1
  <2> QED
    BY <1>9, <2>2, <2>3 DEF AddsUp, P
<1>12. CASE Whole > 0
  <2>1. \A n : Pct(n) = Tenths(n, Whole)
    BY <1>12 DEF Share, Pct
  <2>2. Delta(9) <= Delta(1) => SumOfShares(P) <= 1004
    <3> SUFFICES ASSUME Delta(9) <= Delta(1) PROVE SumOfShares(P) <= 1004
      OBVIOUS
    <3> DEFINE p == <<Own(1), Own(2), Own(3), Own(4), Own(5), Own(6), Own(8),
                      Own(9)>>
               t == [i \in 1..8 |-> Tenths(p[i], Whole)]
    <3>1. /\ p \in [1..8 -> Nat]
          /\ p[1] = Own(1) /\ p[2] = Own(2) /\ p[3] = Own(3) /\ p[4] = Own(4)
          /\ p[5] = Own(5) /\ p[6] = Own(6) /\ p[7] = Own(8) /\ p[8] = Own(9)
      BY <1>4
    <3> HIDE DEF p
    <3>2. SumOf(p) <= Whole
      BY <1>7, <3>1 DEF SumOf
    <3>3. SumOf(t) <= 1004
      BY <1>5, <1>12, <3>1, <3>2, EightShares
    <3>4. \A i \in 1..8 : t[i] = Pct(p[i])
      BY <2>1
    <3> HIDE DEF t
    <3>5. SumOf(t) = Pct(Own(1)) + Pct(Own(2)) + Pct(Own(3)) + Pct(Own(4))
                       + Pct(Own(5)) + Pct(Own(6)) + Pct(Own(8)) + Pct(Own(9))
      BY <3>1, <3>4 DEF SumOf
    <3> QED
      BY <1>10, <3>3, <3>5
  <2>3. /\ Tenths(Busy, Whole) + Tenths(Own(4), Whole) >= 999
        /\ Tenths(Busy, Whole) + Tenths(Own(4), Whole) <= 1001
    BY <1>4, <1>5, <1>12, PartAndRest
  <2>4. /\ P.total.tenths + P.idle.tenths >= 999
        /\ P.total.tenths + P.idle.tenths <= 1001
    BY <1>1, <2>1, <2>3
  <2> QED
    BY <1>9, <2>2, <2>4 DEF AddsUp, P
<1> QED
  BY <1>5, <1>11, <1>12

\* What is published beside the shares changes none of them.
LEMMA CpuItemAddsUp ==
    ASSUME source.readable => CpuReading
    PROVE  AddsUp(CpuItem)
<1>1. CASE ~source.readable
  BY <1>1 DEF CpuItem, AddsUp
<1>2. CASE source.readable
  <2>1. \A f \in CpuShares \cup {"total"} : CpuItem[f] = CpuPercents[f]
    BY <1>2, PercentOf, BothFacts DEF CpuItem
  <2>2. AddsUp(CpuPercents) /\ "total" \in DOMAIN CpuPercents
    BY <1>2, PercentsAddUp, PercentOf
  <2>3. SumOfShares(CpuItem) = SumOfShares(CpuPercents)
    BY <2>1 DEF SumOfShares, CpuShares
  <2>4. /\ CpuItem.total = CpuPercents.total
        /\ CpuItem.idle = CpuPercents.idle
    BY <2>1 DEF CpuShares
  <2> QED
    BY <2>1, <2>2, <2>3, <2>4 DEF AddsUp
<1> QED
  BY <1>1, <1>2

CpuInv ==
    source.plugin = "cpu" =>
        /\ CpuReading
        /\ \A item \in payload.items : AddsUp(item)

\* A reading of /proc/stat is one to start with.
LEMMA InitCpuInv == ASSUME TicksAssumed, CollectInit PROVE CpuInv
<1>1. payload.items = {}
  BY DEF CollectInit, NoPayload
<1>2. CASE source \in CpuSources
  <2>1. source.columns \in {4, 8, 10}
    BY <1>2 DEF CpuSources
  <2>2. \A i \in 1..10 : TickCounts[Columns[i]] \subseteq Nat
    BY ColumnFacts DEF TicksAssumed
  <2>3. /\ Ticks("user") \subseteq Nat /\ Ticks("nice") \subseteq Nat
        /\ Ticks("system") \subseteq Nat /\ Ticks("idle") \subseteq Nat
        /\ Ticks("iowait") \subseteq Nat /\ Ticks("irq") \subseteq Nat
        /\ Ticks("softirq") \subseteq Nat /\ Ticks("steal") \subseteq Nat
        /\ Ticks("guest") \subseteq Nat /\ Ticks("guest_nice") \subseteq Nat
    BY <2>2, ColumnFacts DEF Ticks
  <2>4. /\ source["user"] \in Nat /\ source["nice"] \in Nat
        /\ source["system"] \in Nat /\ source["idle"] \in Nat
        /\ source["iowait"] \in Nat /\ source["irq"] \in Nat
        /\ source["softirq"] \in Nat /\ source["steal"] \in Nat
        /\ source["guest"] \in Nat /\ source["guest_nice"] \in Nat
    BY <1>2, <2>3 DEF CpuSources
  <2>5. \A i \in 1..10 : source[Columns[i]] \in Nat
    <3>1. \A i \in 1..10 : i = 1 \/ i = 2 \/ i = 3 \/ i = 4 \/ i = 5 \/ i = 6
                           \/ i = 7 \/ i = 8 \/ i = 9 \/ i = 10
      OBVIOUS
    <3> QED
      BY <2>4, <3>1, ColumnFacts
  <2> QED
    BY <1>1, <2>1, <2>5 DEF CpuInv, CpuReading
<1>3. CASE source.plugin # "cpu"
  BY <1>3 DEF CpuInv
<1>4. source \in CpuSources \/ source.plugin # "cpu"
  <2>1. CASE source \in MemSources \cup SwapSources
    BY <2>1 DEF MemSources, SwapSources
  <2>2. CASE source \in FsSources
    <3>1. PICK s \in FsRead \cup FsHeld, f \in Filters : source = Both(s, f)
      BY <2>2 DEF FsSources
    <3>2. "plugin" \in DOMAIN s /\ s.plugin = "fs"
      BY DEF FsRead, FsHeld
    <3> QED
      BY <3>1, <3>2, BothFacts
  <2>3. CASE source \in KeyedSources
    <3>1. PICK s \in [plugin: {"network", "diskio"}, linkKnown: BOOLEAN],
               f \in Filters : source = Both(s, f)
      BY <2>3 DEF KeyedSources
    <3>2. "plugin" \in DOMAIN s /\ s.plugin # "cpu"
      OBVIOUS
    <3> QED
      BY <3>1, <3>2, BothFacts
  <2>4. CASE source \in [plugin: {"load", "uptime", "system"}]
    BY <2>4
  <2> QED
    BY <2>1, <2>2, <2>3, <2>4 DEF CollectInit
<1> QED
  BY <1>2, <1>3, <1>4

\* One item at most is published, and the reading stays what it is.
LEMMA StepCpuInv ==
    ASSUME CpuInv, [CollectNext]_<<source, payload>>
    PROVE  CpuInv'
<1>1. source' = source
  BY DEF CollectNext
<1>2. CpuReading' = CpuReading
  BY <1>1 DEF CpuReading
<1>3. \A item : AddsUp(item)' = AddsUp(item)
  BY <1>1 DEF AddsUp, Delta, SumOfShares
<1>4. CASE UNCHANGED <<source, payload>>
  BY <1>2, <1>3, <1>4 DEF CpuInv
<1>5. CASE CollectCpu
  BY <1>1, <1>2, <1>3, <1>5, CpuItemAddsUp DEF CpuInv, CollectCpu, Envelope
<1>6. CASE source.plugin # "cpu"
  BY <1>1, <1>6 DEF CpuInv
<1> QED
  BY <1>4, <1>5, <1>6 DEF CollectNext, CollectMem, CollectMemSwap, CollectFs,
     CollectNetwork, CollectDiskio, CollectLoad, CollectUptime, CollectSystem

(***************************************************************************)
(* The published shares of cpu are those of one whole, as far as rounding  *)
(* each of them allows (linux.rs:107-118): for any numbers of ticks, with  *)
(* guests running, with columns the kernel lacks, with counters that go    *)
(* back, and however floating point rounds a tie.                          *)
(***************************************************************************)
THEOREM SharesAreOfOneWhole ==
    ASSUME TicksAssumed
    PROVE  CollectSpec => []SharesAddUp
<1>1. CollectInit => CpuInv
  BY InitCpuInv
<1>2. CpuInv /\ [CollectNext]_<<source, payload>> => CpuInv'
  BY StepCpuInv
<1>3. CpuInv => SharesAddUp
  BY DEF CpuInv, AddsUp, SharesAddUp
<1> QED
  BY <1>1, <1>2, <1>3, PTL DEF CollectSpec
-----------------------------------------------------------------------------
(* The field tables and the items: which fields there are, which are rates *)

\* An item with these fields, these of them per-second rates.
Shape(item, fields, rates) ==
    /\ DOMAIN item = fields
    /\ \A f \in fields : item[f].kind = "rate" <=> f \in rates
    /\ rates \subseteq fields

LEMMA EachShape ==
    ASSUME NEW fields
    PROVE  /\ Shape(Each(fields, PerSecond), fields, fields)
           /\ Shape(Each(fields, Text), fields, {})
           /\ Shape(Each(fields, Counted), fields, {})
           /\ \A n : Shape(Each(fields, Amount(n)), fields, {})
BY DEF Shape, Each, PerSecond, Text, Counted, Amount

LEMMA BothShape ==
    ASSUME NEW a, NEW b, NEW fa, NEW fb, NEW ra, NEW rb,
           Shape(a, fa, ra), Shape(b, fb, rb), fa \cap fb = {}
    PROVE  Shape(Both(a, b), fa \cup fb, ra \cup rb)
<1>1. DOMAIN Both(a, b) = fa \cup fb
  BY DEF Both, Shape
<1>2. \A f \in fa : Both(a, b)[f] = a[f]
  BY BothFacts DEF Shape
<1>3. \A f \in fb : Both(a, b)[f] = b[f] /\ f \notin fa
  BY BothFacts DEF Shape
<1>4. \A f \in fa \cup fb : Both(a, b)[f].kind = "rate" <=> f \in ra \cup rb
  BY <1>2, <1>3 DEF Shape
<1>5. QED
  BY <1>1, <1>4 DEF Shape

\* The parts of items that are no groups of one value.
LEMMA PartShapes ==
    /\ Shape(<<>>, {}, {})
    /\ \A total, left :
          Shape(Usage(total, left), {"total", "used", "percent"}, {})
    /\ Shape(FsUsage, {"size", "used", "free", "percent"}, {})
    /\ Shape(FsFallback, {"size", "used", "free", "percent"}, {})
    /\ Shape(Alias, IF source.aliased THEN {"alias"} ELSE {}, {})
    /\ Shape(CpuPercents, CpuShares \cup {"total"}, {})
<1>1. Shape(<<>>, {}, {})
  BY DEF Shape
<1>2. \A n : Amount(n).kind # "rate"
  BY DEF Amount
<1>3. \A part, whole : Share(part, whole).kind # "rate"
  BY DEF Share
<1>4. \A total, left :
         Shape(Usage(total, left), {"total", "used", "percent"}, {})
  BY <1>2, <1>3 DEF Shape, Usage
<1>5. Shape(FsUsage, {"size", "used", "free", "percent"}, {})
  BY <1>2, <1>3 DEF Shape, FsUsage, FsPercent
<1>6. Shape(FsFallback, {"size", "used", "free", "percent"}, {})
  BY <1>2, <1>3 DEF Shape, FsFallback
<1>7. Shape(Alias, IF source.aliased THEN {"alias"} ELSE {}, {})
  BY <1>1, EachShape DEF Alias
<1>8. Shape(CpuPercents, CpuShares \cup {"total"}, {})
  BY <1>3, PercentOf DEF Shape
<1>9. QED
  BY <1>1, <1>4, <1>5, <1>6, <1>7, <1>8

LEMMA MemShape ==
    Shape(MemItem,
          IF source.readable THEN MEM_FIELDS.names
          ELSE {"total", "used", "percent", "available", "free"}, {})
<1>1. CASE ~source.readable
  <2>1. Shape(Both(Usage(0, 0), Each({"available", "free"}, Amount(0))),
              {"total", "used", "percent"} \cup {"available", "free"},
              {} \cup {})
    BY PartShapes, EachShape, BothShape
  <2>2. QED
    BY <1>1, <2>1 DEF MemItem
<1>2. CASE source.readable
  <2> DEFINE figures == {"available", "free"}
             caches == {"active", "inactive", "buffers", "cached", "shared",
                        "slab"}
             a == [available |-> Amount(Available),
                   free |-> Amount(Line("MemFree", source.free))]
             u == Usage(Line("MemTotal", source.total), Available)
  <2>1. Shape(a, figures, {})
    BY DEF Shape, Amount
  <2>2. Shape(Each(caches, Counted), caches, {})
    BY EachShape
  <2>3. Shape(u, {"total", "used", "percent"}, {})
    BY PartShapes
  <2>4. MemItem = Both(u, Both(a, Each(caches, Counted)))
    BY <1>2 DEF MemItem
  <2>5. figures \cap caches = {}
    OBVIOUS
  <2>6. {"total", "used", "percent"} \cap (figures \cup caches) = {}
    OBVIOUS
  <2>7. {"total", "used", "percent"} \cup (figures \cup caches) = MEM_FIELDS.names
    BY DEF MEM_FIELDS, Plain
  <2> HIDE DEF a, u, figures, caches
  <2>8. Shape(Both(a, Each(caches, Counted)), figures \cup caches, {} \cup {})
    BY <2>1, <2>2, <2>5, BothShape
  <2>9. Shape(MemItem, {"total", "used", "percent"} \cup (figures \cup caches),
              {} \cup ({} \cup {}))
    BY <2>3, <2>4, <2>6, <2>8, BothShape
  <2>10. QED
    BY <1>2, <2>7, <2>9
<1>3. QED
  BY <1>1, <1>2
LEMMA SwapShape == Shape(MemSwapItem, MEMSWAP_FIELDS.names, MEMSWAP_FIELDS.rates)
<1> DEFINE total == IF source.readable THEN Line("SwapTotal", source.total) ELSE 0
           free == IF source.readable THEN Line("SwapFree", source.free) ELSE 0
           rest == Both([free |-> Amount(free)], Each({"sin", "sout"}, PerSecond))
<1>1. Shape([free |-> Amount(free)], {"free"}, {})
  BY DEF Shape, Amount
<1>2. Shape(Each({"sin", "sout"}, PerSecond), {"sin", "sout"}, {"sin", "sout"})
  BY EachShape
<1>3. Shape(Usage(total, free), {"total", "used", "percent"}, {})
  BY PartShapes
<1>4. MemSwapItem = Both(Usage(total, free), rest)
  BY DEF MemSwapItem
<1> HIDE DEF total, free
<1>5. Shape(rest, {"free"} \cup {"sin", "sout"}, {} \cup {"sin", "sout"})
  BY <1>1, <1>2, BothShape
<1> HIDE DEF rest
<1>6. {"total", "used", "percent"} \cap ({"free"} \cup {"sin", "sout"}) = {}
  OBVIOUS
<1>7. Shape(MemSwapItem,
            {"total", "used", "percent"} \cup ({"free"} \cup {"sin", "sout"}),
            {} \cup ({} \cup {"sin", "sout"}))
  BY <1>3, <1>4, <1>5, <1>6, BothShape
<1>8. /\ MEMSWAP_FIELDS.names
           = {"total", "used", "percent"} \cup ({"free"} \cup {"sin", "sout"})
      /\ MEMSWAP_FIELDS.rates = {} \cup ({} \cup {"sin", "sout"})
  BY DEF MEMSWAP_FIELDS, Plain
<1>9. QED
  BY <1>7, <1>8

LEMMA FsShape ==
    Shape(FsItem,
          FS_FIELDS.names
            \ ((IF source.aliased THEN {} ELSE {"alias"})
                 \cup (IF source.listed THEN {} ELSE {"options"})), {})
<1> DEFINE sizes == {"size", "used", "free", "percent"}
           texts == {"device_name", "fs_type", "mnt_point"}
           alias == IF source.aliased THEN {"alias"} ELSE {}
           options == IF source.listed THEN {"options"} ELSE {}
           usage == IF source.statvfs THEN FsUsage ELSE FsFallback
           opts == IF source.listed THEN Each({"options"}, Text) ELSE <<>>
           text == Each(texts, Text)
<1>1. Shape(usage, sizes, {})
  BY PartShapes
<1>2. Shape(text, texts, {})
  BY EachShape
<1>3. Shape(opts, options, {})
  BY PartShapes, EachShape
<1>4. Shape(Alias, alias, {})
  BY PartShapes
<1>5. FsItem = Both(usage, Both(text, Both(opts, Alias)))
  BY DEF FsItem
<1>6. /\ options \cap alias = {}
      /\ texts \cap (options \cup alias) = {}
      /\ sizes \cap (texts \cup (options \cup alias)) = {}
  OBVIOUS
<1>7. sizes \cup (texts \cup (options \cup alias))
        = FS_FIELDS.names
            \ ((IF source.aliased THEN {} ELSE {"alias"})
                 \cup (IF source.listed THEN {} ELSE {"options"}))
  BY DEF FS_FIELDS, Plain
<1> HIDE DEF usage, text, opts, sizes, texts, alias, options
<1>8. Shape(Both(opts, Alias), options \cup alias, {} \cup {})
  BY <1>3, <1>4, <1>6, BothShape
<1>9. Shape(Both(text, Both(opts, Alias)), texts \cup (options \cup alias),
            {} \cup ({} \cup {}))
  BY <1>2, <1>6, <1>8, BothShape
<1>10. Shape(FsItem, sizes \cup (texts \cup (options \cup alias)),
             {} \cup ({} \cup ({} \cup {})))
  BY <1>1, <1>5, <1>6, <1>9, BothShape
<1>11. QED
  BY <1>7, <1>10

LEMMA CpuShape ==
    Shape(CpuItem,
          IF source.readable THEN CPU_FIELDS.names ELSE {"cpucore"},
          IF source.readable THEN CPU_FIELDS.rates ELSE {})
<1> DEFINE events == {"ctx_switches", "interrupts", "soft_interrupts",
                      "syscalls"}
           shares == CpuShares \cup {"total"}
           core == [cpucore |-> Counted]
<1>1. Shape(core, {"cpucore"}, {})
  BY DEF Shape, Counted, Amount
<1>2. CASE ~source.readable
  BY <1>1, <1>2 DEF CpuItem
<1>3. CASE source.readable
  <2>1. CpuItem = Both(CpuPercents, Both(core, Each(events, PerSecond)))
    BY <1>3 DEF CpuItem
  <2>2. Shape(Each(events, PerSecond), events, events)
    BY EachShape
  <2>3. Shape(CpuPercents, shares, {})
    BY PartShapes
  <2>4. {"cpucore"} \cap events = {} /\ shares \cap ({"cpucore"} \cup events) = {}
    BY DEF CpuShares
  <2>5. /\ shares \cup ({"cpucore"} \cup events) = CPU_FIELDS.names
        /\ events = CPU_FIELDS.rates
    BY DEF CPU_FIELDS, Plain, CpuShares
  <2> HIDE DEF events, shares, core
  <2>6. Shape(Both(core, Each(events, PerSecond)), {"cpucore"} \cup events,
              {} \cup events)
    BY <1>1, <2>2, <2>4, BothShape
  <2>7. Shape(CpuItem, shares \cup ({"cpucore"} \cup events),
              {} \cup ({} \cup events))
    BY <2>1, <2>3, <2>4, <2>6, BothShape
  <2>8. QED
    BY <1>3, <2>5, <2>7
<1>4. QED
  BY <1>2, <1>3

LEMMA NetworkShape ==
    Shape(NetworkItem,
          NETWORK_FIELDS.names \ (IF source.aliased THEN {} ELSE {"alias"}),
          NETWORK_FIELDS.rates)
<1> DEFINE rates == {"bytes_recv", "bytes_sent", "bytes_all", "errors_in",
                     "errors_out", "dropped_in", "dropped_out"}
           counts == {"bytes_recv_cumul", "bytes_sent_cumul", "speed"}
           texts == {"interface_name", "is_up", "hidden"}
           alias == IF source.aliased THEN {"alias"} ELSE {}
           speed == [bytes_speed_rate_per_sec |->
                        Amount(IF source.linkKnown THEN 1 ELSE 0)]
           a == Both(Each(rates, PerSecond), Each(counts, Counted))
           b == Both(Each(texts, Text), Alias)
           cap == {"bytes_speed_rate_per_sec"}
<1>1. /\ Shape(Each(rates, PerSecond), rates, rates)
      /\ Shape(Each(counts, Counted), counts, {})
      /\ Shape(Each(texts, Text), texts, {})
  BY EachShape
<1>2. Shape(Alias, alias, {})
  BY PartShapes
<1>3. Shape(speed, cap, {})
  BY DEF Shape, Amount
<1>4. NetworkItem = Both(a, Both(b, speed))
  BY DEF NetworkItem
<1>5. /\ rates \cap counts = {} /\ texts \cap alias = {}
      /\ (texts \cup alias) \cap cap = {}
      /\ (rates \cup counts) \cap ((texts \cup alias) \cup cap) = {}
  OBVIOUS
<1>6. /\ (rates \cup counts) \cup ((texts \cup alias) \cup cap)
           = NETWORK_FIELDS.names \ (IF source.aliased THEN {} ELSE {"alias"})
      /\ rates = NETWORK_FIELDS.rates
  BY DEF NETWORK_FIELDS, Plain
<1> HIDE DEF rates, counts, texts, alias, speed, cap
<1>7. Shape(a, rates \cup counts, rates \cup {})
  BY <1>1, <1>5, BothShape
<1>8. Shape(b, texts \cup alias, {} \cup {})
  BY <1>1, <1>2, <1>5, BothShape
<1> HIDE DEF a, b
<1>9. Shape(Both(b, speed), (texts \cup alias) \cup cap, ({} \cup {}) \cup {})
  BY <1>3, <1>5, <1>8, BothShape
<1>10. Shape(NetworkItem, (rates \cup counts) \cup ((texts \cup alias) \cup cap),
             (rates \cup {}) \cup (({} \cup {}) \cup {}))
  BY <1>4, <1>5, <1>7, <1>9, BothShape
<1>11. (rates \cup {}) \cup (({} \cup {}) \cup {}) = rates
  OBVIOUS
<1>12. QED
  BY <1>6, <1>10, <1>11

LEMMA DiskioShape ==
    Shape(DiskioItem,
          DISKIO_FIELDS.names \ (IF source.aliased THEN {} ELSE {"alias"}),
          DISKIO_FIELDS.rates)
<1> DEFINE rates == {"read_count", "write_count", "read_bytes", "write_bytes",
                     "read_time", "write_time"}
           counts == {"read_latency", "write_latency", "read_count_cumul",
                      "write_count_cumul", "read_bytes_cumul",
                      "write_bytes_cumul"}
           texts == {"disk_name", "hidden"}
           alias == IF source.aliased THEN {"alias"} ELSE {}
           b == Both(Each(texts, Text), Alias)
<1>1. /\ Shape(Each(rates, PerSecond), rates, rates)
      /\ Shape(Each(counts, Counted), counts, {})
      /\ Shape(Each(texts, Text), texts, {})
  BY EachShape
<1>2. Shape(Alias, alias, {})
  BY PartShapes
<1>3. DiskioItem = Both(Each(rates, PerSecond), Both(Each(counts, Counted), b))
  BY DEF DiskioItem
<1>4. /\ texts \cap alias = {}
      /\ counts \cap (texts \cup alias) = {}
      /\ rates \cap (counts \cup (texts \cup alias)) = {}
  OBVIOUS
<1>5. /\ rates \cup (counts \cup (texts \cup alias))
           = DISKIO_FIELDS.names \ (IF source.aliased THEN {} ELSE {"alias"})
      /\ rates = DISKIO_FIELDS.rates
  BY DEF DISKIO_FIELDS, Plain
<1> HIDE DEF rates, counts, texts, alias
<1>6. Shape(b, texts \cup alias, {} \cup {})
  BY <1>1, <1>2, <1>4, BothShape
<1> HIDE DEF b
<1>7. Shape(Both(Each(counts, Counted), b), counts \cup (texts \cup alias),
            {} \cup ({} \cup {}))
  BY <1>1, <1>4, <1>6, BothShape
<1>8. Shape(DiskioItem, rates \cup (counts \cup (texts \cup alias)),
            rates \cup ({} \cup ({} \cup {})))
  BY <1>1, <1>3, <1>4, <1>7, BothShape
<1>9. rates \cup ({} \cup ({} \cup {})) = rates
  OBVIOUS
<1>10. QED
  BY <1>5, <1>8, <1>9
-----------------------------------------------------------------------------
(* Tables and items together *)

\* What /info tells of a table.
LEMMA InfoFacts ==
    ASSUME NEW p
    PROVE  /\ DOMAIN Info(p) = FieldsOf(p).names
           /\ \A f \in FieldsOf(p).names :
                 Info(p)[f].rate = (f \in FieldsOf(p).rates)
BY DEF Info

\* Every built-in ladder is one of a watched field, and ascends.
LaddersAscend(p) ==
    \A f \in DOMAIN BuiltinThresholds(p) :
        /\ f \in AlertFields(p)
        /\ BuiltinThresholds(p)[f][1] <= BuiltinThresholds(p)[f][2]
        /\ BuiltinThresholds(p)[f][2] <= BuiltinThresholds(p)[f][3]

\* The tables, by the plugins they are of.
LEMMA TableOf ==
    /\ FieldsOf("mem") = MEM_FIELDS /\ FieldsOf("cpu") = CPU_FIELDS
    /\ FieldsOf("load") = LOAD_FIELDS /\ FieldsOf("network") = NETWORK_FIELDS
    /\ FieldsOf("system") = SYSTEM_FIELDS /\ FieldsOf("uptime") = UPTIME_FIELDS
    /\ FieldsOf("memswap") = MEMSWAP_FIELDS /\ FieldsOf("fs") = FS_FIELDS
    /\ FieldsOf("diskio") = DISKIO_FIELDS
BY DEF FieldsOf

LEMMA LaddersDo == \A p \in Plugins : LaddersAscend(p)
<1> DEFINE Ascends(table) ==
      \A f \in DOMAIN table.ladders :
          /\ f \in table.watched
          /\ table.ladders[f][1] <= table.ladders[f][2]
          /\ table.ladders[f][2] <= table.ladders[f][3]
<1>1. Ascends(MEM_FIELDS) /\ Ascends(MEMSWAP_FIELDS) /\ Ascends(FS_FIELDS)
  BY DEF MEM_FIELDS, MEMSWAP_FIELDS, FS_FIELDS, Plain
<1>2. Ascends(CPU_FIELDS)
  <2>1. \A f \in {"total", "system", "user", "iowait", "steal",
                  "ctx_switches"} :
           /\ f \in CPU_FIELDS.watched
           /\ CPU_FIELDS.ladders[f] =
                CASE f = "steal" -> <<50, 150, 300>>
                  [] f = "ctx_switches" -> <<250000, 375000, 500000>>
                  [] OTHER -> <<500, 700, 900>>
    BY DEF CPU_FIELDS, Plain
  <2>2. DOMAIN CPU_FIELDS.ladders
          = {"total", "system", "user", "iowait", "steal", "ctx_switches"}
    BY DEF CPU_FIELDS, Plain
  <2>3. QED
    BY <2>1, <2>2
<1>3. Ascends(LOAD_FIELDS) /\ Ascends(NETWORK_FIELDS)
  BY DEF LOAD_FIELDS, NETWORK_FIELDS, Plain
<1>4. Ascends(SYSTEM_FIELDS) /\ Ascends(UPTIME_FIELDS) /\ Ascends(DISKIO_FIELDS)
  BY DEF SYSTEM_FIELDS, UPTIME_FIELDS, DISKIO_FIELDS, Plain
<1>5. \A p \in Plugins : Ascends(FieldsOf(p))
  BY <1>1, <1>2, <1>3, <1>4, TableOf DEF Plugins
<1>6. QED
  BY <1>5 DEF LaddersAscend, BuiltinThresholds, AlertFields

\* What a source has beside its readings.
SourceShape ==
    /\ source.plugin \in Plugins
    /\ "readable" \in DOMAIN source
          <=> source.plugin \in {"mem", "memswap", "cpu"}
    /\ "aliased" \in DOMAIN source
          <=> source.plugin \in {"fs", "network", "diskio"}
    /\ "listed" \in DOMAIN source <=> source.plugin = "fs"

LEMMA InitSourceShape == ASSUME CollectInit PROVE SourceShape
<1>1. \A f \in Filters : DOMAIN f = {"name", "show", "hide", "aliased"}
  BY DEF Filters
<1>2. CASE source \in MemSources
  BY <1>2 DEF MemSources, SourceShape, Plugins
<1>3. CASE source \in SwapSources
  BY <1>3 DEF SwapSources, SourceShape, Plugins
<1>4. CASE source \in FsSources
  <2>1. PICK s \in FsRead \cup FsHeld, f \in Filters : source = Both(s, f)
    BY <1>4 DEF FsSources
  <2>2. /\ {"plugin", "listed"} \subseteq DOMAIN s
        /\ DOMAIN s \cap {"readable", "aliased"} = {}
        /\ s.plugin = "fs"
    BY DEF FsRead, FsHeld
  <2>3. source.plugin = "fs" /\ DOMAIN source = DOMAIN s \cup DOMAIN f
    BY <2>1, <2>2, BothFacts DEF Both
  <2>4. QED
    BY <1>1, <2>2, <2>3 DEF SourceShape, Plugins
<1>5. CASE source \in CpuSources
  BY <1>5 DEF CpuSources, SourceShape, Plugins
<1>6. CASE source \in KeyedSources
  <2>1. PICK s \in [plugin: {"network", "diskio"}, linkKnown: BOOLEAN],
             f \in Filters : source = Both(s, f)
    BY <1>6 DEF KeyedSources
  <2>2. DOMAIN s = {"plugin", "linkKnown"} /\ s.plugin \in {"network", "diskio"}
    OBVIOUS
  <2>3. source.plugin = s.plugin /\ DOMAIN source = DOMAIN s \cup DOMAIN f
    BY <2>1, <2>2, BothFacts DEF Both
  <2>4. QED
    BY <1>1, <2>2, <2>3 DEF SourceShape, Plugins
<1>7. CASE source \in [plugin: {"load", "uptime", "system"}]
  BY <1>7 DEF SourceShape, Plugins
<1>8. QED
  BY <1>2, <1>3, <1>4, <1>5, <1>6, <1>7 DEF CollectInit

\* An item and the table of its plugin.
Fits(item) ==
    LET table == FieldsOf(source.plugin) IN
    /\ DOMAIN item \subseteq table.names
    /\ Complete => DOMAIN item = table.names \ LeftOut
    /\ \A f \in DOMAIN item : item[f].kind = "rate" <=> f \in table.rates
    /\ table.keys \subseteq DOMAIN item
    /\ \A f \in table.watched \cap DOMAIN item :
          f \in DOMAIN table.divisors => table.divisors[f] \in DOMAIN item

LEMMA ReadableItemsFit ==
    ASSUME SourceShape
    PROVE  /\ source.plugin = "mem" => Fits(MemItem)
           /\ source.plugin = "memswap" => Fits(MemSwapItem)
           /\ source.plugin = "cpu" => Fits(CpuItem)
<1>1. ASSUME source.plugin \in {"mem", "memswap", "cpu"}
      PROVE  LeftOut = {} /\ (Complete <=> source.readable)
  BY <1>1 DEF SourceShape, LeftOut, Complete
<1>2. ASSUME source.plugin = "mem" PROVE Fits(MemItem)
  <2>1. /\ MEM_FIELDS.names = {"total", "available", "percent", "used", "free",
                               "active", "inactive", "buffers", "cached",
                               "shared", "slab"}
        /\ MEM_FIELDS.keys = {} /\ MEM_FIELDS.rates = {}
        /\ DOMAIN MEM_FIELDS.divisors = {}
    BY DEF MEM_FIELDS, Plain
  <2>2. FieldsOf(source.plugin) = MEM_FIELDS
    BY <1>2, TableOf
  <2>3. CASE source.readable
    BY <1>1, <1>2, <2>1, <2>2, <2>3, MemShape DEF Shape, Fits
  <2>4. CASE ~source.readable
    BY <1>1, <1>2, <2>1, <2>2, <2>4, MemShape DEF Shape, Fits
  <2>5. QED
    BY <2>3, <2>4
<1>3. ASSUME source.plugin = "memswap" PROVE Fits(MemSwapItem)
  <2>1. MEMSWAP_FIELDS.keys = {} /\ DOMAIN MEMSWAP_FIELDS.divisors = {}
    BY DEF MEMSWAP_FIELDS, Plain
  <2>2. FieldsOf(source.plugin) = MEMSWAP_FIELDS
    BY <1>3, TableOf
  <2>3. QED
    BY <1>1, <1>3, <2>1, <2>2, SwapShape DEF Shape, Fits
<1>4. ASSUME source.plugin = "cpu" PROVE Fits(CpuItem)
  <2>1. /\ CPU_FIELDS.keys = {} /\ "cpucore" \in CPU_FIELDS.names
        /\ "cpucore" \notin CPU_FIELDS.watched
        /\ "cpucore" \notin CPU_FIELDS.rates
        /\ DOMAIN CPU_FIELDS.divisors = {"ctx_switches"}
        /\ CPU_FIELDS.divisors["ctx_switches"] = "cpucore"
    BY DEF CPU_FIELDS, Plain
  <2>2. FieldsOf(source.plugin) = CPU_FIELDS
    BY <1>4, TableOf
  <2>3. CASE source.readable
    BY <1>1, <1>4, <2>1, <2>2, <2>3, CpuShape DEF Shape, Fits
  <2>4. CASE ~source.readable
    BY <1>1, <1>4, <2>1, <2>2, <2>4, CpuShape DEF Shape, Fits
  <2>5. QED
    BY <2>3, <2>4
<1>5. QED
  BY <1>2, <1>3, <1>4

LEMMA KeyedItemsFit ==
    ASSUME SourceShape
    PROVE  /\ source.plugin = "fs" => Fits(FsItem)
           /\ source.plugin = "network" => Fits(NetworkItem)
           /\ source.plugin = "diskio" => Fits(DiskioItem)
<1>1. ASSUME source.plugin \in {"fs", "network", "diskio"}
      PROVE  /\ Complete
             /\ LeftOut = (IF source.aliased THEN {} ELSE {"alias"})
                            \cup (IF source.plugin = "fs" /\ ~source.listed
                                  THEN {"options"} ELSE {})
  BY <1>1 DEF SourceShape, LeftOut, Complete
<1>2. ASSUME source.plugin = "fs" PROVE Fits(FsItem)
  <2>1. /\ FS_FIELDS.keys = {"mnt_point"} /\ "mnt_point" \in FS_FIELDS.names
        /\ FS_FIELDS.rates = {} /\ DOMAIN FS_FIELDS.divisors = {}
    BY DEF FS_FIELDS, Plain
  <2>2. FieldsOf(source.plugin) = FS_FIELDS
    BY <1>2, TableOf
  <2>3. LeftOut = (IF source.aliased THEN {} ELSE {"alias"})
                    \cup (IF source.listed THEN {} ELSE {"options"})
    BY <1>1, <1>2
  <2>4. QED
    BY <2>1, <2>2, <2>3, FsShape DEF Shape, Fits
<1>3. ASSUME source.plugin = "network" PROVE Fits(NetworkItem)
  <2>1. /\ NETWORK_FIELDS.keys = {"interface_name"}
        /\ "interface_name" \in NETWORK_FIELDS.names
        /\ "bytes_speed_rate_per_sec" \in NETWORK_FIELDS.names
        /\ \A f \in DOMAIN NETWORK_FIELDS.divisors :
              NETWORK_FIELDS.divisors[f] = "bytes_speed_rate_per_sec"
    BY DEF NETWORK_FIELDS, Plain
  <2>2. FieldsOf(source.plugin) = NETWORK_FIELDS
    BY <1>3, TableOf
  <2>3. LeftOut = IF source.aliased THEN {} ELSE {"alias"}
    BY <1>1, <1>3
  <2>4. QED
    BY <2>1, <2>2, <2>3, NetworkShape DEF Shape, Fits
<1>4. ASSUME source.plugin = "diskio" PROVE Fits(DiskioItem)
  <2>1. /\ DISKIO_FIELDS.keys = {"disk_name"}
        /\ "disk_name" \in DISKIO_FIELDS.names
        /\ DOMAIN DISKIO_FIELDS.divisors = {}
    BY DEF DISKIO_FIELDS, Plain
  <2>2. FieldsOf(source.plugin) = DISKIO_FIELDS
    BY <1>4, TableOf
  <2>3. LeftOut = IF source.aliased THEN {} ELSE {"alias"}
    BY <1>1, <1>4
  <2>4. QED
    BY <2>1, <2>2, <2>3, DiskioShape DEF Shape, Fits
<1>5. QED
  BY <1>2, <1>3, <1>4
LEMMA PlainItemsFit ==
    ASSUME SourceShape
    PROVE  /\ source.plugin = "load" =>
                 Fits(Each({"min1", "min5", "min15", "cpucore"}, Counted))
           /\ source.plugin = "uptime" => Fits([seconds |-> Counted])
           /\ source.plugin = "system" =>
                 Fits(Each({"os_name", "hostname", "platform", "os_version",
                            "linux_distro", "hr_name"}, Text))
<1>1. ASSUME source.plugin \in {"load", "uptime", "system"}
      PROVE  LeftOut = {}
  BY <1>1 DEF SourceShape, LeftOut
<1>2. ASSUME source.plugin = "load"
      PROVE  Fits(Each({"min1", "min5", "min15", "cpucore"}, Counted))
  <2>1. /\ LOAD_FIELDS.names = {"min1", "min5", "min15", "cpucore"}
        /\ LOAD_FIELDS.keys = {} /\ LOAD_FIELDS.rates = {}
        /\ \A f \in DOMAIN LOAD_FIELDS.divisors :
              LOAD_FIELDS.divisors[f] = "cpucore"
    BY DEF LOAD_FIELDS, Plain
  <2>2. FieldsOf(source.plugin) = LOAD_FIELDS
    BY <1>2, TableOf
  <2> DEFINE item == Each({"min1", "min5", "min15", "cpucore"}, Counted)
  <2>3. /\ DOMAIN item = LOAD_FIELDS.names
        /\ \A f \in DOMAIN item : ~(item[f].kind = "rate")
    BY <2>1, EachShape DEF Shape
  <2> HIDE DEF item
  <2>4. Fits(item)
    BY <1>1, <1>2, <2>1, <2>2, <2>3 DEF Fits
  <2>5. QED
    BY <2>4 DEF item
<1>3. ASSUME source.plugin = "uptime" PROVE Fits([seconds |-> Counted])
  <2>1. /\ UPTIME_FIELDS.names = {"seconds"}
        /\ UPTIME_FIELDS.keys = {} /\ UPTIME_FIELDS.rates = {}
        /\ DOMAIN UPTIME_FIELDS.divisors = {}
    BY DEF UPTIME_FIELDS, Plain
  <2>2. FieldsOf(source.plugin) = UPTIME_FIELDS
    BY <1>3, TableOf
  <2>3. QED
    BY <1>1, <1>3, <2>1, <2>2 DEF Fits, Counted, Amount
<1>4. ASSUME source.plugin = "system"
      PROVE  Fits(Each({"os_name", "hostname", "platform", "os_version",
                        "linux_distro", "hr_name"}, Text))
  <2>1. /\ SYSTEM_FIELDS.names = {"os_name", "hostname", "platform",
                                  "linux_distro", "os_version", "hr_name"}
        /\ SYSTEM_FIELDS.keys = {} /\ SYSTEM_FIELDS.rates = {}
        /\ DOMAIN SYSTEM_FIELDS.divisors = {}
    BY DEF SYSTEM_FIELDS, Plain
  <2>2. FieldsOf(source.plugin) = SYSTEM_FIELDS
    BY <1>4, TableOf
  <2> DEFINE item == Each({"os_name", "hostname", "platform", "os_version",
                           "linux_distro", "hr_name"}, Text)
  <2>3. /\ DOMAIN item = SYSTEM_FIELDS.names
        /\ \A f \in DOMAIN item : ~(item[f].kind = "rate")
    BY <2>1, EachShape DEF Shape
  <2> HIDE DEF item
  <2>4. Fits(item)
    BY <1>1, <1>4, <2>1, <2>2, <2>3 DEF Fits
  <2>5. QED
    BY <2>4 DEF item
<1>5. QED
  BY <1>2, <1>3, <1>4

\* The envelopes: the key is the table's, and what is spread beside the
\* fields of a scalar plugin is none of them.
EnvelopeFits(p, key, top) ==
    /\ key = KeyField(p)
    /\ FieldsOf(p).keys = IF key = "none" THEN {} ELSE {key}
    /\ key = "none" => FieldsOf(p).names \cap top = {}

LEMMA EnvelopesDo ==
    /\ \A p \in {"mem", "memswap", "cpu", "load", "uptime", "system"} :
          EnvelopeFits(p, "none", {"time_since_update", "_levels"})
    /\ \A top : EnvelopeFits("fs", "mnt_point", top)
    /\ \A top : EnvelopeFits("network", "interface_name", top)
    /\ \A top : EnvelopeFits("diskio", "disk_name", top)
<1> DEFINE Beside(table) ==
      /\ table.keys = {}
      /\ "time_since_update" \notin table.names
      /\ "_levels" \notin table.names
<1>1. Beside(MEM_FIELDS)
  BY DEF MEM_FIELDS, Plain
<1>2. Beside(MEMSWAP_FIELDS)
  BY DEF MEMSWAP_FIELDS, Plain
<1>3. Beside(CPU_FIELDS)
  BY DEF CPU_FIELDS, Plain
<1>4. Beside(LOAD_FIELDS)
  BY DEF LOAD_FIELDS, Plain
<1>5. Beside(UPTIME_FIELDS)
  BY DEF UPTIME_FIELDS, Plain
<1>6. Beside(SYSTEM_FIELDS)
  BY DEF SYSTEM_FIELDS, Plain
<1>7. /\ FS_FIELDS.keys = {"mnt_point"}
      /\ NETWORK_FIELDS.keys = {"interface_name"}
      /\ DISKIO_FIELDS.keys = {"disk_name"}
  BY DEF FS_FIELDS, NETWORK_FIELDS, DISKIO_FIELDS, Plain
<1>8. \A p \in {"mem", "memswap", "cpu", "load", "uptime", "system"} :
         Beside(FieldsOf(p)) /\ KeyField(p) = "none"
  <2> HIDE DEF Beside
  <2>1. QED
    BY <1>1, <1>2, <1>3, <1>4, <1>5, <1>6, TableOf DEF KeyField
<1>9. /\ KeyField("fs") = "mnt_point" /\ KeyField("diskio") = "disk_name"
      /\ KeyField("network") = "interface_name"
  BY DEF KeyField
<1>10. \A p \in {"mem", "memswap", "cpu", "load", "uptime", "system"} :
          EnvelopeFits(p, "none", {"time_since_update", "_levels"})
  BY <1>8 DEF EnvelopeFits
<1>11. QED
  BY <1>7, <1>9, <1>10, TableOf DEF EnvelopeFits

-----------------------------------------------------------------------------
(* The invariant *)

Tables ==
    /\ SourceShape
    /\ payload.items # {} =>
          EnvelopeFits(source.plugin, payload.key, payload.top)
    /\ \A item \in payload.items : Fits(item)

\* What an envelope carries fits, if the item and the envelope do.
LEMMA ScalarFits ==
    ASSUME NEW item, payload' = Envelope(item), Fits(item),
           EnvelopeFits(source.plugin, "none", {"time_since_update", "_levels"})
    PROVE  /\ EnvelopeFits(source.plugin, payload'.key, payload'.top)
           /\ \A i \in payload'.items : Fits(i)
<1>1. /\ payload'.items = {item} /\ payload'.key = "none"
      /\ payload'.top = {"time_since_update", "_levels"}
  BY DEF Envelope
<1>2. QED
  BY <1>1

LEMMA KeyedFits ==
    ASSUME NEW item, NEW key,
           payload' = EnvelopeKeyed(IF ShownItem THEN {item} ELSE {}, key),
           Fits(item), \A top : EnvelopeFits(source.plugin, key, top)
    PROVE  /\ EnvelopeFits(source.plugin, payload'.key, payload'.top)
           /\ \A i \in payload'.items : Fits(i)
<1>1. /\ payload'.items \subseteq {item} /\ payload'.key = key
  BY DEF EnvelopeKeyed
<1>2. QED
  BY <1>1

LEMMA StepTables ==
    ASSUME Tables, [CollectNext]_<<source, payload>>
    PROVE  Tables'
<1> DEFINE Good == /\ EnvelopeFits(source.plugin, payload'.key, payload'.top)
                   /\ \A i \in payload'.items : Fits(i)
<1>1. source' = source
  BY DEF CollectNext
<1>2. SourceShape
  BY DEF Tables
<1>3. SourceShape' /\ (\A item : Fits(item)' <=> Fits(item))
  BY <1>1, <1>2 DEF SourceShape, Fits, Complete, LeftOut
<1>4. CASE UNCHANGED <<source, payload>>
  BY <1>1, <1>3, <1>4 DEF Tables
<1>5. CASE CollectMem \/ CollectMemSwap \/ CollectCpu
  <2>1. Good
    BY <1>2, <1>5, ReadableItemsFit, ScalarFits, EnvelopesDo
    DEF CollectMem, CollectMemSwap, CollectCpu
  <2>2. QED
    BY <1>1, <1>3, <2>1 DEF Tables
<1>6. CASE CollectFs
  <2>1. Good
    BY <1>2, <1>6, KeyedItemsFit, KeyedFits, EnvelopesDo DEF CollectFs
  <2>2. QED
    BY <1>1, <1>3, <2>1 DEF Tables
<1>7. CASE CollectNetwork
  <2>1. Good
    BY <1>2, <1>7, KeyedItemsFit, KeyedFits, EnvelopesDo DEF CollectNetwork
  <2>2. QED
    BY <1>1, <1>3, <2>1 DEF Tables
<1>8. CASE CollectDiskio
  <2>1. Good
    BY <1>2, <1>8, KeyedItemsFit, KeyedFits, EnvelopesDo DEF CollectDiskio
  <2>2. QED
    BY <1>1, <1>3, <2>1 DEF Tables
<1>9. CASE CollectLoad \/ CollectUptime \/ CollectSystem
  <2>1. Good
    BY <1>2, <1>9, PlainItemsFit, ScalarFits, EnvelopesDo
    DEF CollectLoad, CollectUptime, CollectSystem
  <2>2. QED
    BY <1>1, <1>3, <2>1 DEF Tables
<1>10. QED
  BY <1>4, <1>5, <1>6, <1>7, <1>8, <1>9 DEF CollectNext

LEMMA TablesHold == CollectSpec => []Tables
<1>1. CollectInit => Tables
  BY InitSourceShape DEF CollectInit, NoPayload, Tables
<1>2. Tables /\ [CollectNext]_<<source, payload>> => Tables'
  BY StepTables
<1>3. QED
  BY <1>1, <1>2, PTL DEF CollectSpec

(***************************************************************************)
(* What collect() emits is what /info lists (fields.rs:412), on every path *)
(* of every plugin, whatever is missing, hidden or aliased.                *)
(***************************************************************************)
THEOREM EmitsWhatInfoLists == CollectSpec => []PayloadAsDeclared
<1>1. Tables => PayloadAsDeclared
  <2> SUFFICES ASSUME Tables, NEW item \in payload.items
               PROVE  LET names == DOMAIN Info(source.plugin) IN
                      /\ DOMAIN item \subseteq names
                      /\ Complete => DOMAIN item = names \ LeftOut
                      /\ payload.key = "none" =>
                            DOMAIN item \cap payload.top = {}
    BY DEF PayloadAsDeclared
  <2>1. Fits(item) /\ EnvelopeFits(source.plugin, payload.key, payload.top)
    BY DEF Tables
  <2>2. QED
    BY <2>1, InfoFacts DEF Fits, EnvelopeFits
<1>2. QED
  BY <1>1, TablesHold, PTL

(***************************************************************************)
(* Every watched field of every payload can be judged: its divisor and the *)
(* item's key are there, and the built-in ladders are of watched fields    *)
(* and ascend (alerts.rs:306-345, 388-412).                                *)
(***************************************************************************)
THEOREM AlertsFindWhatTheyRead == CollectSpec => []AlertsCanRead
<1>1. Tables => AlertsCanRead
  <2> SUFFICES ASSUME Tables, NEW item \in payload.items
               PROVE  LET p == source.plugin
                          table == FieldsOf(p)
                          ladders == BuiltinThresholds(p)
                      IN  /\ \A f \in AlertFields(p) \cap DOMAIN item :
                                f \in DOMAIN table.divisors =>
                                    table.divisors[f] \in DOMAIN item
                          /\ payload.key = KeyField(p)
                          /\ table.keys = IF payload.key = "none" THEN {}
                                          ELSE {payload.key}
                          /\ table.keys \subseteq DOMAIN item
                          /\ \A f \in DOMAIN ladders :
                                /\ f \in AlertFields(p)
                                /\ ladders[f][1] <= ladders[f][2]
                                /\ ladders[f][2] <= ladders[f][3]
    BY DEF AlertsCanRead
  <2>1. Fits(item) /\ EnvelopeFits(source.plugin, payload.key, payload.top)
    BY DEF Tables
  <2>2. LaddersAscend(source.plugin)
    BY LaddersDo DEF Tables, SourceShape
  <2>3. QED
    BY <2>1, <2>2 DEF Fits, EnvelopeFits, LaddersAscend, AlertFields
<1>2. QED
  BY <1>1, TablesHold, PTL

(***************************************************************************)
(* The rate flag of /info means a per-second figure, for every field that  *)
(* any plugin emits.                                                       *)
(***************************************************************************)
THEOREM RateFlagsMeanRates == CollectSpec => []RateFlagsHonest
<1>1. Tables => RateFlagsHonest
  <2> SUFFICES ASSUME Tables, NEW item \in payload.items, NEW f \in DOMAIN item
               PROVE  (item[f].kind = "rate") = Info(source.plugin)[f].rate
    BY DEF RateFlagsHonest
  <2>1. Fits(item)
    BY DEF Tables
  <2>2. /\ f \in FieldsOf(source.plugin).names
        /\ (item[f].kind = "rate") = (f \in FieldsOf(source.plugin).rates)
    BY <2>1 DEF Fits
  <2>3. QED
    BY <2>2, InfoFacts
<1>2. QED
  BY <1>1, TablesHold, PTL
=============================================================================
