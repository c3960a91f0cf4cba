--------------------------- MODULE Delivery_proofs ---------------------------
(***************************************************************************)
(* Proofs about Delivery, and so about the modules it composes.            *)
(*                                                                         *)
(* The sums of an envelope and of a draft are recursive functions; what    *)
(* they compute is shown by induction over the numbers in a set.  With it: *)
(*   - a package of pack() fits every limit it meets later, and where      *)
(*     unpack() stands is the sum of the files it has read;                *)
(*   - a count of a draft, wherever its chunks end, is that of its first   *)
(*     units and never stops inside a surrogate pair;                      *)
(*   - the transfer of a packet is a behaviour of BoundedRead whose body   *)
(*     is the packet: it has its length before a response begins and keeps *)
(*     it until the recipient has taken the bytes, so what BoundedRead     *)
(*     guarantees for every body holds of it.                              *)
(***************************************************************************)
EXTENDS Delivery, FiniteSetTheorems, WellFoundedInduction, TLAPS

(* Induction over the naturals, for a set.                                 *)
LEMMA Inductive ==
    ASSUME NEW S, 0 \in S, \A n \in Nat : n \in S => n + 1 \in S
    PROVE  Nat \subseteq S
<1> DEFINE T == Nat \ S
<1> SUFFICES ASSUME T # {} PROVE FALSE
  OBVIOUS
<1>1. PICK n \in T : \A m \in T : <<m, n>> \notin OpToRel(<, Nat)
  <2>1. T \subseteq Nat
    OBVIOUS
  <2> HIDE DEF T
  <2> QED
    BY <2>1, NatLessThanWellFounded, WFMin, Zenon
<1>2. n \in Nat /\ n \notin S
  OBVIOUS
<1>3. n # 0
  BY <1>2
<1>4. n - 1 \in Nat /\ n - 1 < n /\ (n - 1) + 1 = n
  BY <1>2, <1>3
<1>5. n - 1 \in S
  <2>1. <<n - 1, n>> \in OpToRel(<, Nat)
    BY <1>2, <1>4 DEF OpToRel
  <2> QED
    BY <1>1, <1>4, <2>1
<1> QED
  BY <1>2, <1>4, <1>5

(* g starts from s in V, and F takes it from each argument to the next.    *)
Runs(g, V, s, F, n) ==
    /\ g \in [0 .. n -> V] /\ g[0] = s
    /\ \A k \in 1 .. n : g[k] = F[<<k, g[k - 1]>>]

(* A recursion over 0 .. n defines a function.                             *)
LEMMA Recursion ==
    ASSUME NEW V, NEW s \in V, NEW F \in [Nat \X V -> V], NEW n \in Nat
    PROVE  \E g : Runs(g, V, s, F, n)
<1> DEFINE S == {m \in Nat : \E g : Runs(g, V, s, F, m)}
<1>1. 0 \in S
  <2>1. Runs([k \in 0 .. 0 |-> s], V, s, F, 0)
    BY DEF Runs
  <2> QED
    BY <2>1
<1>2. ASSUME NEW m \in Nat, m \in S PROVE m + 1 \in S
  <2>1. PICK g : Runs(g, V, s, F, m)
    BY <1>2
  <2> DEFINE h == [k \in 0 .. m + 1 |-> IF k = m + 1 THEN F[<<m + 1, g[m]>>] ELSE g[k]]
  <2>2. g[m] \in V /\ F[<<m + 1, g[m]>>] \in V
    BY <2>1 DEF Runs
  <2>3. h \in [0 .. m + 1 -> V] /\ h[0] = s
    BY <2>1, <2>2 DEF Runs
  <2>4. ASSUME NEW k \in 1 .. m + 1 PROVE h[k] = F[<<k, h[k - 1]>>]
    <3>1. CASE k = m + 1
      <4>1. h[k] = F[<<m + 1, g[m]>>] /\ h[k - 1] = g[m]
        BY <3>1
      <4> QED
        BY <3>1, <4>1
    <3>2. CASE k \in 1 .. m
      <4>1. h[k] = g[k] /\ h[k - 1] = g[k - 1]
        BY <3>2
      <4> QED
        BY <2>1, <3>2, <4>1 DEF Runs
    <3> QED
      BY <3>1, <3>2
  <2>5. Runs(h, V, s, F, m + 1)
    <3> HIDE DEF h
    <3> QED
      BY <2>3, <2>4 DEF Runs
  <2> HIDE DEF h
  <2> QED
    BY <2>5
<1>3. n \in S
  <2> HIDE DEF S
  <2> QED
    BY <1>1, <1>2, Inductive
<1> QED
  BY <1>3

(* Two functions that proceed alike from the same value are alike.         *)
LEMMA Agreement ==
    ASSUME NEW n \in Nat, NEW g, NEW h, g[0] = h[0],
           \A k \in 1 .. n : g[k - 1] = h[k - 1] => g[k] = h[k]
    PROVE  \A k \in 0 .. n : g[k] = h[k]
<1> DEFINE S == {m \in Nat : m <= n => g[m] = h[m]}
<1>1. 0 \in S /\ \A m \in Nat : m \in S => m + 1 \in S
  OBVIOUS
<1>2. Nat \subseteq S
  <2> HIDE DEF S
  <2> QED
    BY <1>1, Inductive
<1> QED
  BY <1>2

(* A sum that never goes down is greatest at its end.                      *)
LEMMA Climbing ==
    ASSUME NEW n \in Nat, NEW g \in [0 .. n -> Int],
           \A k \in 1 .. n : g[k - 1] <= g[k]
    PROVE  \A k \in 0 .. n : g[0] <= g[k] /\ g[k] <= g[n]
<1> DEFINE U == {m \in Nat : m <= n => g[0] <= g[m]}
           D == {m \in Nat : m <= n => g[n - m] <= g[n]}
<1>1. 0 \in U /\ \A m \in Nat : m \in U => m + 1 \in U
  OBVIOUS
<1>2. 0 \in D
  OBVIOUS
<1>3. ASSUME NEW m \in Nat, m \in D PROVE m + 1 \in D
  <2>1. CASE m + 1 <= n
    <3>1. g[n - m] \in Int /\ g[n - (m + 1)] \in Int /\ g[n] \in Int
      BY <2>1
    <3>2. g[(n - m) - 1] <= g[n - m] /\ (n - m) - 1 = n - (m + 1)
      BY <2>1
    <3> QED
      BY <1>3, <2>1, <3>1, <3>2
  <2> QED
    BY <2>1
<1>4. Nat \subseteq U /\ Nat \subseteq D
  <2> HIDE DEF U, D
  <2> QED
    BY <1>1, <1>2, <1>3, Inductive
<1>5. ASSUME NEW k \in 0 .. n PROVE g[k] <= g[n]
  <2>1. n - k \in Nat /\ n - (n - k) = k
    OBVIOUS
  <2>2. n - k \in D
    <3> HIDE DEF D
    <3> QED
      BY <1>4, <2>1
  <2> QED
    BY <2>1, <2>2
<1> QED
  BY <1>4, <1>5
-------------------------------------------------------------------------------
(* Multiples and padding *)

LEMMA Scaled ==
    ASSUME NEW a \in Nat, NEW b \in Nat, NEW p \in Nat, a <= b
    PROVE  a * p <= b * p /\ a * p \in Nat /\ b * p \in Nat
<1>1. PICK d \in Nat : b = a + d
  BY b - a \in Nat
<1>2. b * p = a * p + d * p /\ d * p \in Nat /\ a * p \in Nat
  BY <1>1
<1> QED
  BY <1>2

LEMMA OneMoreTimes ==
    ASSUME NEW a \in Nat, NEW p \in Nat PROVE (a + 1) * p = a * p + p /\ a * p \in Nat
OBVIOUS

LEMMA Quotient ==
    ASSUME NEW n \in Nat, NEW p \in Nat \ {0}
    PROVE  /\ n \div p \in Nat
           /\ (n \div p) * p <= n /\ n < (n \div p) * p + p
OBVIOUS

LEMMA Multiple ==
    ASSUME NEW q \in Nat, NEW p \in Nat \ {0} PROVE (q * p) % p = 0
<1>1. q * p \in Nat
  OBVIOUS
<1> QED
  BY <1>1

(* The least multiple of Padding that holds n.                             *)
LEMMA PadIs ==
    ASSUME EnvelopeAssumption, NEW n \in Nat
    PROVE  /\ Pad(n) \in Nat /\ n <= Pad(n) /\ Pad(n) < n + Padding
           /\ Pad(n) % Padding = 0
           /\ n > 0 => Pad(n) >= Padding
           /\ \A m \in Nat : m <= n => Pad(m) <= Pad(n)
<1>1. Padding \in Nat \ {0}
  BY DEF EnvelopeAssumption
<1> DEFINE q(k) == (k + Padding - 1) \div Padding
<1>2. ASSUME NEW k \in Nat
      PROVE /\ q(k) \in Nat /\ q(k) * Padding \in Nat
            /\ q(k) * Padding <= k + Padding - 1 /\ k + Padding - 1 < q(k) * Padding + Padding
  <2>1. k + Padding - 1 \in Nat
    BY <1>1
  <2> DEFINE m == k + Padding - 1
  <2> HIDE DEF m
  <2> QED
    BY <1>1, <2>1, Quotient, Scaled DEF m
<1> HIDE DEF q
<1>3. \A k \in Nat : Pad(k) = q(k) * Padding
  BY DEF Pad, q
<1>4. Pad(n) \in Nat /\ n <= Pad(n) /\ Pad(n) < n + Padding
  BY <1>1, <1>2, <1>3
<1>5. Pad(n) % Padding = 0
  BY <1>1, <1>2, <1>3, Multiple
<1>6. n > 0 => Pad(n) >= Padding
  <2>1. CASE q(n) = 0
    BY <1>1, <1>2, <2>1
  <2>2. CASE q(n) >= 1
    <3>1. 1 * Padding <= q(n) * Padding
      BY <1>1, <1>2, <2>2, Scaled
    <3> QED
      BY <1>1, <1>3, <3>1
  <2> QED
    BY <1>2, <2>1, <2>2
<1>7. ASSUME NEW m \in Nat, m <= n PROVE Pad(m) <= Pad(n)
  <2>1. CASE q(m) <= q(n)
    <3>1. q(m) * Padding <= q(n) * Padding
      BY <1>1, <1>2, <2>1, Scaled
    <3> QED
      BY <1>3, <3>1
  <2>2. CASE q(n) + 1 <= q(m)
    <3>1. ASSUME NEW a \in Nat, NEW b \in Nat, NEW p \in Nat, a + 1 <= b
          PROVE  a * p + p <= b * p
      <4>1. (a + 1) * p <= b * p
        BY <3>1, Scaled
      <4> QED
        BY <4>1
    <3>2. q(n) * Padding + Padding <= q(m) * Padding
      BY <1>1, <1>2, <2>2, <3>1
    <3> QED
      BY <1>1, <1>2, <1>7, <3>2
  <2> QED
    BY <1>2, <2>1, <2>2
<1> QED
  BY <1>4, <1>5, <1>6, <1>7

(* A function that proceeds within a set stays in it.                      *)
LEMMA Staying ==
    ASSUME NEW V, NEW n \in Nat, NEW g, DOMAIN g = 0 .. n, g = [k \in DOMAIN g |-> g[k]],
           g[0] \in V, \A k \in 1 .. n : g[k - 1] \in V => g[k] \in V
    PROVE  g \in [0 .. n -> V]
<1> DEFINE S == {m \in Nat : m <= n => g[m] \in V}
<1>1. 0 \in S
  OBVIOUS
<1>3. ASSUME NEW m \in Nat, m \in S PROVE m + 1 \in S
  <2>1. CASE m + 1 <= n
    <3>1. m + 1 \in 1 .. n /\ (m + 1) - 1 = m /\ m <= n
      BY <2>1
    <3>2. g[m] \in V
      BY <1>3, <3>1
    <3>3. g[m + 1] \in V
      BY <3>1, <3>2
    <3> QED
      BY <3>3
  <2> QED
    BY <2>1
<1>2. Nat \subseteq S
  <2> HIDE DEF S
  <2> QED
    BY <1>1, <1>3, Inductive
<1> QED
  BY <1>2

-------------------------------------------------------------------------------
(* Sums *)

(* g[n] is s and the first n of the weights w.                             *)
Adds(g, s, w, m) ==
    /\ g \in [0 .. m -> Nat] /\ g[0] = s
    /\ \A n \in 1 .. m : g[n] = g[n - 1] + w[n]

Summing(g, s, w, m) == g = [n \in 0 .. m |-> IF n = 0 THEN s ELSE g[n - 1] + w[n]]

LEMMA SummingAdds ==
    ASSUME NEW m \in Nat, NEW s \in Nat, NEW w \in [1 .. m -> Nat], NEW g
    PROVE  Summing(g, s, w, m) <=> Adds(g, s, w, m)
<1>1. ASSUME Adds(g, s, w, m) PROVE Summing(g, s, w, m)
  BY <1>1 DEF Adds, Summing
<1>2. ASSUME Summing(g, s, w, m) PROVE Adds(g, s, w, m)
  <2>1. /\ DOMAIN g = 0 .. m /\ g = [n \in DOMAIN g |-> g[n]] /\ g[0] = s
        /\ \A n \in 1 .. m : g[n] = g[n - 1] + w[n]
    BY <1>2 DEF Summing
  <2>2. \A n \in 1 .. m : g[n - 1] \in Nat => g[n] \in Nat
    BY <2>1
  <2>3. g \in [0 .. m -> Nat]
    BY <2>1, <2>2, Staying
  <2> QED
    BY <2>1, <2>3 DEF Adds
<1> QED
  BY <1>1, <1>2

(* A sum is defined wherever its weights are.                              *)
LEMMA SumExists ==
    ASSUME NEW m \in Nat, NEW s \in Nat, NEW w \in [1 .. m -> Nat]
    PROVE  \E g : Adds(g, s, w, m)
<1>1. ASSUME NEW F, F = [x \in Nat \X Nat |-> x[2] + IF x[1] \in 1 .. m THEN w[x[1]] ELSE 0]
      PROVE  \E g : Adds(g, s, w, m)
  <2>1. F \in [Nat \X Nat -> Nat] /\ \A n \in 1 .. m, v \in Nat : F[<<n, v>>] = v + w[n]
    BY <1>1
  <2>2. F \in [Nat \X Nat -> Nat]
    BY <2>1
  <2>3. PICK g : Runs(g, Nat, s, F, m)
    BY <2>2, Recursion
  <2>4. g \in [0 .. m -> Nat] /\ g[0] = s /\ \A n \in 1 .. m : g[n] = F[<<n, g[n - 1]>>]
    BY <2>3 DEF Runs
  <2>5. ASSUME NEW n \in 1 .. m PROVE g[n] = g[n - 1] + w[n]
    <3>1. g[n - 1] \in Nat
      BY <2>4
    <3> QED
      BY <2>1, <2>4, <3>1
  <2> QED
    BY <2>4, <2>5 DEF Adds
<1> QED
  BY <1>1

LEMMA SumChosen ==
    ASSUME NEW m \in Nat, NEW s \in Nat, NEW w \in [1 .. m -> Nat]
    PROVE  Adds(CHOOSE g : Summing(g, s, w, m), s, w, m)
<1>1. \E g : Summing(g, s, w, m)
  BY SumExists, SummingAdds
<1>2. Summing(CHOOSE g : Summing(g, s, w, m), s, w, m)
  BY <1>1
<1> QED
  BY <1>2, SummingAdds

(* One more weight adds itself at the end.                                 *)
LEMMA AddsOneMore ==
    ASSUME NEW m \in Nat, NEW s, NEW w, NEW v, NEW g, NEW h,
           Adds(g, s, w, m), Adds(h, s, v, m + 1), \A n \in 1 .. m : v[n] = w[n]
    PROVE  h[m + 1] = g[m] + v[m + 1]
<1>1. g[0] = s /\ \A n \in 1 .. m : g[n] = g[n - 1] + w[n]
  BY DEF Adds
<1>2. h[0] = s /\ \A n \in 1 .. m + 1 : h[n] = h[n - 1] + v[n]
  BY DEF Adds
<1>3. h[m + 1] = h[m] + v[m + 1]
  BY <1>2
<1>4. \A n \in 1 .. m : h[n - 1] = g[n - 1] => h[n] = g[n]
  BY <1>1, <1>2
<1>5. h[m] = g[m]
  <2>1. h[0] = g[0]
    BY <1>1, <1>2
  <2>2. \A n \in 0 .. m : h[n] = g[n]
    BY <1>4, <2>1, Agreement
  <2> QED
    BY <2>2
<1> QED
  BY <1>3, <1>5

(* A sum is greatest at its end.                                           *)
LEMMA AddsClimb ==
    ASSUME NEW m \in Nat, NEW s, NEW w \in [1 .. m -> Nat], NEW g, Adds(g, s, w, m)
    PROVE  \A n \in 0 .. m : g[n] <= g[m]
<1>1. g \in [0 .. m -> Nat] /\ \A n \in 1 .. m : g[n] = g[n - 1] + w[n]
  BY DEF Adds
<1>2. ASSUME NEW n \in 1 .. m PROVE g[n - 1] <= g[n]
  <2>1. g[n - 1] \in Nat /\ w[n] \in Nat /\ g[n] = g[n - 1] + w[n]
    BY <1>1
  <2> QED
    BY <2>1
<1>3. g \in [0 .. m -> Int]
  BY <1>1
<1> QED
  BY <1>2, <1>3, Climbing

-------------------------------------------------------------------------------
(* The lengths of an envelope *)

WholesOf(fs) == [n \in 1 .. Len(fs) |-> Whole(fs[n])]
DatasOf(fs) == [n \in 1 .. Len(fs) |-> fs[n].data]

Sums(t, fs) == CHOOSE g : g = [n \in 0 .. Len(fs) |->
    IF n = 0 THEN InnerHeader + t ELSE g[n - 1] + Whole(fs[n])]

(* The content of the text and the first files. *)
Contents(t, fs) == CHOOSE g : Summing(g, t, DatasOf(fs), Len(fs))

LEMMA TotalIsSums == Total = Sums(text, files)
BY DEF Total, Sums

LEMMA FileLengths ==
    ASSUME NEW f \in FileSize
    PROVE  /\ f.name \in Nat /\ f.mime \in Nat /\ f.data \in Nat
           /\ Whole(f) = FileHeader + f.name + f.mime + f.data /\ Whole(f) \in Nat
<1>1. f.name \in Nat /\ f.mime \in Nat /\ f.data \in Nat
  BY DEF FileSize
<1> QED
  BY <1>1 DEF Whole, FileHeader

LEMMA WeightsOfFiles ==
    ASSUME NEW fs, fs \in Seq(FileSize)
    PROVE  /\ Len(fs) \in Nat /\ \A n \in 1 .. Len(fs) : fs[n] \in FileSize
           /\ WholesOf(fs) \in [1 .. Len(fs) -> Nat] /\ DatasOf(fs) \in [1 .. Len(fs) -> Nat]
           /\ \A n \in 1 .. Len(fs) : WholesOf(fs)[n] = Whole(fs[n]) /\ DatasOf(fs)[n] = fs[n].data
<1>1. Len(fs) \in Nat /\ \A n \in 1 .. Len(fs) : fs[n] \in FileSize
  OBVIOUS
<1>2. \A n \in 1 .. Len(fs) : Whole(fs[n]) \in Nat /\ fs[n].data \in Nat
  BY <1>1, FileLengths
<1> QED
  BY <1>1, <1>2 DEF WholesOf, DatasOf

LEMMA SumsAdd ==
    ASSUME NEW t, NEW fs
    PROVE  t \in Nat /\ fs \in Seq(FileSize) =>
               /\ Adds(Sums(t, fs), InnerHeader + t, WholesOf(fs), Len(fs))
               /\ Adds(Contents(t, fs), t, DatasOf(fs), Len(fs))
<1>1. SUFFICES ASSUME t \in Nat, fs \in Seq(FileSize)
               PROVE  /\ Adds(Sums(t, fs), InnerHeader + t, WholesOf(fs), Len(fs))
                      /\ Adds(Contents(t, fs), t, DatasOf(fs), Len(fs))
  OBVIOUS
<1>2. /\ Len(fs) \in Nat /\ WholesOf(fs) \in [1 .. Len(fs) -> Nat]
      /\ DatasOf(fs) \in [1 .. Len(fs) -> Nat]
      /\ \A n \in 1 .. Len(fs) : WholesOf(fs)[n] = Whole(fs[n])
  BY <1>1, WeightsOfFiles
<1>3. InnerHeader + t \in Nat
  BY <1>1 DEF InnerHeader
<1>4. Adds(Contents(t, fs), t, DatasOf(fs), Len(fs))
  BY <1>1, <1>2, SumChosen DEF Contents
<1>5. Sums(t, fs) = CHOOSE g : Summing(g, InnerHeader + t, WholesOf(fs), Len(fs))
  <2>1. ASSUME NEW g
        PROVE  (g = [n \in 0 .. Len(fs) |->
                        IF n = 0 THEN InnerHeader + t ELSE g[n - 1] + Whole(fs[n])])
               <=> Summing(g, InnerHeader + t, WholesOf(fs), Len(fs))
    BY <1>2 DEF Summing
  <2> QED
    BY <2>1 DEF Sums
<1> QED
  BY <1>2, <1>3, <1>4, <1>5, SumChosen

(* Appending a file adds its lengths at the end.                           *)
LEMMA SumsAppend ==
    ASSUME NEW t, NEW fs, NEW f
    PROVE  t \in Nat /\ fs \in Seq(FileSize) /\ f \in FileSize =>
               /\ Sums(t, Append(fs, f))[Len(fs) + 1] = Sums(t, fs)[Len(fs)] + Whole(f)
               /\ Contents(t, Append(fs, f))[Len(fs) + 1] = Contents(t, fs)[Len(fs)] + f.data
<1>1. ASSUME t \in Nat, fs \in Seq(FileSize), f \in FileSize,
             NEW more, more = Append(fs, f), NEW m, m = Len(fs)
      PROVE  /\ Sums(t, more)[m + 1] = Sums(t, fs)[m] + Whole(f)
             /\ Contents(t, more)[m + 1] = Contents(t, fs)[m] + f.data
  <2>1. /\ more \in Seq(FileSize) /\ Len(more) = m + 1 /\ m \in Nat /\ m + 1 \in 1 .. m + 1
        /\ more[m + 1] = f /\ \A n \in 1 .. m : more[n] = fs[n] /\ n \in 1 .. m + 1
    BY <1>1
  <2>2. /\ \A n \in 1 .. m : WholesOf(fs)[n] = Whole(fs[n]) /\ DatasOf(fs)[n] = fs[n].data
        /\ \A n \in 1 .. m + 1 : /\ WholesOf(more)[n] = Whole(more[n])
                                 /\ DatasOf(more)[n] = more[n].data
    BY <1>1, <2>1, WeightsOfFiles
  <2>3. /\ \A n \in 1 .. m : WholesOf(more)[n] = WholesOf(fs)[n] /\ DatasOf(more)[n] = DatasOf(fs)[n]
        /\ WholesOf(more)[m + 1] = Whole(f) /\ DatasOf(more)[m + 1] = f.data /\ m \in Nat
    BY <2>1, <2>2
  <2>4. /\ Adds(Sums(t, fs), InnerHeader + t, WholesOf(fs), m)
        /\ Adds(Contents(t, fs), t, DatasOf(fs), m)
        /\ Adds(Sums(t, more), InnerHeader + t, WholesOf(more), m + 1)
        /\ Adds(Contents(t, more), t, DatasOf(more), m + 1)
    BY <1>1, <2>1, SumsAdd
  <2> QED
    BY <2>3, <2>4, AddsOneMore
<1> QED
  BY <1>1

-------------------------------------------------------------------------------
(* The package *)

(* The shape of a package; one not yet begun is empty and our own.         *)
Shaped ==
    /\ stage \in {"new", "packing", "packed", "sealed", "stored", "refused", "cut",
                  "reading", "accepted", "invalid"}
    /\ foreign \in BOOLEAN
    /\ text \in Nat /\ files \in Seq(FileSize)
    /\ content \in Nat /\ logical \in Nat /\ padded \in Nat /\ header \in Nat
    /\ stage = "new" => ~foreign /\ files = <<>>

PerFile == FileHeader + MaxName + MaxMime
Named(f) == f.name \in 1 .. MaxName /\ f.mime \in 1 .. MaxMime

(* What pack() has written keeps the limits and adds up.                   *)
WithinLimits ==
    ~foreign /\ stage # "new" =>
        /\ text <= MaxText /\ content <= MaxContent /\ Len(files) <= MaxFiles
        /\ \A n \in 1 .. Len(files) : Named(files[n])
        /\ logical = Sums(text, files)[Len(files)]
        /\ content = Contents(text, files)[Len(files)]
        /\ logical <= InnerHeader + content + Len(files) * PerFile

Closed ==
    ~foreign /\ stage \notin {"new", "packing"} =>
        (text # 0 \/ files # <<>>) /\ padded = Pad(logical)

(* A stored packet is one both parsers take; ours is never turned away.    *)
Lawful ==
    /\ stage \notin {"new", "packing", "packed"} => header \in 1 .. MaxHeader
    /\ stage \in {"stored", "cut", "reading", "accepted", "invalid"} => Parses
    /\ stage \in {"refused", "invalid"} => foreign

(* unpack() has read the first files and stands where they end.            *)
ReadSoFar ==
    stage \in {"reading", "accepted"} =>
        /\ Announced /\ taken \in 0 .. Len(files)
        /\ offset = Sums(text, files)[taken] /\ offset <= logical
        /\ seen = Contents(text, files)[taken] /\ seen <= MaxContent
        /\ stage = "accepted" => taken = Len(files) /\ offset = logical

PackageInv == Shaped /\ WithinLimits /\ Closed /\ Lawful /\ ReadSoFar

LEMMA Limits ==
    /\ MaxText \in Nat /\ MaxContent \in Nat /\ MaxFiles \in Nat /\ MaxName \in Nat
    /\ MaxMime \in Nat /\ MaxHeader \in Nat /\ MaxPacket \in Nat /\ MaxText <= MaxContent
    /\ Padding \in Nat \ {0} /\ PerFile \in Nat /\ MaxInner \in Nat
    /\ MaxInner = InnerHeader + MaxContent + MaxFiles * PerFile
    /\ InnerHeader = 14 /\ FileHeader = 8 /\ PacketHeader = 8 /\ Tag = 16
<1>1. /\ MaxText \in Nat /\ MaxContent \in Nat /\ MaxFiles \in Nat /\ MaxName \in Nat
      /\ MaxMime \in Nat /\ MaxHeader \in Nat /\ MaxPacket \in Nat /\ MaxText <= MaxContent
      /\ Padding \in Nat \ {0}
  BY EnvelopeAssumption DEF EnvelopeAssumption
<1>2. PerFile \in Nat
  BY <1>1 DEF PerFile, FileHeader
<1>3. MaxFiles * PerFile \in Nat
  BY <1>1, <1>2
<1> QED
  BY <1>1, <1>2, <1>3 DEF MaxInner, PerFile, InnerHeader, FileHeader, PacketHeader, Tag

(* The sums over the files of a package.                                   *)
LEMMA SumsOfPackage ==
    ASSUME Shaped
    PROVE  /\ Len(files) \in Nat /\ \A n \in 1 .. Len(files) : files[n] \in FileSize
           /\ \A n \in 0 .. Len(files) :
                  /\ Sums(text, files)[n] \in Nat /\ Contents(text, files)[n] \in Nat
                  /\ Sums(text, files)[n] <= Sums(text, files)[Len(files)]
                  /\ Contents(text, files)[n] <= Contents(text, files)[Len(files)]
           /\ \A n \in 1 .. Len(files) :
                  /\ Sums(text, files)[n] = Sums(text, files)[n - 1] + Whole(files[n])
                  /\ Contents(text, files)[n] = Contents(text, files)[n - 1] + files[n].data
           /\ Sums(text, files)[0] = InnerHeader + text /\ Contents(text, files)[0] = text
<1>1. text \in Nat /\ files \in Seq(FileSize)
  BY DEF Shaped
<1>2. /\ Len(files) \in Nat /\ \A n \in 1 .. Len(files) : files[n] \in FileSize
      /\ WholesOf(files) \in [1 .. Len(files) -> Nat]
      /\ DatasOf(files) \in [1 .. Len(files) -> Nat]
      /\ \A n \in 1 .. Len(files) : /\ WholesOf(files)[n] = Whole(files[n])
                                    /\ DatasOf(files)[n] = files[n].data
  BY <1>1, WeightsOfFiles
<1>3. /\ Adds(Sums(text, files), InnerHeader + text, WholesOf(files), Len(files))
      /\ Adds(Contents(text, files), text, DatasOf(files), Len(files))
  BY <1>1, SumsAdd
<1>4. \A n \in 0 .. Len(files) :
          /\ Sums(text, files)[n] <= Sums(text, files)[Len(files)]
          /\ Contents(text, files)[n] <= Contents(text, files)[Len(files)]
  BY <1>2, <1>3, AddsClimb
<1>5. ASSUME NEW n \in 1 .. Len(files)
      PROVE  /\ Sums(text, files)[n] = Sums(text, files)[n - 1] + Whole(files[n])
             /\ Contents(text, files)[n] = Contents(text, files)[n - 1] + files[n].data
  BY <1>2, <1>3 DEF Adds
<1>6. \A n \in 0 .. Len(files) : Sums(text, files)[n] \in Nat /\ Contents(text, files)[n] \in Nat
  BY <1>2, <1>3 DEF Adds
<1>7. Sums(text, files)[0] = InnerHeader + text /\ Contents(text, files)[0] = text
  BY <1>3 DEF Adds
<1> QED
  BY <1>2, <1>4, <1>5, <1>6, <1>7

(* What pack() closes fits the largest envelope.                           *)
LEMMA PackedFits ==
    ASSUME Shaped, WithinLimits, ~foreign, stage # "new"
    PROVE  logical <= MaxInner /\ InnerHeader + text <= logical
<1>1. Len(files) \in Nat /\ Len(files) <= MaxFiles
  BY SumsOfPackage DEF WithinLimits
<1>2. Len(files) * PerFile <= MaxFiles * PerFile
      /\ Len(files) * PerFile \in Nat /\ MaxFiles * PerFile \in Nat
  BY <1>1, Limits, Scaled
<1>3. logical \in Nat /\ content \in Nat /\ content <= MaxContent
      /\ logical <= InnerHeader + content + Len(files) * PerFile
  BY DEF Shaped, WithinLimits
<1>4. logical <= MaxInner
  BY <1>2, <1>3, Limits
<1>5. InnerHeader + text <= logical
  BY <1>1, SumsOfPackage DEF WithinLimits
<1> QED
  BY <1>4, <1>5

LEMMA PackedIsAnnounced ==
    ASSUME Shaped, WithinLimits, Closed, ~foreign, stage \notin {"new", "packing"}
    PROVE  Announced
<1>1. logical \in Nat /\ logical <= MaxInner /\ InnerHeader + text <= logical /\ text \in Nat
      /\ text <= MaxText /\ Len(files) <= MaxFiles
  BY PackedFits DEF Shaped, WithinLimits
<1>2. padded = Pad(logical) /\ (text # 0 \/ files # <<>>)
  BY DEF Closed
<1>3. logical >= InnerHeader /\ logical > 0
  BY <1>1, Limits
<1>4. /\ padded >= Padding /\ padded % Padding = 0 /\ logical <= padded
      /\ Pad(logical) <= Pad(MaxInner)
  BY <1>1, <1>2, <1>3, EnvelopeAssumption, Limits, PadIs
<1> QED
  BY <1>1, <1>2, <1>3, <1>4 DEF Announced

(* A packet of ours is never too large, and its envelope is padded.        *)
LEMMA PackedParses ==
    ASSUME Shaped, WithinLimits, Closed, ~foreign, stage \notin {"new", "packing"},
           header \in 1 .. MaxHeader
    PROVE  Parses
<1>1. Announced
  BY PackedIsAnnounced
<1>2. padded \in Nat /\ padded >= Padding /\ padded <= Pad(MaxInner) /\ padded % Padding = 0
  BY <1>1 DEF Announced, Shaped
<1>3. Pad(MaxInner) \in Nat /\ PacketHeader + MaxHeader + Pad(MaxInner) + Tag <= MaxPacket
  BY EnvelopeAssumption, Headroom, Limits, PadIs DEF Headroom
<1>4. Packet <= MaxPacket /\ Packet >= PacketHeader + header + Padding + Tag
  BY <1>2, <1>3, Limits DEF Packet
<1>5. Packet - PacketHeader - header - Tag = padded
  BY <1>2, Limits DEF Packet
<1> QED
  BY <1>2, <1>4, <1>5 DEF Parses

LEMMA PackTextKeeps == ASSUME PackageInv, NEW n, PackText(n) PROVE PackageInv'
<1>1. /\ stage = "new" /\ stage' = "packing" /\ n \in 0 .. MaxText
      /\ text' = n /\ content' = n /\ logical' = InnerHeader + n
      /\ UNCHANGED <<foreign, files, padded, header>>
  BY DEF PackText
<1>2. n \in Nat /\ n <= MaxText /\ ~foreign /\ files = <<>>
  BY <1>1, Limits DEF PackageInv, Shaped
<1>3. Shaped'
  BY <1>1, <1>2, Limits DEF PackageInv, Shaped
<1>4. /\ text' = n /\ files' = <<>> /\ Len(files') = 0
      /\ Sums(text', files')[0] = InnerHeader + n /\ Contents(text', files')[0] = n
  <2>1. text' = n /\ files' = <<>> /\ Len(files') = 0 /\ files' \in Seq(FileSize)
    BY <1>1, <1>2
  <2>2. /\ Adds(Sums(text', files'), InnerHeader + text', WholesOf(files'), Len(files'))
        /\ Adds(Contents(text', files'), text', DatasOf(files'), Len(files'))
    BY <1>2, <2>1, SumsAdd
  <2> QED
    BY <2>1, <2>2 DEF Adds
<1>5. WithinLimits'
  <2>1. Len(files') * PerFile = 0
    BY <1>4, Limits
  <2> QED
    BY <1>1, <1>2, <1>4, <2>1, Limits DEF WithinLimits
<1> QED
  BY <1>1, <1>3, <1>5 DEF PackageInv, Closed, Lawful, ReadSoFar

LEMMA PackFileKeeps == ASSUME PackageInv, NEW f \in Files, PackFile(f) PROVE PackageInv'
<1>1. /\ stage = "packing" /\ stage' = "packing" /\ Packable(f)
      /\ files' = Append(files, f) /\ content' = content + f.data
      /\ logical' = logical + Whole(f)
      /\ UNCHANGED <<foreign, text, padded, header>>
  BY DEF PackFile
<1>2. /\ f \in FileSize /\ f.name \in Nat /\ f.mime \in Nat /\ f.data \in Nat
      /\ Whole(f) = FileHeader + f.name + f.mime + f.data
      /\ Whole(f) \in Nat
  <2>1. f \in FileSize
    BY EnvelopeAssumption DEF EnvelopeAssumption
  <2> QED
    BY <2>1, FileLengths, Limits
<1>3. Shaped /\ text \in Nat /\ files \in Seq(FileSize) /\ logical \in Nat /\ content \in Nat
  BY DEF PackageInv, Shaped
<1>4. /\ files' \in Seq(FileSize) /\ Len(files') = Len(files) + 1 /\ Len(files) \in Nat
      /\ files'[Len(files) + 1] = f /\ \A n \in 1 .. Len(files) : files'[n] = files[n]
  BY <1>1, <1>2, <1>3
<1>5. Shaped'
  <2>1. content' \in Nat /\ logical' \in Nat
    BY <1>1, <1>2, <1>3
  <2> QED
    BY <1>1, <1>3, <1>4, <2>1 DEF PackageInv, Shaped
<1>6. WithinLimits'
  <2>1. SUFFICES ASSUME ~foreign
                 PROVE  /\ text' <= MaxText /\ content' <= MaxContent
                        /\ Len(files') <= MaxFiles
                        /\ \A n \in 1 .. Len(files') : Named(files'[n])
                        /\ logical' = Sums(text', files')[Len(files')]
                        /\ content' = Contents(text', files')[Len(files')]
                        /\ logical' <= InnerHeader + content' + Len(files') * PerFile
    BY <1>1 DEF WithinLimits, Named
  <2>2. WithinLimits /\ ~foreign /\ stage # "new"
    BY <1>1, <2>1 DEF PackageInv
  <2>3. text' <= MaxText /\ content' <= MaxContent /\ Len(files') <= MaxFiles
    BY <1>1, <1>4, <2>2, Limits DEF Packable, WithinLimits
  <2>4. \A n \in 1 .. Len(files') : Named(files'[n])
    BY <1>1, <1>4, <2>2 DEF Packable, WithinLimits, Named
  <2>5. /\ Sums(text', files')[Len(files')] = Sums(text, files)[Len(files)] + Whole(f)
        /\ Contents(text', files')[Len(files')] = Contents(text, files)[Len(files)] + f.data
    <3>1. text \in Nat /\ files \in Seq(FileSize) /\ f \in FileSize
          /\ files' = Append(files, f) /\ text' = text
      BY <1>1, <1>2, <1>3
    <3>2. /\ Sums(text, Append(files, f))[Len(files) + 1] = Sums(text, files)[Len(files)] + Whole(f)
          /\ Contents(text, Append(files, f))[Len(files) + 1]
                 = Contents(text, files)[Len(files)] + f.data
      BY <3>1, SumsAppend
    <3> QED
      BY <1>4, <3>1, <3>2
  <2>6. logical' <= InnerHeader + content' + Len(files') * PerFile
    <3>1. Whole(f) <= PerFile + f.data
      <4>1. f.name <= MaxName /\ f.mime <= MaxMime
        BY <1>1, Limits DEF Packable
      <4> QED
        BY <1>2, <4>1, Limits DEF PerFile
    <3>2. (Len(files) + 1) * PerFile = Len(files) * PerFile + PerFile
          /\ Len(files) * PerFile \in Nat
      BY <1>4, Limits, OneMoreTimes
    <3>3. logical <= InnerHeader + content + Len(files) * PerFile
      BY <2>2 DEF WithinLimits
    <3>4. ASSUME NEW all \in Nat, NEW p \in Nat, NEW d \in Nat, NEW w \in Nat,
                 NEW l \in Nat, NEW c \in Nat, w <= p + d, l <= 14 + c + all
          PROVE  l + w <= 14 + (c + d) + (all + p)
      BY <3>4
    <3>5. logical + Whole(f) <= InnerHeader + (content + f.data) + (Len(files) * PerFile + PerFile)
      BY <1>2, <1>3, <3>1, <3>2, <3>3, <3>4, Limits
    <3> QED
      BY <1>1, <1>4, <3>2, <3>5
  <2> QED
    BY <1>1, <2>2, <2>3, <2>4, <2>5, <2>6 DEF WithinLimits
<1> QED
  BY <1>1, <1>5, <1>6 DEF PackageInv, Closed, Lawful, ReadSoFar

(* Another implementation may write anything, but bytes.                   *)
LEMMA ForeignKeeps == ASSUME PackageInv, Foreign PROVE PackageInv'
<1>1. /\ stage = "new" /\ stage' = "packed" /\ foreign' = TRUE
      /\ text' \in ForeignTexts /\ files' \in ForeignLists
      /\ logical' \in ForeignSizes /\ padded' \in ForeignSizes
      /\ UNCHANGED <<content, header>>
  BY DEF Foreign
<1>2. files' \in Seq(FileSize)
  <2>1. ForeignFiles \subseteq FileSize
    BY EnvelopeAssumption DEF EnvelopeAssumption
  <2>2. \A f, g \in ForeignFiles : <<f>> \in Seq(FileSize) /\ <<f, g>> \in Seq(FileSize)
    BY <2>1
  <2>3. <<>> \in Seq(FileSize)
    OBVIOUS
  <2>4. ASSUME NEW l \in ForeignLists PROVE l \in Seq(FileSize)
    <3>1. \/ l = <<>>
          \/ \E f \in ForeignFiles : l = <<f>>
          \/ \E f, g \in ForeignFiles : l = <<f, g>>
      BY <2>4 DEF ForeignLists
    <3> QED
      BY <2>2, <2>3, <3>1
  <2> QED
    BY <1>1, <2>4
<1>3. text' \in Nat /\ logical' \in Nat /\ padded' \in Nat
  BY <1>1, EnvelopeAssumption DEF EnvelopeAssumption
<1> QED
  BY <1>1, <1>2, <1>3 DEF PackageInv, Shaped, WithinLimits, Closed, Lawful, ReadSoFar

(* What no later step of a package changes.                                *)
Kept == UNCHANGED <<foreign, text, files, content, logical>>

LEMMA KeptSums ==
    ASSUME PackageInv, Kept, stage # "new", stage' # "new" PROVE WithinLimits'
BY DEF Kept, PackageInv, WithinLimits, Named

LEMMA PaddedKeeps == ASSUME PackageInv, Padded PROVE PackageInv'
<1>1. /\ stage = "packing" /\ stage' = "packed" /\ Kept /\ header' = header
      /\ padded' = Pad(logical) /\ (text # 0 \/ files # <<>>)
  BY DEF Padded, Kept, packing
<1>2. Pad(logical) \in Nat
  BY EnvelopeAssumption, PadIs DEF PackageInv, Shaped
<1>3. WithinLimits'
  BY <1>1, KeptSums
<1> QED
  BY <1>1, <1>2, <1>3 DEF Kept, PackageInv, Shaped, Closed, Lawful, ReadSoFar

LEMMA SealKeeps == ASSUME PackageInv, NEW h \in Headers, Seal(h) PROVE PackageInv'
<1>1. /\ stage = "packed" /\ stage' = "sealed" /\ Kept /\ padded' = padded
      /\ header' = h
  BY DEF Seal, Kept, packing
<1>2. h \in 1 .. MaxHeader /\ h \in Nat
  BY EnvelopeAssumption, Limits DEF EnvelopeAssumption
<1>3. WithinLimits'
  BY <1>1, KeptSums
<1> QED
  BY <1>1, <1>2, <1>3 DEF Kept, PackageInv, Shaped, Closed, Lawful, ReadSoFar

LEMMA AdmitKeeps == ASSUME PackageInv, Admit PROVE PackageInv'
<1>1. /\ stage = "sealed" /\ stage' = IF Parses THEN "stored" ELSE "refused"
      /\ Kept /\ UNCHANGED <<padded, header>>
  BY DEF Admit, Kept, packing
<1>2. WithinLimits'
  BY <1>1, KeptSums
<1>3. ~foreign => Parses
  BY <1>1, PackedParses DEF PackageInv, Lawful
<1>4. Parses => Parses'
  BY <1>1 DEF Parses, Packet
<1> QED
  BY <1>1, <1>2, <1>3, <1>4 DEF Kept, PackageInv, Shaped, Closed, Lawful, ReadSoFar

(* A transfer that broke off. *)
CutShort ==
    /\ stage = "stored" /\ stage' = "cut"
    /\ UNCHANGED <<packing, padded, header, unpacking>>

(* The steps of unpack() end a package that is not ours, or read on.       *)
LEMMA ReadingKeeps ==
    ASSUME PackageInv, Kept, UNCHANGED <<padded, header>>,
           stage \in {"stored", "reading"},
           stage' \in {"cut", "reading", "accepted", "invalid"},
           stage' = "invalid" => foreign, ReadSoFar'
    PROVE  PackageInv'
<1>1. WithinLimits'
  BY KeptSums
<1>2. Parses /\ Parses'
  BY DEF PackageInv, Lawful, Parses, Packet
<1> QED
  BY <1>1, <1>2 DEF Kept, PackageInv, Shaped, Closed, Lawful

LEMMA CutKeeps == ASSUME PackageInv, CutShort PROVE PackageInv'
BY ReadingKeeps DEF CutShort, Kept, packing, ReadSoFar

LEMMA TakeTextKeeps == ASSUME PackageInv, TakeText PROVE PackageInv'
<1>1. stage = "stored" /\ Kept /\ UNCHANGED <<padded, header>>
      /\ stage' \in {"reading", "invalid"}
  BY DEF TakeText, Invalid, Kept, packing
<1>2. stage' = "invalid" => foreign
  <2>1. ~foreign => Parses /\ Announced /\ InnerHeader + text <= logical
    BY <1>1, PackedIsAnnounced, PackedFits DEF PackageInv, Lawful
  <2> QED
    BY <2>1 DEF TakeText
<1>3. ReadSoFar'
  <2>1. SUFFICES ASSUME stage' = "reading" PROVE ReadSoFar'
    BY <1>1 DEF ReadSoFar
  <2>2. Announced /\ InnerHeader + text <= logical
        /\ offset' = InnerHeader + text /\ taken' = 0 /\ seen' = text
    BY <2>1 DEF TakeText, Invalid
  <2>3. Announced'
    BY <1>1, <2>2 DEF Announced, Kept
  <2>4. text <= MaxContent /\ text \in Nat
    BY <2>2, Limits DEF Announced, PackageInv, Shaped
  <2>5. /\ Len(files) \in Nat
        /\ Sums(text, files)[0] = InnerHeader + text /\ Contents(text, files)[0] = text
    BY SumsOfPackage DEF PackageInv
  <2> QED
    BY <1>1, <2>1, <2>2, <2>3, <2>4, <2>5 DEF ReadSoFar, Kept
<1> QED
  BY <1>1, <1>2, <1>3, ReadingKeeps

LEMMA TakeFileKeeps == ASSUME PackageInv, TakeFile PROVE PackageInv'
<1> DEFINE f == files[taken + 1]
<1>1. /\ stage = "reading" /\ taken < Len(files) /\ Kept /\ UNCHANGED <<padded, header>>
      /\ stage' \in {"reading", "invalid"}
  BY DEF TakeFile, Invalid, Kept, packing
<1>2. /\ Announced /\ taken \in 0 .. Len(files) /\ offset = Sums(text, files)[taken]
      /\ seen = Contents(text, files)[taken]
  BY <1>1 DEF PackageInv, ReadSoFar
<1>3. /\ taken + 1 \in 1 .. Len(files) /\ (taken + 1) - 1 = taken /\ f \in FileSize
      /\ Len(files) \in Nat
  BY <1>1, <1>2, SumsOfPackage DEF PackageInv
<1>4. /\ Sums(text, files)[taken + 1] = offset + Whole(f)
      /\ Contents(text, files)[taken + 1] = seen + f.data
      /\ Sums(text, files)[taken + 1] <= Sums(text, files)[Len(files)]
      /\ Contents(text, files)[taken + 1] <= Contents(text, files)[Len(files)]
  BY <1>2, <1>3, SumsOfPackage DEF PackageInv
<1>5. stage' = "invalid" => foreign
  <2>1. ASSUME ~foreign PROVE Takeable(f)
    <3>1. /\ logical = Sums(text, files)[Len(files)] /\ Named(f)
          /\ content = Contents(text, files)[Len(files)] /\ content <= MaxContent
      BY <1>1, <1>3, <2>1 DEF PackageInv, WithinLimits
    <3>2. offset + Whole(f) <= logical /\ seen + f.data <= content /\ content \in Nat
          /\ offset \in Nat /\ seen \in Nat /\ logical \in Nat
      BY <1>2, <1>3, <1>4, <3>1, SumsOfPackage DEF PackageInv, Shaped
    <3>3. f.name \in Nat /\ f.mime \in Nat /\ f.data \in Nat
          /\ Whole(f) = FileHeader + f.name + f.mime + f.data
      BY <1>3, FileLengths
    <3> HIDE DEF f
    <3>4. offset + FileHeader <= logical
      BY <3>2, <3>3, Limits
    <3>5. seen + f.data <= MaxContent
      BY <3>1, <3>2, <3>3, Limits
    <3> QED
      BY <3>1, <3>2, <3>4, <3>5 DEF Takeable, Named
  <2> QED
    BY <1>1, <2>1 DEF TakeFile
<1>6. ReadSoFar'
  <2>1. SUFFICES ASSUME stage' = "reading" PROVE ReadSoFar'
    BY <1>1 DEF ReadSoFar
  <2>2. /\ offset' = offset + Whole(f) /\ taken' = taken + 1 /\ seen' = seen + f.data
        /\ offset + Whole(f) <= logical /\ seen + f.data <= MaxContent
    BY <2>1 DEF TakeFile, Invalid, Takeable
  <2>3. Announced'
    BY <1>1, <1>2 DEF Announced, Kept
  <2> QED
    BY <1>1, <1>3, <1>4, <2>1, <2>2, <2>3 DEF ReadSoFar, Kept
<1> QED
  BY <1>1, <1>5, <1>6, ReadingKeeps

LEMMA EndsKeeps == ASSUME PackageInv, Ends PROVE PackageInv'
<1>1. /\ stage = "reading" /\ taken = Len(files) /\ Kept
      /\ UNCHANGED <<padded, header, offset, taken, seen>>
      /\ stage' = IF offset = logical THEN "accepted" ELSE "invalid"
  BY DEF Ends, Invalid, Kept, packing, unpacking
<1>2. ~foreign => offset = logical
  BY <1>1 DEF PackageInv, WithinLimits, ReadSoFar
<1>3. ReadSoFar'
  BY <1>1 DEF PackageInv, ReadSoFar, Announced, Kept
<1> QED
  BY <1>1, <1>2, <1>3, ReadingKeeps

(* The steps of a package, whoever takes them.                             *)
PackageNext ==
    \/ \E n : PackText(n)
    \/ \E f \in Files : PackFile(f)
    \/ \E h \in Headers : Seal(h)
    \/ Padded \/ Foreign \/ Admit \/ CutShort \/ TakeText \/ TakeFile \/ Ends

LEMMA PackageStepKeeps == ASSUME PackageInv, [PackageNext]_vars PROVE PackageInv'
<1>1. CASE UNCHANGED vars
  BY <1>1 DEF vars, PackageInv, Shaped, WithinLimits, Closed, Lawful, ReadSoFar,
     Announced,
     Parses, Packet
<1> QED
  BY <1>1, PackTextKeeps, PackFileKeeps, SealKeeps, PaddedKeeps, ForeignKeeps, AdmitKeeps,
     CutKeeps, TakeTextKeeps, TakeFileKeeps, EndsKeeps DEF PackageNext

LEMMA PackageStarts == ASSUME Init PROVE PackageInv
<1>1. files = <<>> /\ files \in Seq(FileSize) /\ foreign = FALSE /\ stage = "new"
  BY DEF Init
<1>2. Shaped
  BY <1>1 DEF Init, Shaped
<1> QED
  BY <1>1, <1>2 DEF PackageInv, WithinLimits, Closed, Lawful, ReadSoFar

LEMMA DeliveryStepPackages ==
    ASSUME [DeliveryNext]_<<vars, form, body>> PROVE [PackageNext]_vars
<1>1. CASE (\E t \in Drafts : Type(t)) \/ Fire \/ UNCHANGED <<vars, form, body>>
  BY <1>1 DEF Type, Fire
<1>2. CASE Submit
  BY <1>2 DEF Submit, PackageNext
<1>3. CASE /\ (\E f \in Files : PackFile(f)) \/ Padded \/ (\E h \in Headers : Seal(h))
           /\ UNCHANGED <<form, body>>
  BY <1>3 DEF PackageNext
<1>4. CASE draft = <<>> /\ Foreign /\ UNCHANGED <<form, body>>
  BY <1>4 DEF PackageNext
<1>5. CASE Upload
  BY <1>5 DEF Upload, PackageNext
<1>6. CASE \E client \in Body!Clients, encoded \in BOOLEAN, length \in Lengths :
              Respond(client, encoded, length)
  BY <1>6 DEF Respond
<1>7. CASE Transfer
  BY <1>7 DEF Transfer
<1>8. CASE Receive
  BY <1>8 DEF Receive, PackageNext, CutShort
<1>9. CASE (TakeFile \/ Ends) /\ UNCHANGED <<form, body>>
  BY <1>9 DEF PackageNext
<1> QED
  BY <1>1, <1>2, <1>3, <1>4, <1>5, <1>6, <1>7, <1>8, <1>9 DEF DeliveryNext

LEMMA PackageAlways == DeliverySpec => []PackageInv
<1>1. DeliveryInit => PackageInv
  BY PackageStarts DEF DeliveryInit
<1>2. PackageInv /\ [DeliveryNext]_<<vars, form, body>> => PackageInv'
  BY DeliveryStepPackages, PackageStepKeeps
<1> QED
  BY <1>1, <1>2, PTL DEF DeliverySpec

(* Whatever an authentic envelope says, unpack() reads inside the announced *)
(* bytes and accepts only what adds up to them and keeps every limit       *)
(* (content.ts:126-175).                                                   *)
THEOREM OnlyPackedAccepted == DeliverySpec => []AcceptsOnlyPacked
<1>1. PackageInv => AcceptsOnlyPacked
  <2>1. ASSUME PackageInv, stage \in {"reading", "accepted"}
        PROVE  /\ offset <= logical /\ Announced
               /\ stage = "accepted" => logical = Total[Len(files)] /\ seen <= MaxContent
    BY <2>1, TotalIsSums DEF PackageInv, ReadSoFar
  <2> QED
    BY <2>1 DEF AcceptsOnlyPacked, Announced
<1> QED
  BY <1>1, PackageAlways, PTL
-------------------------------------------------------------------------------
(* The reader, for every limit, first buffer and way of cutting a body into *)
(* pieces.  That gathering is linear is not inductive as it stands: until a *)
(* buffer has its largest size, each growth at least doubles it, so what    *)
(* was moved is less than what it can hold; the last growth moves less than *)
(* that again, and then the buffer is as large as any body.                 *)

Gathering == reading \in {"reading", "done", "incomplete"}

Doubling ==
    /\ reading = "idle" => size = 0 /\ copied = 0
    /\ Gathering =>
           /\ announced # Body!Malformed /\ Body!Maximum <= MaxPacket
           /\ size <= capacity /\ capacity <= Body!Maximum
           /\ copied <= capacity \/ (capacity = Body!Maximum /\ copied <= 2 * Body!Maximum)

ReadInv == Body!TypeOK /\ Doubling /\ Body!ReadOrForCause /\ size <= Packet

(* Least and Greatest are the smaller and the larger of two lengths.       *)
LEMMA LeastGreatest ==
    ASSUME NEW a \in Nat, NEW b \in Nat
    PROVE  /\ Body!Least(a, b) \in {a, b} /\ Body!Least(a, b) <= a /\ Body!Least(a, b) <= b
           /\ Body!Greatest(a, b) \in {a, b}
           /\ Body!Greatest(a, b) >= a /\ Body!Greatest(a, b) >= b
BY DEF Body!Least, Body!Greatest

(* The headers of a response leave the reader with a length or without.    *)
LEMMA MaximumIsNatural ==
    ASSUME Body!ReadAssumption, Body!TypeOK, announced # Body!Malformed
    PROVE  Body!Maximum \in Nat
BY DEF Body!ReadAssumption, Body!TypeOK, Body!Maximum, Body!Absent, Body!Malformed

LEMMA ReadStarts == ASSUME Body!ReadAssumption, Body!Init PROVE ReadInv
BY DEF Body!ReadAssumption, Body!Init, Body!Idle, ReadInv, Body!TypeOK, Doubling,
   Gathering, Body!ReadOrForCause, Body!Absent

(* Reading begins with a buffer within the limit.                          *)
LEMMA BeginReads ==
    ASSUME Body!ReadAssumption, ReadInv,
           NEW client \in Body!Clients, NEW encoded \in BOOLEAN,
           NEW length \in Nat \cup {Body!Absent, Body!Malformed},
           Body!Begin(client, encoded, length)
    PROVE  ReadInv'
<1>1. /\ announced' \in Nat \cup {Body!Absent, Body!Malformed}
      /\ size = 0 /\ copied = 0 /\ size' = 0 /\ copied' = 0
      /\ Packet \in Nat /\ Packet' = Packet
  BY DEF Body!Begin, Body!Announced, ReadInv, Body!TypeOK, Doubling
<1>2. CASE announced' = Body!Malformed \/ announced' > MaxPacket
  <2>1. reading' = "refused" /\ capacity' = 0
    BY <1>2 DEF Body!Begin
  <2>2. announced' \notin {Body!Absent, Packet'} \/ Packet' > MaxPacket
    BY <1>1, <1>2 DEF Body!Absent, Body!Malformed, Body!ReadAssumption
  <2> QED
    BY <1>1, <2>1, <2>2 DEF ReadInv, Body!TypeOK, Doubling, Gathering, Body!ReadOrForCause
<1>3. CASE announced' # Body!Malformed /\ ~(announced' > MaxPacket)
  <2>1. /\ reading' = "reading"
        /\ capacity' = IF announced' = Body!Absent
                       THEN Body!Least(MaxPacket, First) ELSE announced'
    BY <1>3 DEF Body!Begin
  <2>2. /\ capacity' \in Nat /\ capacity' <= Body!Maximum' /\ Body!Maximum' <= MaxPacket
    BY <1>1, <1>3, <2>1, LeastGreatest DEF Body!ReadAssumption, Body!Maximum,
       Body!Absent, Body!Malformed
  <2> QED
    BY <1>1, <1>3, <2>1, <2>2 DEF ReadInv, Body!TypeOK, Doubling, Gathering,
       Body!ReadOrForCause
<1> QED
  BY <1>2, <1>3

(* A piece fits or is refused, and a larger buffer is at least twice as    *)
(* large or as large as the body can be.                                   *)
LEMMA PieceReads ==
    ASSUME Body!ReadAssumption, ReadInv, NEW k \in Nat, Body!Piece(k)
    PROVE  ReadInv'
<1> DEFINE next == size + k
<1>1. /\ reading = "reading" /\ announced # Body!Malformed /\ Body!Maximum \in Nat
      /\ Body!Maximum <= MaxPacket /\ size <= capacity /\ capacity <= Body!Maximum
      /\ copied <= capacity \/ (capacity = Body!Maximum /\ copied <= 2 * Body!Maximum)
      /\ {Packet, capacity, size, copied} \subseteq Nat /\ next \in Nat /\ next <= Packet
      /\ announced \in Nat \cup {Body!Absent, Body!Malformed}
      /\ Packet' = Packet /\ announced' = announced /\ Body!Maximum' = Body!Maximum
  <2>1. reading = "reading" /\ next <= Packet /\ UNCHANGED <<Packet, announced>>
    BY DEF Body!Piece
  <2>2. Gathering /\ Body!TypeOK /\ Doubling
    BY <2>1 DEF ReadInv, Gathering
  <2>3. /\ announced # Body!Malformed
        /\ Body!Maximum <= MaxPacket /\ size <= capacity /\ capacity <= Body!Maximum
        /\ copied <= capacity \/ (capacity = Body!Maximum /\ copied <= 2 * Body!Maximum)
    BY <2>2 DEF Doubling
  <2>4. Body!Maximum \in Nat
    BY <2>2, <2>3, MaximumIsNatural
  <2>5. /\ {Packet, capacity, size, copied} \subseteq Nat /\ next \in Nat
        /\ announced \in Nat \cup {Body!Absent, Body!Malformed}
    BY <2>2 DEF Body!TypeOK
  <2>6. Body!Maximum' = Body!Maximum
    BY <2>1 DEF Body!Maximum
  <2> QED
    BY <2>1, <2>3, <2>4, <2>5, <2>6
<1>2. CASE next > Body!Maximum
  <2>1. reading' = "refused" /\ capacity' = capacity /\ size' = size /\ copied' = copied
    BY <1>2 DEF Body!Piece
  <2>2. announced \notin {Body!Absent, Packet} \/ Packet > MaxPacket
    BY <1>1, <1>2 DEF Body!Maximum, Body!ReadAssumption
  <2> QED
    BY <1>1, <2>1, <2>2 DEF ReadInv, Body!TypeOK, Doubling, Gathering, Body!ReadOrForCause
<1>3. CASE next <= Body!Maximum /\ next > capacity
  <2>1. /\ reading' = reading /\ size' = next
        /\ capacity' = Body!Grown(next) /\ copied' = copied + size
    BY <1>1, <1>3 DEF Body!Piece
  <2>2. /\ capacity' \in Nat /\ capacity' <= Body!Maximum /\ next <= capacity'
        /\ capacity' >= 2 * capacity \/ capacity' = Body!Maximum
    BY <1>1, <1>3, <2>1, LeastGreatest DEF Body!Grown, Body!Least, Body!Greatest
  <2>3. copied <= capacity
    BY <1>1, <1>3
  <2>4. copied' \in Nat /\ copied' <= 2 * capacity
    BY <1>1, <2>1, <2>3
  <2>5. copied' <= capacity' \/ (capacity' = Body!Maximum /\ copied' <= 2 * Body!Maximum)
    BY <1>1, <2>2, <2>4
  <2> QED
    BY <1>1, <2>1, <2>2, <2>4, <2>5 DEF ReadInv, Body!TypeOK, Doubling, Gathering,
       Body!ReadOrForCause
<1>4. CASE next <= Body!Maximum /\ ~(next > capacity)
  <2>1. reading' = reading /\ size' = next /\ capacity' = capacity /\ copied' = copied
    BY <1>1, <1>4 DEF Body!Piece
  <2> QED
    BY <1>1, <1>4, <2>1 DEF ReadInv, Body!TypeOK, Doubling, Gathering, Body!ReadOrForCause
<1> QED
  BY <1>1, <1>2, <1>3, <1>4

LEMMA ReadStepKeeps ==
    ASSUME Body!ReadAssumption, ReadInv, [Body!Next]_(Body!vars) PROVE ReadInv'
<1>1. CASE \E client \in Body!Clients, encoded \in BOOLEAN,
              length \in Nat \cup {Body!Absent, Body!Malformed} :
                  Body!Begin(client, encoded, length)
  BY <1>1, BeginReads
<1>2. CASE \E k \in Nat : Body!Piece(k)
  BY <1>2, PieceReads
<1>3. CASE Body!End
  BY <1>3 DEF Body!End, ReadInv, Body!TypeOK, Doubling, Gathering,
     Body!ReadOrForCause, Body!Maximum, Body!Absent, Body!Malformed
<1>4. CASE Body!Break
  BY <1>4 DEF Body!Break, ReadInv, Body!TypeOK, Doubling, Gathering, Body!ReadOrForCause
<1>5. CASE Body!Discard
  BY <1>5 DEF Body!Discard, ReadInv, Body!TypeOK, Doubling, Gathering,
     Body!ReadOrForCause, Body!Absent
<1>6. CASE Body!Another
  BY <1>6 DEF Body!Another, Body!reader, ReadInv, Body!TypeOK, Doubling, Gathering,
     Body!ReadOrForCause, Body!Maximum
<1>7. CASE UNCHANGED Body!vars
  BY <1>7 DEF Body!vars, Body!reader, ReadInv, Body!TypeOK, Doubling, Gathering,
     Body!ReadOrForCause, Body!Maximum
<1> QED
  BY <1>1, <1>2, <1>3, <1>4, <1>5, <1>6, <1>7 DEF Body!Next

LEMMA ReadInvImplies ==
    ASSUME Body!ReadAssumption, ReadInv
    PROVE  Body!TypeOK /\ Body!BufferBounded /\ Body!ReadOrForCause
<1>1. Body!TypeOK /\ Body!ReadOrForCause
  BY DEF ReadInv
<1>2. ASSUME Gathering
      PROVE  /\ size <= capacity /\ capacity <= Body!Maximum
             /\ Body!Maximum <= MaxPacket /\ copied <= 2 * Body!Maximum
  <2>1. announced # Body!Malformed /\ Body!TypeOK
    BY <1>2 DEF ReadInv, Doubling
  <2>2. Body!Maximum \in Nat
    BY <2>1, MaximumIsNatural
  <2>3. {size, capacity, copied, MaxPacket} \subseteq Nat
    BY <2>1 DEF Body!TypeOK, Body!ReadAssumption
  <2>4. /\ Body!Maximum <= MaxPacket /\ size <= capacity /\ capacity <= Body!Maximum
        /\ copied <= capacity \/ (capacity = Body!Maximum /\ copied <= 2 * Body!Maximum)
    BY <1>2 DEF ReadInv, Doubling
  <2> QED
    BY <2>2, <2>3, <2>4
<1> QED
  BY <1>1, <1>2 DEF Body!BufferBounded, Gathering

-------------------------------------------------------------------------------
(* The transfer as a reading *)

(* The lengths a packet is made of, and when it is being transferred.      *)
Lengthy ==
    /\ logical \in Nat /\ padded \in Nat /\ header \in Nat
    /\ reading # "idle" => stage \in {"stored", "cut"}

LEMMA SumIsNatural == ASSUME NEW h \in Nat, NEW q \in Nat PROVE PacketHeader + h + q + Tag \in Nat
BY DEF PacketHeader, Tag

LEMMA PacketIsNatural == ASSUME Lengthy PROVE Packet \in Nat
BY SumIsNatural DEF Lengthy, Packet

LEMMA ReadAssumed == Body!ReadAssumption
BY DeliveryAssumption

-------------------------------------------------------------------------------
(* Steps outside a transfer *)

(* The reader does not see a packet being made, nor what becomes of it     *)
(* once its bytes have been taken.                                         *)
LEMMA Unseen ==
    ASSUME Lengthy', UNCHANGED body,
           reading = "idle" \/ UNCHANGED <<padded, header>>
    PROVE  [Body!Next]_(Body!vars)
<1>1. Packet' \in Nat
  <2>1. padded' \in Nat /\ header' \in Nat
    BY DEF Lengthy
  <2>2. PacketHeader + header' + padded' + Tag \in Nat
    BY <2>1, SumIsNatural, Zenon
  <2> QED
    BY <2>2, Zenon DEF Packet, PacketHeader, Tag
<1>2. CASE reading = "idle"
  <2>1. Body!Another
    BY <1>1, <1>2 DEF Body!Another, Body!reader, body
  <2> QED
    BY <2>1 DEF Body!Next
<1>3. CASE UNCHANGED <<padded, header>>
  BY <1>3 DEF Body!vars, Body!reader, body, Packet
<1> QED
  BY <1>2, <1>3

LEMMA PackingKeeps ==
    ASSUME Lengthy, UNCHANGED body,
           \/ \E n \in Int : PackText(n)
           \/ \E f \in Files : PackFile(f)
           \/ Padded
           \/ \E h \in Headers : Seal(h)
           \/ Foreign
    PROVE  Lengthy' /\ reading = "idle"
<1>1. CASE \E n \in Int : PackText(n)
  <2>1. PICK n \in Int : PackText(n)
    BY <1>1
  <2>2. n \in Nat /\ stage = "new" /\ stage' = "packing" /\ logical' = InnerHeader + n
    BY <2>1, EnvelopeAssumption DEF PackText, EnvelopeAssumption
  <2> QED
    BY <2>1, <2>2 DEF Lengthy, PackText, InnerHeader, unpacking, body
<1>2. CASE \E f \in Files : PackFile(f)
  <2>1. PICK f \in Files : PackFile(f)
    BY <1>2
  <2>2. Whole(f) \in Nat
    BY EnvelopeAssumption DEF EnvelopeAssumption, FileSize, Whole, FileHeader
  <2> QED
    BY <2>1, <2>2 DEF Lengthy, PackFile, unpacking, body
<1>3. CASE Padded
  <2>1. Pad(logical) \in Nat
    BY EnvelopeAssumption, PadIs DEF Lengthy
  <2> QED
    BY <1>3, <2>1 DEF Lengthy, Padded, packing, body
<1>4. CASE \E h \in Headers : Seal(h)
  <2>1. Headers \subseteq Nat
    BY EnvelopeAssumption DEF EnvelopeAssumption
  <2> QED
    BY <1>4, <2>1 DEF Lengthy, Seal, packing, body
<1>5. CASE Foreign
  <2>1. ForeignSizes \subseteq Nat
    BY EnvelopeAssumption DEF EnvelopeAssumption
  <2> QED
    BY <1>5, <2>1 DEF Lengthy, Foreign, body
<1> QED
  BY <1>1, <1>2, <1>3, <1>4, <1>5

-------------------------------------------------------------------------------
(* The transfer *)

LEMMA RespondReads ==
    ASSUME Lengthy, NEW client \in Body!Clients, NEW encoded \in BOOLEAN,
           NEW length \in Lengths, Respond(client, encoded, length)
    PROVE  Lengthy' /\ Body!Next
<1>1. length \in Nat \cup {Body!Absent, Body!Malformed}
  BY DEF Lengths
<1>2. Body!Begin(client, encoded, length) /\ UNCHANGED vars
  BY DEF Respond
<1>3. Lengthy'
  BY <1>2 DEF Lengthy, vars, Respond
<1> QED
  BY <1>1, <1>2, <1>3 DEF Body!Next

LEMMA TransferReads == ASSUME Lengthy, Transfer PROVE Lengthy' /\ Body!Next
<1>1. stage = "stored" /\ UNCHANGED vars
  BY DEF Transfer
<1>2. Lengthy'
  BY <1>1 DEF Lengthy, vars
<1> QED
  BY <1>2 DEF Transfer, Body!Next

LEMMA ReceiveReads ==
    ASSUME Lengthy, Receive PROVE Lengthy' /\ [Body!Next]_(Body!vars)
<1>1. UNCHANGED <<packing, padded, header>>
  BY DEF Receive, TakeText, Invalid
<1>2. CASE size = Packet
  <2>1. TakeText /\ Body!Discard
    BY <1>2 DEF Receive
  <2>2. Lengthy'
    BY <1>1, <2>1 DEF Lengthy, Body!Discard, packing
  <2> QED
    BY <2>1, <2>2 DEF Body!Next
<1>3. CASE size # Packet
  <2>1. stage' = "cut" /\ UNCHANGED body
    BY <1>3 DEF Receive
  <2>2. Lengthy'
    BY <1>1, <2>1 DEF Lengthy, packing, body
  <2> QED
    BY <1>1, <2>1, <2>2, Unseen
<1> QED
  BY <1>2, <1>3

-------------------------------------------------------------------------------
LEMMA DeliveryStepReads ==
    ASSUME Lengthy, [DeliveryNext]_<<vars, form, body>>
    PROVE  Lengthy' /\ [Body!Next]_(Body!vars)
<1>1. ASSUME UNCHANGED vars, UNCHANGED body PROVE Lengthy' /\ [Body!Next]_(Body!vars)
  <2>1. Lengthy' /\ UNCHANGED <<padded, header>>
    BY <1>1 DEF Lengthy, vars, body
  <2> QED
    BY <1>1, <2>1, Unseen
<1>2. CASE (\E t \in Drafts : Type(t)) \/ Fire
  BY <1>1, <1>2 DEF Type, Fire
<1>3. CASE Submit
  <2>1. UNCHANGED body /\ PackText(Meter!Utf8(draft))
    BY <1>3 DEF Submit
  <2>2. \E n \in Int : PackText(n)
    BY <2>1 DEF PackText
  <2> QED
    BY <2>1, <2>2, PackingKeeps, Unseen
<1>4. CASE /\ (\E f \in Files : PackFile(f)) \/ Padded \/ (\E h \in Headers : Seal(h))
           /\ UNCHANGED <<form, body>>
  BY <1>4, PackingKeeps, Unseen
<1>5. CASE draft = <<>> /\ Foreign /\ UNCHANGED <<form, body>>
  BY <1>5, PackingKeeps, Unseen
<1>6. CASE Upload
  <2>1. UNCHANGED <<packing, padded, header, body>> /\ stage = "sealed"
    BY <1>6 DEF Upload, Admit
  <2>2. Lengthy'
    BY <2>1 DEF Lengthy, packing, body
  <2> QED
    BY <2>1, <2>2, Unseen
<1>7. CASE \E client \in Body!Clients, encoded \in BOOLEAN, length \in Lengths :
              Respond(client, encoded, length)
  BY <1>7, RespondReads
<1>8. CASE Transfer
  BY <1>8, TransferReads
<1>9. CASE Receive
  BY <1>9, ReceiveReads
<1>10. CASE (TakeFile \/ Ends) /\ UNCHANGED <<form, body>>
  <2>1. UNCHANGED <<packing, padded, header, body>> /\ stage = "reading"
    BY <1>10 DEF TakeFile, Ends, Invalid
  <2>2. Lengthy'
    BY <2>1 DEF Lengthy, packing, body
  <2> QED
    BY <2>1, <2>2, Unseen
<1>11. CASE UNCHANGED <<vars, form, body>>
  BY <1>1, <1>11
<1> QED
  BY <1>2, <1>3, <1>4, <1>5, <1>6, <1>7, <1>8, <1>9, <1>10, <1>11 DEF DeliveryNext

LEMMA DeliveryStarts == ASSUME DeliveryInit PROVE Lengthy /\ Body!Init
<1>1. Lengthy
  BY DEF DeliveryInit, Init, Body!Idle, Lengthy
<1> QED
  BY <1>1, PacketIsNatural DEF DeliveryInit, Body!Init

(* Delivery implements BoundedRead: however a package was made, its        *)
(* transfer is one of the readings of that module.                         *)
THEOREM DeliveryReads == DeliverySpec => Body!Spec
<1>1. DeliveryInit => Lengthy /\ Body!Init
  BY DeliveryStarts
<1>2. Lengthy /\ [DeliveryNext]_<<vars, form, body>>
          => Lengthy' /\ [Body!Next]_(Body!vars)
  BY DeliveryStepReads
<1> QED
  BY <1>1, <1>2, PTL DEF DeliverySpec, Body!Spec

LEMMA ReadAlways == Body!Spec => []ReadInv
<1>1. Body!Init => ReadInv
  BY ReadAssumed, ReadStarts
<1>2. ReadInv /\ [Body!Next]_(Body!vars) => ReadInv'
  BY ReadAssumed, ReadStepKeeps
<1> QED
  BY <1>1, <1>2, PTL DEF Body!Spec

(* Whatever the pieces a packet arrives in, the recipient's buffer stays   *)
(* within what was announced and the limit of a packet, and gathering it   *)
(* moves at most twice its bytes (client.ts:45-61, api.ts:49-68).          *)
THEOREM DeliveryBufferBounded == DeliverySpec => []BufferBounded
<1>1. ReadInv => BufferBounded
  BY ReadAssumed, ReadInvImplies DEF BufferBounded
<1> QED
  BY <1>1, DeliveryReads, ReadAlways, PTL

(* A packet within the limit is refused by its recipient's reader only for *)
(* headers that misstate its length, and never handed on short of what was *)
(* announced (client.ts:41-44, 53, 62, api.ts:47, 60, 69).                 *)
THEOREM DeliveryReadOrForCause == DeliverySpec => []ReadOrForCause
<1>1. ReadInv => ReadOrForCause
  BY DEF ReadInv, ReadOrForCause
<1> QED
  BY <1>1, DeliveryReads, ReadAlways, PTL

-------------------------------------------------------------------------------
(* The count of a draft *)

Drawn == Seq(Meter!Units)
EncodedOf(t) == [n \in 1 .. Len(t) |-> Meter!Encoded(t, n)]
Bytes(t) == CHOOSE g : g = [n \in 0 .. Len(t) |->
    IF n = 0 THEN 0 ELSE g[n - 1] + Meter!Encoded(t, n)]
Feeds(t, n) == {i \in 1 .. n : t[i] = "newline"}

(* A count of the first units of t, which does not stop inside a pair.     *)
Counts(t) == {c \in [offset : 0 .. Len(t), bytes : Nat, lines : Nat] :
                 /\ c.offset = 0 \/ ~Meter!Paired(t, c.offset)
                 /\ c.bytes = Bytes(t)[c.offset]
                 /\ c.lines = 1 + Cardinality(Feeds(t, c.offset))}

LEMMA Utf8IsBytes == ASSUME NEW t PROVE Meter!Utf8(t) = Bytes(t)[Len(t)]
BY DEF Meter!Utf8, Bytes

LEMMA LinesAreFeeds ==
    ASSUME NEW t, t \in Drawn PROVE Meter!Lines(t) = 1 + Cardinality(Feeds(t, Len(t)))
<1>1. DOMAIN t = 1 .. Len(t)
  BY DEF Drawn
<1>2. {i \in DOMAIN t : t[i] = "newline"} = Feeds(t, Len(t))
  BY <1>1 DEF Feeds
<1> QED
  BY <1>2 DEF Meter!Lines, Meter!Cardinality, Cardinality

LEMMA BytesAdd ==
    ASSUME NEW t, t \in Drawn PROVE Adds(Bytes(t), 0, EncodedOf(t), Len(t))
<1>1. Len(t) \in Nat /\ \A n \in 1 .. Len(t) : Meter!Width(t[n]) \in Nat
  BY DEF Drawn, Meter!Width
<1>2. \A n \in 1 .. Len(t) : Meter!Encoded(t, n) \in Nat
  BY <1>1 DEF Meter!Encoded
<1>3. EncodedOf(t) \in [1 .. Len(t) -> Nat]
      /\ \A n \in 1 .. Len(t) : EncodedOf(t)[n] = Meter!Encoded(t, n)
  BY <1>2 DEF EncodedOf
<1>4. Bytes(t) = CHOOSE g : Summing(g, 0, EncodedOf(t), Len(t))
  <2>1. ASSUME NEW g
        PROVE  (g = [n \in 0 .. Len(t) |-> IF n = 0 THEN 0 ELSE g[n - 1] + Meter!Encoded(t, n)])
               <=> Summing(g, 0, EncodedOf(t), Len(t))
    BY <1>3 DEF Summing
  <2> QED
    BY <2>1 DEF Bytes
<1> QED
  BY <1>1, <1>3, <1>4, SumChosen

LEMMA FeedsAre ==
    ASSUME NEW t, NEW n \in Nat
    PROVE  /\ IsFiniteSet(Feeds(t, n)) /\ Cardinality(Feeds(t, n)) \in Nat
           /\ Cardinality(Feeds(t, 0)) = 0
           /\ Cardinality(Feeds(t, n + 1)) =
                 Cardinality(Feeds(t, n)) + IF t[n + 1] = "newline" THEN 1 ELSE 0
<1>1. IsFiniteSet(Feeds(t, n)) /\ Cardinality(Feeds(t, n)) \in Nat
  <2>1. IsFiniteSet(1 .. n) /\ Feeds(t, n) \in SUBSET (1 .. n)
    BY FS_Interval DEF Feeds
  <2>2. IsFiniteSet(Feeds(t, n))
    BY <2>1, FS_Subset
  <2> QED
    BY <2>2, FS_CardinalityType
<1>2. Cardinality(Feeds(t, 0)) = 0
  <2>1. Feeds(t, 0) = {}
    BY DEF Feeds
  <2> QED
    BY <2>1, FS_EmptySet
<1>3. Cardinality(Feeds(t, n + 1)) =
          Cardinality(Feeds(t, n)) + IF t[n + 1] = "newline" THEN 1 ELSE 0
  <2>1. n + 1 \notin Feeds(t, n)
    BY DEF Feeds
  <2>2. CASE t[n + 1] = "newline"
    <3>1. Feeds(t, n + 1) = Feeds(t, n) \cup {n + 1}
      BY <2>2 DEF Feeds
    <3> QED
      BY <1>1, <2>1, <2>2, <3>1, FS_AddElement
  <2>3. CASE t[n + 1] # "newline"
    <3>1. Feeds(t, n + 1) = Feeds(t, n)
      BY <2>3 DEF Feeds
    <3> QED
      BY <1>1, <2>3, <3>1
  <2> QED
    BY <2>2, <2>3
<1> QED
  BY <1>1, <1>2, <1>3

(* A turn of the loop takes a unit, or a pair whole.                       *)
LEMMA TakeCounts ==
    ASSUME NEW t, t \in Drawn, NEW c \in Counts(t), c.offset < Len(t), NEW end
    PROVE  LET d == Meter!Take(t, c, end)
           IN  d \in Counts(t) /\ d.offset > c.offset
<1> DEFINE i == c.offset + 1
           d == Meter!Take(t, c, end)
<1>1. /\ Len(t) \in Nat /\ c.offset \in 0 .. Len(t) /\ i \in 1 .. Len(t) /\ i - 1 = c.offset
      /\ c.bytes \in Nat /\ c.lines \in Nat
      /\ c.offset = 0 \/ ~Meter!Paired(t, c.offset)
      /\ c.bytes = Bytes(t)[c.offset] /\ c.lines = 1 + Cardinality(Feeds(t, c.offset))
  BY DEF Drawn, Counts
<1>2. /\ \A n \in 1 .. Len(t) : Bytes(t)[n] = Bytes(t)[n - 1] + Meter!Encoded(t, n)
      /\ Bytes(t) \in [0 .. Len(t) -> Nat]
  BY BytesAdd DEF Adds, EncodedOf
<1>3. ~(i > 1 /\ Meter!Paired(t, i - 1))
  BY <1>1
<1>4. Meter!Encoded(t, i) = IF Meter!Paired(t, i) THEN 4 ELSE Meter!Width(t[i])
  BY <1>3 DEF Meter!Encoded
<1>5. /\ Cardinality(Feeds(t, c.offset)) \in Nat
      /\ Cardinality(Feeds(t, i)) =
            Cardinality(Feeds(t, c.offset)) + IF t[i] = "newline" THEN 1 ELSE 0
  <2>1. ASSUME NEW n \in Nat, i = n + 1
        PROVE  /\ Cardinality(Feeds(t, n)) \in Nat
               /\ Cardinality(Feeds(t, i)) =
                     Cardinality(Feeds(t, n)) + IF t[i] = "newline" THEN 1 ELSE 0
    BY <2>1, FeedsAre
  <2>2. c.offset \in Nat
    BY <1>1
  <2> QED
    BY <2>1, <2>2
<1>6. Meter!Width(t[i]) \in Nat
  BY DEF Meter!Width
<1>7. CASE ~Meter!Paired(t, i)
  <2>1. d = [offset |-> i, bytes |-> c.bytes + Meter!Width(t[i]),
             lines |-> c.lines + IF t[i] = "newline" THEN 1 ELSE 0]
    BY <1>7 DEF Meter!Take
  <2>2. Bytes(t)[i] = c.bytes + Meter!Width(t[i])
    BY <1>1, <1>2, <1>4, <1>7
  <2> QED
    BY <1>1, <1>5, <1>6, <1>7, <2>1, <2>2 DEF Counts
<1>8. CASE Meter!Paired(t, i)
  <2>1. t[i] = "high" /\ i < Len(t) /\ t[i + 1] = "low" /\ i + 1 \in 1 .. Len(t)
    BY <1>1, <1>8 DEF Meter!Paired
  <2>2. d = [offset |-> i + 1, bytes |-> c.bytes + 4, lines |-> c.lines + 0]
    BY <1>8, <2>1 DEF Meter!Take
  <2>3. ~Meter!Paired(t, i + 1)
    BY <2>1 DEF Meter!Paired
  <2>4. Meter!Encoded(t, i + 1) = 0
    BY <1>1, <1>8, <2>3 DEF Meter!Encoded
  <2>5. Bytes(t)[i] = c.bytes + 4
    BY <1>1, <1>2, <1>4, <1>8
  <2>6. Bytes(t)[i + 1] = c.bytes + 4
    <3>1. Bytes(t)[i + 1] = Bytes(t)[(i + 1) - 1] + Meter!Encoded(t, i + 1)
      BY <1>2, <2>1
    <3>2. (i + 1) - 1 = i /\ c.bytes + 4 \in Nat
      BY <1>1
    <3> QED
      BY <2>4, <2>5, <3>1, <3>2
  <2>7. Cardinality(Feeds(t, i + 1)) = Cardinality(Feeds(t, c.offset))
    <3>1. i \in Nat
      BY <1>1
    <3>2. Cardinality(Feeds(t, i + 1)) = Cardinality(Feeds(t, i))
      <4>1. t[i + 1] # "newline" /\ t[i] # "newline"
        BY <2>1
      <4>2. ASSUME NEW n \in Nat, t[n + 1] # "newline"
            PROVE  Cardinality(Feeds(t, n + 1)) = Cardinality(Feeds(t, n))
        <5>1. /\ Cardinality(Feeds(t, n)) \in Nat
              /\ Cardinality(Feeds(t, n + 1)) =
                    Cardinality(Feeds(t, n)) + IF t[n + 1] = "newline" THEN 1 ELSE 0
          BY FeedsAre
        <5> QED
          BY <4>2, <5>1
      <4> QED
        BY <3>1, <4>1, <4>2
    <3> QED
      BY <1>5, <2>1, <3>2
  <2> QED
    BY <1>1, <1>5, <2>1, <2>2, <2>3, <2>6, <2>7 DEF Counts
<1> QED
  BY <1>7, <1>8

(* A run of the loop from c to the end of a chunk.                         *)
Turning(g, t, c, end) == g = [k \in 0 .. Chunk |->
    IF k = 0 THEN c
    ELSE IF g[k - 1].offset >= end THEN g[k - 1] ELSE Meter!Take(t, g[k - 1], end)]

LEMMA CountedIsTurned ==
    ASSUME NEW t, NEW c, NEW end,
           end = IF c.offset + Chunk < Len(t) THEN c.offset + Chunk ELSE Len(t)
    PROVE  Meter!Counted(t, c) = (CHOOSE g : Turning(g, t, c, end))[Chunk]
BY DEF Meter!Counted, Turning

LEMMA ChunkIsPositive == Chunk \in Nat /\ Chunk > 0
BY DeliveryAssumption DEF Meter!MeterAssumption

Turn(t, b, end) == IF b.offset >= end THEN b ELSE Meter!Take(t, b, end)

LEMMA TurnCounts ==
    ASSUME NEW t, t \in Drawn, NEW end \in Nat, end <= Len(t), NEW b \in Counts(t)
    PROVE  /\ Turn(t, b, end) \in Counts(t)
           /\ IF b.offset >= end THEN Turn(t, b, end) = b
              ELSE Turn(t, b, end).offset > b.offset
<1>1. b.offset \in Nat /\ Len(t) \in Nat
  BY DEF Counts, Drawn
<1>2. CASE b.offset >= end
  BY <1>2 DEF Turn
<1>3. CASE b.offset < Len(t) /\ ~(b.offset >= end)
  BY <1>3, TakeCounts DEF Turn
<1> QED
  BY <1>1, <1>2, <1>3

LEMMA TurningExists ==
    ASSUME NEW t, t \in Drawn, NEW c \in Counts(t), NEW end \in Nat, end <= Len(t)
    PROVE  \E h : Turning(h, t, c, end)
<1>1. ASSUME NEW F, F = [x \in Nat \X Counts(t) |-> Turn(t, x[2], end)]
      PROVE  \E h : Turning(h, t, c, end)
  <2>1. /\ F \in [Nat \X Counts(t) -> Counts(t)]
        /\ \A k \in Nat, b \in Counts(t) : F[<<k, b>>] = Turn(t, b, end)
    BY <1>1, TurnCounts
  <2>2. F \in [Nat \X Counts(t) -> Counts(t)]
    BY <2>1
  <2>3. PICK h : Runs(h, Counts(t), c, F, Chunk)
    BY <2>2, ChunkIsPositive, Recursion
  <2>4. /\ h \in [0 .. Chunk -> Counts(t)] /\ h[0] = c
        /\ \A k \in 1 .. Chunk : h[k] = F[<<k, h[k - 1]>>]
    BY <2>3 DEF Runs
  <2>5. ASSUME NEW k \in 1 .. Chunk PROVE h[k] = Turn(t, h[k - 1], end)
    <3>1. h[k - 1] \in Counts(t) /\ k \in Nat
      BY <2>4, ChunkIsPositive
    <3> QED
      BY <2>1, <2>4, <3>1
  <2>6. \A k \in 0 .. Chunk : h[k] = IF k = 0 THEN c ELSE Turn(t, h[k - 1], end)
    BY <2>4, <2>5, ChunkIsPositive
  <2>7. h = [k \in 0 .. Chunk |-> IF k = 0 THEN c ELSE Turn(t, h[k - 1], end)]
    BY <2>4, <2>6
  <2>8. Turning(h, t, c, end)
    BY <2>7 DEF Turning, Turn
  <2> QED
    BY <2>8
<1> QED
  BY <1>1

(* Every turn leaves a count, and goes on by a unit unless the chunk ended. *)
LEMMA TurnedIs ==
    ASSUME NEW t, t \in Drawn, NEW c \in Counts(t), NEW end \in Nat, end <= Len(t), NEW g,
           Turning(g, t, c, end)
    PROVE  /\ g \in [0 .. Chunk -> Counts(t)] /\ g[0] = c
           /\ \A k \in 1 .. Chunk :
                  IF g[k - 1].offset >= end THEN g[k] = g[k - 1]
                  ELSE g[k].offset > g[k - 1].offset
<1>1. /\ g[0] = c /\ DOMAIN g = 0 .. Chunk /\ g = [k \in DOMAIN g |-> g[k]]
      /\ \A k \in 1 .. Chunk : g[k] = Turn(t, g[k - 1], end)
  BY ChunkIsPositive DEF Turning, Turn
<1>2. \A k \in 1 .. Chunk : g[k - 1] \in Counts(t) => g[k] \in Counts(t)
  BY <1>1, TurnCounts
<1>3. g \in [0 .. Chunk -> Counts(t)]
  BY <1>1, <1>2, ChunkIsPositive, Staying
<1>4. ASSUME NEW k \in 1 .. Chunk
      PROVE  IF g[k - 1].offset >= end THEN g[k] = g[k - 1]
             ELSE g[k].offset > g[k - 1].offset
  <2>1. g[k - 1] \in Counts(t) /\ g[k] = Turn(t, g[k - 1], end)
    BY <1>1, <1>3, ChunkIsPositive
  <2> QED
    BY <2>1, TurnCounts
<1> QED
  BY <1>1, <1>3, <1>4

(* A chunk leaves a count, and a short text is counted in one.             *)
LEMMA CountedCounts ==
    ASSUME NEW t, t \in Drawn, NEW c \in Counts(t)
    PROVE  /\ Meter!Counted(t, c) \in Counts(t)
           /\ Len(t) <= c.offset + Chunk => Meter!Counted(t, c).offset = Len(t)
<1> DEFINE end == IF c.offset + Chunk < Len(t) THEN c.offset + Chunk ELSE Len(t)
<1>1. c.offset \in Nat /\ c.offset <= Len(t) /\ Len(t) \in Nat /\ end \in Nat /\ end <= Len(t)
  BY ChunkIsPositive DEF Counts, Drawn
<1>2. ASSUME NEW g, Turning(g, t, c, end)
      PROVE  /\ g[Chunk] \in Counts(t)
             /\ Len(t) <= c.offset + Chunk => g[Chunk].offset = Len(t)
  <2>1. /\ g \in [0 .. Chunk -> Counts(t)] /\ g[0] = c
        /\ \A k \in 1 .. Chunk : IF g[k - 1].offset >= end THEN g[k] = g[k - 1]
                                 ELSE g[k].offset > g[k - 1].offset
    <3> HIDE DEF end
    <3> QED
      BY <1>1, <1>2, TurnedIs
  <2>2. \A k \in 0 .. Chunk : g[k].offset \in Nat /\ g[k].offset <= Len(t)
    BY <2>1 DEF Counts, Drawn
  <2> DEFINE S == {k \in Nat : k <= Chunk => g[k].offset >= end \/ g[k].offset >= c.offset + k}
  <2>3. 0 \in S
    BY <1>1, <2>1
  <2>4. ASSUME NEW k \in Nat, k \in S PROVE k + 1 \in S
    <3>1. SUFFICES ASSUME k + 1 <= Chunk
                   PROVE g[k + 1].offset >= end \/ g[k + 1].offset >= c.offset + (k + 1)
      OBVIOUS
    <3>2. /\ k + 1 \in 1 .. Chunk /\ (k + 1) - 1 = k /\ k \in 0 .. Chunk
          /\ k + 1 \in 0 .. Chunk
      BY <3>1, ChunkIsPositive
    <3>3. g[k].offset \in Nat /\ g[k + 1].offset \in Nat
      BY <2>2, <3>2
    <3>4. IF g[k].offset >= end THEN g[k + 1] = g[k] ELSE g[k + 1].offset > g[k].offset
      BY <2>1, <3>2
    <3>5. g[k].offset >= end \/ g[k].offset >= c.offset + k
      BY <2>4, <3>2
    <3> QED
      BY <1>1, <3>3, <3>4, <3>5
  <2>5. Chunk \in S
    <3> HIDE DEF S
    <3> QED
      BY <2>3, <2>4, ChunkIsPositive, Inductive
  <2>6. Chunk \in 0 .. Chunk
    BY ChunkIsPositive
  <2> QED
    BY <1>1, <2>1, <2>2, <2>5, <2>6, ChunkIsPositive
<1> QED
  <2>1. Turning(CHOOSE g : Turning(g, t, c, end), t, c, end)
    <3> HIDE DEF end
    <3>1. \E g : Turning(g, t, c, end)
      BY <1>1, TurningExists
    <3> QED
      BY <3>1
  <2>2. Meter!Counted(t, c) = (CHOOSE g : Turning(g, t, c, end))[Chunk]
    BY CountedIsTurned
  <2> HIDE DEF end
  <2> QED
    BY <1>2, <2>1, <2>2

(* The form measures its draft: what it shows as final is a whole count.   *)
MeterInv ==
    /\ draft \in Drafts /\ measured = draft /\ count \in Counts(draft)
    /\ timer => shown.pending
    /\ ~timer => count.offset = Len(draft) /\ shown = Meter!Report(count, FALSE)

LEMMA DraftsAreDrawn == Drafts \subseteq Drawn /\ <<>> \in Drafts
BY DeliveryAssumption DEF Meter!MeterAssumption, Drawn

LEMMA NothingCounts == ASSUME NEW t, t \in Drawn PROVE Meter!Nothing \in Counts(t)
<1>1. Len(t) \in Nat
  BY DEF Drawn
<1>2. Bytes(t)[0] = 0
  BY BytesAdd DEF Adds
<1>3. Cardinality(Feeds(t, 0)) = 0
  BY FeedsAre
<1> QED
  BY <1>1, <1>2, <1>3 DEF Counts, Meter!Nothing

LEMMA StepMeasures ==
    ASSUME NEW t, t \in Drawn, NEW c \in Counts(t), NEW report, Meter!Step(t, c, report),
           report.pending \/ Len(t) <= c.offset + Chunk
    PROVE  /\ count' \in Counts(t) /\ (timer' => shown'.pending)
           /\ ~timer' => count'.offset = Len(t) /\ shown' = Meter!Report(count', FALSE)
<1> DEFINE next == Meter!Counted(t, c)
<1>1. /\ next \in Counts(t) /\ (Len(t) <= c.offset + Chunk => next.offset = Len(t))
      /\ next.offset \in Nat /\ next.offset <= Len(t) /\ Len(t) \in Nat
  <2>1. next \in Counts(t) /\ (Len(t) <= c.offset + Chunk => next.offset = Len(t))
    BY CountedCounts
  <2> HIDE DEF next
  <2> QED
    BY <2>1 DEF Counts, Drawn
<1>2. /\ count' = next /\ timer' = (next.offset < Len(t))
      /\ shown' = IF next.offset < Len(t) THEN report ELSE Meter!Report(next, FALSE)
  BY DEF Meter!Step
<1> HIDE DEF next
<1>3. CASE next.offset < Len(t)
  <2>1. report.pending
    BY <1>1, <1>3
  <2>2. timer' /\ shown' = report
    BY <1>2, <1>3
  <2> QED
    BY <1>1, <1>2, <2>1, <2>2
<1>4. CASE next.offset = Len(t)
  <2>1. ~(next.offset < Len(t))
    BY <1>1, <1>4
  <2>2. ~timer' /\ shown' = Meter!Report(next, FALSE)
    BY <1>2, <2>1, Zenon
  <2>3. count' \in Counts(t) /\ count'.offset = Len(t)
    BY <1>1, <1>2, <1>4
  <2>4. shown' = Meter!Report(count', FALSE)
    BY <1>2, <2>2, Zenon
  <2> QED
    BY <2>2, <2>3, <2>4
<1>5. next.offset < Len(t) \/ next.offset = Len(t)
  BY <1>1
<1> QED
  BY <1>3, <1>4, <1>5, Zenon

LEMMA ClearedMeasures ==
    ASSUME draft' = <<>>, Meter!Cleared PROVE MeterInv'
<1>1. <<>> \in Drafts /\ <<>> \in Drawn /\ Meter!Nothing \in Counts(<<>>)
  BY DraftsAreDrawn, NothingCounts
<1>2. Meter!Nothing.offset = 0 /\ Len(<<>>) = 0
  BY DEF Meter!Nothing
<1> QED
  BY <1>1, <1>2 DEF MeterInv, Meter!Cleared

LEMMA TypeMeasures == ASSUME MeterInv, NEW t \in Drafts, Meter!Type(t) PROVE MeterInv'
<1>1. CASE t = <<>>
  BY <1>1, ClearedMeasures DEF Meter!Type
<1>2. CASE t # <<>>
  <2> DEFINE report == IF Len(t) > Chunk THEN Meter!Report(Meter!Nothing, TRUE) ELSE shown
  <2>1. t # measured /\ draft' = t /\ Meter!Update(t)
    BY <1>2 DEF Meter!Type, MeterInv
  <2>2. measured' = t /\ Meter!Step(t, Meter!Nothing, report)
    BY <2>1 DEF Meter!Update
  <2>3. t \in Drawn /\ Meter!Nothing \in Counts(t) /\ Len(t) \in Nat
    BY DraftsAreDrawn, NothingCounts DEF Drawn
  <2>4. report.pending \/ Len(t) <= Meter!Nothing.offset + Chunk
    BY <2>3, ChunkIsPositive DEF Meter!Nothing, Meter!Report
  <2>5. /\ count' \in Counts(t) /\ (timer' => shown'.pending)
        /\ ~timer' => count'.offset = Len(t) /\ shown' = Meter!Report(count', FALSE)
    <3> HIDE DEF report
    <3> QED
      BY <2>2, <2>3, <2>4, StepMeasures
  <2> QED
    BY <2>1, <2>2, <2>5 DEF MeterInv
<1> QED
  BY <1>1, <1>2

LEMMA FireMeasures == ASSUME MeterInv, Meter!Fire PROVE MeterInv'
<1>1. /\ draft \in Drawn /\ count \in Counts(draft) /\ shown.pending
      /\ Meter!Step(draft, count, shown) /\ UNCHANGED <<draft, measured>>
  BY DraftsAreDrawn DEF MeterInv, Meter!Fire
<1>2. /\ count' \in Counts(draft) /\ (timer' => shown'.pending)
      /\ ~timer' => count'.offset = Len(draft) /\ shown' = Meter!Report(count', FALSE)
  BY <1>1, StepMeasures
<1> QED
  BY <1>1, <1>2 DEF MeterInv

LEMMA DeliveryStepMeasures ==
    ASSUME MeterInv, [DeliveryNext]_<<vars, form, body>> PROVE MeterInv'
<1>1. ASSUME UNCHANGED form PROVE MeterInv'
  BY <1>1 DEF form, MeterInv
<1>2. CASE \E t \in Drafts : Type(t)
  BY <1>2, TypeMeasures DEF Type
<1>3. CASE Fire
  BY <1>3, FireMeasures DEF Fire
<1>4. CASE Upload
  BY <1>1, <1>4, ClearedMeasures DEF Upload
<1>5. CASE \/ Submit \/ UNCHANGED <<vars, form, body>>
           \/ /\ (\E f \in Files : PackFile(f)) \/ Padded \/ (\E h \in Headers : Seal(h))
              /\ UNCHANGED <<form, body>>
           \/ draft = <<>> /\ Foreign /\ UNCHANGED <<form, body>>
           \/ (TakeFile \/ Ends) /\ UNCHANGED <<form, body>>
  BY <1>1, <1>5 DEF Submit
<1>6. CASE \E client \in Body!Clients, encoded \in BOOLEAN, length \in Lengths :
              Respond(client, encoded, length)
  BY <1>1, <1>6 DEF Respond
<1>7. CASE Transfer \/ Receive
  BY <1>1, <1>7 DEF Transfer, Receive
<1> QED
  BY <1>2, <1>3, <1>4, <1>5, <1>6, <1>7 DEF DeliveryNext

LEMMA MeasuringStarts == ASSUME DeliveryInit PROVE MeterInv
<1>1. <<>> \in Drafts /\ <<>> \in Drawn /\ Meter!Nothing \in Counts(<<>>)
  BY DraftsAreDrawn, NothingCounts
<1>2. Meter!Nothing.offset = 0 /\ Len(<<>>) = 0
  BY DEF Meter!Nothing
<1> QED
  BY <1>1, <1>2 DEF DeliveryInit, MeterInv, Meter!Init

LEMMA MeterAlways == DeliverySpec => []MeterInv
<1>1. DeliveryInit => MeterInv
  BY MeasuringStarts
<1>2. MeterInv /\ [DeliveryNext]_<<vars, form, body>> => MeterInv'
  BY DeliveryStepMeasures
<1> QED
  BY <1>1, <1>2, PTL DEF DeliverySpec

LEMMA MeasuredIsTheDraft == ASSUME MeterInv PROVE ShownIsTheDraft
<1>1. SUFFICES ASSUME ~shown.pending
               PROVE  shown = [bytes |-> Meter!Utf8(draft), lines |-> Meter!Lines(draft),
                               pending |-> FALSE]
  BY DEF ShownIsTheDraft, Meter!ShownIsTheDraft
<1>2. /\ draft \in Drawn /\ count \in Counts(draft) /\ count.offset = Len(draft)
      /\ shown = Meter!Report(count, FALSE)
  BY <1>1, DraftsAreDrawn DEF MeterInv
<1>3. count.bytes = Meter!Utf8(draft) /\ count.lines = Meter!Lines(draft)
  BY <1>2, Utf8IsBytes, LinesAreFeeds DEF Counts
<1> QED
  BY <1>2, <1>3 DEF Meter!Report

(* A size shown as final is that of the draft: the count never stops inside *)
(* a surrogate pair, and one of an earlier draft is never shown for a later *)
(* one (text-metrics.ts:12-46, Create.svelte:14-20, 32-35, 280-288).        *)
THEOREM ShownAlwaysTheDraft == DeliverySpec => []ShownIsTheDraft
BY MeterAlways, MeasuredIsTheDraft, PTL

-------------------------------------------------------------------------------
(* The whole way *)

Falls == stage = "cut" => size < Packet

LEMMA DeliveryStepFalls ==
    ASSUME PackageInv, Lengthy, Body!TypeOK, ReadOrForCause, Falls,
           [DeliveryNext]_<<vars, form, body>>
    PROVE  Falls'
<1>1. ASSUME stage' # "cut" PROVE Falls'
  BY <1>1 DEF Falls
<1>2. CASE (\E t \in Drafts : Type(t)) \/ Fire
  BY <1>1, <1>2 DEF Type, Fire, vars
<1>3. CASE Submit
  BY <1>1, <1>3 DEF Submit, PackText
<1>4. CASE /\ (\E f \in Files : PackFile(f)) \/ Padded \/ (\E h \in Headers : Seal(h))
           /\ UNCHANGED <<form, body>>
  BY <1>1, <1>4 DEF PackFile, Padded, Seal
<1>5. CASE draft = <<>> /\ Foreign /\ UNCHANGED <<form, body>>
  BY <1>1, <1>5 DEF Foreign
<1>6. CASE Upload
  BY <1>1, <1>6 DEF Upload, Admit
<1>7. CASE \E client \in Body!Clients, encoded \in BOOLEAN, length \in Lengths :
              Respond(client, encoded, length)
  BY <1>1, <1>7 DEF Respond, vars
<1>8. CASE Transfer
  BY <1>1, <1>8 DEF Transfer, vars
<1>9. CASE Receive
  <2>1. CASE size = Packet
    BY <1>1, <1>9, <2>1 DEF Receive, TakeText, Invalid
  <2>2. CASE size # Packet
    <3>1. reading = "done" /\ UNCHANGED <<padded, header, body>>
      BY <1>9, <2>2 DEF Receive
    <3>2. size <= Packet
      BY <3>1 DEF ReadOrForCause, Body!ReadOrForCause
    <3>3. size < Packet
      BY <2>2, <3>2, PacketIsNatural DEF Body!TypeOK
    <3> QED
      BY <3>1, <3>3 DEF Falls, Packet, body
  <2> QED
    BY <2>1, <2>2
<1>10. CASE (TakeFile \/ Ends) /\ UNCHANGED <<form, body>>
  BY <1>1, <1>10 DEF TakeFile, Ends, Invalid
<1>11. CASE UNCHANGED <<vars, form, body>>
  BY <1>11 DEF Falls, vars, body, Packet
<1> QED
  BY <1>2, <1>3, <1>4, <1>5, <1>6, <1>7, <1>8, <1>9, <1>10, <1>11 DEF DeliveryNext

LEMMA PackageArrives ==
    ASSUME PackageInv, MeterInv, Lengthy, Body!TypeOK, ReadOrForCause, Falls
    PROVE  PackedArrives
<1>1. (stage = "refused" => foreign) /\ (stage = "invalid" => foreign)
  BY DEF PackageInv, Lawful
<1>2. reading = "refused" => announced \notin {Body!Absent, Packet}
  <2>1. reading = "refused" => Packet <= MaxPacket
    BY DEF Lengthy, PackageInv, Lawful, Parses
  <2>2. reading = "refused" => announced \notin {Body!Absent, Packet} \/ Packet > MaxPacket
    BY DEF ReadOrForCause, Body!ReadOrForCause
  <2> QED
    BY <2>1, <2>2, PacketIsNatural, Limits
<1>3. stage = "new" /\ Submittable => Meter!Utf8(draft) <= MaxText
  <2>1. ~shown.pending => shown.bytes = Meter!Utf8(draft)
    BY MeasuredIsTheDraft DEF ShownIsTheDraft, Meter!ShownIsTheDraft
  <2> QED
    BY <2>1 DEF Submittable
<1> QED
  BY <1>1, <1>2, <1>3 DEF PackedArrives, Falls

(* What the form lets through and pack() accepts is admitted, read however *)
(* it is cut, and read back: nothing within the limits is refused for its  *)
(* size once a retrieval has been spent (protocol.rs:72-90,                *)
(* content.ts:79-105, 126-174, api.ts:53-70).                              *)
THEOREM PackedAlwaysArrives == DeliverySpec => []PackedArrives
<1>1. DeliveryInit => Lengthy /\ Falls
  BY DeliveryStarts DEF DeliveryInit, Init, Falls
<1>2. Lengthy /\ [DeliveryNext]_<<vars, form, body>> => Lengthy'
  BY DeliveryStepReads
<1>3. /\ PackageInv /\ Lengthy /\ Body!TypeOK /\ ReadOrForCause /\ Falls
      /\ [DeliveryNext]_<<vars, form, body>>
      => Falls'
  BY DeliveryStepFalls
<1>4. DeliverySpec => []Body!TypeOK
  <2>1. ReadInv => Body!TypeOK
    BY DEF ReadInv
  <2> QED
    BY <2>1, DeliveryReads, ReadAlways, PTL
<1>5. PackageInv /\ MeterInv /\ Lengthy /\ Body!TypeOK /\ ReadOrForCause /\ Falls
      => PackedArrives
  BY PackageArrives
<1> QED
  BY <1>1, <1>2, <1>3, <1>4, <1>5, PackageAlways, MeterAlways, DeliveryReadOrForCause, PTL
     DEF DeliverySpec
===============================================================================
