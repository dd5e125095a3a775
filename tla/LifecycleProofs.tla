---------------------------- MODULE LifecycleProofs ----------------------------
(***************************************************************************)
(* For any number of workers, threads or processes: the interval lines add *)
(* up, and the summary is exact and final.                                 *)
(***************************************************************************)
EXTENDS Lifecycle, WellFoundedInduction, TLAPS

(* Induction over the naturals, for sets *)

\* A set of naturals that is not empty has a least element.
LEMMA Least ==
    ASSUME NEW T \in SUBSET Nat, T # {}
    PROVE  \E m \in T : \A k \in T : ~(k < m)
  <1> DEFINE R == OpToRel(<, Nat)
  <1>1. IsWellFoundedOn(R, Nat)
    BY Zenon, NatLessThanWellFounded
  <1>2. \A x, y \in Nat : <<x, y>> \in R <=> x < y
    BY Zenon DEF OpToRel
  <1> HIDE DEF R
  <1>3. PICK m \in T : \A k \in T : ~(<<k, m>> \in R)
    BY <1>1, WFMin, Zenon
  <1>4. \A k \in T : ~(k < m)
    BY <1>2, <1>3, Zenon
  <1> QED
    BY Zenon, <1>4

\* Induction over the naturals, for a set instead of a predicate.
LEMMA SetInduction ==
    ASSUME NEW S \in SUBSET Nat, 0 \in S, \A n \in S : n + 1 \in S
    PROVE  S = Nat
  <1> SUFFICES ASSUME Nat \ S # {} PROVE FALSE
    BY Zenon
  <1>1. PICK m \in Nat \ S : \A k \in Nat \ S : ~(k < m)
    BY Zenon, Least
  <1>2. m # 0 /\ m - 1 \in Nat
    OBVIOUS
  <1>3. m - 1 \in S
    BY <1>1, <1>2
  <1> QED
    BY <1>2, <1>3

--------------------------------------------------------------------------------
(* Sums *)

\* f is the function of the sums of g, up to n.
IsSums(f, g, n) ==
    /\ f \in [0..n -> Nat]
    /\ f[0] = 0
    /\ \A k \in 1..n : f[k] = f[k - 1] + g[k]

\* What the partial sums over the workers are.
LEMMA SumsProperties ==
    ASSUME NEW g \in [Workers -> Nat]
    PROVE  IsSums(Sums(g), g, N)
  <1> DEFINE S == {n \in Nat : n =< N => \E f \in [0..n -> Nat] : IsSums(f, g, n)}
  <1>1. 0 \in S
    <2>1. IsSums([k \in 0..0 |-> 0], g, 0)
      BY DEF IsSums
    <2> QED
      BY Zenon, <2>1
  <1>2. ASSUME NEW n \in S PROVE n + 1 \in S
    <2> SUFFICES ASSUME n + 1 =< N
                 PROVE  \E f \in [0..(n + 1) -> Nat] : IsSums(f, g, n + 1)
      OBVIOUS
    <2>0. n \in Nat /\ n =< N /\ n + 1 \in Nat
      BY LifecycleAssumption
    <2>1. PICK f \in [0..n -> Nat] : IsSums(f, g, n)
      BY <2>0, Zenon
    <2> DEFINE h == [k \in 0..(n + 1) |-> IF k =< n THEN f[k] ELSE f[n] + g[n + 1]]
    <2>2. n + 1 \in Workers /\ g[n + 1] \in Nat
      BY LifecycleAssumption DEF Workers
    <2>3. h \in [0..(n + 1) -> Nat]
      BY <2>1, <2>2
    <2>4. h[0] = 0
      BY <2>0, <2>1 DEF IsSums
    <2>5. ASSUME NEW k \in 1..(n + 1) PROVE h[k] = h[k - 1] + g[k]
      <3> HIDE DEF S
      <3>1. /\ k \in 0..(n + 1) /\ k - 1 \in 0..(n + 1) /\ k - 1 =< n
            /\ k = n + 1 \/ k \in 1..n
        BY <2>0
      <3>2. h[k - 1] = f[k - 1] /\ h[k] = IF k =< n THEN f[k] ELSE f[n] + g[n + 1]
        BY Zenon, <3>1
      <3> HIDE DEF h
      <3>3. CASE k = n + 1
        BY <2>0, <3>2, <3>3
      <3>4. CASE k \in 1..n
        BY <2>0, <2>1, <3>2, <3>4 DEF IsSums
      <3> QED
        BY Zenon, <3>1, <3>3, <3>4
    <2> HIDE DEF h
    <2> QED
      BY Zenon, <2>3, <2>4, <2>5 DEF IsSums
  <1>3. S = Nat
    <2> HIDE DEF S
    <2>1. S \in SUBSET Nat
      BY Zenon DEF S
    <2> QED
      BY Zenon, <1>1, <1>2, <2>1, SetInduction
  <1>4. PICK f \in [0..N -> Nat] : IsSums(f, g, N)
    BY <1>3, LifecycleAssumption
  <1> DEFINE Rec(s) == [k \in 0..N |-> IF k = 0 THEN 0 ELSE s[k - 1] + g[k]]
  <1>5. f = Rec(f)
    BY <1>4, LifecycleAssumption DEF IsSums
  <1>6. Sums(g) = CHOOSE s : s = Rec(s)
    BY Zenon DEF Sums
  <1>7. Sums(g) = Rec(Sums(g))
    <2> HIDE DEF Rec
    <2> QED
      BY <1>5, <1>6, Zenon
  <1>8. Sums(g)[0] = 0 /\ \A k \in 1..N : Sums(g)[k] = Sums(g)[k - 1] + g[k]
    <2>1. ASSUME NEW k \in 0..N PROVE Sums(g)[k] = Rec(Sums(g))[k]
      <3> HIDE DEF Rec
      <3> QED
        BY <1>7, Zenon
    <2>2. \A k \in 0..N : Sums(g)[k] = IF k = 0 THEN 0 ELSE Sums(g)[k - 1] + g[k]
      BY <2>1, Zenon
    <2> QED
      BY <2>2, LifecycleAssumption
  <1> DEFINE T == {n \in Nat : n =< N => Sums(g)[n] = f[n]}
  <1>9. 0 \in T
    BY Zenon, <1>4, <1>8 DEF IsSums
  <1>10. ASSUME NEW n \in T PROVE n + 1 \in T
    BY <1>4, <1>8, LifecycleAssumption DEF IsSums
  <1>11. T = Nat
    <2> HIDE DEF T
    <2>1. T \in SUBSET Nat
      BY Zenon DEF T
    <2> QED
      BY Zenon, <1>9, <1>10, <2>1, SetInduction
  <1>12. \A k \in 0..N : Sums(g)[k] = f[k]
    BY <1>11, LifecycleAssumption
  <1>13. Sums(g) \in [0..N -> Nat]
    BY Zenon, <1>4, <1>7, <1>12
  <1> QED
    BY Zenon, <1>8, <1>13 DEF IsSums

\* The same as a step from n to n + 1.
LEMMA SumsStep ==
    ASSUME NEW g \in [Workers -> Nat], NEW n \in Nat, n + 1 =< N
    PROVE  /\ Sums(g)[n] \in Nat
           /\ n + 1 \in Workers
           /\ g[n + 1] \in Nat
           /\ Sums(g)[n + 1] = Sums(g)[n] + g[n + 1]
  <1>1. n \in 0..N /\ n + 1 \in 1..N /\ (n + 1) - 1 = n
    BY LifecycleAssumption
  <1>2. Sums(g)[n + 1] = Sums(g)[(n + 1) - 1] + g[n + 1]
    BY <1>1, SumsProperties, Zenon DEF IsSums
  <1>3. Sums(g)[n] \in Nat
    BY Zenon, <1>1, SumsProperties DEF IsSums
  <1> QED
    BY Zenon, <1>1, <1>2, <1>3 DEF Workers

\* One more in the counter of worker w is one more in every sum that has it.
LEMMA SumsUpdate ==
    ASSUME NEW g \in [Workers -> Nat], NEW w \in Workers, NEW h \in [Workers -> Nat],
           h = [g EXCEPT ![w] = g[w] + 1]
    PROVE  \A k \in 0..N : Sums(h)[k] = Sums(g)[k] + (IF w =< k THEN 1 ELSE 0)
  <1> DEFINE T == {n \in Nat : n =< N => Sums(h)[n] = Sums(g)[n] + (IF w =< n THEN 1 ELSE 0)}
  <1>1. IsSums(Sums(g), g, N) /\ IsSums(Sums(h), h, N)
    BY Zenon, SumsProperties
  <1>2. 0 \in T
    BY <1>1, LifecycleAssumption DEF IsSums, Workers
  <1>3. ASSUME NEW n \in T PROVE n + 1 \in T
    <2> SUFFICES ASSUME n + 1 =< N
                 PROVE  Sums(h)[n + 1] = Sums(g)[n + 1] + (IF w =< n + 1 THEN 1 ELSE 0)
      OBVIOUS
    <2>1. /\ n \in Nat /\ n + 1 \in 1..N /\ n \in 0..N
          /\ Sums(h)[n] = Sums(g)[n] + (IF w =< n THEN 1 ELSE 0)
      BY LifecycleAssumption
    <2>2. g[n + 1] \in Nat /\ h[n + 1] = IF n + 1 = w THEN g[n + 1] + 1 ELSE g[n + 1]
      BY Zenon, <2>1 DEF Workers
    <2>3. /\ Sums(g)[n] \in Nat
          /\ Sums(g)[n + 1] = Sums(g)[n] + g[n + 1]
          /\ Sums(h)[n + 1] = Sums(h)[n] + h[n + 1]
      BY Zenon, <2>1, SumsStep
    <2> HIDE DEF T
    <2> QED
      BY <2>1, <2>2, <2>3 DEF Workers
  <1>4. T = Nat
    <2> HIDE DEF T
    <2>1. T \in SUBSET Nat
      BY Zenon DEF T
    <2> QED
      BY Zenon, <1>2, <1>3, <2>1, SetInduction
  <1>5. TAKE k \in 0..N
  <1>6. k \in T /\ k =< N
    <2> HIDE DEF T
    <2> QED
      BY <1>4, LifecycleAssumption
  <1> QED
    BY Zenon, <1>6

\* Sums grow with their length, and the terms bound them.
LEMMA SumsBound ==
    ASSUME NEW g \in [Workers -> Nat], NEW m \in Nat, \A w \in Workers : g[w] =< m
    PROVE  \A k \in 0..N : Sums(g)[k] =< N * m
  <1> DEFINE T == {n \in Nat : n =< N => Sums(g)[n] =< n * m}
  <1>1. IsSums(Sums(g), g, N)
    BY Zenon, SumsProperties
  <1>2. 0 \in T
    BY <1>1, LifecycleAssumption DEF IsSums
  <1>3. ASSUME NEW n \in T PROVE n + 1 \in T
    <2> SUFFICES ASSUME n + 1 =< N PROVE Sums(g)[n + 1] =< (n + 1) * m
      OBVIOUS
    <2>1. n \in Nat /\ n + 1 \in 1..N /\ n \in 0..N /\ Sums(g)[n] =< n * m
      BY LifecycleAssumption
    <2>2. /\ Sums(g)[n] \in Nat
          /\ Sums(g)[n + 1] = Sums(g)[n] + g[n + 1]
          /\ g[n + 1] \in Nat /\ g[n + 1] =< m
      BY Zenon, <2>1, SumsStep
    <2>3. (n + 1) * m = n * m + m
      BY <2>1
    <2> HIDE DEF T
    <2> QED
      BY <2>1, <2>2, <2>3
  <1>4. T = Nat
    <2> HIDE DEF T
    <2>1. T \in SUBSET Nat
      BY Zenon DEF T
    <2> QED
      BY Zenon, <1>2, <1>3, <2>1, SetInduction
  <1>5. TAKE k \in 0..N
  <1>6. k \in Nat /\ k =< N /\ N \in Nat
    BY LifecycleAssumption
  <1>7. Sums(g)[k] =< k * m
    BY Zenon, <1>4, <1>6
  <1>8. k * m =< N * m
    <2>1. N - k \in Nat /\ N = k + (N - k)
      BY <1>6
    <2> DEFINE d == N - k
    <2> HIDE DEF d
    <2>2. (k + d) * m = k * m + d * m /\ d * m \in Nat /\ k * m \in Nat
      BY <1>6, <2>1 DEF d
    <2> QED
      BY <2>1, <2>2 DEF d
  <1>9. Sums(g)[k] \in Nat /\ k * m \in Nat /\ N * m \in Nat
    BY <1>1, <1>6 DEF IsSums
  <1> QED
    BY <1>7, <1>8, <1>9

--------------------------------------------------------------------------------
(* The inductive invariant *)

ByteSums == Sums(Values("bytes"))

PacketSums == Sums(Values("packets"))

\* How many counters a summing loop has loaded.
BytesLoaded == load \div 2

PacketsLoaded == (load - 1) \div 2

\* A worker counts a packet after its bytes.
Counted ==
    \A w \in Workers :
        /\ counters[w].packets =< counters[w].bytes
        /\ counters[w].bytes =< MaxAdds
        /\ wpc[w] = "add" => counters[w].packets < counters[w].bytes

\* A sum t of k counters, loaded while they moved, is not above what the
\* counters hold now, and with the others not below the last total p.
Covers(t, p, s, k) == t =< s[k] /\ p + s[k] =< t + s[N]

Reported ==
    /\ reported = prev
    /\ prev.bytes =< ByteSums[N] /\ prev.packets =< PacketSums[N]
    /\ rpc = "sum" =>
          /\ Covers(total.bytes, prev.bytes, ByteSums, BytesLoaded)
          /\ Covers(total.packets, prev.packets, PacketSums, PacketsLoaded)

\* No worker runs any more.
Quiet == \A w \in Workers : wpc[w] \in {"none", "done"}

\* The workers main() has waited for are gone, and none is started again.
Waited ==
    /\ mpc \notin {"fork", "start", "join", "waitpid"} => next = 1
    /\ cfg.multi_process =>
          /\ mpc \notin {"start", "join"}
          /\ \A w \in Workers :
                /\ child[w] = "none" => wpc[w] = "none"
                /\ child[w] = "exited" => wpc[w] = "done"
    /\ mpc = "join" => \A w \in Workers : w < next => wpc[w] = "done"
    /\ mpc = "waitpid" =>
          cfg.multi_process /\ \A w \in Workers : w < next => child[w] \in {"none", "exited"}
    /\ mpc \in {"stop_reporting", "join_reporter", "summary", "done"} => Quiet

\* The summary is summed from counters that do not move.
Summed ==
    /\ mpc \in {"summary", "done"} => rpc = "done"
    /\ mpc = "summary" =>
          /\ total.bytes = ByteSums[BytesLoaded]
          /\ total.packets = PacketSums[PacketsLoaded]
    /\ mpc # "done" => summaries = <<>>
    /\ \A i \in DOMAIN summaries : summaries[i] = Pair(ByteSums[N], PacketSums[N])

\* A report that was begun is within the bound.
Slack == rpc = "sum" => reports < MaxReports

Inv == TypeOK /\ Slack /\ Counted /\ Reported /\ Waited /\ Summed

\* The inductive invariant holds at the start.
LEMMA InitInv == Init => Inv
  <1> SUFFICES ASSUME Init PROVE Inv
    BY Zenon
  <1>1. TypeOK
    <2>1. Zero \in Pairs /\ Zero \in [bytes : Nat, packets : Nat]
      BY LifecycleAssumption DEF Zero, Pair, Pairs
    <2>2. next \in Workers /\ load \in 1..(Loads + 1) /\ reports \in 0..MaxReports
      BY LifecycleAssumption DEF Init, Workers, Loads
    <2>3. \A i \in DOMAIN summaries : summaries[i] \in Pairs
      BY DEF Init
    <2>4. mpc \in {"fork", "start_reporting"}
      BY Zenon DEF Init
    <2> QED
      BY Zenon, <2>1, <2>2, <2>3, <2>4 DEF Init, TypeOK
  <1>2. Counted
    BY LifecycleAssumption DEF Init, Counted, Zero, Pair
  <1>3. ByteSums[N] \in Nat /\ PacketSums[N] \in Nat
    <2>1. Values("bytes") \in [Workers -> Nat] /\ Values("packets") \in [Workers -> Nat]
      BY Zenon DEF Init, Values, Zero, Pair
    <2> QED
      BY <2>1, SumsProperties, LifecycleAssumption DEF IsSums, ByteSums, PacketSums
  <1>4. Reported
    BY <1>3 DEF Init, Reported, Zero, Pair
  <1>5. Waited /\ Summed
    BY DEF Init, Waited, Summed, Configs
  <1> QED
    BY Zenon, <1>1, <1>2, <1>4, <1>5 DEF Inv, Init, Slack

--------------------------------------------------------------------------------
(* What the steps do to the counters *)

\* The counters as functions into the naturals, and their sums.
LEMMA SumsTyped ==
    ASSUME TypeOK
    PROVE  /\ Values("bytes") \in [Workers -> Nat]
           /\ Values("packets") \in [Workers -> Nat]
           /\ ByteSums \in [0..N -> Nat] /\ PacketSums \in [0..N -> Nat]
           /\ ByteSums[0] = 0 /\ PacketSums[0] = 0
  <1>1. /\ Values("bytes") \in [Workers -> Nat]
        /\ Values("packets") \in [Workers -> Nat]
    BY LifecycleAssumption DEF TypeOK, Values, Pairs
  <1> QED
    BY Zenon, <1>1, SumsProperties DEF ByteSums, PacketSums, IsSums

\* With counters that cannot overflow, no sum of them does.
LEMMA SumsSmall ==
    ASSUME TypeOK, Counted, N * MaxAdds < Word
    PROVE  \A k \in 0..N : ByteSums[k] < Word /\ PacketSums[k] < Word
  <1>1. /\ \A w \in Workers : Values("bytes")[w] =< MaxAdds
        /\ \A w \in Workers : Values("packets")[w] =< MaxAdds
    BY LifecycleAssumption DEF TypeOK, Counted, Values, Pairs
  <1>2. MaxAdds \in Nat /\ N * MaxAdds \in Nat /\ Word \in Nat
    BY LifecycleAssumption
  <1>3. \A k \in 0..N : ByteSums[k] =< N * MaxAdds /\ PacketSums[k] =< N * MaxAdds
    BY Zenon, <1>1, <1>2, SumsTyped, SumsBound DEF ByteSums, PacketSums
  <1>4. \A k \in 0..N : ByteSums[k] \in Nat /\ PacketSums[k] \in Nat
    BY Zenon, SumsTyped
  <1> QED
    BY <1>2, <1>3, <1>4

\* If the sum does not wrap, one worker's counter does not.
LEMMA MaxAddsSmall ==
    ASSUME N * MaxAdds < Word
    PROVE  MaxAdds < Word
  <1>1. N - 1 \in Nat /\ N = (N - 1) + 1 /\ MaxAdds \in Nat /\ Word \in Nat
    BY LifecycleAssumption
  <1> DEFINE d == N - 1
  <1> HIDE DEF d
  <1>2. (d + 1) * MaxAdds = d * MaxAdds + MaxAdds /\ d * MaxAdds \in Nat
    BY <1>1 DEF d
  <1> QED
    BY <1>1, <1>2 DEF d

\* Only the two additions of add_bytes() change the counters, and each of them
\* changes its own sum by one and leaves the other alone.
LEMMA AddBytesSums ==
    ASSUME TypeOK, Counted, N * MaxAdds < Word, NEW w \in Workers, AddBytes(w)
    PROVE  /\ PacketSums' = PacketSums
           /\ \A k \in 0..N : ByteSums'[k] = ByteSums[k] + (IF w =< k THEN 1 ELSE 0)
  <1>1. counters[w].bytes \in Nat /\ counters[w].bytes + 1 < Word
    BY MaxAddsSmall, LifecycleAssumption DEF TypeOK, AddBytes, Pairs
  <1>2. counters' = [counters EXCEPT ![w].bytes = counters[w].bytes + 1]
    <2>1. (counters[w].bytes + 1) % Word = counters[w].bytes + 1
      BY <1>1, LifecycleAssumption
    <2> QED
      BY <2>1, Zenon DEF AddBytes
  <1>3. Values("packets")' = Values("packets")
    BY Zenon, <1>2 DEF TypeOK, Values, Pairs
  <1>4. Values("bytes")' = [Values("bytes") EXCEPT ![w] = Values("bytes")[w] + 1]
    BY Zenon, <1>2 DEF TypeOK, Values, Pairs
  <1>5. Values("bytes") \in [Workers -> Nat] /\ Values("bytes")' \in [Workers -> Nat]
    BY <1>4, SumsTyped
  <1> QED
    BY <1>3, <1>4, <1>5, SumsUpdate DEF ByteSums, PacketSums

\* An addition to one counter adds to the sum.
LEMMA AddPacketsSums ==
    ASSUME TypeOK, Counted, N * MaxAdds < Word, NEW w \in Workers, AddPackets(w)
    PROVE  /\ ByteSums' = ByteSums
           /\ \A k \in 0..N : PacketSums'[k] = PacketSums[k] + (IF w =< k THEN 1 ELSE 0)
  <1>1. counters[w].packets \in Nat /\ counters[w].packets + 1 < Word
    BY MaxAddsSmall, LifecycleAssumption DEF TypeOK, Counted, AddPackets, Pairs
  <1>2. counters' = [counters EXCEPT ![w].packets = counters[w].packets + 1]
    <2>1. (counters[w].packets + 1) % Word = counters[w].packets + 1
      BY <1>1, LifecycleAssumption
    <2> QED
      BY <2>1, Zenon DEF AddPackets
  <1>3. Values("bytes")' = Values("bytes")
    BY Zenon, <1>2 DEF TypeOK, Values, Pairs
  <1>4. Values("packets")' = [Values("packets") EXCEPT ![w] = Values("packets")[w] + 1]
    BY Zenon, <1>2 DEF TypeOK, Values, Pairs
  <1>5. Values("packets") \in [Workers -> Nat] /\ Values("packets")' \in [Workers -> Nat]
    BY <1>4, SumsTyped
  <1> QED
    BY Zenon, <1>3, <1>4, <1>5, SumsUpdate DEF ByteSums, PacketSums

\* Equal counters have equal sums.
LEMMA SameSums ==
    ASSUME UNCHANGED counters
    PROVE  ByteSums' = ByteSums /\ PacketSums' = PacketSums
  BY Zenon DEF ByteSums, PacketSums, Values

--------------------------------------------------------------------------------
(* Each conjunct is preserved by every step *)

\* A load keeps the total and the place of the loader in range.
LEMMA LoadTyped ==
    ASSUME TypeOK, LoadOne
    PROVE  load' \in 1..(Loads + 1) /\ total' \in Pairs
  <1>0. load \in 1..(2 * N) /\ load' = load + 1 /\ N \in Nat
    BY LifecycleAssumption DEF TypeOK, LoadOne, Loads
  <1>1. load' \in 1..(Loads + 1) /\ (load + 1) \div 2 \in Workers
    <2>1. \A n \in Nat : \A l \in 1..(2 * n) : (l + 1) \div 2 \in 1..n
      OBVIOUS
    <2>2. (load + 1) \div 2 \in 1..N
      BY Zenon, <1>0, <2>1
    <2> QED
      BY <1>0, <2>2 DEF Loads, Workers
  <1>2. \A m, n \in Nat : (m + n) % Word \in 0..(Word - 1)
    BY LifecycleAssumption
  <1>3. /\ (total.bytes + counters[(load + 1) \div 2].bytes) % Word \in 0..(Word - 1)
        /\ (total.packets + counters[(load + 1) \div 2].packets) % Word \in 0..(Word - 1)
    <2>1. /\ total.bytes \in Nat /\ counters[(load + 1) \div 2].bytes \in Nat
          /\ total.packets \in Nat /\ counters[(load + 1) \div 2].packets \in Nat
      BY <1>1, LifecycleAssumption DEF TypeOK, Pairs
    <2> QED
      BY <1>2, <2>1, Zenon
  <1>4. total' \in Pairs
    BY Zenon, <1>3 DEF LoadOne, TypeOK, Pairs
  <1> QED
    BY Zenon, <1>1, <1>4

\* Every step keeps every variable in its domain,
LEMMA TypeStep ==
    ASSUME TypeOK, Slack, [Next]_vars
    PROVE  TypeOK'
  <1>1. CASE Fork
    <2>1. next \in Procs /\ Main \in Procs /\ stop[Main] \in BOOLEAN
      BY Zenon DEF TypeOK, Procs, Main
    <2>2. next' \in Workers
      BY <1>1, LifecycleAssumption DEF Fork, Round, TypeOK, Workers
    <2> QED
      BY Zenon, <1>1, <2>1, <2>2 DEF Fork, Round, statsVars, TypeOK
  <1>2. CASE ForkFails
    BY <1>2, LifecycleAssumption DEF ForkFails, Round, statsVars, TypeOK, Workers
  <1>3. CASE StartReporting
    BY Zenon, <1>3 DEF StartReporting, statsVars, TypeOK
  <1>4. CASE Start
    BY <1>4, LifecycleAssumption DEF Start, Round, statsVars, TypeOK, Workers
  <1>5. CASE RunUntilStop
    BY Zenon, <1>5 DEF RunUntilStop, AfterRun, statsVars, TypeOK, Procs, Main
  <1>6. CASE Join
    BY <1>6, LifecycleAssumption DEF Join, Round, statsVars, TypeOK, Workers
  <1>7. CASE Waitpid
    BY <1>7, LifecycleAssumption DEF Waitpid, Round, statsVars, TypeOK, Workers
  <1>8. CASE StopReporting
    BY Zenon, <1>8 DEF StopReporting, statsVars, TypeOK
  <1>9. CASE JoinReporter
    <2>1. 1 \in 1..(Loads + 1) /\ Zero \in Pairs
      BY LifecycleAssumption DEF Loads, Zero, Pair, Pairs
    <2> QED
      BY Zenon, <1>9, <2>1 DEF JoinReporter, TypeOK
  <1>10. CASE SummaryLoad
    <2>1. load' \in 1..(Loads + 1) /\ total' \in Pairs
      BY Zenon, <1>10, LoadTyped DEF SummaryLoad
    <2> QED
      BY Zenon, <1>10, <2>1 DEF SummaryLoad, TypeOK
  <1>11. CASE SummaryPrint
    <2>1. \A i \in DOMAIN summaries' : summaries'[i] \in Pairs
      BY <1>11 DEF SummaryPrint, TypeOK
    <2> QED
      BY Zenon, <1>11, <2>1 DEF SummaryPrint, statsVars, TypeOK
  <1>12. CASE ReporterTest
    BY Zenon, <1>12 DEF ReporterTest, statsVars, TypeOK
  <1>13. CASE ReporterWakes
    <2>1. 1 \in 1..(Loads + 1) /\ Zero \in Pairs
      BY LifecycleAssumption DEF Loads, Zero, Pair, Pairs
    <2> QED
      BY Zenon, <1>13, <2>1 DEF ReporterWakes, TypeOK
  <1>14. CASE ReporterEnds
    BY Zenon, <1>14 DEF ReporterEnds, statsVars, TypeOK
  <1>15. CASE ReporterLoad
    <2>1. load' \in 1..(Loads + 1) /\ total' \in Pairs
      BY Zenon, <1>15, LoadTyped DEF ReporterLoad
    <2> QED
      BY Zenon, <1>15, <2>1 DEF ReporterLoad, TypeOK
  <1>16. CASE ReporterPrint
    <2>1. Interval("bytes") \in Nat /\ Interval("packets") \in Nat
      BY LifecycleAssumption DEF Interval, TypeOK, Pairs
    <2>2. reports < MaxReports
      BY Zenon, <1>16 DEF ReporterPrint, Slack
    <2>3. reported' \in [bytes : Nat, packets : Nat]
      BY <1>16, <2>1 DEF ReporterPrint, Pair, TypeOK
    <2>4. reports' \in 0..MaxReports
      BY <1>16, <2>2, LifecycleAssumption DEF ReporterPrint, TypeOK
    <2> QED
      BY Zenon, <1>16, <2>3, <2>4 DEF ReporterPrint, TypeOK
  <1>17. ASSUME NEW w \in Workers, ChildRunUntilStop(w) PROVE TypeOK'
    BY Zenon, <1>17 DEF ChildRunUntilStop, statsVars, TypeOK, Procs
  <1>18. ASSUME NEW w \in Workers, ChildExit(w) PROVE TypeOK'
    BY Zenon, <1>18 DEF ChildExit, statsVars, TypeOK
  <1>19. ASSUME NEW w \in Workers, ChildDies(w) PROVE TypeOK'
    BY Zenon, <1>19 DEF ChildDies, statsVars, TypeOK
  <1>20. ASSUME NEW w \in Workers, AddBytes(w) PROVE TypeOK'
    <2>1. \A n \in Nat : n % Word \in 0..(Word - 1)
      BY LifecycleAssumption
    <2>2. counters' \in [Workers -> Pairs]
      BY <1>20, <2>1, LifecycleAssumption DEF AddBytes, TypeOK, Pairs
    <2> QED
      BY Zenon, <1>20, <2>2 DEF AddBytes, statsVars, TypeOK
  <1>21. ASSUME NEW w \in Workers, AddPackets(w) PROVE TypeOK'
    <2>1. \A n \in Nat : n % Word \in 0..(Word - 1)
      BY LifecycleAssumption
    <2>2. counters' \in [Workers -> Pairs]
      BY <1>21, <2>1, LifecycleAssumption DEF AddPackets, TypeOK, Pairs
    <2> QED
      BY Zenon, <1>21, <2>2 DEF AddPackets, statsVars, TypeOK
  <1>22. ASSUME NEW w \in Workers, WorkerStops(w) PROVE TypeOK'
    BY Zenon, <1>22 DEF WorkerStops, statsVars, TypeOK
  <1>23. ASSUME NEW w \in Workers, WorkerEnds(w) PROVE TypeOK'
    BY Zenon, <1>23 DEF WorkerEnds, statsVars, TypeOK
  <1>24. ASSUME NEW p \in Procs, Signal(p) PROVE TypeOK'
    BY Zenon, <1>24 DEF Signal, statsVars, TypeOK
  <1>25. CASE UNCHANGED vars
    BY Zenon, <1>25 DEF vars, statsVars, statsVars, TypeOK
  <1> QED
    BY Zenon, <1>1, <1>2, <1>3, <1>4, <1>5, <1>6, <1>7, <1>8, <1>9,
       <1>10, <1>11, <1>12, <1>13, <1>14, <1>15, <1>16, <1>17, <1>18,
       <1>19, <1>20, <1>21, <1>22, <1>23, <1>24, <1>25
    DEF Next, MainThread, Reporter, Child, Returned

\* what the workers counted,
LEMMA CountedStep ==
    ASSUME TypeOK, Counted, Slack, N * MaxAdds < Word, [Next]_vars
    PROVE  Counted' /\ Slack'
  <1>1. CASE Fork
    BY Zenon, <1>1 DEF Fork, Round, statsVars, TypeOK, Counted, Slack
  <1>2. CASE ForkFails
    BY Zenon, <1>2 DEF ForkFails, Round, statsVars, TypeOK, Counted, Slack
  <1>3. CASE StartReporting
    BY Zenon, <1>3 DEF StartReporting, Round, statsVars, TypeOK, Counted, Slack
  <1>4. CASE Start
    BY Zenon, <1>4 DEF Start, Round, statsVars, TypeOK, Counted, Slack
  <1>5. CASE RunUntilStop
    BY Zenon, <1>5 DEF RunUntilStop, Round, statsVars, TypeOK, Counted, Slack
  <1>6. CASE Join
    BY Zenon, <1>6 DEF Join, Round, statsVars, TypeOK, Counted, Slack
  <1>7. CASE Waitpid
    BY Zenon, <1>7 DEF Waitpid, Round, statsVars, TypeOK, Counted, Slack
  <1>8. CASE StopReporting
    BY Zenon, <1>8 DEF StopReporting, Round, statsVars, TypeOK, Counted, Slack
  <1>9. CASE JoinReporter
    BY Zenon, <1>9 DEF JoinReporter, Round, statsVars, TypeOK, Counted, Slack
  <1>10. CASE SummaryLoad
    BY Zenon, <1>10 DEF SummaryLoad, Round, statsVars, TypeOK, Counted, Slack
  <1>11. CASE SummaryPrint
    BY Zenon, <1>11 DEF SummaryPrint, Round, statsVars, TypeOK, Counted, Slack
  <1>12. CASE ReporterTest
    BY Zenon, <1>12 DEF ReporterTest, Round, statsVars, TypeOK, Counted, Slack
  <1>13. CASE ReporterWakes
    BY Zenon, <1>13 DEF ReporterWakes, Round, statsVars, TypeOK, Counted, Slack
  <1>14. CASE ReporterEnds
    BY Zenon, <1>14 DEF ReporterEnds, Round, statsVars, TypeOK, Counted, Slack
  <1>15. CASE ReporterLoad
    BY Zenon, <1>15 DEF ReporterLoad, Round, statsVars, TypeOK, Counted, Slack
  <1>16. CASE ReporterPrint
    BY Zenon, <1>16 DEF ReporterPrint, Round, statsVars, TypeOK, Counted, Slack
  <1>17. ASSUME NEW w \in Workers, ChildRunUntilStop(w) PROVE Counted' /\ Slack'
    BY Zenon, <1>17 DEF ChildRunUntilStop, Round, statsVars, TypeOK, Counted, Slack
  <1>18. ASSUME NEW w \in Workers, ChildExit(w) PROVE Counted' /\ Slack'
    BY Zenon, <1>18 DEF ChildExit, Round, statsVars, TypeOK, Counted, Slack
  <1>19. ASSUME NEW w \in Workers, ChildDies(w) PROVE Counted' /\ Slack'
    BY Zenon, <1>19 DEF ChildDies, Round, statsVars, TypeOK, Counted, Slack
  <1>20. ASSUME NEW w \in Workers, AddBytes(w) PROVE Counted' /\ Slack'
    <2>1. counters[w].bytes \in Nat /\ counters[w].bytes + 1 =< MaxAdds
      BY <1>20, LifecycleAssumption DEF AddBytes, TypeOK, Pairs
    <2>2. (counters[w].bytes + 1) % Word = counters[w].bytes + 1
      BY <2>1, MaxAddsSmall, LifecycleAssumption
    <2>3. counters' = [counters EXCEPT ![w].bytes = counters[w].bytes + 1]
      BY <1>20, <2>2, Zenon DEF AddBytes
    <2>4. UNCHANGED rpc /\ wpc' = [wpc EXCEPT ![w] = "add"] /\ UNCHANGED reports
      BY Zenon, <1>20 DEF AddBytes, statsVars
    <2> QED
      BY <2>1, <2>3, <2>4, LifecycleAssumption DEF TypeOK, Pairs, Counted, Slack
  <1>21. ASSUME NEW w \in Workers, AddPackets(w) PROVE Counted' /\ Slack'
    <2>1. counters[w].packets \in Nat /\ counters[w].packets + 1 =< counters[w].bytes
      BY <1>21, LifecycleAssumption DEF AddPackets, TypeOK, Pairs, Counted
    <2>2. (counters[w].packets + 1) % Word = counters[w].packets + 1
      <3>1. counters[w].bytes \in 0..(Word - 1)
        BY Zenon DEF TypeOK, Pairs
      <3> QED
        BY <2>1, <3>1, LifecycleAssumption
    <2>3. counters' = [counters EXCEPT ![w].packets = counters[w].packets + 1]
      BY <1>21, <2>2, Zenon DEF AddPackets
    <2>4. UNCHANGED rpc /\ wpc' = [wpc EXCEPT ![w] = "run"] /\ UNCHANGED reports
      BY Zenon, <1>21 DEF AddPackets, statsVars
    <2> QED
      BY Zenon, <2>1, <2>3, <2>4, LifecycleAssumption DEF TypeOK, Pairs, Counted, Slack
  <1>22. ASSUME NEW w \in Workers, WorkerStops(w) PROVE Counted' /\ Slack'
    BY Zenon, <1>22 DEF WorkerStops, Round, statsVars, TypeOK, Counted, Slack
  <1>23. ASSUME NEW w \in Workers, WorkerEnds(w) PROVE Counted' /\ Slack'
    BY Zenon, <1>23 DEF WorkerEnds, Round, statsVars, TypeOK, Counted, Slack
  <1>24. ASSUME NEW p \in Procs, Signal(p) PROVE Counted' /\ Slack'
    BY Zenon, <1>24 DEF Signal, Round, statsVars, TypeOK, Counted, Slack
  <1>25. CASE UNCHANGED vars
    BY Zenon, <1>25 DEF vars, statsVars, TypeOK, Counted, Slack
  <1> QED
    BY Zenon, <1>1, <1>2, <1>3, <1>4, <1>5, <1>6, <1>7, <1>8, <1>9,
       <1>10, <1>11, <1>12, <1>13, <1>14, <1>15, <1>16, <1>17, <1>18,
       <1>19, <1>20, <1>21, <1>22, <1>23, <1>24, <1>25
    DEF Next, MainThread, Reporter, Child, Returned

\* who is waited for,
LEMMA WaitedStep ==
    ASSUME TypeOK, Waited, [Next]_vars
    PROVE  Waited'
  <1>1. CASE Fork
    BY Zenon, <1>1, LifecycleAssumption
       DEF Fork, Round, Workers, TypeOK, Waited, Quiet, AfterRun
  <1>2. CASE ForkFails
    BY Zenon, <1>2, LifecycleAssumption
    DEF ForkFails, Round, Workers, TypeOK, Waited, Quiet, AfterRun
  <1>3. CASE StartReporting
    BY Zenon, <1>3, LifecycleAssumption
    DEF StartReporting, Round, Workers, TypeOK, Waited, Quiet, AfterRun
  <1>4. CASE Start
    BY Zenon, <1>4, LifecycleAssumption
       DEF Start, Round, Workers, TypeOK, Waited, Quiet, AfterRun
  <1>5. CASE RunUntilStop
    BY <1>5, LifecycleAssumption
    DEF RunUntilStop, Round, Workers, TypeOK, Waited, Quiet, AfterRun
  <1>6. CASE Join
    BY <1>6, LifecycleAssumption DEF Join, Round, Workers, TypeOK, Waited, Quiet, AfterRun
  <1>7. CASE Waitpid
    BY <1>7, LifecycleAssumption
    DEF Waitpid, Round, Workers, TypeOK, Waited, Quiet, AfterRun
  <1>8. CASE StopReporting
    BY Zenon, <1>8, LifecycleAssumption
    DEF StopReporting, Round, Workers, TypeOK, Waited, Quiet, AfterRun
  <1>9. CASE JoinReporter
    BY Zenon, <1>9, LifecycleAssumption
    DEF JoinReporter, Round, Workers, TypeOK, Waited, Quiet, AfterRun
  <1>10. CASE SummaryLoad
    BY Zenon, <1>10, LifecycleAssumption
    DEF SummaryLoad, Round, Workers, TypeOK, Waited, Quiet, AfterRun
  <1>11. CASE SummaryPrint
    BY Zenon, <1>11, LifecycleAssumption
    DEF SummaryPrint, Round, Workers, TypeOK, Waited, Quiet, AfterRun
  <1>12. CASE ReporterTest
    BY Zenon, <1>12, LifecycleAssumption
    DEF ReporterTest, Round, Workers, TypeOK, Waited, Quiet, AfterRun
  <1>13. CASE ReporterWakes
    BY Zenon, <1>13, LifecycleAssumption
    DEF ReporterWakes, Round, Workers, TypeOK, Waited, Quiet, AfterRun
  <1>14. CASE ReporterEnds
    BY Zenon, <1>14, LifecycleAssumption
    DEF ReporterEnds, Round, Workers, TypeOK, Waited, Quiet, AfterRun
  <1>15. CASE ReporterLoad
    BY Zenon, <1>15, LifecycleAssumption
    DEF ReporterLoad, Round, Workers, TypeOK, Waited, Quiet, AfterRun
  <1>16. CASE ReporterPrint
    BY Zenon, <1>16, LifecycleAssumption
    DEF ReporterPrint, Round, Workers, TypeOK, Waited, Quiet, AfterRun
  <1>17. ASSUME NEW w \in Workers, ChildRunUntilStop(w) PROVE Waited'
    BY Zenon, <1>17, LifecycleAssumption
    DEF ChildRunUntilStop, Round, Workers, TypeOK, Waited, Quiet, AfterRun
  <1>18. ASSUME NEW w \in Workers, ChildExit(w) PROVE Waited'
    BY Zenon, <1>18, LifecycleAssumption
    DEF ChildExit, Round, Workers, TypeOK, Waited, Quiet, AfterRun
  <1>19. ASSUME NEW w \in Workers, ChildDies(w) PROVE Waited'
    BY Zenon, <1>19, LifecycleAssumption
    DEF ChildDies, Round, Workers, TypeOK, Waited, Quiet, AfterRun
  <1>20. ASSUME NEW w \in Workers, AddBytes(w) PROVE Waited'
    BY Zenon, <1>20, LifecycleAssumption
    DEF AddBytes, Round, Workers, TypeOK, Waited, Quiet, AfterRun
  <1>21. ASSUME NEW w \in Workers, AddPackets(w) PROVE Waited'
    BY Zenon, <1>21, LifecycleAssumption
    DEF AddPackets, Round, Workers, TypeOK, Waited, Quiet, AfterRun
  <1>22. ASSUME NEW w \in Workers, WorkerStops(w) PROVE Waited'
    BY Zenon, <1>22, LifecycleAssumption
    DEF WorkerStops, Round, Workers, TypeOK, Waited, Quiet, AfterRun
  <1>23. ASSUME NEW w \in Workers, WorkerEnds(w) PROVE Waited'
    BY Zenon, <1>23, LifecycleAssumption
    DEF WorkerEnds, Round, Workers, TypeOK, Waited, Quiet, AfterRun
  <1>24. ASSUME NEW p \in Procs, Signal(p) PROVE Waited'
    BY Zenon, <1>24, LifecycleAssumption
    DEF Signal, Round, Workers, TypeOK, Waited, Quiet, AfterRun
  <1>25. CASE UNCHANGED vars
    BY Zenon, <1>25, LifecycleAssumption
       DEF vars, Round, Workers, TypeOK, Waited, Quiet, AfterRun
  <1> QED
    BY Zenon, <1>1, <1>2, <1>3, <1>4, <1>5, <1>6, <1>7, <1>8, <1>9,
       <1>10, <1>11, <1>12, <1>13, <1>14, <1>15, <1>16, <1>17, <1>18,
       <1>19, <1>20, <1>21, <1>22, <1>23, <1>24, <1>25
    DEF Next, MainThread, Reporter, Child, Returned

\* Where a summing loop is, in terms of the counters it has loaded.
LEMMA LoadedRange ==
    ASSUME TypeOK
    PROVE  /\ BytesLoaded \in 0..N /\ PacketsLoaded \in 0..N
           /\ load > Loads => BytesLoaded = N /\ PacketsLoaded = N
           /\ load = 1 => BytesLoaded = 0 /\ PacketsLoaded = 0
  BY LifecycleAssumption DEF TypeOK, BytesLoaded, PacketsLoaded, Loads

\* One load adds the next counter to its sum, without overflow, and leaves the
\* other sum alone.
LEMMA LoadSums ==
    ASSUME TypeOK, Counted, N * MaxAdds < Word, LoadOne,
           total.bytes =< ByteSums[BytesLoaded],
           total.packets =< PacketSums[PacketsLoaded]
    PROVE  \E d \in Nat :
              \/ /\ BytesLoaded' = BytesLoaded + 1 /\ BytesLoaded + 1 \in 0..N
                 /\ PacketsLoaded' = PacketsLoaded
                 /\ total'.bytes = total.bytes + d /\ total'.packets = total.packets
                 /\ ByteSums[BytesLoaded + 1] = ByteSums[BytesLoaded] + d
              \/ /\ PacketsLoaded' = PacketsLoaded + 1 /\ PacketsLoaded + 1 \in 0..N
                 /\ BytesLoaded' = BytesLoaded
                 /\ total'.packets = total.packets + d /\ total'.bytes = total.bytes
                 /\ PacketSums[PacketsLoaded + 1] = PacketSums[PacketsLoaded] + d
  <1> DEFINE i == (load + 1) \div 2
  <1>1. load \in 1..Loads /\ i \in Workers /\ load' = load + 1
    <2>1. load \in 1..Loads /\ load' = load + 1
      BY LifecycleAssumption DEF TypeOK, LoadOne, Loads
    <2> QED
      BY <2>1, LifecycleAssumption DEF Loads, Workers
  <1>2. /\ Values("bytes")[i] = counters[i].bytes /\ counters[i].bytes \in Nat
        /\ Values("packets")[i] = counters[i].packets /\ counters[i].packets \in Nat
        /\ total.bytes \in Nat /\ total.packets \in Nat
    BY <1>1, LifecycleAssumption DEF TypeOK, Values, Pairs
  <1>3. CASE load % 2 = 1
    <2>1. /\ BytesLoaded' = BytesLoaded + 1 /\ PacketsLoaded' = PacketsLoaded
          /\ BytesLoaded + 1 = i /\ BytesLoaded \in Nat /\ BytesLoaded + 1 \in 0..N
          /\ BytesLoaded + 1 =< N
      BY <1>1, <1>3, LifecycleAssumption DEF BytesLoaded, PacketsLoaded, Loads
    <2>2. ByteSums[BytesLoaded + 1] = ByteSums[BytesLoaded] + counters[i].bytes
      BY <1>2, <2>1, SumsTyped, SumsStep DEF ByteSums
    <2>3. ByteSums[BytesLoaded] \in Nat /\ ByteSums[BytesLoaded + 1] < Word
      BY <2>1, SumsTyped, SumsSmall, LifecycleAssumption
    <2> HIDE DEF i
    <2>4. (total.bytes + counters[i].bytes) % Word = total.bytes + counters[i].bytes
      BY <1>2, <2>2, <2>3, LifecycleAssumption
    <2>5. total' = [total EXCEPT !.bytes = total.bytes + counters[i].bytes]
      BY <1>3, <2>4, Zenon DEF LoadOne, i
    <2>6. total'.bytes = total.bytes + counters[i].bytes /\ total'.packets = total.packets
      BY Zenon, <2>5 DEF TypeOK, Pairs
    <2> QED
      BY Zenon, <1>2, <2>1, <2>2, <2>6
  <1>4. CASE load % 2 # 1
    <2>1. /\ PacketsLoaded' = PacketsLoaded + 1 /\ BytesLoaded' = BytesLoaded
          /\ PacketsLoaded + 1 = i /\ PacketsLoaded \in Nat /\ PacketsLoaded + 1 \in 0..N
          /\ PacketsLoaded + 1 =< N
      BY <1>1, <1>4, LifecycleAssumption DEF BytesLoaded, PacketsLoaded, Loads
    <2>2. PacketSums[PacketsLoaded + 1] = PacketSums[PacketsLoaded] + counters[i].packets
      BY <1>2, <2>1, SumsTyped, SumsStep DEF PacketSums
    <2>3. PacketSums[PacketsLoaded] \in Nat /\ PacketSums[PacketsLoaded + 1] < Word
      BY <2>1, SumsTyped, SumsSmall, LifecycleAssumption
    <2> HIDE DEF i
    <2>4. (total.packets + counters[i].packets) % Word = total.packets + counters[i].packets
      BY <1>2, <2>2, <2>3, LifecycleAssumption
    <2>5. total' = [total EXCEPT !.packets = total.packets + counters[i].packets]
      BY <1>4, <2>4, Zenon DEF LoadOne, i
    <2>6. total'.packets = total.packets + counters[i].packets /\ total'.bytes = total.bytes
      BY Zenon, <2>5 DEF TypeOK, Pairs
    <2> QED
      BY Zenon, <1>2, <2>1, <2>2, <2>6
  <1> QED
    BY Zenon, <1>3, <1>4

\* The numbers of Reported and Summed.
LEMMA Numbers ==
    ASSUME TypeOK
    PROVE  /\ total.bytes \in Nat /\ total.packets \in Nat
           /\ prev.bytes \in Nat /\ prev.packets \in Nat
           /\ \A k \in 0..N : ByteSums[k] \in Nat /\ PacketSums[k] \in Nat
           /\ N \in 0..N
  <1>1. \A k \in 0..N : ByteSums[k] \in Nat /\ PacketSums[k] \in Nat
    BY Zenon, SumsTyped
  <1> QED
    BY <1>1, LifecycleAssumption DEF TypeOK, Pairs

\* A step that leaves the reporter alone.
LEMMA ReportedSame ==
    ASSUME Reported, UNCHANGED <<counters, reported, prev, total, load>>,
           rpc' = "sum" => rpc = "sum"
    PROVE  Reported'
  <1>1. BytesLoaded' = BytesLoaded /\ PacketsLoaded' = PacketsLoaded
    BY Zenon DEF BytesLoaded, PacketsLoaded
  <1> QED
    BY Zenon, <1>1, SameSums DEF Reported

\* what the reporter reported,
LEMMA ReportedStep ==
    ASSUME TypeOK, Counted, Reported, Summed, N * MaxAdds < Word, [Next]_vars
    PROVE  Reported'
  <1>1. CASE Fork
    <2>1. UNCHANGED <<counters, reported, prev, total, load>> /\ (rpc' = "sum" => rpc = "sum")
      BY Zenon, <1>1 DEF Fork, Round, statsVars
    <2> QED
      BY Zenon, <2>1, ReportedSame
  <1>2. CASE ForkFails
    <2>1. UNCHANGED <<counters, reported, prev, total, load>> /\ (rpc' = "sum" => rpc = "sum")
      BY Zenon, <1>2 DEF ForkFails, Round, statsVars
    <2> QED
      BY Zenon, <2>1, ReportedSame
  <1>3. CASE StartReporting
    <2>1. UNCHANGED <<counters, reported, prev, total, load>> /\ (rpc' = "sum" => rpc = "sum")
      BY Zenon, <1>3 DEF StartReporting, Round, statsVars
    <2> QED
      BY Zenon, <2>1, ReportedSame
  <1>4. CASE Start
    <2>1. UNCHANGED <<counters, reported, prev, total, load>> /\ (rpc' = "sum" => rpc = "sum")
      BY Zenon, <1>4 DEF Start, Round, statsVars
    <2> QED
      BY Zenon, <2>1, ReportedSame
  <1>5. CASE RunUntilStop
    <2>1. UNCHANGED <<counters, reported, prev, total, load>> /\ (rpc' = "sum" => rpc = "sum")
      BY Zenon, <1>5 DEF RunUntilStop, Round, statsVars
    <2> QED
      BY Zenon, <2>1, ReportedSame
  <1>6. CASE Join
    <2>1. UNCHANGED <<counters, reported, prev, total, load>> /\ (rpc' = "sum" => rpc = "sum")
      BY Zenon, <1>6 DEF Join, Round, statsVars
    <2> QED
      BY Zenon, <2>1, ReportedSame
  <1>7. CASE Waitpid
    <2>1. UNCHANGED <<counters, reported, prev, total, load>> /\ (rpc' = "sum" => rpc = "sum")
      BY Zenon, <1>7 DEF Waitpid, Round, statsVars
    <2> QED
      BY Zenon, <2>1, ReportedSame
  <1>8. CASE StopReporting
    <2>1. UNCHANGED <<counters, reported, prev, total, load>> /\ (rpc' = "sum" => rpc = "sum")
      BY Zenon, <1>8 DEF StopReporting, Round, statsVars
    <2> QED
      BY Zenon, <2>1, ReportedSame
  <1>9. CASE JoinReporter
    <2>1. UNCHANGED <<counters, reported, prev>> /\ rpc' # "sum"
      BY Zenon, <1>9 DEF JoinReporter
    <2> QED
      BY Zenon, <2>1, SameSums DEF Reported
  <1>10. CASE SummaryLoad
    <2>1. UNCHANGED <<counters, reported, prev>> /\ rpc' # "sum"
      BY Zenon, <1>10 DEF SummaryLoad, Summed
    <2> QED
      BY Zenon, <2>1, SameSums DEF Reported
  <1>11. CASE SummaryPrint
    <2>1. UNCHANGED <<counters, reported, prev, total, load>> /\ (rpc' = "sum" => rpc = "sum")
      BY Zenon, <1>11 DEF SummaryPrint, Round, statsVars
    <2> QED
      BY Zenon, <2>1, ReportedSame
  <1>12. CASE ReporterTest
    <2>1. UNCHANGED <<counters, reported, prev, total, load>> /\ (rpc' = "sum" => rpc = "sum")
      BY Zenon, <1>12 DEF ReporterTest, Round, statsVars
    <2> QED
      BY Zenon, <2>1, ReportedSame
  <1>13. CASE ReporterWakes
    <2>1. UNCHANGED <<counters, reported, prev>> /\ load' = 1 /\ total' = Zero
      BY Zenon, <1>13 DEF ReporterWakes
    <2>2. BytesLoaded' = 0 /\ PacketsLoaded' = 0
      BY <2>1 DEF BytesLoaded, PacketsLoaded
    <2>3. ByteSums[0] = 0 /\ PacketSums[0] = 0
      BY Zenon, SumsTyped
    <2> QED
      BY <2>1, <2>2, <2>3, SameSums, Numbers DEF Reported, Covers, Zero, Pair
  <1>14. CASE ReporterEnds
    <2>1. UNCHANGED <<counters, reported, prev, total, load>> /\ (rpc' = "sum" => rpc = "sum")
      BY Zenon, <1>14 DEF ReporterEnds, Round, statsVars
    <2> QED
      BY Zenon, <2>1, ReportedSame
  <1>15. CASE ReporterLoad
    <2>1. UNCHANGED <<counters, reported, prev>> /\ rpc = "sum" /\ LoadOne
      BY Zenon, <1>15 DEF ReporterLoad
    <2>2. /\ Covers(total.bytes, prev.bytes, ByteSums, BytesLoaded)
          /\ Covers(total.packets, prev.packets, PacketSums, PacketsLoaded)
          /\ BytesLoaded \in 0..N /\ PacketsLoaded \in 0..N
      BY Zenon, <2>1, LoadedRange DEF Reported
    <2>3. /\ total.bytes =< ByteSums[BytesLoaded]
          /\ total.packets =< PacketSums[PacketsLoaded]
      BY Zenon, <2>2 DEF Covers
    <2>4. PICK d \in Nat :
              \/ /\ BytesLoaded' = BytesLoaded + 1 /\ BytesLoaded + 1 \in 0..N
                 /\ PacketsLoaded' = PacketsLoaded
                 /\ total'.bytes = total.bytes + d /\ total'.packets = total.packets
                 /\ ByteSums[BytesLoaded + 1] = ByteSums[BytesLoaded] + d
              \/ /\ PacketsLoaded' = PacketsLoaded + 1 /\ PacketsLoaded + 1 \in 0..N
                 /\ BytesLoaded' = BytesLoaded
                 /\ total'.packets = total.packets + d /\ total'.bytes = total.bytes
                 /\ PacketSums[PacketsLoaded + 1] = PacketSums[PacketsLoaded] + d
      BY Zenon, <2>1, <2>3, LoadSums
    <2>5. /\ Covers(total'.bytes, prev.bytes, ByteSums, BytesLoaded')
          /\ Covers(total'.packets, prev.packets, PacketSums, PacketsLoaded')
      BY <2>2, <2>4, Numbers DEF Covers
    <2> QED
      BY Zenon, <2>1, <2>5, SameSums DEF Reported
  <1>16. CASE ReporterPrint
    <2>1. UNCHANGED counters /\ rpc' # "sum" /\ prev' = total /\ rpc = "sum"
      BY Zenon, <1>16 DEF ReporterPrint
    <2>2. /\ Covers(total.bytes, prev.bytes, ByteSums, N)
          /\ Covers(total.packets, prev.packets, PacketSums, N)
      BY Zenon, <1>16, <2>1, LoadedRange DEF ReporterPrint, Reported
    <2>3. /\ prev.bytes =< total.bytes /\ total.bytes =< ByteSums[N]
          /\ prev.packets =< total.packets /\ total.packets =< PacketSums[N]
      BY <2>2, Numbers DEF Covers
    <2>4. /\ Interval("bytes") = total.bytes - prev.bytes
          /\ Interval("packets") = total.packets - prev.packets
      <3>1. /\ total.bytes \in 0..(Word - 1) /\ prev.bytes \in 0..(Word - 1)
            /\ total.packets \in 0..(Word - 1) /\ prev.packets \in 0..(Word - 1)
        BY Zenon DEF TypeOK, Pairs
      <3> QED
        BY <2>3, <3>1, LifecycleAssumption DEF Interval
    <2>5. reported' = Pair(total.bytes, total.packets)
      <3>1. prev.bytes + (total.bytes - prev.bytes) = total.bytes
        BY Numbers
      <3>2. prev.packets + (total.packets - prev.packets) = total.packets
        BY Numbers
      <3> QED
        BY Zenon, <1>16, <2>4, <3>1, <3>2 DEF ReporterPrint, Reported, Pair
    <2>6. total = Pair(total.bytes, total.packets)
      BY Zenon DEF TypeOK, Pairs, Pair
    <2> QED
      BY Zenon, <2>1, <2>3, <2>5, <2>6, SameSums DEF Reported
  <1>17. ASSUME NEW w \in Workers, ChildRunUntilStop(w) PROVE Reported'
    <2>1. UNCHANGED <<counters, reported, prev, total, load>> /\ (rpc' = "sum" => rpc = "sum")
      BY Zenon, <1>17 DEF ChildRunUntilStop, Round, statsVars
    <2> QED
      BY Zenon, <2>1, ReportedSame
  <1>18. ASSUME NEW w \in Workers, ChildExit(w) PROVE Reported'
    <2>1. UNCHANGED <<counters, reported, prev, total, load>> /\ (rpc' = "sum" => rpc = "sum")
      BY Zenon, <1>18 DEF ChildExit, Round, statsVars
    <2> QED
      BY Zenon, <2>1, ReportedSame
  <1>19. ASSUME NEW w \in Workers, ChildDies(w) PROVE Reported'
    <2>1. UNCHANGED <<counters, reported, prev, total, load>> /\ (rpc' = "sum" => rpc = "sum")
      BY Zenon, <1>19 DEF ChildDies, Round, statsVars
    <2> QED
      BY Zenon, <2>1, ReportedSame
  <1>20. ASSUME NEW w \in Workers, AddBytes(w) PROVE Reported'
    <2>1. UNCHANGED <<reported, prev, total, load, rpc>>
      BY Zenon, <1>20 DEF AddBytes, statsVars
    <2>2. /\ PacketSums' = PacketSums
          /\ \A k \in 0..N : ByteSums'[k] = ByteSums[k] + (IF w =< k THEN 1 ELSE 0)
      BY Zenon, <1>20, AddBytesSums
    <2>3. w =< N /\ w \in Nat /\ BytesLoaded \in 0..N /\ PacketsLoaded \in 0..N
      BY LoadedRange, LifecycleAssumption DEF Workers
    <2>4. BytesLoaded' = BytesLoaded /\ PacketsLoaded' = PacketsLoaded
      BY Zenon, <2>1 DEF BytesLoaded, PacketsLoaded
    <2>5. prev.bytes =< ByteSums'[N] /\ prev.packets =< PacketSums'[N]
      BY <2>2, <2>3, Numbers DEF Reported
    <2>6. ASSUME rpc = "sum"
          PROVE  /\ Covers(total.bytes, prev.bytes, ByteSums', BytesLoaded)
                 /\ Covers(total.packets, prev.packets, PacketSums', PacketsLoaded)
      BY <2>2, <2>3, <2>6, Numbers DEF Reported, Covers
    <2> QED
      BY Zenon, <2>1, <2>4, <2>5, <2>6 DEF Reported
  <1>21. ASSUME NEW w \in Workers, AddPackets(w) PROVE Reported'
    <2>1. UNCHANGED <<reported, prev, total, load, rpc>>
      BY Zenon, <1>21 DEF AddPackets, statsVars
    <2>2. /\ ByteSums' = ByteSums
          /\ \A k \in 0..N : PacketSums'[k] = PacketSums[k] + (IF w =< k THEN 1 ELSE 0)
      BY Zenon, <1>21, AddPacketsSums
    <2>3. w =< N /\ w \in Nat /\ BytesLoaded \in 0..N /\ PacketsLoaded \in 0..N
      BY LoadedRange, LifecycleAssumption DEF Workers
    <2>4. BytesLoaded' = BytesLoaded /\ PacketsLoaded' = PacketsLoaded
      BY Zenon, <2>1 DEF BytesLoaded, PacketsLoaded
    <2>5. prev.bytes =< ByteSums'[N] /\ prev.packets =< PacketSums'[N]
      BY <2>2, <2>3, Numbers DEF Reported
    <2>6. ASSUME rpc = "sum"
          PROVE  /\ Covers(total.bytes, prev.bytes, ByteSums', BytesLoaded)
                 /\ Covers(total.packets, prev.packets, PacketSums', PacketsLoaded)
      BY <2>2, <2>3, <2>6, Numbers DEF Reported, Covers
    <2> QED
      BY Zenon, <2>1, <2>4, <2>5, <2>6 DEF Reported
  <1>22. ASSUME NEW w \in Workers, WorkerStops(w) PROVE Reported'
    <2>1. UNCHANGED <<counters, reported, prev, total, load>> /\ (rpc' = "sum" => rpc = "sum")
      BY Zenon, <1>22 DEF WorkerStops, Round, statsVars
    <2> QED
      BY Zenon, <2>1, ReportedSame
  <1>23. ASSUME NEW w \in Workers, WorkerEnds(w) PROVE Reported'
    <2>1. UNCHANGED <<counters, reported, prev, total, load>> /\ (rpc' = "sum" => rpc = "sum")
      BY Zenon, <1>23 DEF WorkerEnds, Round, statsVars
    <2> QED
      BY Zenon, <2>1, ReportedSame
  <1>24. ASSUME NEW p \in Procs, Signal(p) PROVE Reported'
    <2>1. UNCHANGED <<counters, reported, prev, total, load>> /\ (rpc' = "sum" => rpc = "sum")
      BY Zenon, <1>24 DEF Signal, Round, statsVars
    <2> QED
      BY Zenon, <2>1, ReportedSame
  <1>25. CASE UNCHANGED vars
    <2>1. UNCHANGED <<counters, reported, prev, total, load>> /\ (rpc' = "sum" => rpc = "sum")
      BY Zenon, <1>25 DEF vars, statsVars
    <2> QED
      BY Zenon, <2>1, ReportedSame
  <1> QED
    BY Zenon, <1>1, <1>2, <1>3, <1>4, <1>5, <1>6, <1>7, <1>8, <1>9,
       <1>10, <1>11, <1>12, <1>13, <1>14, <1>15, <1>16, <1>17, <1>18,
       <1>19, <1>20, <1>21, <1>22, <1>23, <1>24, <1>25
    DEF Next, MainThread, Reporter, Child, Returned

\* A step that leaves the summary alone.
LEMMA SummedSame ==
    ASSUME Summed, UNCHANGED <<counters, summaries, total, load, mpc, rpc>>
    PROVE  Summed'
  <1>1. BytesLoaded' = BytesLoaded /\ PacketsLoaded' = PacketsLoaded
    BY Zenon DEF BytesLoaded, PacketsLoaded
  <1> QED
    BY Zenon, <1>1, SameSums DEF Summed

\* and what main() summed up.
LEMMA SummedStep ==
    ASSUME TypeOK, Counted, Waited, Summed, N * MaxAdds < Word, [Next]_vars
    PROVE  Summed'
  <1>1. CASE Fork
    <2>1. UNCHANGED <<counters, summaries>> /\ mpc' \notin {"summary", "done"} /\ mpc # "done"
      BY Zenon, <1>1 DEF Fork, Round, AfterRun, statsVars
    <2> QED
      BY Zenon, <2>1, SameSums DEF Summed
  <1>2. CASE ForkFails
    <2>1. UNCHANGED <<counters, summaries>> /\ mpc' \notin {"summary", "done"} /\ mpc # "done"
      BY Zenon, <1>2 DEF ForkFails, Round, AfterRun, statsVars
    <2> QED
      BY Zenon, <2>1, SameSums DEF Summed
  <1>3. CASE StartReporting
    <2>1. UNCHANGED <<counters, summaries>> /\ mpc' \notin {"summary", "done"} /\ mpc # "done"
      BY Zenon, <1>3 DEF StartReporting, Round, AfterRun, statsVars
    <2> QED
      BY Zenon, <2>1, SameSums DEF Summed
  <1>4. CASE Start
    <2>1. UNCHANGED <<counters, summaries>> /\ mpc' \notin {"summary", "done"} /\ mpc # "done"
      BY Zenon, <1>4 DEF Start, Round, AfterRun, statsVars
    <2> QED
      BY Zenon, <2>1, SameSums DEF Summed
  <1>5. CASE RunUntilStop
    <2>1. UNCHANGED <<counters, summaries>> /\ mpc' \notin {"summary", "done"} /\ mpc # "done"
      BY Zenon, <1>5 DEF RunUntilStop, Round, AfterRun, statsVars
    <2> QED
      BY Zenon, <2>1, SameSums DEF Summed
  <1>6. CASE Join
    <2>1. UNCHANGED <<counters, summaries>> /\ mpc' \notin {"summary", "done"} /\ mpc # "done"
      BY Zenon, <1>6 DEF Join, Round, AfterRun, statsVars
    <2> QED
      BY Zenon, <2>1, SameSums DEF Summed
  <1>7. CASE Waitpid
    <2>1. UNCHANGED <<counters, summaries>> /\ mpc' \notin {"summary", "done"} /\ mpc # "done"
      BY Zenon, <1>7 DEF Waitpid, Round, AfterRun, statsVars
    <2> QED
      BY Zenon, <2>1, SameSums DEF Summed
  <1>8. CASE StopReporting
    <2>1. UNCHANGED <<counters, summaries>> /\ mpc' \notin {"summary", "done"} /\ mpc # "done"
      BY Zenon, <1>8 DEF StopReporting, Round, AfterRun, statsVars
    <2> QED
      BY Zenon, <2>1, SameSums DEF Summed
  <1>9. CASE JoinReporter
    <2>1. UNCHANGED <<counters, summaries>> /\ rpc' = "done" /\ load' = 1 /\ total' = Zero
      BY Zenon, <1>9 DEF JoinReporter
    <2>2. BytesLoaded' = 0 /\ PacketsLoaded' = 0
      BY <2>1 DEF BytesLoaded, PacketsLoaded
    <2>3. mpc # "done" /\ mpc' = "summary"
      BY Zenon, <1>9 DEF JoinReporter
    <2>4. ByteSums[0] = 0 /\ PacketSums[0] = 0
      BY Zenon, SumsTyped
    <2> QED
      BY Zenon, <2>1, <2>2, <2>3, <2>4, SameSums DEF Summed, Zero, Pair
  <1>10. CASE SummaryLoad
    <2>1. UNCHANGED <<counters, summaries, rpc, mpc>> /\ mpc = "summary" /\ LoadOne
      BY Zenon, <1>10 DEF SummaryLoad
    <2>2. /\ total.bytes = ByteSums[BytesLoaded]
          /\ total.packets = PacketSums[PacketsLoaded]
      BY Zenon, <2>1 DEF Summed
    <2>3. /\ total.bytes =< ByteSums[BytesLoaded]
          /\ total.packets =< PacketSums[PacketsLoaded]
      BY <2>2, Numbers
    <2>4. PICK d \in Nat :
              \/ /\ BytesLoaded' = BytesLoaded + 1 /\ BytesLoaded + 1 \in 0..N
                 /\ PacketsLoaded' = PacketsLoaded
                 /\ total'.bytes = total.bytes + d /\ total'.packets = total.packets
                 /\ ByteSums[BytesLoaded + 1] = ByteSums[BytesLoaded] + d
              \/ /\ PacketsLoaded' = PacketsLoaded + 1 /\ PacketsLoaded + 1 \in 0..N
                 /\ BytesLoaded' = BytesLoaded
                 /\ total'.packets = total.packets + d /\ total'.bytes = total.bytes
                 /\ PacketSums[PacketsLoaded + 1] = PacketSums[PacketsLoaded] + d
      BY Zenon, <2>1, <2>3, LoadSums
    <2>5. /\ total'.bytes = ByteSums[BytesLoaded']
          /\ total'.packets = PacketSums[PacketsLoaded']
      BY Zenon, <2>2, <2>4
    <2> QED
      BY Zenon, <2>1, <2>5, SameSums DEF Summed
  <1>11. CASE SummaryPrint
    <2>1. UNCHANGED <<counters, rpc>> /\ mpc = "summary" /\ mpc' = "done"
          /\ summaries' = <<total>>
      BY Zenon, <1>11 DEF SummaryPrint, statsVars
    <2>2. total.bytes = ByteSums[N] /\ total.packets = PacketSums[N]
      BY Zenon, <1>11, <2>1, LoadedRange DEF SummaryPrint, Summed
    <2>3. total = Pair(total.bytes, total.packets)
      BY Zenon DEF TypeOK, Pairs, Pair
    <2>4. \A i \in DOMAIN summaries' : summaries'[i] = total
      BY <2>1
    <2> QED
      BY Zenon, <2>1, <2>2, <2>3, <2>4, SameSums DEF Summed
  <1>12. CASE ReporterTest
    <2>1. UNCHANGED <<counters, summaries, mpc>> /\ mpc \notin {"summary", "done"}
      BY Zenon, <1>12 DEF ReporterTest, Summed
    <2> QED
      BY Zenon, <2>1, SameSums DEF Summed
  <1>13. CASE ReporterWakes
    <2>1. UNCHANGED <<counters, summaries, mpc>> /\ mpc \notin {"summary", "done"}
      BY Zenon, <1>13 DEF ReporterWakes, Summed
    <2> QED
      BY Zenon, <2>1, SameSums DEF Summed
  <1>14. CASE ReporterEnds
    <2>1. UNCHANGED <<counters, summaries, mpc>> /\ mpc \notin {"summary", "done"}
      BY Zenon, <1>14 DEF ReporterEnds, Summed
    <2> QED
      BY Zenon, <2>1, SameSums DEF Summed
  <1>15. CASE ReporterLoad
    <2>1. UNCHANGED <<counters, summaries, mpc>> /\ mpc \notin {"summary", "done"}
      BY Zenon, <1>15 DEF ReporterLoad, Summed
    <2> QED
      BY Zenon, <2>1, SameSums DEF Summed
  <1>16. CASE ReporterPrint
    <2>1. UNCHANGED <<counters, summaries, mpc>> /\ mpc \notin {"summary", "done"}
      BY Zenon, <1>16 DEF ReporterPrint, Summed
    <2> QED
      BY Zenon, <2>1, SameSums DEF Summed
  <1>17. ASSUME NEW w \in Workers, ChildRunUntilStop(w) PROVE Summed'
    <2>1. UNCHANGED <<counters, summaries, total, load, mpc, rpc>>
      BY Zenon, <1>17 DEF ChildRunUntilStop, statsVars
    <2> QED
      BY Zenon, <2>1, SummedSame
  <1>18. ASSUME NEW w \in Workers, ChildExit(w) PROVE Summed'
    <2>1. UNCHANGED <<counters, summaries, total, load, mpc, rpc>>
      BY Zenon, <1>18 DEF ChildExit, statsVars
    <2> QED
      BY Zenon, <2>1, SummedSame
  <1>19. ASSUME NEW w \in Workers, ChildDies(w) PROVE Summed'
    <2>1. UNCHANGED <<counters, summaries, total, load, mpc, rpc>>
      BY Zenon, <1>19 DEF ChildDies, statsVars
    <2> QED
      BY Zenon, <2>1, SummedSame
  <1>20. ASSUME NEW w \in Workers, AddBytes(w) PROVE Summed'
    <2>1. UNCHANGED <<summaries, mpc, rpc>> /\ mpc \notin {"summary", "done"}
      BY Zenon, <1>20 DEF AddBytes, statsVars, Waited, Quiet
    <2> QED
      BY <2>1 DEF Summed
  <1>21. ASSUME NEW w \in Workers, AddPackets(w) PROVE Summed'
    <2>1. UNCHANGED <<summaries, mpc, rpc>> /\ mpc \notin {"summary", "done"}
      BY Zenon, <1>21 DEF AddPackets, statsVars, Waited, Quiet
    <2> QED
      BY <2>1 DEF Summed
  <1>22. ASSUME NEW w \in Workers, WorkerStops(w) PROVE Summed'
    <2>1. UNCHANGED <<counters, summaries, total, load, mpc, rpc>>
      BY Zenon, <1>22 DEF WorkerStops, statsVars
    <2> QED
      BY Zenon, <2>1, SummedSame
  <1>23. ASSUME NEW w \in Workers, WorkerEnds(w) PROVE Summed'
    <2>1. UNCHANGED <<counters, summaries, total, load, mpc, rpc>>
      BY Zenon, <1>23 DEF WorkerEnds, statsVars
    <2> QED
      BY Zenon, <2>1, SummedSame
  <1>24. ASSUME NEW p \in Procs, Signal(p) PROVE Summed'
    <2>1. UNCHANGED <<counters, summaries, total, load, mpc, rpc>>
      BY Zenon, <1>24 DEF Signal, statsVars
    <2> QED
      BY Zenon, <2>1, SummedSame
  <1>25. CASE UNCHANGED vars
    <2>1. UNCHANGED <<counters, summaries, total, load, mpc, rpc>>
      BY Zenon, <1>25 DEF vars, statsVars
    <2> QED
      BY Zenon, <2>1, SummedSame
  <1> QED
    BY Zenon, <1>1, <1>2, <1>3, <1>4, <1>5, <1>6, <1>7, <1>8, <1>9,
       <1>10, <1>11, <1>12, <1>13, <1>14, <1>15, <1>16, <1>17, <1>18,
       <1>19, <1>20, <1>21, <1>22, <1>23, <1>24, <1>25
    DEF Next, MainThread, Reporter, Child, Returned

--------------------------------------------------------------------------------

\* As long as the 64-bit counters cannot overflow, the invariant holds.
LEMMA Invariance == ASSUME N * MaxAdds < Word PROVE Spec => []Inv
  <1>1. Inv /\ [Next]_vars => Inv'
    BY Zenon, TypeStep, CountedStep, ReportedStep, WaitedStep, SummedStep DEF Inv
  <1> QED
    BY InitInv, <1>1, PTL DEF Spec

\* The interval lines of reporter_loop() add up to its running total, and never
\* to more than was transferred, for any number of workers that add to their
\* counters while the loop sums them.
THEOREM IntervalsAlwaysAddUp ==
    ASSUME N * MaxAdds < Word
    PROVE  Spec => []IntervalsAddUp
  <1>1. Inv => IntervalsAddUp
    BY Zenon DEF Inv, Reported, IntervalsAddUp, ByteSums, PacketSums, SumOf
  <1> QED
    BY Invariance, <1>1, PTL

\* The summary main() prints is the sum of counters that no worker, thread or
\* process, changes any more, and the reporter has ended before it.
THEOREM SummaryAlwaysFinal ==
    ASSUME N * MaxAdds < Word
    PROVE  Spec => []SummaryFinal
  <1>1. Inv => SummaryFinal
    BY Zenon DEF Inv, Summed, SummaryFinal, ByteSums, PacketSums, SumOf
  <1> QED
    BY Invariance, <1>1, PTL
================================================================================
