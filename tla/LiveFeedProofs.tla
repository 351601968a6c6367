--------------------------- MODULE LiveFeedProofs ---------------------------
(***************************************************************************)
(* LiveFeed proved for any number of sockets and any sizes: types, one     *)
(* connection per page, the order of the list, and the refinement of       *)
(* FeedPromise.  What each socket has in flight is a chain: what the page  *)
(* took, then the wire, then the queue, ascending, with gaps only where    *)
(* QueueSize newer events were broadcast.                                  *)
(***************************************************************************)
EXTENDS LiveFeed, FiniteSetTheorems, TLAPS

Ascending(q) == \A i, j \in 1 .. Len(q) : i < j => q[i] < q[j]

\* g: the last event taken, w: the wire, q: the queue, N: events broadcast.
Chain(g, w, q, N) ==
    /\ g <= N
    /\ \A i \in 1 .. Len(w) : g < w[i] /\ w[i] <= N
    /\ \A i \in 1 .. Len(q) : g < q[i] /\ q[i] + (Len(q) - i) <= N
    /\ Ascending(w) /\ Ascending(q)
    /\ \A i \in 1 .. Len(w) : \A j \in 1 .. Len(q) : w[i] < q[j]

\* Whatever is between g and N and not in flight gave way to QueueSize others.
Waits(m, q) == \E i \in 1 .. Len(q) : q[i] = m
Covered(g, w, q, N) ==
    \A m \in g + 1 .. N : Waits(m, w) \/ Waits(m, q) \/ m + QueueSize <= N

-----------------------------------------------------------------------------
(* The chain under each thing that happens to it.                          *)

\* Nothing in flight is a chain.
LEMMA ChainEmpty ==
    ASSUME NEW N \in Nat, NEW g \in Nat, g <= N
    PROVE  Chain(g, <<>>, <<>>, N)
  BY DEF Chain, Ascending

\* A broadcast leaves a chain, of the same length bound.
LEMMA ChainBroadcast ==
    ASSUME NEW N \in Nat, NEW g \in Nat, NEW w \in Seq(Nat), NEW q \in Seq(Nat),
           Chain(g, w, q, N), Len(q) <= QueueSize
    PROVE  /\ Queued(q, N + 1) \in Seq(Nat)
           /\ Len(Queued(q, N + 1)) <= QueueSize
           /\ Chain(g, w, Queued(q, N + 1), N + 1)
  <1> DEFINE b == IF Len(q) < QueueSize THEN q ELSE Tail(q)
             k == IF Len(q) < QueueSize THEN 0 ELSE 1
  <1>0. QueueSize \in Nat \ {0} BY FeedAssumption
  <1>1. /\ b \in Seq(Nat) /\ Len(b) = Len(q) - k /\ k \in {0, 1}
        /\ Len(b) < QueueSize
        /\ \A i \in 1 .. Len(b) : b[i] = q[i + k] /\ i + k \in 1 .. Len(q)
    <2>1. CASE Len(q) < QueueSize BY <2>1
    <2>2. CASE ~(Len(q) < QueueSize)
      <3>1. q # <<>> /\ Len(q) = QueueSize BY <1>0, <2>2
      <3>2. /\ Tail(q) \in Seq(Nat) /\ Len(Tail(q)) = Len(q) - 1
            /\ \A i \in 1 .. Len(q) - 1 : Tail(q)[i] = q[i + 1]
        BY <3>1
      <3> QED BY <1>0, <2>2, <3>1, <3>2
    <2> QED BY <2>1, <2>2
  <1>2. Queued(q, N + 1) = Append(b, N + 1) BY DEF Queued
  <1> HIDE DEF b, k
  <1>3. /\ Append(b, N + 1) \in Seq(Nat) /\ Len(Append(b, N + 1)) = Len(b) + 1
        /\ \A i \in 1 .. Len(b) : Append(b, N + 1)[i] = b[i]
        /\ Append(b, N + 1)[Len(b) + 1] = N + 1
    BY <1>1
  <1> DEFINE a == Append(b, N + 1)
  <1> HIDE DEF a
  <1>4. /\ a \in Seq(Nat) /\ Len(a) = Len(b) + 1
        /\ \A i \in 1 .. Len(b) : a[i] = q[i + k] /\ i + k \in 1 .. Len(q)
        /\ a[Len(b) + 1] = N + 1
    BY <1>1, <1>3 DEF a
  <1>5. /\ g <= N
        /\ \A i \in 1 .. Len(w) : w[i] \in Nat /\ g < w[i] /\ w[i] <= N
        /\ \A i \in 1 .. Len(q) : q[i] \in Nat /\ g < q[i] /\ q[i] + (Len(q) - i) <= N
        /\ \A i, j \in 1 .. Len(w) : i < j => w[i] < w[j]
        /\ \A i, j \in 1 .. Len(q) : i < j => q[i] < q[j]
        /\ \A i \in 1 .. Len(w) : \A j \in 1 .. Len(q) : w[i] < q[j]
    BY SMTT(30) DEF Chain, Ascending
  <1>13. PICK n \in Nat : n = Len(b) /\ n + 1 = Len(a)
    <2>1. b \in Seq(Nat) BY <1>1
    <2>2. Len(b) \in Nat BY <2>1
    <2> QED BY <1>4, <2>2
  <1>6. \A i \in 1 .. Len(b) : a[i] \in Nat /\ g < a[i] /\ a[i] + (Len(b) - i) <= N
    <2> TAKE i \in 1 .. Len(b)
    <2>1. PICK j \in 1 .. Len(q) : j = i + k /\ a[i] = q[j] BY <1>4
    <2>2. q[j] \in Nat /\ g < q[j] /\ q[j] + (Len(q) - j) <= N BY <1>5
    <2> QED BY <1>1, <2>1, <2>2
  <1>7. \A i \in 1 .. Len(a) : i \in 1 .. Len(b) \/ i = Len(b) + 1 BY <1>1, <1>4
  <1>8. \A i \in 1 .. Len(a) : g < a[i] /\ a[i] + (Len(a) - i) <= N + 1
    <2> TAKE i \in 1 .. Len(a)
    <2>1. CASE i = Len(b) + 1
      <3>1. a[i] = N + 1 /\ Len(a) - i = 0 BY <1>1, <1>4, <2>1
      <3> QED BY <1>5, <3>1
    <2>2. CASE i \in 1 .. Len(b)
      <3>1. a[i] \in Nat /\ g < a[i] /\ a[i] + (Len(b) - i) <= N BY <1>6, <2>2
      <3>2. PICK x \in Nat : x = a[i] BY <3>1
      <3>3. i \in Nat /\ g < x /\ x + (n - i) <= N BY <1>13, <2>2, <3>1, <3>2
      <3>4. g < x /\ x + ((n + 1) - i) <= N + 1 BY <3>3
      <3> QED BY <1>13, <3>2, <3>4
    <2> QED BY <1>7, <2>1, <2>2
  <1>9. \A i, j \in 1 .. Len(a) : i < j => a[i] < a[j]
    <2> TAKE i, j \in 1 .. Len(a)
    <2> HAVE i < j
    <2>1. i \in 1 .. Len(b) BY <1>4, <1>7
    <2>2. CASE j = Len(b) + 1
      <3>1. a[j] = N + 1 BY <1>4, <2>2
      <3>2. a[i] \in Nat /\ a[i] + (Len(b) - i) <= N BY <1>6, <2>1
      <3>3. PICK x \in Nat : x = a[i] BY <3>2
      <3>4. i \in Nat /\ i <= n /\ x + (n - i) <= N BY <1>13, <2>1, <3>2, <3>3
      <3>5. x < N + 1 BY <3>4
      <3> QED BY <3>1, <3>3, <3>5
    <2>3. CASE j \in 1 .. Len(b)
      <3>1. PICK x \in 1 .. Len(q) : x = i + k /\ a[i] = q[x] BY <1>4, <2>1
      <3>2. PICK y \in 1 .. Len(q) : y = j + k /\ a[j] = q[y] BY <1>4, <2>3
      <3>3. x < y BY <1>1, <3>1, <3>2
      <3> QED BY <1>5, <3>1, <3>2, <3>3
    <2> QED BY <1>7, <2>2, <2>3
  <1>10. \A i \in 1 .. Len(w) : \A j \in 1 .. Len(a) : w[i] < a[j]
    <2> TAKE i \in 1 .. Len(w)
    <2> TAKE j \in 1 .. Len(a)
    <2>1. CASE j = Len(b) + 1 BY <1>4, <1>5, <2>1
    <2>2. CASE j \in 1 .. Len(b)
      <3>1. PICK y \in 1 .. Len(q) : y = j + k /\ a[j] = q[y] BY <1>4, <2>2
      <3> QED BY <1>5, <3>1
    <2> QED BY <1>7, <2>1, <2>2
  <1>11. Chain(g, w, a, N + 1)
    BY <1>5, <1>8, <1>9, <1>10 DEF Chain, Ascending
  <1>12. Len(a) <= QueueSize BY <1>0, <1>1, <1>4
  <1> QED BY <1>2, <1>4, <1>11, <1>12 DEF a

\* And the event a full queue gave up had QueueSize newer ones behind it.
LEMMA CoveredBroadcast ==
    ASSUME NEW N \in Nat, NEW g \in Nat, NEW w \in Seq(Nat), NEW q \in Seq(Nat),
           Chain(g, w, q, N), Len(q) <= QueueSize, Covered(g, w, q, N)
    PROVE  Covered(g, w, Queued(q, N + 1), N + 1)
  <1>0. QueueSize \in Nat \ {0} BY FeedAssumption
  <1> SUFFICES ASSUME NEW m \in g + 1 .. N + 1
               PROVE  Waits(m, w) \/ Waits(m, Queued(q, N + 1)) \/ m + QueueSize <= N + 1
    BY DEF Covered
  <1>1. CASE m = N + 1
    <2>1. CASE Len(q) < QueueSize
      <3>1. Append(q, N + 1)[Len(q) + 1] = N + 1 /\ Len(Append(q, N + 1)) = Len(q) + 1
        OBVIOUS
      <3> QED BY <1>1, <2>1, <3>1 DEF Queued, Waits
    <2>2. CASE ~(Len(q) < QueueSize)
      <3>1. Len(Tail(q)) \in Nat /\ Tail(q) \in Seq(Nat) BY <1>0, <2>2
      <3>2. PICK t \in Seq(Nat) : t = Tail(q) BY <3>1
      <3>3. Append(t, m)[Len(t) + 1] = m /\ Len(t) + 1 \in 1 .. Len(Append(t, m))
        BY <1>1
      <3>4. Queued(q, N + 1) = Append(t, m) BY <1>1, <2>2, <3>2 DEF Queued
      <3> QED BY <3>3, <3>4 DEF Waits
    <2> QED BY <2>1, <2>2
  <1>2. CASE m # N + 1 /\ Waits(m, q)
    <2>1. PICK i \in 1 .. Len(q) : q[i] = m BY <1>2 DEF Waits
    <2>2. CASE Len(q) < QueueSize
      <3>1. Append(q, N + 1)[i] = m /\ i \in 1 .. Len(Append(q, N + 1)) BY <2>1
      <3> QED BY <2>2, <3>1 DEF Queued, Waits
    <2>3. CASE ~(Len(q) < QueueSize) /\ i = 1
      <3>1. m + (Len(q) - 1) <= N BY <2>1, <2>3 DEF Chain
      <3> QED BY <1>0, <2>3, <3>1
    <2>4. CASE ~(Len(q) < QueueSize) /\ i # 1
      <3>1. /\ Tail(q) \in Seq(Nat) /\ Len(Tail(q)) = Len(q) - 1
            /\ Tail(q)[i - 1] = q[i] /\ i - 1 \in 1 .. Len(q) - 1
        BY <2>1, <2>4
      <3>2. /\ Append(Tail(q), N + 1)[i - 1] = m
            /\ i - 1 \in 1 .. Len(Append(Tail(q), N + 1))
        BY <2>1, <3>1
      <3> QED BY <2>4, <3>2 DEF Queued, Waits
    <2> QED BY <2>2, <2>3, <2>4
  <1>3. CASE m # N + 1 /\ ~Waits(m, q)
    <2>1. m \in g + 1 .. N BY <1>3
    <2>2. Waits(m, w) \/ m + QueueSize <= N BY <1>3, <2>1 DEF Covered
    <2> QED BY <1>0, <2>1, <2>2
  <1> QED BY <1>1, <1>2, <1>3

\* A lost wire leaves the queue alone.
LEMMA ChainLost ==
    ASSUME NEW N \in Nat, NEW g \in Nat, NEW w \in Seq(Nat), NEW q \in Seq(Nat),
           Chain(g, w, q, N)
    PROVE  Chain(g, <<>>, q, N)
  BY DEF Chain, Ascending

\* The head of a sequence and its tail, by their places.
LEMMA HeadTail ==
    ASSUME NEW q \in Seq(Nat), q # <<>>
    PROVE  /\ Head(q) = q[1] /\ Head(q) \in Nat /\ 1 \in 1 .. Len(q)
           /\ Tail(q) \in Seq(Nat) /\ Len(Tail(q)) = Len(q) - 1 /\ Len(q) \in Nat
           /\ \A i \in 1 .. Len(Tail(q)) : Tail(q)[i] = q[i + 1] /\ i + 1 \in 2 .. Len(q)
  OBVIOUS

\* The task sends the head of the queue.
LEMMA ChainForward ==
    ASSUME NEW N \in Nat, NEW g \in Nat, NEW w \in Seq(Nat), NEW q \in Seq(Nat),
           Chain(g, w, q, N), q # <<>>
    PROVE  /\ Append(w, Head(q)) \in Seq(Nat) /\ Tail(q) \in Seq(Nat)
           /\ Len(Append(w, Head(q))) = Len(w) + 1 /\ Len(Tail(q)) < Len(q)
           /\ Chain(g, Append(w, Head(q)), Tail(q), N)
           /\ Covered(g, w, q, N) => Covered(g, Append(w, Head(q)), Tail(q), N)
  <1>1. /\ Head(q) = q[1] /\ Head(q) \in Nat /\ 1 \in 1 .. Len(q)
        /\ Tail(q) \in Seq(Nat) /\ Len(Tail(q)) = Len(q) - 1 /\ Len(q) \in Nat
        /\ \A i \in 1 .. Len(Tail(q)) : Tail(q)[i] = q[i + 1] /\ i + 1 \in 2 .. Len(q)
    BY HeadTail
  <1>2. PICK h \in Nat : h = Head(q) BY <1>1
  <1>3. PICK t \in Seq(Nat) : t = Tail(q) BY <1>1
  <1>4. /\ Len(t) = Len(q) - 1
        /\ \A i \in 1 .. Len(t) : t[i] = q[i + 1] /\ i + 1 \in 2 .. Len(q)
    BY <1>1, <1>3
  <1>17. Append(w, h) \in Seq(Nat) BY <1>2
  <1>5. PICK a \in Seq(Nat) : a = Append(w, h) BY <1>17
  <1>6. /\ Len(a) = Len(w) + 1 /\ a[Len(w) + 1] = h
        /\ \A i \in 1 .. Len(w) : a[i] = w[i]
        /\ \A i \in 1 .. Len(a) : i \in 1 .. Len(w) \/ i = Len(w) + 1
    BY <1>5
  <1>7. /\ g <= N
        /\ \A i \in 1 .. Len(w) : g < w[i] /\ w[i] <= N
        /\ \A i \in 1 .. Len(q) : q[i] \in Nat /\ g < q[i] /\ q[i] + (Len(q) - i) <= N
        /\ \A i, j \in 1 .. Len(w) : i < j => w[i] < w[j]
        /\ \A i, j \in 1 .. Len(q) : i < j => q[i] < q[j]
        /\ \A i \in 1 .. Len(w) : \A j \in 1 .. Len(q) : w[i] < q[j]
    BY SMTT(30) DEF Chain, Ascending
  <1>8. g < h /\ h <= N /\ \A i \in 1 .. Len(w) : w[i] < h
    <2>1. g < q[1] /\ q[1] + (Len(q) - 1) <= N /\ Len(q) >= 1 BY <1>1, <1>7
    <2>2. q[1] = h BY <1>1, <1>2
    <2>3. \A i \in 1 .. Len(w) : w[i] < h BY <1>1, <1>7, <2>2
    <2> QED BY <1>1, <2>1, <2>2, <2>3
  <1>9. \A i \in 1 .. Len(a) : g < a[i] /\ a[i] <= N BY <1>6, <1>7, <1>8
  <1>10. \A i \in 1 .. Len(t) : g < t[i] /\ t[i] + (Len(t) - i) <= N
    <2> TAKE i \in 1 .. Len(t)
    <2>1. PICK j \in 2 .. Len(q) : j = i + 1 /\ t[i] = q[j] BY <1>4
    <2>5. j \in 1 .. Len(q) OBVIOUS
    <2>6. q[j] \in Nat /\ g < q[j] /\ q[j] + (Len(q) - j) <= N BY <1>7, <2>5
    <2>2. PICK x \in Nat : x = q[j] /\ g < x /\ x + (Len(q) - j) <= N BY <2>6
    <2>3. t[i] = x BY <2>1, <2>2
    <2>4. Len(t) - i = Len(q) - j BY <1>1, <1>4, <2>1
    <2> QED BY <2>2, <2>3, <2>4
  <1>11. \A i, j \in 1 .. Len(a) : i < j => a[i] < a[j]
    <2> TAKE i, j \in 1 .. Len(a)
    <2> HAVE i < j
    <2>4. i # Len(w) + 1 BY <1>6
    <2>1. i \in 1 .. Len(w) /\ a[i] = w[i] BY <1>6, <2>4
    <2>2. CASE j = Len(w) + 1 BY <1>6, <1>8, <2>1, <2>2
    <2>3. CASE j \in 1 .. Len(w) BY <1>6, <1>7, <2>1, <2>3
    <2> QED BY <1>6, <2>2, <2>3
  <1>12. \A i, j \in 1 .. Len(t) : i < j => t[i] < t[j]
    <2> TAKE i, j \in 1 .. Len(t)
    <2> HAVE i < j
    <2>1. PICK x \in 2 .. Len(q) : x = i + 1 /\ t[i] = q[x] BY <1>4
    <2>2. PICK y \in 2 .. Len(q) : y = j + 1 /\ t[j] = q[y] BY <1>4
    <2> QED BY <1>7, <2>1, <2>2
  <1>13. \A i \in 1 .. Len(a) : \A j \in 1 .. Len(t) : a[i] < t[j]
    <2> TAKE i \in 1 .. Len(a)
    <2> TAKE j \in 1 .. Len(t)
    <2>1. PICK y \in 2 .. Len(q) : y = j + 1 /\ t[j] = q[y] BY <1>4
    <2>2. CASE i = Len(w) + 1
      <3>1. a[i] = q[1] BY <1>1, <1>2, <1>6, <2>2
      <3>2. q[1] < q[y] BY <1>1, <1>7
      <3> QED BY <2>1, <3>1, <3>2
    <2>3. CASE i \in 1 .. Len(w)
      <3>2. y \in 1 .. Len(q) OBVIOUS
      <3>1. a[i] = w[i] /\ w[i] < q[y] BY <1>6, <1>7, <2>3, <3>2
      <3> QED BY <2>1, <3>1
    <2> QED BY <1>6, <2>2, <2>3
  <1>14. Chain(g, a, t, N)
    BY <1>7, <1>9, <1>10, <1>11, <1>12, <1>13 DEF Chain, Ascending
  <1>15. ASSUME Covered(g, w, q, N) PROVE Covered(g, a, t, N)
    <2> SUFFICES ASSUME NEW m \in g + 1 .. N
                 PROVE  Waits(m, a) \/ Waits(m, t) \/ m + QueueSize <= N
      BY DEF Covered
    <2>1. CASE Waits(m, w) BY SMTT(30), <1>6, <2>1 DEF Waits
    <2>2. CASE Waits(m, q)
      <3>1. PICK i \in 1 .. Len(q) : q[i] = m BY <2>2 DEF Waits
      <3>2. CASE i = 1
        <4>1. a[Len(w) + 1] = m /\ Len(w) + 1 \in 1 .. Len(a)
          BY <1>1, <1>2, <1>6, <3>1, <3>2
        <4> QED BY <4>1 DEF Waits
      <3>3. CASE i # 1
        <4>1. i - 1 \in 1 .. Len(t) /\ t[i - 1] = q[i] BY SMTT(30), <1>1, <1>4, <3>3
        <4> QED BY <3>1, <4>1 DEF Waits
      <3> QED BY <3>2, <3>3
    <2> QED BY <1>15, <2>1, <2>2 DEF Covered
  <1>16. Len(a) = Len(w) + 1 /\ Len(t) < Len(q) BY <1>1, <1>4, <1>6
  <1> QED BY <1>2, <1>3, <1>5, <1>14, <1>15, <1>16

\* The page takes the head of the wire: what it skipped gave way to others.
LEMMA ChainMessage ==
    ASSUME NEW N \in Nat, NEW g \in Nat, NEW w \in Seq(Nat), NEW q \in Seq(Nat),
           Chain(g, w, q, N), w # <<>>
    PROVE  /\ Head(w) \in Nat /\ Head(w) \in g + 1 .. N
           /\ Tail(w) \in Seq(Nat) /\ Len(Tail(w)) < Len(w)
           /\ Chain(Head(w), Tail(w), q, N)
           /\ Covered(g, w, q, N) =>
                /\ Covered(Head(w), Tail(w), q, N)
                /\ \A m \in g + 1 .. Head(w) - 1 : m + QueueSize <= N
  <1>1. /\ Head(w) = w[1] /\ Head(w) \in Nat /\ 1 \in 1 .. Len(w)
        /\ Tail(w) \in Seq(Nat) /\ Len(Tail(w)) = Len(w) - 1 /\ Len(w) \in Nat
        /\ \A i \in 1 .. Len(Tail(w)) : Tail(w)[i] = w[i + 1] /\ i + 1 \in 2 .. Len(w)
    BY HeadTail
  <1>2. PICK h \in Nat : h = Head(w) /\ h = w[1] BY <1>1
  <1>3. PICK t \in Seq(Nat) : t = Tail(w) BY <1>1
  <1>4. /\ Len(t) = Len(w) - 1
        /\ \A i \in 1 .. Len(t) : t[i] = w[i + 1] /\ i + 1 \in 2 .. Len(w)
    BY <1>1, <1>3
  <1>5. /\ g <= N
        /\ \A i \in 1 .. Len(w) : g < w[i] /\ w[i] <= N
        /\ \A i \in 1 .. Len(q) : g < q[i] /\ q[i] + (Len(q) - i) <= N
        /\ \A i, j \in 1 .. Len(w) : i < j => w[i] < w[j]
        /\ \A i, j \in 1 .. Len(q) : i < j => q[i] < q[j]
        /\ \A i \in 1 .. Len(w) : \A j \in 1 .. Len(q) : w[i] < q[j]
    BY DEF Chain, Ascending
  <1>6. h \in g + 1 .. N BY <1>1, <1>2, <1>5
  <1>7. \A i \in 2 .. Len(w) : h < w[i] BY <1>1, <1>2, <1>5
  <1>8. \A j \in 1 .. Len(q) : h < q[j] BY <1>1, <1>2, <1>5
  <1>9. \A i \in 1 .. Len(t) : h < t[i] /\ t[i] <= N
    <2> TAKE i \in 1 .. Len(t)
    <2>1. PICK j \in 2 .. Len(w) : j = i + 1 /\ t[i] = w[j] BY <1>4
    <2> QED BY <1>5, <1>7, <2>1
  <1>10. \A i, j \in 1 .. Len(t) : i < j => t[i] < t[j]
    <2> TAKE i, j \in 1 .. Len(t)
    <2> HAVE i < j
    <2>1. PICK x \in 2 .. Len(w) : x = i + 1 /\ t[i] = w[x] BY <1>4
    <2>2. PICK y \in 2 .. Len(w) : y = j + 1 /\ t[j] = w[y] BY <1>4
    <2> QED BY <1>5, <2>1, <2>2
  <1>11. \A i \in 1 .. Len(t) : \A j \in 1 .. Len(q) : t[i] < q[j]
    <2> TAKE i \in 1 .. Len(t)
    <2> TAKE j \in 1 .. Len(q)
    <2>1. PICK x \in 2 .. Len(w) : x = i + 1 /\ t[i] = w[x] BY <1>4
    <2> QED BY <1>5, <2>1
  <1>12. \A i \in 1 .. Len(q) : h < q[i] /\ q[i] + (Len(q) - i) <= N BY <1>5, <1>8
  <1>13. Chain(h, t, q, N)
    BY <1>5, <1>6, <1>9, <1>10, <1>11, <1>12 DEF Chain, Ascending
  <1>14. ASSUME Covered(g, w, q, N) PROVE Covered(h, t, q, N)
    <2> SUFFICES ASSUME NEW m \in h + 1 .. N
                 PROVE  Waits(m, t) \/ Waits(m, q) \/ m + QueueSize <= N
      BY DEF Covered
    <2>1. m \in g + 1 .. N BY <1>6
    <2>2. CASE Waits(m, w)
      <3>1. PICK i \in 1 .. Len(w) : w[i] = m BY <2>2 DEF Waits
      <3>2. i # 1 BY <1>2, <3>1
      <3>3. i - 1 \in 1 .. Len(t) /\ t[i - 1] = w[i] BY SMTT(30), <1>1, <1>4, <3>2
      <3> QED BY <3>1, <3>3 DEF Waits
    <2> QED BY <1>14, <2>1, <2>2 DEF Covered
  <1>15. ASSUME Covered(g, w, q, N), NEW m \in g + 1 .. h - 1
         PROVE  m + QueueSize <= N
    <2>1. m \in g + 1 .. N BY <1>6
    <2>2. ~Waits(m, w)
      <3>1. \A i \in 1 .. Len(w) : i = 1 \/ i \in 2 .. Len(w) BY <1>1
      <3>2. \A i \in 1 .. Len(w) : w[i] \in Nat /\ h <= w[i]
        <4> TAKE i \in 1 .. Len(w)
        <4>1. w[i] \in Nat OBVIOUS
        <4>2. CASE i = 1 BY <1>2, <4>2
        <4>3. CASE i \in 2 .. Len(w) BY <1>7, <4>1, <4>3
        <4> QED BY <3>1, <4>1, <4>2, <4>3
      <3>3. \A i \in 1 .. Len(w) : w[i] # m BY <3>2
      <3> QED BY <3>3 DEF Waits
    <2>3. ~Waits(m, q) BY <1>8 DEF Waits
    <2> QED BY <1>15, <2>1, <2>2, <2>3 DEF Covered
  <1>16. Len(t) < Len(w) BY <1>1, <1>4
  <1> QED BY <1>2, <1>3, <1>6, <1>13, <1>14, <1>15, <1>16

-----------------------------------------------------------------------------
(* The inductive invariant.                                                *)

\* What a socket holds, when N events were broadcast.  A wire that was lost
\* is not covered any more, and nobody listens to it.
Good(r, N) ==
    /\ r \in SockType
    /\ Len(r.queue) <= QueueSize /\ Len(r.wire) <= WireSize
    /\ r.browser = "none" => ~r.mine
    /\ r.server # "streaming" => r.queue = <<>> /\ r.wire = <<>>
    /\ Chain(r.got, r.wire, r.queue, N)
    /\ r.server = "streaming" /\ r.up => Covered(r.got, r.wire, r.queue, N)

PubInv == published \in Seq(Addresses \cup {Unique}) /\ visits \in Nat /\ faults \in Nat
SockInv == sock \in [Sockets -> SockType] /\ \A s \in Sockets : Good(sock[s], Newest)

\* The list is below what the page's socket delivers next, and a page has its
\* socket, or its timer, or neither.
ListInv ==
    /\ Len(page.list) <= (IF page.kind = "live" THEN KeepLive ELSE KeepMap)
    /\ NewestFirst
    /\ \A i \in 1 .. Len(page.list) : page.list[i] <= Newest
    /\ \A s \in Sockets : sock[s].mine /\ sock[s].server = "streaming" =>
         \A i \in 1 .. Len(page.list) : page.list[i] <= sock[s].got
MineInv ==
    /\ page.timers \in {0, 1}
    /\ \A s, t \in Sockets : sock[s].mine /\ sock[t].mine => s = t
    /\ page.timers = 1 \/ page.kind = "none" => \A s \in Sockets : ~sock[s].mine
    /\ page.kind = "none" => page.timers = 0
PageInv == page \in PageType /\ ListInv /\ MineInv

FeedInv == PubInv /\ SockInv /\ PageInv

LEMMA NewestNat == PubInv => Newest \in Nat
  BY DEF PubInv, Newest

\* One socket changes.
LEMMA SetGood ==
    ASSUME SockInv, NEW s \in Sockets, NEW r, Good(r, Newest), Set(s, r),
           published' = published
    PROVE  /\ SockInv'
           /\ \A t \in Sockets : sock'[t] = IF t = s THEN r ELSE sock[t]
  <1>1. r \in SockType BY DEF Good
  <1>2. sock' \in [Sockets -> SockType] BY <1>1 DEF SockInv, Set
  <1>3. \A t \in Sockets : sock'[t] = IF t = s THEN r ELSE sock[t]
    BY DEF SockInv, Set
  <1>4. Newest' = Newest BY DEF Newest
  <1>5. \A t \in Sockets : Good(sock'[t], Newest') BY <1>3, <1>4 DEF SockInv
  <1> QED BY <1>2, <1>3, <1>5 DEF SockInv

\* And the page does not notice.
LEMMA PageKept ==
    ASSUME PageInv, NEW s \in Sockets, NEW r, r.mine => sock[s].mine,
           r.mine /\ r.server = "streaming" =>
             \A i \in 1 .. Len(page.list) : page.list[i] <= r.got,
           \A t \in Sockets : sock'[t] = IF t = s THEN r ELSE sock[t],
           UNCHANGED <<published, page>>
    PROVE  PageInv'
  <1>1. Newest' = Newest BY DEF Newest
  <1>2. page' \in PageType BY DEF PageInv
  <1>3. ListInv' BY <1>1 DEF PageInv, ListInv, NewestFirst
  <1>4. MineInv' BY DEF PageInv, MineInv
  <1> QED BY <1>2, <1>3, <1>4 DEF PageInv

LEMMA EmptyGood ==
    ASSUME NEW N \in Nat
    PROVE  Good(NoConnection, N) /\ Good(Asked, N) /\ Asked.mine /\ Asked.server = "asked"
           /\ ~NoConnection.mine
  <1>0. QueueSize \in Nat /\ WireSize \in Nat BY FeedAssumption
  <1>1. NoConnection \in SockType /\ Asked \in SockType
    <2>1. <<>> \in Seq(Nat) OBVIOUS
    <2>2. NoConnection \in SockType BY <2>1 DEF NoConnection, SockType
    <2>3. Asked \in SockType BY <2>2 DEF Asked, SockType
    <2> QED BY <2>2, <2>3
  <1>2. Chain(0, <<>>, <<>>, N) BY ChainEmpty
  <1> QED BY <1>0, <1>1, <1>2 DEF Good, NoConnection, Asked

-----------------------------------------------------------------------------
(* The place of the page in the stream.                                    *)

Live(s) == sock[s].mine /\ Heard(s) /\ sock[s].server = "streaming"

LEMMA AtOff ==
    ASSUME \A s \in Sockets : ~Live(s)
    PROVE  At = -1
  BY DEF At, Subscribed, Mine, Live

LEMMA AtOffNext ==
    ASSUME \A s \in Sockets : ~(Live(s)')
    PROVE  At' = -1
  BY DEF At, Subscribed, Mine, Live

LEMMA AtOn ==
    ASSUME NEW s \in Sockets, Live(s), \A t \in Sockets : Live(t) => t = s
    PROVE  At = sock[s].got
  <1>1. Subscribed BY DEF Subscribed, Mine, Live
  <1>2. (CHOOSE t \in Mine : Heard(t) /\ sock[t].server = "streaming") = s
    BY DEF Mine, Live
  <1> QED BY <1>1, <1>2 DEF At

LEMMA AtOnNext ==
    ASSUME NEW s \in Sockets, Live(s)', \A t \in Sockets : Live(t)' => t = s
    PROVE  At' = sock'[s].got
  <1>1. Subscribed' BY DEF Subscribed, Mine, Live
  <1>2. (CHOOSE t \in Mine : Heard(t) /\ sock[t].server = "streaming")' = s
    BY DEF Mine, Live
  <1> QED BY <1>1, <1>2 DEF At

LEMMA AtKept ==
    ASSUME MineInv,
           \A s \in Sockets : Live(s)' <=> Live(s),
           \A s \in Sockets : Live(s) => sock'[s].got = sock[s].got
    PROVE  At' = At
  <1>1. CASE \A s \in Sockets : ~Live(s) BY <1>1, AtOff, AtOffNext
  <1>2. CASE \E s \in Sockets : Live(s)
    <2>1. PICK s \in Sockets : Live(s) BY <1>2
    <2>2. \A t \in Sockets : Live(t) => t = s BY <2>1 DEF Live, MineInv
    <2>3. At = sock[s].got BY <2>1, <2>2, AtOn
    <2>4. Live(s)' /\ \A t \in Sockets : Live(t)' => t = s BY <2>1, <2>2
    <2>5. At' = sock'[s].got BY <2>4, AtOnNext
    <2> QED BY <2>1, <2>3, <2>5
  <1> QED BY <1>1, <1>2

\* A step of the page as FeedPromise sees it.
PromiseStep == [Promise!PromiseNext]_(Promise!promiseVars)

LEMMA Stutters ==
    ASSUME At' = At, published' = published
    PROVE  PromiseStep
  BY DEF PromiseStep, Promise!promiseVars, Newest

LEMMA Leaves ==
    ASSUME \A s \in Sockets : ~(Live(s)'), published' = published
    PROVE  PromiseStep
  <1>1. At' = -1 BY AtOffNext
  <1> QED BY <1>1 DEF PromiseStep, Promise!promiseVars, Promise!PromiseNext,
                      Promise!Unsubscribe, Promise!Off, Newest

-----------------------------------------------------------------------------
(* The steps of the server and of the network.                             *)

LEMMA OnBroadcast ==
    ASSUME FeedInv, Broadcast PROVE FeedInv' /\ PromiseStep
  <1>1. PICK id \in Addresses \cup {Unique} : published' = Append(published, id)
    BY DEF Broadcast
  <1>2. UNCHANGED <<page, visits, faults>> BY DEF Broadcast
  <1>3. Newest \in Nat /\ Newest' = Newest + 1
    BY <1>1 DEF FeedInv, PubInv, Newest
  <1>4. PubInv' BY <1>1, <1>2 DEF FeedInv, PubInv
  <1>5. ASSUME NEW s \in Sockets
        PROVE  /\ sock'[s] \in SockType /\ Good(sock'[s], Newest')
               /\ \A f \in {"browser", "server", "up", "mine", "wire", "got"} :
                    sock'[s][f] = sock[s][f]
    <2>1. /\ sock[s] \in SockType /\ Good(sock[s], Newest)
          /\ sock'[s] = IF sock[s].server = "streaming"
                        THEN [sock[s] EXCEPT !.queue = Queued(@, Newest + 1)] ELSE sock[s]
      BY DEF FeedInv, SockInv, Broadcast
    <2>2. CASE sock[s].server = "streaming"
      <3>1. PICK r \in SockType : r = sock[s] BY <2>1
      <3>2. /\ r.queue \in Seq(Nat) /\ r.wire \in Seq(Nat) /\ r.got \in Nat
            /\ Len(r.queue) <= QueueSize /\ Chain(r.got, r.wire, r.queue, Newest)
            /\ r.up => Covered(r.got, r.wire, r.queue, Newest)
        BY <2>1, <2>2, <3>1 DEF Good, SockType
      <3>3. PICK q \in Seq(Nat) :
              /\ q = Queued(r.queue, Newest + 1)
              /\ Len(q) <= QueueSize /\ Chain(r.got, r.wire, q, Newest + 1)
        BY <1>3, <3>2, ChainBroadcast
      <3>4. r.up => Covered(r.got, r.wire, q, Newest + 1)
        BY <1>3, <3>2, <3>3, CoveredBroadcast
      <3>5. PICK n : n = [r EXCEPT !.queue = q] OBVIOUS
      <3>6. n \in SockType BY <3>5 DEF SockType
      <3>7. /\ n.queue = q
            /\ \A f \in {"browser", "server", "up", "mine", "wire", "got"} : n[f] = r[f]
        BY <3>5 DEF SockType
      <3>8. sock'[s] = n BY <2>1, <2>2, <3>1, <3>3, <3>5
      <3>9. Good(n, Newest + 1)
        BY <2>1, <2>2, <3>1, <3>3, <3>4, <3>6, <3>7 DEF Good
      <3> QED BY <1>3, <3>1, <3>6, <3>7, <3>8, <3>9
    <2>3. CASE sock[s].server # "streaming"
      <3>1. sock'[s] = sock[s] BY <2>1, <2>3
      <3>2. sock[s].queue = <<>> /\ sock[s].wire = <<>> /\ sock[s].got \in Nat
            /\ sock[s].got <= Newest
        BY <2>1, <2>3 DEF Good, SockType, Chain
      <3>3. Chain(sock[s].got, sock[s].wire, sock[s].queue, Newest + 1)
        BY <1>3, <3>2, ChainEmpty
      <3>4. Good(sock[s], Newest + 1) BY <2>1, <2>3, <3>3 DEF Good
      <3> QED BY <1>3, <2>1, <3>1, <3>4
    <2> QED BY <2>2, <2>3
  <1>6. SockInv'
    <2>1. sock' \in [Sockets -> SockType] BY <1>5 DEF Broadcast
    <2> QED BY <1>5, <2>1 DEF SockInv
  <1>7. \A s \in Sockets : /\ sock'[s].mine = sock[s].mine /\ sock'[s].got = sock[s].got
                           /\ sock'[s].server = sock[s].server /\ sock'[s].up = sock[s].up
                           /\ sock'[s].browser = sock[s].browser
    BY <1>5
  <1>8. PageInv'
    <2>1. page' \in PageType BY <1>2 DEF FeedInv, PageInv
    <2>2. \A i \in 1 .. Len(page.list) : page.list[i] \in Nat
      BY DEF FeedInv, PageInv, PageType
    <2>3. ListInv' BY <1>2, <1>3, <1>7, <2>2 DEF FeedInv, PageInv, ListInv, NewestFirst
    <2>4. MineInv' BY <1>2, <1>7 DEF FeedInv, PageInv, MineInv
    <2> QED BY <2>1, <2>3, <2>4 DEF PageInv
  <1>9. At' = At BY <1>7, AtKept DEF Live, Heard, FeedInv, PageInv
  <1>10. PromiseStep
    BY <1>3, <1>9 DEF PromiseStep, Promise!PromiseNext, Promise!Publish
  <1> QED BY <1>4, <1>6, <1>8, <1>10 DEF FeedInv

\* One socket changes and the page does not notice: what is left to show.
LEMMA QuietStep ==
    ASSUME FeedInv, NEW s \in Sockets, NEW r, Good(r, Newest), Set(s, r),
           r.mine => sock[s].mine,
           r.mine /\ r.server = "streaming" =>
             \A i \in 1 .. Len(page.list) : page.list[i] <= r.got,
           published' = published, page' = page, visits' = visits, faults' \in Nat
    PROVE  /\ FeedInv'
           /\ \A t \in Sockets : sock'[t] = IF t = s THEN r ELSE sock[t]
  <1>1. /\ SockInv'
        /\ \A t \in Sockets : sock'[t] = IF t = s THEN r ELSE sock[t]
    BY SetGood DEF FeedInv
  <1>2. PageInv' BY <1>1, PageKept DEF FeedInv
  <1>3. PubInv' BY DEF FeedInv, PubInv
  <1> QED BY <1>1, <1>2, <1>3 DEF FeedInv

\* The fields of a socket, and what is known of them.
LEMMA SocketFacts ==
    ASSUME FeedInv, NEW s \in Sockets
    PROVE  /\ sock[s] \in SockType /\ Good(sock[s], Newest) /\ Newest \in Nat
           /\ sock[s].queue \in Seq(Nat) /\ sock[s].wire \in Seq(Nat) /\ sock[s].got \in Nat
           /\ Len(sock[s].queue) <= QueueSize /\ Len(sock[s].wire) <= WireSize
           /\ Chain(sock[s].got, sock[s].wire, sock[s].queue, Newest)
           /\ sock[s].got <= Newest
           /\ sock[s].mine /\ sock[s].server = "streaming" =>
                \A i \in 1 .. Len(page.list) : page.list[i] <= sock[s].got
           /\ faults \in Nat /\ visits \in Nat
           /\ \A i \in 1 .. Len(page.list) : page.list[i] \in Nat /\ page.list[i] <= Newest
  <1>1. sock[s] \in SockType /\ Good(sock[s], Newest) BY DEF FeedInv, SockInv
  <1>2. /\ sock[s].queue \in Seq(Nat) /\ sock[s].wire \in Seq(Nat) /\ sock[s].got \in Nat
    BY <1>1 DEF SockType
  <1>3. /\ Len(sock[s].queue) <= QueueSize /\ Len(sock[s].wire) <= WireSize
        /\ Chain(sock[s].got, sock[s].wire, sock[s].queue, Newest)
        /\ sock[s].got <= Newest
    BY <1>1 DEF Good, Chain
  <1>4. /\ sock[s].mine /\ sock[s].server = "streaming" =>
             \A i \in 1 .. Len(page.list) : page.list[i] <= sock[s].got
        /\ \A i \in 1 .. Len(page.list) : page.list[i] <= Newest
    BY DEF FeedInv, PageInv, ListInv
  <1>5. \A i \in 1 .. Len(page.list) : page.list[i] \in Nat
    BY DEF FeedInv, PageInv, PageType
  <1>6. Newest \in Nat /\ faults \in Nat /\ visits \in Nat
    BY NewestNat DEF FeedInv, PubInv
  <1> QED BY <1>1, <1>2, <1>3, <1>4, <1>5, <1>6

LEMMA OnAnswer ==
    ASSUME FeedInv, NEW s \in Sockets, Answer(s) PROVE FeedInv' /\ PromiseStep
  <1>1. PICK answer \in {"accepted", "refused"} :
          Set(s, [sock[s] EXCEPT !.server = answer])
    BY DEF Answer
  <1>2. sock[s].server = "asked" /\ UNCHANGED <<published, page, visits, faults>>
    BY DEF Answer
  <1>3. PICK r : r = [sock[s] EXCEPT !.server = answer] OBVIOUS
  <1>4. r \in SockType BY <1>3, SocketFacts DEF SockType
  <1>5. /\ r.server = answer
        /\ r.browser = sock[s].browser /\ r.up = sock[s].up /\ r.mine = sock[s].mine
        /\ r.queue = sock[s].queue /\ r.wire = sock[s].wire /\ r.got = sock[s].got
    BY <1>3, SocketFacts DEF SockType
  <1>6. Good(r, Newest) BY <1>2, <1>4, <1>5, SocketFacts DEF Good
  <1>9. Set(s, r) /\ r.server # "streaming" BY <1>1, <1>3, <1>5
  <1>10. faults' \in Nat BY <1>2, SocketFacts
  <1>7. /\ FeedInv'
        /\ \A t \in Sockets : sock'[t] = IF t = s THEN r ELSE sock[t]
    BY <1>2, <1>5, <1>6, <1>9, <1>10, QuietStep
  <1>8. At' = At BY <1>2, <1>5, <1>7, AtKept DEF Live, Heard, FeedInv, PageInv
  <1> QED BY <1>2, <1>7, <1>8, Stutters

LEMMA OnRegister ==
    ASSUME FeedInv, NEW s \in Sockets, Register(s) PROVE FeedInv' /\ PromiseStep
  <1>1. PICK r : r = [sock[s] EXCEPT !.server = "streaming", !.queue = <<>>, !.got = Newest]
    OBVIOUS
  <1>2. /\ sock[s].server = "accepted" /\ Set(s, r)
        /\ published' = published /\ page' = page /\ visits' = visits /\ faults' = faults
    BY <1>1 DEF Register
  <1>3. <<>> \in Seq(Nat) /\ Newest \in Nat /\ QueueSize \in Nat /\ WireSize \in Nat
    BY SocketFacts, FeedAssumption
  <1>4. r \in SockType BY <1>1, <1>3, SocketFacts DEF SockType
  <1>5. /\ r.server = "streaming" /\ r.queue = <<>> /\ r.got = Newest
        /\ r.browser = sock[s].browser /\ r.up = sock[s].up /\ r.mine = sock[s].mine
        /\ r.wire = sock[s].wire
    BY <1>1, SocketFacts DEF SockType
  <1>6. r.wire = <<>> /\ (r.browser = "none" => ~r.mine)
    BY <1>2, <1>5, SocketFacts DEF Good
  <1>7. Good(r, Newest)
    <2>1. Chain(Newest, <<>>, <<>>, Newest) BY <1>3, ChainEmpty
    <2>2. Covered(Newest, <<>>, <<>>, Newest) BY <1>3 DEF Covered
    <2> QED BY <1>3, <1>4, <1>5, <1>6, <2>1, <2>2 DEF Good
  <1>8. \A i \in 1 .. Len(page.list) : page.list[i] <= r.got BY <1>5, SocketFacts
  <1>9. faults' \in Nat BY <1>2, SocketFacts
  <1>10. /\ FeedInv'
         /\ \A t \in Sockets : sock'[t] = IF t = s THEN r ELSE sock[t]
    BY <1>2, <1>5, <1>7, <1>8, <1>9, QuietStep
  <1>11. CASE Live(s)'
    <2>1. \A t \in Sockets : ~Live(t)
      BY <1>2, <1>5, <1>10, <1>11 DEF Live, FeedInv, PageInv, MineInv
    <2>2. At = -1 BY <2>1, AtOff
    <2>3. \A t \in Sockets : Live(t)' => t = s
      BY <1>10, <2>1 DEF Live, Heard
    <2>4. At' = Newest BY <1>5, <1>10, <1>11, <2>3, AtOnNext
    <2>5. Newest' = Newest BY <1>2 DEF Newest
    <2>6. PromiseStep
      BY <2>2, <2>4, <2>5 DEF PromiseStep, Promise!PromiseNext, Promise!Subscribe,
                              Promise!Off
    <2> QED BY <1>10, <2>6
  <1>12. CASE ~(Live(s)')
    <2>1. At' = At
      BY <1>2, <1>10, <1>12, AtKept DEF Live, Heard, FeedInv, PageInv
    <2> QED BY <1>2, <1>10, <2>1, Stutters
  <1> QED BY <1>10, <1>11, <1>12

LEMMA OnHangup ==
    ASSUME FeedInv, NEW s \in Sockets
    PROVE  /\ Good(Hangup(sock[s]), Newest)
           /\ Hangup(sock[s]).browser = sock[s].browser /\ Hangup(sock[s]).up = sock[s].up
           /\ Hangup(sock[s]).mine = sock[s].mine /\ Hangup(sock[s]).got = sock[s].got
           /\ Hangup(sock[s]).server = "gone"
           /\ Hangup(sock[s]).queue = <<>> /\ Hangup(sock[s]).wire = <<>>
  <1>1. PICK r : r = [sock[s] EXCEPT !.server = "gone", !.queue = <<>>, !.wire = <<>>]
    OBVIOUS
  <1>2. <<>> \in Seq(Nat) /\ QueueSize \in Nat /\ WireSize \in Nat BY FeedAssumption
  <1>3. r \in SockType BY <1>1, <1>2, SocketFacts DEF SockType
  <1>4. /\ r.server = "gone" /\ r.queue = <<>> /\ r.wire = <<>> /\ r.got = sock[s].got
        /\ r.browser = sock[s].browser /\ r.up = sock[s].up /\ r.mine = sock[s].mine
    BY <1>1, SocketFacts DEF SockType
  <1>5. Chain(r.got, <<>>, <<>>, Newest) BY <1>4, SocketFacts, ChainEmpty
  <1>6. Good(r, Newest) BY <1>2, <1>3, <1>4, <1>5, SocketFacts DEF Good
  <1>7. Hangup(sock[s]) = r BY <1>1 DEF Hangup
  <1> QED BY <1>4, <1>6, <1>7

LEMMA OnForward ==
    ASSUME FeedInv, NEW s \in Sockets, Forward(s) PROVE FeedInv' /\ PromiseStep
  <1>1. /\ sock[s].server = "streaming" /\ sock[s].queue # <<>>
        /\ published' = published /\ page' = page /\ visits' = visits /\ faults' = faults
        /\ faults' \in Nat
    BY SocketFacts DEF Forward
  <1>2. CASE ~Heard(s) /\ Set(s, Hangup(sock[s]))
    <2>1. /\ FeedInv'
          /\ \A t \in Sockets : sock'[t] = IF t = s THEN Hangup(sock[s]) ELSE sock[t]
      BY <1>1, <1>2, OnHangup, QuietStep
    <2>2. At' = At
      BY <1>1, <1>2, <2>1, OnHangup, AtKept DEF Live, Heard, FeedInv, PageInv
    <2> QED BY <1>1, <2>1, <2>2, Stutters
  <1>3. CASE /\ Heard(s) /\ Len(sock[s].wire) < WireSize
             /\ Set(s, [sock[s] EXCEPT !.wire = Append(@, Head(sock[s].queue)),
                                       !.queue = Tail(@)])
    <2>1. PICK w \in Seq(Nat), q \in Seq(Nat) :
            /\ w = Append(sock[s].wire, Head(sock[s].queue)) /\ q = Tail(sock[s].queue)
            /\ Len(w) = Len(sock[s].wire) + 1 /\ Len(q) < Len(sock[s].queue)
            /\ Chain(sock[s].got, w, q, Newest)
            /\ Covered(sock[s].got, sock[s].wire, sock[s].queue, Newest)
                 => Covered(sock[s].got, w, q, Newest)
      BY <1>1, SocketFacts, ChainForward
    <2>2. PICK r : r = [sock[s] EXCEPT !.wire = w, !.queue = q] OBVIOUS
    <2>3. r \in SockType BY <2>2, SocketFacts DEF SockType
    <2>4. /\ r.server = sock[s].server /\ r.queue = q /\ r.wire = w /\ r.got = sock[s].got
          /\ r.browser = sock[s].browser /\ r.up = sock[s].up /\ r.mine = sock[s].mine
      BY <2>2, SocketFacts DEF SockType
    <2>5. Len(w) <= WireSize /\ Len(q) <= QueueSize
      <3>1. Len(sock[s].wire) \in Nat /\ Len(sock[s].queue) \in Nat /\ Len(q) \in Nat
            /\ Len(sock[s].queue) <= QueueSize
        BY SocketFacts
      <3>2. WireSize \in Nat /\ QueueSize \in Nat BY FeedAssumption
      <3>3. Len(w) = Len(sock[s].wire) + 1 /\ Len(q) < Len(sock[s].queue) BY <2>1
      <3> QED BY <1>3, <3>1, <3>2, <3>3
    <2>6. Good(r, Newest)
      BY <1>1, <2>1, <2>3, <2>4, <2>5, SocketFacts DEF Good
    <2>7. Set(s, r) BY <1>3, <2>1, <2>2
    <2>8. /\ FeedInv'
          /\ \A t \in Sockets : sock'[t] = IF t = s THEN r ELSE sock[t]
      BY ZenonT(30), <1>1, <2>4, <2>6, <2>7, SocketFacts, QuietStep
    <2>9. At' = At
      BY <1>1, <2>4, <2>8, AtKept DEF Live, Heard, FeedInv, PageInv
    <2> QED BY <1>1, <2>8, <2>9, Stutters
  <1> QED BY <1>2, <1>3 DEF Forward

LEMMA OnDrop ==
    ASSUME FeedInv, NEW s \in Sockets, Drop(s) PROVE FeedInv' /\ PromiseStep
  <1>1. PICK r : r = [sock[s] EXCEPT !.up = FALSE, !.wire = <<>>] OBVIOUS
  <1>2. /\ Set(s, r) /\ faults' = faults + 1
        /\ published' = published /\ page' = page /\ visits' = visits
    BY <1>1 DEF Drop
  <1>3. <<>> \in Seq(Nat) /\ WireSize \in Nat BY FeedAssumption
  <1>4. r \in SockType BY <1>1, <1>3, SocketFacts DEF SockType
  <1>5. /\ r.up = FALSE /\ r.wire = <<>> /\ r.queue = sock[s].queue
        /\ r.browser = sock[s].browser /\ r.server = sock[s].server
        /\ r.mine = sock[s].mine /\ r.got = sock[s].got
    BY <1>1, SocketFacts DEF SockType
  <1>6. Chain(r.got, <<>>, r.queue, Newest) BY <1>5, SocketFacts, ChainLost
  <1>7. Good(r, Newest) BY <1>3, <1>4, <1>5, <1>6, SocketFacts DEF Good
  <1>8. faults' \in Nat BY <1>2, SocketFacts
  <1>9. /\ FeedInv'
        /\ \A t \in Sockets : sock'[t] = IF t = s THEN r ELSE sock[t]
    BY <1>2, <1>5, <1>7, <1>8, SocketFacts, QuietStep
  <1>10. CASE sock[s].mine
    <2>1. \A t \in Sockets : ~(Live(t)')
      BY <1>5, <1>9, <1>10 DEF Live, Heard, FeedInv, PageInv, MineInv
    <2> QED BY <1>2, <1>9, <2>1, Leaves
  <1>11. CASE ~sock[s].mine
    <2>1. At' = At
      BY <1>5, <1>9, <1>11, AtKept DEF Live, Heard, FeedInv, PageInv
    <2> QED BY <1>2, <1>9, <2>1, Stutters
  <1> QED BY <1>10, <1>11

LEMMA OnRestart ==
    ASSUME FeedInv, Restart PROVE FeedInv' /\ PromiseStep
  <1>1. /\ faults' = faults + 1
        /\ published' = published /\ page' = page /\ visits' = visits
        /\ Newest' = Newest /\ Newest \in Nat
    BY NewestNat DEF Restart, Newest, FeedInv
  <1>2. PubInv' BY <1>1 DEF FeedInv, PubInv
  <1>3. ASSUME NEW s \in Sockets
        PROVE  /\ Good(sock'[s], Newest)
               /\ sock'[s].mine = sock[s].mine /\ sock'[s].server = "gone"
    <2>1. CASE sock[s].browser = "none"
      <3>1. sock'[s] = NoConnection BY <2>1 DEF Restart
      <3>2. ~sock[s].mine /\ sock[s].mine \in BOOLEAN
        BY <2>1, SocketFacts DEF Good, SockType
      <3>3. NoConnection.mine = FALSE /\ NoConnection.server = "gone" BY DEF NoConnection
      <3>4. Good(NoConnection, Newest) BY <1>1, EmptyGood
      <3> QED BY <3>1, <3>2, <3>3, <3>4
    <2>2. CASE sock[s].browser # "none"
      <3>1. PICK h : h = Hangup(sock[s]) OBVIOUS
      <3>2. /\ Good(h, Newest) /\ h.browser = sock[s].browser /\ h.mine = sock[s].mine
            /\ h.server = "gone" /\ h.queue = <<>> /\ h.wire = <<>>
        BY <3>1, OnHangup
      <3>3. PICK r : r = [h EXCEPT !.up = FALSE] OBVIOUS
      <3>4. h \in SockType BY <3>2 DEF Good
      <3>5. r \in SockType BY <3>3, <3>4 DEF SockType
      <3>6. /\ r.browser = h.browser /\ r.server = h.server /\ r.mine = h.mine
            /\ r.queue = h.queue /\ r.wire = h.wire /\ r.got = h.got
        BY <3>3, <3>4 DEF SockType
      <3>7. Good(r, Newest) BY <3>2, <3>5, <3>6 DEF Good
      <3>8. sock'[s] = r BY <2>2, <3>1, <3>3 DEF Restart
      <3> QED BY <3>2, <3>6, <3>7, <3>8
    <2> QED BY <2>1, <2>2
  <1>4. SockInv'
    <2>1. sock' \in [Sockets -> SockType] BY <1>3 DEF Restart, Good
    <2> QED BY <1>1, <1>3, <2>1 DEF SockInv
  <1>5. PageInv' BY <1>1, <1>3 DEF FeedInv, PageInv, ListInv, MineInv, NewestFirst
  <1>6. \A t \in Sockets : ~(Live(t)') BY <1>3 DEF Live
  <1> QED BY <1>1, <1>2, <1>4, <1>5, <1>6, Leaves DEF FeedInv

-----------------------------------------------------------------------------
(* The steps of the page.                                                  *)

\* What a list may be, of any page.
Listed(p, N) ==
    /\ Len(p.list) <= (IF p.kind = "live" THEN KeepLive ELSE KeepMap)
    /\ \A i, j \in 1 .. Len(p.list) : i < j => p.list[i] > p.list[j]
    /\ \A i \in 1 .. Len(p.list) : p.list[i] <= N

\* The browser closes a socket.
LEMMA ClosingGood ==
    ASSUME FeedInv, NEW t \in Sockets, NEW b \in BOOLEAN, b => sock[t].mine,
           sock[t].browser # "none"
    PROVE  /\ Good([sock[t] EXCEPT !.browser = "closing", !.mine = b], Newest)
           /\ [sock[t] EXCEPT !.browser = "closing", !.mine = b].mine = b
  <1>1. PICK r : r = [sock[t] EXCEPT !.browser = "closing", !.mine = b] OBVIOUS
  <1>2. r \in SockType BY <1>1, SocketFacts DEF SockType
  <1>3. /\ r.browser = "closing" /\ r.mine = b
        /\ r.server = sock[t].server /\ r.up = sock[t].up
        /\ r.queue = sock[t].queue /\ r.wire = sock[t].wire /\ r.got = sock[t].got
    BY <1>1, SocketFacts DEF SockType
  <1>4. Good(r, Newest) BY <1>2, <1>3, SocketFacts DEF Good
  <1> QED BY <1>1, <1>3, <1>4

LEMMA OnConnect ==
    ASSUME FeedInv, NEW p \in PageType, Connect(p, sock), \A s \in Sockets : ~sock[s].mine,
           p.kind # "none", p.timers = 0, Listed(p, Newest),
           published' = published, visits' \in Nat, faults' \in Nat
    PROVE  FeedInv' /\ PromiseStep
  <1>1. Newest' = Newest /\ Newest \in Nat BY NewestNat DEF Newest, FeedInv
  <1>2. PubInv' BY DEF FeedInv, PubInv
  <1>3. CASE p.retries >= MaxRetries
    <2>1. page' = p /\ sock' = sock BY <1>3 DEF Connect
    <2>2. SockInv' BY <1>1, <2>1 DEF FeedInv, SockInv
    <2>3. PageInv'
      BY <1>1, <2>1 DEF PageInv, ListInv, MineInv, Listed, NewestFirst
    <2>4. \A t \in Sockets : ~(Live(t)') BY <2>1 DEF Live
    <2> QED BY <1>2, <2>2, <2>3, <2>4, Leaves DEF FeedInv
  <1>4. CASE ~(p.retries >= MaxRetries)
    <2>1. PICK s \in Free :
            /\ page' = [p EXCEPT !.ws = s]
            /\ sock' = [t \in Sockets |->
                 IF t = s THEN Asked
                 ELSE IF t = p.ws /\ sock[t].browser \in {"connecting", "open"}
                 THEN [sock[t] EXCEPT !.browser = "closing"] ELSE sock[t]]
      BY <1>4 DEF Connect
    <2>2. s \in Sockets BY DEF Free
    <2>3. /\ page' \in PageType /\ page'.kind = p.kind /\ page'.list = p.list
          /\ page'.timers = 0
      BY <2>1, <2>2 DEF PageType
    <2>4. ASSUME NEW t \in Sockets
          PROVE  Good(sock'[t], Newest) /\ (t = s => sock'[t] = Asked)
                 /\ (t # s => ~sock'[t].mine)
      <3>1. CASE t = s BY <1>1, <2>1, <3>1, EmptyGood
      <3>2. CASE t # s /\ t = p.ws /\ sock[t].browser \in {"connecting", "open"}
        <4>1. sock'[t] = [sock[t] EXCEPT !.browser = "closing"] BY <2>1, <3>2
        <4>2. [sock[t] EXCEPT !.browser = "closing"]
                = [sock[t] EXCEPT !.browser = "closing", !.mine = FALSE]
          BY SocketFacts DEF SockType
        <4>3. sock[t].browser # "none" BY <3>2
        <4>4. Good([sock[t] EXCEPT !.browser = "closing", !.mine = FALSE], Newest)
              /\ [sock[t] EXCEPT !.browser = "closing", !.mine = FALSE].mine = FALSE
          BY <4>3, ClosingGood
        <4> QED BY <3>2, <4>1, <4>2, <4>4
      <3>3. CASE t # s /\ ~(t = p.ws /\ sock[t].browser \in {"connecting", "open"})
        <4>1. sock'[t] = sock[t] BY <2>1, <3>3
        <4> QED BY <3>3, <4>1, SocketFacts
      <3> QED BY <3>1, <3>2, <3>3
    <2>5. SockInv'
      <3>1. sock' \in [Sockets -> SockType] BY <2>1, <2>4 DEF Good
      <3> QED BY <1>1, <2>4, <3>1 DEF SockInv
    <2>6. Asked.server = "asked" BY <1>1, EmptyGood
    <2>7. \A t \in Sockets : sock'[t].mine => t = s /\ sock'[t].server = "asked"
      BY <2>4, <2>6
    <2>8. ListInv' BY <1>1, <2>3, <2>7 DEF ListInv, Listed, NewestFirst
    <2>9. MineInv' BY <2>3, <2>7 DEF MineInv
    <2>10. \A t \in Sockets : ~(Live(t)') BY <2>7 DEF Live
    <2> QED BY <1>2, <2>3, <2>5, <2>8, <2>9, <2>10, Leaves DEF FeedInv, PageInv
  <1> QED BY <1>3, <1>4

LEMMA OnMount ==
    ASSUME FeedInv, NEW kind \in {"live", "map"}, Mount(kind) PROVE FeedInv' /\ PromiseStep
  <1>1. PICK p : p = [NoPage EXCEPT !.kind = kind] OBVIOUS
  <1>2. /\ page.kind = "none" /\ visits' = visits + 1 /\ Connect(p, sock)
        /\ published' = published /\ faults' = faults
    BY <1>1 DEF Mount
  <1>3. /\ p = [kind |-> kind, ws |-> NoSocket, retries |-> 0, timers |-> 0,
                connected |-> FALSE, authError |-> FALSE, list |-> <<>>]
    BY <1>1 DEF NoPage
  <1>4. <<>> \in Seq(Nat) OBVIOUS
  <1>5. p \in PageType BY <1>3, <1>4 DEF PageType
  <1>6. p.kind # "none" /\ p.timers = 0 /\ p.list = <<>> BY <1>3
  <1>7. Listed(p, Newest)
    <2>1. KeepLive \in Nat /\ KeepMap \in Nat BY FeedAssumption
    <2> QED BY <1>6, <2>1 DEF Listed
  <1>8. \A s \in Sockets : ~sock[s].mine BY <1>2 DEF FeedInv, PageInv, MineInv
  <1>9. visits' \in Nat /\ faults' \in Nat BY <1>2 DEF FeedInv, PubInv
  <1> QED BY <1>2, <1>5, <1>6, <1>7, <1>8, <1>9, OnConnect

LEMMA OnReconnect ==
    ASSUME FeedInv, Reconnect PROVE FeedInv' /\ PromiseStep
  <1>1. PICK p : p = [page EXCEPT !.timers = @ - 1, !.retries = @ + 1] OBVIOUS
  <1>2. /\ page.timers > 0 /\ Connect(p, sock)
        /\ published' = published /\ visits' = visits /\ faults' = faults
    BY <1>1 DEF Reconnect
  <1>3. page \in PageType /\ page.timers = 1
    BY <1>2 DEF FeedInv, PageInv, MineInv
  <1>9. PICK n \in Nat : n = page.retries + 1 BY <1>3 DEF PageType
  <1>10. p = [page EXCEPT !.timers = 0, !.retries = n] BY <1>1, <1>3, <1>9 DEF PageType
  <1>4. p \in PageType BY <1>3, <1>10 DEF PageType
  <1>5. p.kind = page.kind /\ p.timers = 0 /\ p.list = page.list
    BY <1>3, <1>10 DEF PageType
  <1>6. p.kind # "none" /\ \A s \in Sockets : ~sock[s].mine
    BY <1>3, <1>5 DEF FeedInv, PageInv, MineInv
  <1>7. Listed(p, Newest)
    BY <1>5 DEF FeedInv, PageInv, ListInv, Listed, NewestFirst
  <1>8. visits' \in Nat /\ faults' \in Nat BY <1>2 DEF FeedInv, PubInv
  <1> QED BY <1>2, <1>4, <1>5, <1>6, <1>7, <1>8, OnConnect

LEMMA OnUnmount ==
    ASSUME FeedInv, Unmount PROVE FeedInv' /\ PromiseStep
  <1>1. /\ page' = NoPage /\ published' = published /\ visits' = visits /\ faults' = faults
        /\ Newest' = Newest
    BY DEF Unmount, Newest
  <1>2. PubInv' BY <1>1 DEF FeedInv, PubInv
  <1>3. ASSUME NEW t \in Sockets
        PROVE  Good(sock'[t], Newest) /\ ~sock'[t].mine
    <2>1. CASE t = page.ws /\ sock[t].browser \in {"connecting", "open"}
      <3>1. sock'[t] = [sock[t] EXCEPT !.mine = FALSE, !.browser = "closing"]
        BY <2>1 DEF Unmount
      <3>2. [sock[t] EXCEPT !.mine = FALSE, !.browser = "closing"]
              = [sock[t] EXCEPT !.browser = "closing", !.mine = FALSE]
        BY SocketFacts DEF SockType
      <3>3. Good([sock[t] EXCEPT !.browser = "closing", !.mine = FALSE], Newest)
            /\ [sock[t] EXCEPT !.browser = "closing", !.mine = FALSE].mine = FALSE
        BY <2>1, ClosingGood
      <3> QED BY <3>1, <3>2, <3>3
    <2>2. CASE ~(t = page.ws /\ sock[t].browser \in {"connecting", "open"})
      <3>1. PICK r : r = [sock[t] EXCEPT !.mine = FALSE] OBVIOUS
      <3>2. r \in SockType BY <3>1, SocketFacts DEF SockType
      <3>3. /\ r.browser = sock[t].browser /\ r.mine = FALSE
            /\ r.server = sock[t].server /\ r.up = sock[t].up
            /\ r.queue = sock[t].queue /\ r.wire = sock[t].wire /\ r.got = sock[t].got
        BY <3>1, SocketFacts DEF SockType
      <3>4. Good(r, Newest) BY <3>2, <3>3, SocketFacts DEF Good
      <3>5. sock'[t] = [sock[t] EXCEPT !.mine = FALSE, !.browser = sock[t].browser]
        BY <2>2 DEF Unmount
      <3>6. sock'[t] = r BY <3>1, <3>5, SocketFacts DEF SockType
      <3> QED BY <3>3, <3>4, <3>6
    <2> QED BY <2>1, <2>2
  <1>4. SockInv'
    <2>1. sock' \in [Sockets -> SockType] BY <1>3 DEF Unmount, Good
    <2> QED BY <1>1, <1>3, <2>1 DEF SockInv
  <1>5. PageInv'
    <2>1. <<>> \in Seq(Nat) /\ KeepMap \in Nat BY FeedAssumption
    <2>2. NoPage \in PageType BY <2>1 DEF NoPage, PageType
    <2>3. /\ NoPage.list = <<>> /\ NoPage.timers = 0 /\ NoPage.kind = "none"
      BY DEF NoPage
    <2>4. ListInv' BY <1>1, <1>3, <2>1, <2>3 DEF ListInv, NewestFirst
    <2>5. MineInv' BY <1>1, <1>3, <2>3 DEF MineInv
    <2> QED BY <1>1, <2>2, <2>4, <2>5 DEF PageInv
  <1>6. \A t \in Sockets : ~(Live(t)') BY <1>3 DEF Live
  <1> QED BY <1>1, <1>2, <1>4, <1>5, <1>6, Leaves DEF FeedInv

\* The page keeps its list and its timers; one socket changes.
LEMMA PageSame ==
    ASSUME FeedInv, NEW s \in Sockets, NEW r, Good(r, Newest), Set(s, r),
           r.mine => sock[s].mine,
           r.mine /\ r.server = "streaming" =>
             \A i \in 1 .. Len(page.list) : page.list[i] <= r.got,
           page' \in PageType, page'.kind = page.kind, page'.timers = page.timers,
           page'.list = page.list,
           published' = published, visits' = visits, faults' = faults
    PROVE  /\ FeedInv'
           /\ \A t \in Sockets : sock'[t] = IF t = s THEN r ELSE sock[t]
  <1>1. /\ SockInv'
        /\ \A t \in Sockets : sock'[t] = IF t = s THEN r ELSE sock[t]
    BY SetGood DEF FeedInv
  <1>2. Newest' = Newest BY DEF Newest
  <1>3. ListInv' BY <1>1, <1>2 DEF FeedInv, PageInv, ListInv, NewestFirst
  <1>4. MineInv' BY <1>1 DEF FeedInv, PageInv, MineInv
  <1>5. PubInv' BY DEF FeedInv, PubInv
  <1> QED BY <1>1, <1>3, <1>4, <1>5 DEF FeedInv, PageInv

LEMMA OnOpened ==
    ASSUME FeedInv, NEW s \in Sockets, Opened(s) PROVE FeedInv' /\ PromiseStep
  <1>1. PICK r : r = [sock[s] EXCEPT !.browser = "open"] OBVIOUS
  <1>2. /\ sock[s].browser = "connecting" /\ Set(s, r)
        /\ published' = published /\ visits' = visits /\ faults' = faults
    BY <1>1 DEF Opened
  <1>3. page \in PageType BY DEF FeedInv, PageInv
  <1>4. /\ page' \in PageType /\ page'.kind = page.kind /\ page'.timers = page.timers
        /\ page'.list = page.list
    <2>1. CASE ~sock[s].mine BY <1>3, <2>1 DEF Opened
    <2>2. CASE sock[s].mine
      <3>1. PICK b \in BOOLEAN : b = (page.kind = "live") OBVIOUS
      <3>2. page' = [page EXCEPT !.retries = 0, !.authError = FALSE, !.connected = b]
        BY <2>2, <3>1 DEF Opened
      <3> QED BY <1>3, <3>2 DEF PageType
    <2> QED BY <2>1, <2>2
  <1>5. r \in SockType BY <1>1, SocketFacts DEF SockType
  <1>6. /\ r.browser = "open" /\ r.server = sock[s].server /\ r.up = sock[s].up
        /\ r.mine = sock[s].mine
        /\ r.queue = sock[s].queue /\ r.wire = sock[s].wire /\ r.got = sock[s].got
    BY <1>1, SocketFacts DEF SockType
  <1>7. Good(r, Newest) BY <1>2, <1>5, <1>6, SocketFacts DEF Good
  <1>8. r.mine /\ r.server = "streaming" =>
          \A i \in 1 .. Len(page.list) : page.list[i] <= r.got
    BY <1>6, SocketFacts
  <1>9. /\ FeedInv'
        /\ \A t \in Sockets : sock'[t] = IF t = s THEN r ELSE sock[t]
    BY <1>2, <1>4, <1>6, <1>7, <1>8, PageSame
  <1>10. At' = At
    BY <1>2, <1>6, <1>9, AtKept DEF Live, Heard, FeedInv, PageInv
  <1> QED BY <1>2, <1>9, <1>10, Stutters

LEMMA OnClosed ==
    ASSUME FeedInv, NEW s \in Sockets, Closed(s) PROVE FeedInv' /\ PromiseStep
  <1>1. PICK c : c = [sock[s] EXCEPT !.browser = "none", !.mine = FALSE, !.wire = <<>>,
                                     !.up = FALSE]
    OBVIOUS
  <1>2. <<>> \in Seq(Nat) /\ WireSize \in Nat BY FeedAssumption
  <1>3. c \in SockType BY <1>1, <1>2, SocketFacts DEF SockType
  <1>4. /\ c.browser = "none" /\ c.mine = FALSE /\ c.up = FALSE /\ c.wire = <<>>
        /\ c.server = sock[s].server /\ c.queue = sock[s].queue /\ c.got = sock[s].got
    BY <1>1, SocketFacts DEF SockType
  <1>5. Chain(c.got, <<>>, c.queue, Newest) BY <1>4, SocketFacts, ChainLost
  <1>6. Good(c, Newest) BY <1>2, <1>3, <1>4, <1>5, SocketFacts DEF Good
  <1>7. PICK r : r = IF c.server \in {"refused", "gone"} THEN NoConnection ELSE c
    OBVIOUS
  <1>8. Good(r, Newest) /\ ~r.mine BY <1>4, <1>6, <1>7, SocketFacts, EmptyGood
  <1>9. /\ Set(s, r) /\ published' = published /\ visits' = visits /\ faults' = faults
        /\ page' = IF sock[s].mine THEN AfterClose(s) ELSE page
    BY <1>1, <1>7 DEF Closed
  <1>10. CASE ~sock[s].mine
    <2>1. page' = page /\ faults' \in Nat BY <1>9, <1>10, SocketFacts
    <2>2. /\ FeedInv'
          /\ \A t \in Sockets : sock'[t] = IF t = s THEN r ELSE sock[t]
      BY <1>8, <1>9, <2>1, QuietStep
    <2>3. At' = At BY <1>8, <1>10, <2>2, AtKept DEF Live, Heard, FeedInv, PageInv
    <2> QED BY <1>9, <2>2, <2>3, Stutters
  <1>11. CASE sock[s].mine
    <2>1. /\ SockInv'
          /\ \A t \in Sockets : sock'[t] = IF t = s THEN r ELSE sock[t]
      BY <1>8, <1>9, SetGood DEF FeedInv
    <2>2. \A t \in Sockets : ~sock'[t].mine
      BY <1>8, <1>11, <2>1 DEF FeedInv, PageInv, MineInv
    <2>3. page \in PageType /\ page.timers = 0 /\ page.kind # "none"
      BY <1>11 DEF FeedInv, PageInv, MineInv
    <2>4. CloseCode(s) \notin NoRetryCodes(page.kind) /\ CloseCode(s) # 4401
      BY DEF CloseCode, NoRetryCodes
    <2> DEFINE b == page.authError \/ (page.kind = "live" /\ CloseCode(s) = 4401)
    <2>5. b \in BOOLEAN OBVIOUS
    <2>6. page' = [page EXCEPT !.connected = FALSE, !.authError = b, !.timers = 1]
      <3>1. page' = AfterClose(s) BY <1>9, <1>11
      <3>2. page.timers + 1 = 1 BY <2>3
      <3> QED BY <2>3, <2>4, <3>1, <3>2 DEF AfterClose
    <2> HIDE DEF b
    <2>7. /\ page' \in PageType /\ page'.kind = page.kind /\ page'.timers = 1
          /\ page'.list = page.list
      BY <2>3, <2>5, <2>6 DEF PageType
    <2>8. Newest' = Newest BY <1>9 DEF Newest
    <2>9. ListInv' BY <2>2, <2>7, <2>8 DEF FeedInv, PageInv, ListInv, NewestFirst
    <2>10. MineInv' BY <2>2, <2>3, <2>7 DEF MineInv
    <2>11. PubInv' BY <1>9 DEF FeedInv, PubInv
    <2>12. \A t \in Sockets : ~(Live(t)') BY <2>2 DEF Live
    <2> QED BY <1>9, <2>1, <2>7, <2>9, <2>10, <2>11, <2>12, Leaves DEF FeedInv, PageInv
  <1> QED BY <1>10, <1>11

\* The list with a newer event on top, cut to what the page keeps.
LEMMA KeptGood ==
    ASSUME NEW list \in Seq(Nat), NEW n \in Nat, NEW keep \in Nat \ {0}, Len(list) <= keep,
           \A i, j \in 1 .. Len(list) : i < j => list[i] > list[j],
           \A i \in 1 .. Len(list) : list[i] < n
    PROVE  /\ Kept(list, n, keep) \in Seq(Nat) /\ Len(Kept(list, n, keep)) <= keep
           /\ \A i, j \in 1 .. Len(Kept(list, n, keep)) :
                i < j => Kept(list, n, keep)[i] > Kept(list, n, keep)[j]
           /\ \A i \in 1 .. Len(Kept(list, n, keep)) : Kept(list, n, keep)[i] <= n
  <1>1. PICK l \in Nat : l = Len(list) OBVIOUS
  <1>2. PICK m \in Nat : m = (IF l < keep THEN l + 1 ELSE keep) OBVIOUS
  <1>3. m <= l + 1 /\ m <= keep BY <1>1, <1>2
  <1>4. <<n>> \o list \in Seq(Nat) OBVIOUS
  <1>5. PICK a \in Seq(Nat) : a = <<n>> \o list BY <1>4
  <1>6. /\ Len(a) = l + 1 /\ a[1] = n
        /\ \A i \in 2 .. l + 1 : a[i] = list[i - 1] /\ i - 1 \in 1 .. l
    BY <1>1, <1>5
  <1>7. SubSeq(a, 1, m) \in Seq(Nat) BY <1>3, <1>6
  <1>8. PICK k \in Seq(Nat) : k = SubSeq(a, 1, m) BY <1>7
  <1>9. Len(k) = m /\ \A i \in 1 .. m : k[i] = a[i] BY <1>3, <1>6, <1>8
  <1>10. Kept(list, n, keep) = k BY <1>1, <1>2, <1>5, <1>8 DEF Kept
  <1>11. \A i \in 2 .. l + 1 : a[i] \in Nat /\ a[i] < n
    <2> TAKE i \in 2 .. l + 1
    <2>1. PICK j \in 1 .. l : j = i - 1 /\ a[i] = list[j] BY <1>6
    <2> QED BY <1>1, <2>1
  <1>12. \A i \in 1 .. m : k[i] <= n
    <2> TAKE i \in 1 .. m
    <2>1. CASE i = 1 BY <1>6, <1>9, <2>1
    <2>2. CASE i \in 2 .. l + 1 BY <1>9, <1>11, <2>2
    <2> QED BY <1>3, <2>1, <2>2
  <1>13. \A i, j \in 1 .. m : i < j => k[i] > k[j]
    <2> TAKE i, j \in 1 .. m
    <2> HAVE i < j
    <2>1. j \in 2 .. l + 1 /\ k[i] = a[i] /\ k[j] = a[j] BY <1>3, <1>9
    <2>2. CASE i = 1 BY <1>6, <1>11, <2>1, <2>2
    <2>3. CASE i \in 2 .. l + 1
      <3>1. PICK x \in 1 .. l : x = i - 1 /\ a[i] = list[x] BY <1>6, <2>3
      <3>2. PICK y \in 1 .. l : y = j - 1 /\ a[j] = list[y] BY <1>6, <2>1
      <3>3. x < y /\ x \in 1 .. Len(list) /\ y \in 1 .. Len(list) BY <1>1, <3>1, <3>2
      <3>4. list[x] > list[y] BY <3>3
      <3> QED BY <2>1, <3>1, <3>2, <3>4
    <2> QED BY <1>3, <2>2, <2>3
  <1> QED BY <1>3, <1>9, <1>10, <1>12, <1>13

LEMMA OnMessage ==
    ASSUME FeedInv, NEW s \in Sockets, Message(s) PROVE FeedInv' /\ PromiseStep
  <1>1. /\ sock[s].browser = "open" /\ sock[s].up /\ sock[s].wire # <<>>
        /\ published' = published /\ visits' = visits /\ faults' = faults
    BY DEF Message
  <1>2. sock[s].server = "streaming" BY <1>1, SocketFacts DEF Good
  <1>3. Covered(sock[s].got, sock[s].wire, sock[s].queue, Newest)
    BY <1>1, <1>2, SocketFacts DEF Good
  <1>4. PICK n \in Nat, w \in Seq(Nat) :
          /\ n = Head(sock[s].wire) /\ w = Tail(sock[s].wire)
          /\ n \in sock[s].got + 1 .. Newest
          /\ Len(w) < Len(sock[s].wire)
          /\ Chain(n, w, sock[s].queue, Newest)
          /\ Covered(n, w, sock[s].queue, Newest)
          /\ \A m \in sock[s].got + 1 .. n - 1 : m + QueueSize <= Newest
    BY <1>1, <1>3, SocketFacts, ChainMessage
  <1>5. PICK r : r = [sock[s] EXCEPT !.wire = w, !.got = n] OBVIOUS
  <1>6. r \in SockType BY <1>5, SocketFacts DEF SockType
  <1>7. /\ r.wire = w /\ r.got = n
        /\ r.browser = sock[s].browser /\ r.server = sock[s].server /\ r.up = sock[s].up
        /\ r.mine = sock[s].mine /\ r.queue = sock[s].queue
    BY <1>5, SocketFacts DEF SockType
  <1>8. Len(w) <= WireSize
    <2>1. Len(w) \in Nat /\ Len(sock[s].wire) \in Nat /\ Len(sock[s].wire) <= WireSize
      BY SocketFacts
    <2> QED BY <1>4, <2>1, FeedAssumption
  <1>9. Good(r, Newest) BY <1>1, <1>2, <1>4, <1>6, <1>7, <1>8, SocketFacts DEF Good
  <1>10. Set(s, r) BY <1>4, <1>5 DEF Message
  <1>11. CASE ~sock[s].mine
    <2>1. page' = page /\ faults' \in Nat BY <1>1, <1>11, SocketFacts DEF Message
    <2>2. /\ FeedInv'
          /\ \A t \in Sockets : sock'[t] = IF t = s THEN r ELSE sock[t]
      BY <1>1, <1>7, <1>9, <1>10, <1>11, <2>1, QuietStep
    <2>3. At' = At
      BY <1>7, <1>11, <2>2, AtKept DEF Live, Heard, FeedInv, PageInv
    <2> QED BY <1>1, <2>2, <2>3, Stutters
  <1>12. CASE sock[s].mine
    <2>1. /\ SockInv'
          /\ \A t \in Sockets : sock'[t] = IF t = s THEN r ELSE sock[t]
      BY <1>1, <1>9, <1>10, SetGood DEF FeedInv
    <2>2. page \in PageType /\ page.list \in Seq(Nat) /\ page.timers = 0
          /\ page.kind # "none" /\ page.kind \in {"none", "live", "map"}
      BY <1>12 DEF FeedInv, PageInv, MineInv, PageType
    <2>3. /\ Len(page.list) <= (IF page.kind = "live" THEN KeepLive ELSE KeepMap)
          /\ \A i, j \in 1 .. Len(page.list) : i < j => page.list[i] > page.list[j]
      BY DEF FeedInv, PageInv, ListInv, NewestFirst
    <2>4. \A i \in 1 .. Len(page.list) : page.list[i] \in Nat /\ page.list[i] < n
      <3> TAKE i \in 1 .. Len(page.list)
      <3>1. page.list[i] \in Nat /\ page.list[i] <= sock[s].got /\ sock[s].got \in Nat
        BY <1>2, <1>12, SocketFacts
      <3>2. sock[s].got < n BY SMTT(30), <1>4, <3>1
      <3> QED BY <3>1, <3>2
    <2>5. page' = IF page.kind = "live" THEN ShownLive(page, n) ELSE ShownOnMap(page, n)
      BY <1>4, <1>12 DEF Message
    <2>6. KeepLive \in Nat \ {0} /\ KeepMap \in Nat \ {0} BY FeedAssumption
    <2>7. PICK keep \in Nat \ {0} : keep = (IF page.kind = "live" THEN KeepLive ELSE KeepMap)
      BY <2>6
    <2>8. \/ page' = page
          \/ page' = [page EXCEPT !.list = Kept(page.list, n, keep)]
      BY <2>5, <2>7 DEF ShownLive, ShownOnMap
    <2>9. /\ page' \in PageType /\ page'.kind = page.kind /\ page'.timers = page.timers
          /\ Len(page'.list) <= keep
          /\ \A i, j \in 1 .. Len(page'.list) : i < j => page'.list[i] > page'.list[j]
          /\ \A i \in 1 .. Len(page'.list) : page'.list[i] \in Nat /\ page'.list[i] <= n
      <3>1. CASE page' = page BY <2>2, <2>3, <2>4, <2>7, <3>1
      <3>2. CASE page' = [page EXCEPT !.list = Kept(page.list, n, keep)]
        <4>1. Len(page.list) <= keep BY <2>3, <2>7
        <4>2. PICK k \in Seq(Nat) :
                /\ k = Kept(page.list, n, keep) /\ Len(k) <= keep
                /\ \A i, j \in 1 .. Len(k) : i < j => k[i] > k[j]
                /\ \A i \in 1 .. Len(k) : k[i] <= n
          BY <2>2, <2>3, <2>4, <4>1, KeptGood
        <4>3. page' = [page EXCEPT !.list = k] BY <3>2, <4>2
        <4>4. page' \in PageType /\ page'.kind = page.kind /\ page'.timers = page.timers
              /\ page'.list = k
          BY <2>2, <4>3 DEF PageType
        <4> QED BY <4>2, <4>4
      <3> QED BY <2>8, <3>1, <3>2
    <2>10. Newest' = Newest /\ n <= Newest /\ Newest \in Nat
      BY <1>1, <1>4, SocketFacts DEF Newest
    <2>11. \A t \in Sockets : sock'[t].mine => t = s
      BY <1>12, <2>1 DEF FeedInv, PageInv, MineInv
    <2>12. sock'[s].got = n BY <1>7, <2>1
    <2>13. ListInv'
      <3>1. Len(page'.list) <= (IF page'.kind = "live" THEN KeepLive ELSE KeepMap)
        BY <2>7, <2>9
      <3>2. NewestFirst' BY <2>9 DEF NewestFirst
      <3>3. \A i \in 1 .. Len(page'.list) : page'.list[i] <= Newest'
        BY <2>9, <2>10
      <3>4. \A t \in Sockets : sock'[t].mine /\ sock'[t].server = "streaming" =>
              \A i \in 1 .. Len(page'.list) : page'.list[i] <= sock'[t].got
        BY <2>9, <2>11, <2>12
      <3> QED BY <3>1, <3>2, <3>3, <3>4 DEF ListInv
    <2>14. MineInv' BY <2>2, <2>9, <2>11 DEF MineInv
    <2>15. PubInv' BY <1>1 DEF FeedInv, PubInv
    <2>16. Live(s) /\ \A t \in Sockets : Live(t) => t = s
      BY <1>1, <1>2, <1>12 DEF Live, Heard, FeedInv, PageInv, MineInv
    <2>17. Live(s)' /\ \A t \in Sockets : Live(t)' => t = s
      BY <1>1, <1>2, <1>7, <1>12, <2>1, <2>11 DEF Live, Heard
    <2>18. At = sock[s].got /\ At' = n BY <2>12, <2>16, <2>17, AtOn, AtOnNext
    <2>19. PromiseStep
      <3>1. /\ At # -1 /\ At' \in At + 1 .. Newest
            /\ \A m \in At + 1 .. At' - 1 : m + QueueSize <= Newest
        BY <1>4, <2>18, SocketFacts
      <3> QED BY <2>10, <3>1 DEF PromiseStep, Promise!PromiseNext, Promise!Deliver,
                                 Promise!Off
    <2> QED BY <2>1, <2>9, <2>13, <2>14, <2>15, <2>19 DEF FeedInv, PageInv
  <1> QED BY <1>11, <1>12

-----------------------------------------------------------------------------
(* What follows.                                                           *)

LEMMA Initially == FeedInit => FeedInv /\ Promise!PromiseInit
  <1> SUFFICES ASSUME FeedInit PROVE FeedInv /\ Promise!PromiseInit OBVIOUS
  <1>1. /\ published = <<>> /\ visits = 0 /\ faults = 0 /\ page = NoPage
        /\ sock = [s \in Sockets |-> NoConnection]
    BY DEF FeedInit
  <1>2. Newest = 0 /\ PubInv BY <1>1 DEF Newest, PubInv
  <1>3. \A s \in Sockets : sock[s] = NoConnection BY <1>1
  <1>4. Good(NoConnection, 0) /\ ~NoConnection.mine BY EmptyGood
  <1>5. SockInv
    <2>1. NoConnection \in SockType BY <1>4 DEF Good
    <2>2. sock \in [Sockets -> SockType] BY <1>1, <2>1
    <2> QED BY <1>2, <1>3, <1>4, <2>2 DEF SockInv
  <1>6. <<>> \in Seq(Nat) /\ KeepMap \in Nat BY FeedAssumption
  <1>7. NoPage \in PageType BY <1>6 DEF NoPage, PageType
  <1>8. NoPage.list = <<>> /\ NoPage.timers = 0 /\ NoPage.kind = "none" BY DEF NoPage
  <1>9. ListInv BY <1>1, <1>3, <1>4, <1>6, <1>8 DEF ListInv, NewestFirst
  <1>10. MineInv BY <1>1, <1>3, <1>4, <1>8 DEF MineInv
  <1>11. At = -1 BY <1>3, <1>4, AtOff DEF Live
  <1> QED BY <1>1, <1>2, <1>5, <1>7, <1>9, <1>10, <1>11
          DEF FeedInv, PageInv, Promise!PromiseInit, Promise!Off

LEMMA EachStep == FeedInv /\ [FeedNext]_feedVars => FeedInv' /\ PromiseStep
  <1> SUFFICES ASSUME FeedInv, [FeedNext]_feedVars PROVE FeedInv' /\ PromiseStep
    OBVIOUS
  <1>1. CASE Broadcast BY <1>1, OnBroadcast
  <1>2. ASSUME NEW s \in Sockets,
               \/ Answer(s) \/ Register(s) \/ Forward(s)
               \/ Opened(s) \/ Closed(s) \/ Message(s) \/ Drop(s)
        PROVE  FeedInv' /\ PromiseStep
    BY <1>2, OnAnswer, OnRegister, OnForward, OnOpened, OnClosed, OnMessage, OnDrop
  <1>3. ASSUME NEW kind \in {"live", "map"}, Mount(kind) PROVE FeedInv' /\ PromiseStep
    BY <1>3, OnMount
  <1>4. CASE Unmount BY <1>4, OnUnmount
  <1>5. CASE Reconnect BY <1>5, OnReconnect
  <1>6. CASE Restart BY <1>6, OnRestart
  <1>7. CASE UNCHANGED feedVars
    <2>1. /\ published' = published /\ sock' = sock /\ page' = page
          /\ visits' = visits /\ faults' = faults
      BY <1>7 DEF feedVars
    <2>2. FeedInv'
      BY <2>1 DEF FeedInv, PubInv, SockInv, PageInv, ListInv, MineInv, NewestFirst, Newest
    <2>3. At' = At BY <2>1 DEF At, Subscribed, Mine, Heard
    <2> QED BY <2>1, <2>2, <2>3, Stutters
  <1> QED BY <1>1, <1>2, <1>3, <1>4, <1>5, <1>6, <1>7 DEF FeedNext

\* The invariant holds of every state of every run.
LEMMA Always == FeedSafety => []FeedInv
  <1>1. FeedInv /\ [FeedNext]_feedVars => FeedInv' BY EachStep
  <1> QED BY <1>1, Initially, PTL DEF FeedSafety

\* Types, the sizes of the queues and of the lists, for any number of sockets
\* (traffic_stream.py, useWebSocket.ts).
THEOREM FeedTyped == FeedSafety => []FeedTypeOK
  <1>1. FeedInv => FeedTypeOK
    <2> SUFFICES ASSUME FeedInv PROVE FeedTypeOK OBVIOUS
    <2>1. published \in Seq(Addresses \cup {Unique}) /\ visits \in Nat /\ faults \in Nat
      BY DEF FeedInv, PubInv
    <2>2. sock \in [Sockets -> SockType] /\ page \in PageType
      BY DEF FeedInv, SockInv, PageInv
    <2>3. \A s \in Sockets :
            /\ Len(sock[s].queue) <= QueueSize /\ Len(sock[s].wire) <= WireSize
            /\ sock[s].mine => page.kind # "none" /\ sock[s].browser # "none"
      BY DEF FeedInv, SockInv, Good, PageInv, MineInv
    <2>4. Len(page.list) <= (IF page.kind = "live" THEN KeepLive ELSE KeepMap)
      BY DEF FeedInv, PageInv, ListInv
    <2> QED BY <2>1, <2>2, <2>3, <2>4 DEF FeedTypeOK
  <1> QED BY <1>1, Always, PTL

\* A page never holds two connections, nor one and a timer (connect and onclose
\* of useWebSocket.ts).
THEOREM Single == FeedSafety => []OneConnection
  <1>1. FeedInv => OneConnection
    <2> SUFFICES ASSUME FeedInv PROVE OneConnection OBVIOUS
    <2>1. /\ page.timers \in {0, 1}
          /\ \A s, t \in Mine : s = t
          /\ page.timers = 1 => Mine = {}
      BY DEF FeedInv, PageInv, MineInv, Mine
    <2>2. CASE Mine = {}
      <3>1. Cardinality(Mine) = 0 BY <2>2, FS_EmptySet
      <3> QED BY <2>1, <3>1 DEF OneConnection
    <2>3. CASE Mine # {}
      <3>1. PICK s \in Mine : Mine = {s} BY <2>1, <2>3
      <3>2. Cardinality(Mine) = 1 BY <3>1, FS_Singleton
      <3> QED BY <2>1, <2>3, <3>2 DEF OneConnection
    <2> QED BY <2>2, <2>3
  <1> QED BY <1>1, Always, PTL

\* The list of a page is newest first without repetition, whatever is lost and
\* reconnected (setEvents of /live, setLiveEvents of /attack-map).
THEOREM Descending == FeedSafety => []NewestFirst
  <1>1. FeedInv => NewestFirst BY DEF FeedInv, PageInv, ListInv
  <1> QED BY <1>1, Always, PTL

\* The queues, the wire and the page together keep the promise: events in order,
\* and one skipped only for QueueSize newer ones (broadcast, ws_traffic, onmessage).
THEOREM Promised == FeedSafety => KeepsPromise
  <1>1. FeedInit => Promise!PromiseInit BY Initially
  <1>2. FeedInv /\ [FeedNext]_feedVars => PromiseStep BY EachStep
  <1> QED BY <1>1, <1>2, Always, PTL
      DEF FeedSafety, KeepsPromise, Promise!PromiseSpec, PromiseStep
=============================================================================
