-------------------------- MODULE ConnectionProofs --------------------------
(***************************************************************************)
(* TLAPS proofs about Connection: for any scripts, limits and chunk sizes  *)
(* the connection loop implements HttpService, and a graceful stop leaves  *)
(* at most one keep-alive answer to come.                                  *)
(***************************************************************************)
EXTENDS Connection, SequenceTheorems, TLAPS

Units == [req : Nat, k : Nat]
Total(q) == HeadUnits(script[q]) + script[q].len

\* What the client sent and the server has not consumed.
Pending == buf \o wire

\* p is a stretch of the requests sent so far, one after the other, up to the last of them.
Stream(p) ==
    /\ \A j \in 1 .. Len(p) : p[j].req \in 1 .. nsent /\ p[j].k \in 1 .. Total(p[j].req)
    /\ \A j, m \in 1 .. Len(p) : j <= m /\ p[j].k + (m - j) <= Total(p[j].req) =>
          p[m] = Unit(p[j].req, p[j].k + (m - j))
    /\ \A j \in 1 .. Len(p) : j < Len(p) /\ p[j].k = Total(p[j].req) => p[j + 1] = Unit(p[j].req + 1, 1)
    /\ p # <<>> /\ nsent < Len(script) => p[Len(p)] = Unit(nsent, Total(nsent))

\* Unit k of request q is the first of p, or the first to come.
Starts(p, q, k) ==
    /\ p # <<>> => p[1] = Unit(q, k)
    /\ p = <<>> /\ nsent < Len(script) => q = nsent + 1 /\ k = 1

\* v is p without its first n elements.
Dropped(v, p, n) ==
    n \in 0 .. Len(p) /\ Len(v) = Len(p) - n /\ \A j \in 1 .. Len(v) : v[j] = p[j + n]

-----------------------------------------------------------------------------
(* Streams.                                                                *)
LEMMA RequestTypes ==
    ASSUME script \in Seq(Request), NEW q \in 1 .. Len(script)
    PROVE  /\ script[q] \in Request /\ HeadUnits(script[q]) \in Nat /\ HeadUnits(script[q]) >= 2
           /\ script[q].len \in Nat /\ script[q].cut \in Nat /\ script[q].lines \in Nat
           /\ Total(q) \in Nat /\ Total(q) >= 2 /\ HeadUnits(script[q]) <= Total(q)
<1>1. script[q] \in Request
  BY ElementOfSeq
<1>2. script[q].lines \in Nat \ {0} /\ script[q].len \in Nat /\ script[q].cut \in Nat
  BY <1>1 DEF Request
<1>3. PICK n \in Nat \ {0}, l \in Nat : n = script[q].lines /\ l = script[q].len
  BY <1>2
<1>4. HeadUnits(script[q]) = n + 1 /\ Total(q) = n + 1 + l
  BY <1>3 DEF HeadUnits, Total
<1>5. n + 1 \in Nat /\ n + 1 >= 2 /\ n + 1 + l \in Nat /\ n + 1 + l >= 2 /\ n + 1 <= n + 1 + l
  OBVIOUS
<1> QED BY <1>1, <1>2, <1>4, <1>5

LEMMA UnitFields == \A q, k : Unit(q, k).req = q /\ Unit(q, k).k = k
BY DEF Unit

LEMMA DropStream ==
    ASSUME NEW p \in Seq(Units), NEW v \in Seq(Units), NEW n, Dropped(v, p, n), Stream(p)
    PROVE  Stream(v)
<1>0. Len(p) \in Nat /\ Len(v) \in Nat /\ n \in Nat
  BY LenProperties DEF Dropped
<1>1. \A j \in 1 .. Len(v) : j + n \in 1 .. Len(p) /\ v[j] = p[j + n]
  BY <1>0 DEF Dropped
<1>2. \A j \in 1 .. Len(v) : v[j].req \in 1 .. nsent /\ v[j].k \in 1 .. Total(v[j].req)
  BY <1>1 DEF Stream
<1>3. ASSUME NEW j \in 1 .. Len(v), NEW m \in 1 .. Len(v), j <= m, v[j].k + (m - j) <= Total(v[j].req)
      PROVE  v[m] = Unit(v[j].req, v[j].k + (m - j))
  <2>1. (m + n) - (j + n) = m - j /\ j + n <= m + n
    BY <1>0, <1>3
  <2>2. p[j + n].k + ((m + n) - (j + n)) <= Total(p[j + n].req)
    BY <1>1, <1>3, <2>1
  <2>3. p[m + n] = Unit(p[j + n].req, p[j + n].k + ((m + n) - (j + n)))
    BY <1>1, <2>1, <2>2 DEF Stream
  <2> QED BY <1>1, <2>1, <2>3
<1>4. ASSUME NEW j \in 1 .. Len(v), j < Len(v), v[j].k = Total(v[j].req)
      PROVE  v[j + 1] = Unit(v[j].req + 1, 1)
  <2>1. j + n < Len(p) /\ j + 1 \in 1 .. Len(v) /\ (j + 1) + n = (j + n) + 1
    BY <1>0, <1>4 DEF Dropped
  <2>2. p[(j + n) + 1] = Unit(p[j + n].req + 1, 1)
    BY <1>1, <1>4, <2>1 DEF Stream
  <2> QED BY <1>1, <2>1, <2>2
<1>5. v # <<>> /\ nsent < Len(script) => v[Len(v)] = Unit(nsent, Total(nsent))
  <2> SUFFICES ASSUME v # <<>> PROVE v[Len(v)] = p[Len(p)] /\ p # <<>>
    BY DEF Stream
  <2>1. Len(v) \in 1 .. Len(v) /\ Len(v) + n = Len(p)
    BY <1>0, EmptySeq DEF Dropped
  <2> QED BY <1>0, <1>1, <2>1, EmptySeq
<1> QED BY <1>2, <1>3, <1>4, <1>5 DEF Stream

\* Inside a request, the n-th pending unit is the n-th from where the stream starts.
LEMMA RunFrom ==
    ASSUME NEW p \in Seq(Units), Stream(p), NEW q \in Nat, NEW k \in Nat, Starts(p, q, k),
           NEW m \in 1 .. Len(p), (k + m) - 1 <= Total(q)
    PROVE  p[m] = Unit(q, (k + m) - 1)
<1>1. p # <<>> /\ Len(p) \in Nat /\ 1 \in 1 .. Len(p)
  BY LenProperties, EmptySeq
<1>2. p[1].req = q /\ p[1].k = k
  BY <1>1, UnitFields DEF Starts
<1>3. k + (m - 1) = (k + m) - 1 /\ 1 <= m
  BY <1>1
<1> QED BY <1>1, <1>2, <1>3 DEF Stream

\* Consuming n units of a request moves the start by n, to the next request at its end.
LEMMA DropStarts ==
    ASSUME script \in Seq(Request), nsent \in 0 .. Len(script),
           NEW p \in Seq(Units), NEW v \in Seq(Units), NEW n, Dropped(v, p, n), Stream(p),
           NEW q \in 1 .. Len(script), NEW k \in 1 .. Total(q), Starts(p, q, k), k + n <= Total(q) + 1
    PROVE  IF k + n = Total(q) + 1 THEN Starts(v, q + 1, 1) ELSE Starts(v, q, k + n)
<1>0. Len(p) \in Nat /\ Len(v) \in Nat /\ n \in Nat /\ Total(q) \in Nat /\ Total(q) >= 2 /\ Len(script) \in Nat
  BY LenProperties, RequestTypes DEF Dropped
<1>1. CASE v # <<>>
  <2>1. v[1] = p[n + 1] /\ n + 1 \in 1 .. Len(p)
    BY <1>0, <1>1, EmptySeq DEF Dropped
  <2>2. CASE k + n = Total(q) + 1
    <3>0. PICK c \in Nat : c = Total(q) /\ k \in 1 .. c /\ k + n = c + 1
      BY <1>0, <2>2
    <3>1. n \in 1 .. Len(p) /\ (k + n) - 1 = Total(q) /\ n < Len(p)
      <4>1. n \in Nat /\ n >= 1 /\ (k + n) - 1 = c
        BY <1>0, <3>0
      <4>2. n < Len(p) /\ n \in 1 .. Len(p)
        BY <1>0, <2>1, <4>1
      <4> QED BY <3>0, <4>1, <4>2
    <3>2. p[n] = Unit(q, Total(q))
      BY <3>1, <1>0, RunFrom
    <3>3. p[n].req = q /\ p[n].k = Total(q)
      BY <3>2, UnitFields
    <3>4. p[n + 1] = Unit(p[n].req + 1, 1)
      BY <3>1, <3>3 DEF Stream
    <3>5. p[n + 1] = Unit(q + 1, 1)
      BY <3>3, <3>4
    <3> QED BY <1>1, <2>1, <2>2, <3>5 DEF Starts
  <2>3. CASE k + n # Total(q) + 1
    <3>1. (k + (n + 1)) - 1 <= Total(q) /\ (k + (n + 1)) - 1 = k + n
      BY <1>0, <2>3
    <3>2. PICK m \in 1 .. Len(p) : m = n + 1
      BY <2>1
    <3>3. q \in Nat /\ k \in Nat /\ (k + m) - 1 <= Total(q) /\ (k + m) - 1 = k + n
      BY <1>0, <3>1, <3>2
    <3>4. p[m] = Unit(q, (k + m) - 1)
      BY <3>3, RunFrom
    <3>5. p[n + 1] = Unit(q, k + n)
      BY <3>2, <3>3, <3>4
    <3> QED BY <1>1, <2>1, <2>3, <3>5 DEF Starts
  <2> QED BY <2>2, <2>3
<1>2. CASE v = <<>> /\ nsent < Len(script)
  <2>1. Len(p) = n
    BY <1>0, <1>2, EmptySeq DEF Dropped
  <2>2. CASE n = 0
    <3>1. p = <<>>
      BY <2>1, <2>2, EmptySeq
    <3> QED BY <1>0, <1>2, <2>2, <3>1 DEF Starts
  <2>3. CASE n # 0
    <3>1. p # <<>> /\ n \in 1 .. Len(p) /\ (k + n) - 1 <= Total(q)
      BY <1>0, <2>1, <2>3, EmptySeq
    <3>2. p[n] = Unit(q, (k + n) - 1)
      BY <3>1, <1>0, RunFrom
    <3>3. q = nsent /\ (k + n) - 1 = Total(q)
      BY <1>2, <2>1, <3>1, <3>2, UnitFields DEF Stream
    <3>4. k + n = Total(q) + 1
      BY <1>0, <3>3
    <3> QED BY <1>2, <3>3, <3>4 DEF Starts
  <2> QED BY <2>2, <2>3
<1>3. CASE v = <<>> /\ ~(nsent < Len(script))
  BY <1>3 DEF Starts
<1> QED BY <1>1, <1>2, <1>3

-----------------------------------------------------------------------------
(* What reading and dropping do to the pending units.                      *)
LEMMA ReadKeeps ==
    ASSUME NEW b \in Seq(Units), NEW w \in Seq(Units), NEW n \in 0 .. Len(w)
    PROVE  /\ SubSeq(w, 1, n) \in Seq(Units) /\ Len(SubSeq(w, 1, n)) = n
           /\ b \o SubSeq(w, 1, n) \in Seq(Units) /\ SubSeq(w, n + 1, Len(w)) \in Seq(Units)
           /\ (b \o SubSeq(w, 1, n)) \o SubSeq(w, n + 1, Len(w)) = b \o w
<1>0. Len(b) \in Nat /\ Len(w) \in Nat /\ n \in Nat
  BY LenProperties
<1>1. SubSeq(w, 1, n) \in Seq(Units) /\ Len(SubSeq(w, 1, n)) = n
      /\ \A i \in 1 .. n : SubSeq(w, 1, n)[i] = w[i]
  BY <1>0, SubSeqProperties
<1>2. SubSeq(w, n + 1, Len(w)) \in Seq(Units) /\ Len(SubSeq(w, n + 1, Len(w))) = Len(w) - n
      /\ \A i \in 1 .. Len(w) - n : SubSeq(w, n + 1, Len(w))[i] = w[n + i]
  BY <1>0, SubSeqProperties
<1>3. PICK x \in Seq(Units) : x = SubSeq(w, 1, n)
  BY <1>1
<1>4. PICK y \in Seq(Units) : y = SubSeq(w, n + 1, Len(w))
  BY <1>2
<1>5. /\ Len(x) = n /\ Len(y) = Len(w) - n
      /\ \A i \in 1 .. n : x[i] = w[i]
      /\ \A i \in 1 .. Len(w) - n : y[i] = w[n + i]
  BY <1>1, <1>2, <1>3, <1>4
<1>9. Len(x) = n /\ Len(y) = Len(w) - n
  BY <1>5
<1>6. b \o x \in Seq(Units) /\ (b \o x) \o y \in Seq(Units) /\ b \o w \in Seq(Units)
      /\ Len((b \o x) \o y) = Len(b \o w)
  <2>1. b \o x \in Seq(Units) /\ Len(b \o x) = Len(b) + n /\ b \o w \in Seq(Units) /\ Len(b \o w) = Len(b) + Len(w)
    BY <1>0, <1>9, ConcatProperties
  <2>2. (b \o x) \o y \in Seq(Units) /\ Len((b \o x) \o y) = (Len(b) + n) + (Len(w) - n)
    <3>1. PICK z \in Seq(Units) : z = b \o x
      BY <2>1
    <3>2. z \o y \in Seq(Units) /\ Len(z \o y) = Len(z) + Len(y)
      BY ConcatProperties
    <3> QED BY <1>9, <2>1, <3>1, <3>2
  <2> QED BY <1>0, <2>1, <2>2
<1>7. ASSUME NEW i \in 1 .. Len(b \o w) PROVE ((b \o x) \o y)[i] = (b \o w)[i]
  <2>1. PICK z \in Seq(Units) : z = b \o x
    BY <1>6
  <2>2. Len(z) = Len(b) + n /\ Len(b \o w) = Len(b) + Len(w)
        /\ \A j \in 1 .. Len(b) + n : z[j] = IF j <= Len(b) THEN b[j] ELSE x[j - Len(b)]
    BY <1>5, <2>1, ConcatProperties
  <2>3. CASE i <= Len(b) + n
    <3>1. (z \o y)[i] = z[i] /\ i \in 1 .. Len(b) + n
      BY <1>0, <2>2, <2>3, <1>5
    <3>2. z[i] = (b \o w)[i]
      BY <1>0, <1>5, <2>2, <3>1
    <3> QED BY <2>1, <3>1, <3>2
  <2>4. CASE ~(i <= Len(b) + n)
    <3>1. (z \o y)[i] = y[i - (Len(b) + n)] /\ i - (Len(b) + n) \in 1 .. Len(w) - n
      BY <1>0, <2>2, <2>4, <1>5
    <3>2. PICK h \in 1 .. Len(w) - n : h = i - (Len(b) + n)
      BY <3>1
    <3>4. y[h] = w[n + h]
      BY <1>5
    <3>5. n + h = i - Len(b)
      BY <1>0, <1>6, <3>2
    <3>3. (b \o w)[i] = w[i - Len(b)]
      BY <1>0, <2>2, <2>4
    <3> QED BY <2>1, <3>1, <3>2, <3>3, <3>4, <3>5
  <2> QED BY <2>3, <2>4
<1>8. (b \o x) \o y = b \o w
  BY <1>6, <1>7, SeqEqual
<1> QED BY <1>1, <1>3, <1>4, <1>6, <1>8

LEMMA Slice ==
    ASSUME NEW b \in Seq(Units), NEW h \in Nat, NEW l \in Nat, h + l <= Len(b)
    PROVE  /\ SubSeq(b, h + 1, h + l) \in Seq(Units) /\ Len(SubSeq(b, h + 1, h + l)) = l
           /\ \A k \in 1 .. l : SubSeq(b, h + 1, h + l)[k] = b[h + k]
<1>1. \A i \in h + 1 .. h + l : b[i] \in Units
  BY LenProperties, ElementOfSeq
<1>2. SubSeq(b, h + 1, h + l) \in Seq(Units) /\ Len(SubSeq(b, h + 1, h + l)) = l
  BY <1>1, SubSeqProperties
<1>3. \A k \in 1 .. l : SubSeq(b, h + 1, h + l)[k] = b[h + k]
  <2>1. \A k \in 1 .. ((h + l) - (h + 1)) + 1 : SubSeq(b, h + 1, h + l)[k] = b[((h + 1) + k) - 1]
    BY <1>1, SubSeqProperties
  <2> QED BY <2>1
<1> QED BY <1>2, <1>3

LEMMA DropBuffer ==
    ASSUME NEW b \in Seq(Units), NEW w \in Seq(Units), NEW n \in 0 .. Len(b)
    PROVE  /\ SubSeq(b, n + 1, Len(b)) \in Seq(Units)
           /\ Dropped(SubSeq(b, n + 1, Len(b)) \o w, b \o w, n)
<1>0. Len(b) \in Nat /\ Len(w) \in Nat /\ n \in Nat
  BY LenProperties
<1>1. SubSeq(b, n + 1, Len(b)) \in Seq(Units) /\ Len(SubSeq(b, n + 1, Len(b))) = Len(b) - n
      /\ \A i \in 1 .. Len(b) - n : SubSeq(b, n + 1, Len(b))[i] = b[n + i]
  BY <1>0, SubSeqProperties
<1>2. PICK x \in Seq(Units) : x = SubSeq(b, n + 1, Len(b))
  BY <1>1
<1>3. Len(x) = Len(b) - n /\ \A i \in 1 .. Len(b) - n : x[i] = b[n + i]
  BY <1>1, <1>2
<1>4. Len(b \o w) = Len(b) + Len(w) /\ Len(x \o w) = Len(x) + Len(w)
  BY ConcatProperties
<1>5. n \in 0 .. Len(b \o w) /\ Len(x \o w) = Len(b \o w) - n
  BY <1>0, <1>3, <1>4
<1>6. ASSUME NEW j \in 1 .. Len(x \o w) PROVE (x \o w)[j] = (b \o w)[j + n]
  <2>1. (x \o w)[j] = IF j <= Len(x) THEN x[j] ELSE w[j - Len(x)]
    BY ConcatProperties
  <2>2. j \in Nat /\ j + n \in 1 .. Len(b \o w)
    BY <1>0, <1>5
  <2>3. (b \o w)[j + n] = IF j + n <= Len(b) THEN b[j + n] ELSE w[(j + n) - Len(b)]
    BY <2>2, ConcatProperties
  <2>4. CASE j <= Len(x)
    <3>1. j + n <= Len(b) /\ j \in 1 .. Len(b) - n /\ n + j = j + n
      BY <1>0, <1>3, <2>2, <2>4
    <3>2. x[j] = b[n + j]
      BY <1>3, <3>1
    <3> QED BY <2>1, <2>3, <2>4, <3>1, <3>2
  <2>5. CASE ~(j <= Len(x))
    <3>1. ~(j + n <= Len(b)) /\ (j + n) - Len(b) = j - Len(x)
      BY <1>0, <1>3, <2>2, <2>5
    <3> QED BY <2>1, <2>3, <2>5, <3>1
  <2> QED BY <2>4, <2>5
<1>7. Dropped(x \o w, b \o w, n)
  BY <1>5, <1>6 DEF Dropped
<1> QED BY <1>2, <1>7

\* A read of n units of which the first t go to the file.
LEMMA DropRead ==
    ASSUME NEW w \in Seq(Units), NEW n \in 0 .. Len(w), NEW t \in 0 .. n
    PROVE  /\ SubSeq(w, t + 1, n) \in Seq(Units) /\ SubSeq(w, n + 1, Len(w)) \in Seq(Units)
           /\ Dropped(SubSeq(w, t + 1, n) \o SubSeq(w, n + 1, Len(w)), w, t)
           /\ t < n \/ SubSeq(w, t + 1, n) = <<>>
<1>0. Len(w) \in Nat /\ n \in Nat /\ t \in Nat
  BY LenProperties
<1>1. SubSeq(w, t + 1, n) \in Seq(Units) /\ Len(SubSeq(w, t + 1, n)) = n - t
      /\ \A i \in 1 .. n - t : SubSeq(w, t + 1, n)[i] = w[t + i]
  BY <1>0, SubSeqProperties
<1>2. SubSeq(w, n + 1, Len(w)) \in Seq(Units) /\ Len(SubSeq(w, n + 1, Len(w))) = Len(w) - n
      /\ \A i \in 1 .. Len(w) - n : SubSeq(w, n + 1, Len(w))[i] = w[n + i]
  BY <1>0, SubSeqProperties
<1>3. t < n \/ SubSeq(w, t + 1, n) = <<>>
  BY <1>0, <1>1, EmptySeq
<1>4. PICK x \in Seq(Units) : x = SubSeq(w, t + 1, n)
  BY <1>1
<1>5. PICK y \in Seq(Units) : y = SubSeq(w, n + 1, Len(w))
  BY <1>2
<1>6. /\ Len(x) = n - t /\ Len(y) = Len(w) - n
      /\ \A i \in 1 .. n - t : x[i] = w[t + i]
      /\ \A i \in 1 .. Len(w) - n : y[i] = w[n + i]
  BY <1>1, <1>2, <1>4, <1>5
<1>10. Len(x) = n - t /\ Len(y) = Len(w) - n
  BY <1>6
<1>7. Len(x \o y) = Len(w) - t /\ x \o y \in Seq(Units)
  BY <1>0, <1>10, ConcatProperties
<1>8. ASSUME NEW j \in 1 .. Len(w) - t PROVE (x \o y)[j] = w[j + t]
  <2>1. CASE j <= n - t
    BY <1>0, <1>6, <2>1
  <2>2. CASE ~(j <= n - t)
    <3>1. (x \o y)[j] = y[j - (n - t)] /\ j - (n - t) \in 1 .. Len(w) - n
      BY <1>0, <1>6, <2>2
    <3>2. PICK h \in 1 .. Len(w) - n : h = j - (n - t)
      BY <3>1
    <3>3. y[h] = w[n + h]
      BY <1>6
    <3>4. n + h = j + t
      BY <1>0, <3>2
    <3> QED BY <3>1, <3>2, <3>3, <3>4
  <2> QED BY <2>1, <2>2
<1>9. Dropped(x \o y, w, t)
  BY <1>0, <1>7, <1>8 DEF Dropped
<1> QED BY <1>3, <1>4, <1>5, <1>9

\* v is p with m units of request q after it.
Extends(v, p, q, m) ==
    /\ v \in Seq(Units) /\ Len(v) = Len(p) + m
    /\ \A i \in 1 .. Len(p) : v[i] = p[i]
    /\ \A i \in 1 .. Len(v) : ~(i <= Len(p)) => v[i] = Unit(q, i - Len(p))

LEMMA SentUnits ==
    ASSUME script \in Scripts, nsent \in 0 .. Len(script), nsent < Len(script), NEW p \in Seq(Units)
    PROVE  /\ Message(script, nsent + 1) \in Seq(Units)
           /\ \E m \in Nat : /\ m <= Total(nsent + 1)
                             /\ nsent + 1 < Len(script) => m = Total(nsent + 1)
                             /\ Extends(p \o Message(script, nsent + 1), p, nsent + 1, m)
<1>0. script \in Seq(Request) /\ Len(script) \in Nat /\ nsent \in Nat
  BY ConnAssumption, LenProperties
<1>1. PICK N \in 1 .. Len(script) : N = nsent + 1
  BY <1>0
<1>3. PICK T \in Nat : T = Total(N)
  BY <1>0, RequestTypes
<1>4. PICK C \in Nat : C = script[N].cut
  BY <1>0, RequestTypes
<1>5. C <= T /\ (C > 0 => N = Len(script))
  BY <1>3, <1>4, ConnAssumption DEF Total
<1>6. PICK M \in Nat : M = T - C /\ M <= T /\ (N < Len(script) => M = T)
  BY <1>0, <1>5
<1>7. Message(script, N) = [k \in 1 .. M |-> Unit(N, k)]
  <2>1. HeadUnits(script[N]) + (script[N].len - script[N].cut) = M
    BY <1>0, <1>3, <1>4, <1>6, RequestTypes DEF Total
  <2> QED BY <2>1 DEF Message
<1>8. PICK g : g = Message(script, N)
  OBVIOUS
<1>9. \A k \in 1 .. M : Unit(N, k) \in Units
  BY <1>0 DEF Unit, Units
<1>10. g \in [1 .. M -> Units] /\ \A h \in 1 .. M : g[h] = Unit(N, h)
  BY <1>7, <1>8, <1>9
<1>11. g \in Seq(Units) /\ Len(g) = M
  BY <1>10, SeqDef, LenProperties
<1>12. Len(p) \in Nat /\ p \o g \in Seq(Units) /\ Len(p \o g) = Len(p) + M
  BY <1>11, LenProperties, ConcatProperties
<1>13. \A i \in 1 .. Len(p) : (p \o g)[i] = p[i]
  BY <1>11, <1>12
<1>14. ASSUME NEW i \in 1 .. Len(p) + M, ~(i <= Len(p)) PROVE (p \o g)[i] = Unit(N, i - Len(p))
  <2>1. i - Len(p) \in 1 .. M
    BY <1>12, <1>14
  <2>2. (p \o g)[i] = g[i - Len(p)]
    BY <1>11, <1>12, <1>14
  <2> QED BY <1>10, <2>1, <2>2
<1>15. Extends(p \o g, p, N, M)
  BY <1>12, <1>13, <1>14 DEF Extends
<1> QED BY <1>1, <1>3, <1>6, <1>8, <1>11, <1>15

\* What the client sends next goes on where the stream stopped.
LEMMA SendStream ==
    ASSUME script \in Seq(Request), nsent \in 0 .. Len(script), nsent < Len(script),
           NEW p \in Seq(Units), Stream(p), script' = script, nsent' = nsent + 1,
           NEW N \in 1 .. Len(script), N = nsent + 1,
           NEW M \in Nat, M <= Total(N), N < Len(script) => M = Total(N),
           NEW v, Extends(v, p, N, M)
    PROVE  Stream(v)'
<1>0. Len(script) \in Nat /\ nsent \in Nat
  BY LenProperties
<1>2. PICK L \in Nat : L = Len(p)
  BY LenProperties
<1>3. PICK T \in Nat : T = Total(N) /\ T >= 2
  BY <1>0, RequestTypes
<1>6. M <= T /\ (N < Len(script) => M = T)
  BY <1>3
<1>8. Len(v) = L + M
  BY <1>2 DEF Extends
<1>9. \A i \in 1 .. L : v[i] = p[i]
  BY <1>2 DEF Extends
<1>10. ASSUME NEW i \in 1 .. L + M, ~(i <= L)
       PROVE  i - L \in 1 .. M /\ v[i] = Unit(N, i - L) /\ v[i].req = N /\ v[i].k = i - L
  <2>1. i - L \in 1 .. M
    BY <1>10
  <2>2. v[i] = Unit(N, i - L)
    BY <1>2, <1>8, <1>10 DEF Extends
  <2> QED BY <2>1, <2>2, UnitFields
<1>11. \A j \in 1 .. Len(v) : v[j].req \in 1 .. N /\ v[j].k \in 1 .. Total(v[j].req)
  <2> SUFFICES ASSUME NEW j \in 1 .. L + M PROVE v[j].req \in 1 .. N /\ v[j].k \in 1 .. Total(v[j].req)
    BY <1>8
  <2>1. CASE j <= L
    <3>1. j \in 1 .. L /\ v[j] = p[j]
      BY <1>0, <1>9, <2>1
    <3>2. p[j].req \in 1 .. nsent /\ p[j].k \in 1 .. Total(p[j].req)
      BY <3>1, <1>2 DEF Stream
    <3> QED BY <3>1, <3>2, <1>0
  <2>2. CASE ~(j <= L)
    <3>1. j - L \in 1 .. M /\ v[j].req = N /\ v[j].k = j - L
      BY <1>10, <2>2
    <3> QED BY <3>1, <1>3, <1>6, <1>0
  <2> QED BY <2>1, <2>2
<1>12. p # <<>> => L \in 1 .. L /\ p[L].req = nsent /\ p[L].k = Total(nsent)
  BY <1>0, EmptySeq, UnitFields, <1>2 DEF Stream
<1>13. ASSUME NEW j \in 1 .. Len(v), NEW m \in 1 .. Len(v), j <= m, v[j].k + (m - j) <= Total(v[j].req)
       PROVE  v[m] = Unit(v[j].req, v[j].k + (m - j))
  <2>0. j \in 1 .. L + M /\ m \in 1 .. L + M /\ j <= m
    BY <1>8, <1>13
  <2>1. CASE m <= L
    <3>0. j \in 1 .. L /\ m \in 1 .. L
      BY <2>0, <2>1
    <3>1. j \in 1 .. L /\ m \in 1 .. L /\ v[j] = p[j] /\ v[m] = p[m]
      BY <1>9, <3>0
    <3> QED BY <3>1, <1>13, <1>2 DEF Stream
  <2>2. CASE j <= L /\ ~(m <= L)
    <3>1. j \in 1 .. L /\ v[j] = p[j] /\ L \in 1 .. L /\ p # <<>> /\ j <= L
      BY <1>0, <1>6, <1>9, <2>0, <2>2, EmptySeq, <1>2
    <3>2. p[j].req \in 1 .. nsent /\ p[j].k \in 1 .. Total(p[j].req) /\ Total(p[j].req) \in Nat
      <4>1. p[j].req \in 1 .. nsent /\ p[j].k \in 1 .. Total(p[j].req)
        BY <3>1, <1>2 DEF Stream
      <4>2. p[j].req \in 1 .. Len(script)
        BY <4>1, <1>0
      <4> QED BY <4>1, <4>2, <1>0, RequestTypes
    <3>3. p[j].k + (m - j) <= Total(p[j].req)
      BY <1>13, <3>1
    <3>7. PICK a \in Nat : a = p[j].k
      BY <3>2
    <3>8. PICK t \in Nat : t = Total(p[j].req)
      BY <3>2
    <3>9. a + (m - j) <= t
      BY <3>3, <3>7, <3>8
    <3>10. a + (L - j) < a + (m - j) /\ a + (L - j) < t /\ a + (L - j) <= t
      BY <2>0, <2>2, <3>9
    <3>4. p[j].k + (L - j) <= Total(p[j].req)
      BY <3>7, <3>8, <3>10
    <3>5. p[L] = Unit(p[j].req, p[j].k + (L - j))
      BY <3>1, <3>4, <1>2 DEF Stream
    <3>6. p[j].req = nsent /\ p[j].k + (L - j) = Total(nsent)
      <4>1. p[L].req = p[j].req /\ p[L].k = p[j].k + (L - j)
        BY <3>5, UnitFields
      <4> QED BY <3>1, <4>1, <1>12
    <3> QED BY <3>6, <3>7, <3>8, <3>10
  <2>3. CASE ~(j <= L) /\ ~(m <= L)
    <3>1. v[j].req = N /\ v[j].k = j - L /\ v[m] = Unit(N, m - L)
      BY <1>10, <2>0, <2>3
    <3>2. (j - L) + (m - j) = m - L
      BY <1>0, <1>6, <2>0
    <3> QED BY <3>1, <3>2
  <2> QED BY <2>1, <2>2, <2>3, <1>0, <1>6, <2>0, <1>13
<1>14. ASSUME NEW j \in 1 .. Len(v), j < Len(v), v[j].k = Total(v[j].req)
       PROVE  v[j + 1] = Unit(v[j].req + 1, 1)
  <2>0. j \in 1 .. L + M /\ j < L + M
    BY <1>8, <1>14
  <2>1. CASE j < L
    <3>1. j \in 1 .. L /\ j + 1 \in 1 .. L /\ v[j] = p[j] /\ v[j + 1] = p[j + 1]
      BY <1>0, <1>6, <1>9, <2>0, <2>1
    <3> QED BY <3>1, <2>1, <1>14, <1>2 DEF Stream
  <2>2. CASE j = L
    <3>1. j \in 1 .. L /\ v[j] = p[L] /\ p # <<>> /\ j + 1 \in 1 .. L + M /\ ~(j + 1 <= L) /\ (j + 1) - L = 1
      BY <1>0, <1>6, <1>9, <2>0, <2>2, EmptySeq, <1>2
    <3>2. v[j + 1] = Unit(N, 1)
      BY <3>1, <1>10
    <3> QED BY <3>1, <3>2, <1>12
  <2>3. CASE j > L
    <3>1. v[j].req = N /\ v[j].k = j - L
      BY <1>10, <2>0, <2>3, <1>0, <1>6
    <3>2. j - L = T
      BY <3>1, <1>14, <1>3
    <3> QED BY <3>2, <1>0, <1>3, <1>6, <2>0
  <2> QED BY <2>1, <2>2, <2>3, <1>0, <1>6, <2>0
<1>15. v # <<>> /\ N < Len(script) => v[Len(v)] = Unit(N, Total(N))
  <2> SUFFICES ASSUME N < Len(script) PROVE v[Len(v)] = Unit(N, Total(N))
    OBVIOUS
  <2>1. M = T /\ L + M \in 1 .. L + M /\ ~(L + M <= L) /\ (L + M) - L = T
    BY <1>0, <1>3, <1>6
  <2> QED BY <2>1, <1>8, <1>10, <1>3
<1> QED BY <1>11, <1>13, <1>14, <1>15 DEF Stream, Total, HeadUnits

\* Sending leaves alone where the stream starts.
LEMMA SendStarts ==
    ASSUME script \in Seq(Request), nsent \in 0 .. Len(script), nsent < Len(script),
           NEW p \in Seq(Units), NEW q, NEW k, Starts(p, q, k), script' = script, nsent' = nsent + 1,
           NEW N \in 1 .. Len(script), N = nsent + 1,
           NEW M \in Nat, M <= Total(N), N < Len(script) => M = Total(N),
           NEW v, Extends(v, p, N, M)
    PROVE  Starts(v, q, k)'
<1>0. Len(script) \in Nat /\ nsent \in Nat /\ Len(p) \in Nat /\ Len(v) \in Nat /\ v \in Seq(Units) /\ Len(v) = Len(p) + M
  BY LenProperties DEF Extends
<1>1. Total(N) \in Nat /\ Total(N) >= 2
  BY RequestTypes
<1>2. CASE p # <<>>
  <2>1. 1 \in 1 .. Len(p) /\ v[1] = p[1] /\ Len(v) # 0
    BY <1>0, <1>2, EmptySeq DEF Extends
  <2>2. v # <<>>
    BY <1>0, <2>1, EmptySeq
  <2> QED BY <1>2, <2>1, <2>2 DEF Starts
<1>3. CASE p = <<>>
  <2>1. q = N /\ k = 1 /\ Len(p) = 0
    BY <1>3, <1>0, EmptySeq DEF Starts
  <2>2. ASSUME v # <<>> PROVE v[1] = Unit(q, k)
    <3>1. 1 \in 1 .. Len(v) /\ ~(1 <= Len(p)) /\ 1 - Len(p) = 1
      BY <1>0, <2>1, <2>2, EmptySeq
    <3>2. v[1] = Unit(N, 1 - Len(p))
      BY <3>1 DEF Extends
    <3> QED BY <2>1, <3>1, <3>2
  <2>3. ASSUME v = <<>>, N < Len(script) PROVE FALSE
    BY <1>0, <1>1, <2>3, EmptySeq
  <2> QED BY <2>2, <2>3 DEF Starts
<1> QED BY <1>2, <1>3

\* A step that sends nothing changes neither notion.
LEMMA StreamFrame ==
    ASSUME UNCHANGED <<script, nsent>>, NEW v
    PROVE  /\ Stream(v) => Stream(v)'
           /\ \A q, k : Starts(v, q, k) => Starts(v, q, k)'
<1>1. \A q : Total(q)' = Total(q)
  BY DEF Total, HeadUnits
<1>2. Stream(v) => Stream(v)'
  BY <1>1 DEF Stream
<1>3. \A q, k : Starts(v, q, k) => Starts(v, q, k)'
  BY DEF Starts
<1> QED BY <1>2, <1>3

\* A stream that starts with a request starts with one the client sent.
LEMMA StartsSent ==
    ASSUME script \in Seq(Request), nsent \in 0 .. Len(script), NEW p \in Seq(Units), Stream(p),
           NEW q, NEW k, Starts(p, q, k), p # <<>>
    PROVE  q \in 1 .. Len(script) /\ k \in 1 .. Total(q)
<1>1. 1 \in 1 .. Len(p) /\ Len(script) \in Nat /\ Len(p) \in Nat
  BY LenProperties, EmptySeq
<1>2. p[1].req = q /\ p[1].k = k
  BY UnitFields DEF Starts
<1> QED BY <1>1, <1>2 DEF Stream

\* The head parser finds the end of the head as soon as the buffer holds it, and no other.
LEMMA HeadFound ==
    ASSUME script \in Seq(Request), nsent \in 0 .. Len(script), buf \in Seq(Units), wire \in Seq(Units),
           Stream(Pending), NEW r \in 1 .. Len(script), Starts(Pending, r, 1)
    PROVE  /\ HeadUnits(script[r]) <= Len(buf) => HeadEnd = HeadUnits(script[r])
           /\ ~(HeadUnits(script[r]) <= Len(buf)) => HeadEnd = 0
           /\ buf # <<>> => buf[1] = Unit(r, 1)
<1> DEFINE I == {i \in 1 .. Len(buf) : IsBlank(buf[i])}
<1>0. PICK h \in Nat : h = HeadUnits(script[r]) /\ h >= 2 /\ h <= Total(r)
  BY RequestTypes
<1>1. Len(buf) \in Nat /\ Total(r) \in Nat /\ Pending \in Seq(Units) /\ Len(Pending) \in Nat /\ Len(buf) <= Len(Pending)
  BY LenProperties, ConcatProperties, RequestTypes DEF Pending
<1>2. \A i \in 1 .. Len(buf) : buf[i] = Pending[i]
  BY <1>1 DEF Pending
<1>3. ASSUME NEW i \in 1 .. Len(buf), i <= Total(r) PROVE buf[i] = Unit(r, i)
  <2>1. i \in 1 .. Len(Pending) /\ (1 + i) - 1 <= Total(r) /\ (1 + i) - 1 = i /\ r \in Nat
    BY <1>1, <1>3
  <2>2. Pending[i] = Unit(r, (1 + i) - 1)
    BY <1>1, <2>1, RunFrom
  <2> QED BY <1>2, <2>1, <2>2
<1>4. ASSUME NEW i \in 1 .. Len(buf), i <= Total(r) PROVE i \in I <=> i = h
  BY <1>0, <1>3, <1>4, UnitFields DEF IsBlank
<1>5. HeadEnd = IF I # {} THEN Min(I) ELSE 0
  BY DEF HeadEnd, SelectInSeq
<1> HIDE DEF I
<1>6. \A i \in I : i \in 1 .. Len(buf)
  BY DEF I
<1>7. CASE h <= Len(buf)
  <2>1. h \in I
    BY <1>0, <1>1, <1>4, <1>7
  <2>2. \A i \in I : h <= i
    BY <1>0, <1>1, <1>4, <1>6
  <2>3. Min(I) = h
    <3>1. \A x \in I : (\A y \in I : x <= y) => x = h
      BY <1>0, <1>1, <1>6, <2>1, <2>2
    <3> QED BY <2>1, <2>2, <3>1 DEF Min
  <2> QED BY <1>0, <1>3, <1>5, <1>7, <2>1, <2>3, <1>1
<1>8. CASE ~(h <= Len(buf))
  <2>1. I = {}
    BY <1>0, <1>1, <1>4, <1>6, <1>8
  <2>2. buf # <<>> => 1 \in 1 .. Len(buf) /\ 1 <= Total(r)
    BY <1>0, <1>1, EmptySeq
  <2> QED BY <1>0, <1>3, <1>5, <1>8, <2>1, <2>2
<1> QED BY <1>7, <1>8

-----------------------------------------------------------------------------
(* The inductive invariant.  The units pending are always the client's     *)
(* stream from some unit on, and where serve_connection is says which unit *)
(* that is: r is the request it owes the next answer.                      *)
Owed == Len(out) + 1

Responses == [req : Nat, body : Seq(Units), served : BOOLEAN, close : BOOLEAN, short : BOOLEAN]

Buffers ==
    /\ script \in Scripts /\ nsent \in 0 .. Len(script)
    /\ buf \in Seq(Units) /\ wire \in Seq(Units) /\ body \in Seq(Units)
    /\ out \in Seq(Responses)
    /\ Stream(Pending)

\* The request that is being read or answered is the one after the answers given.
Current(r) ==
    /\ at # "head" /\ at # "closed" => cur = r /\ r \in 1 .. Len(script)
    /\ at = "head" => r \in 1 .. Len(script) + 1 /\ Starts(Pending, r, 1)
    /\ at = "closed" => Len(out) <= Len(script)

\* A body read into memory is left in the buffer with its head.
InMemory(r) ==
    at = "body" =>
        /\ Starts(Pending, r, 1)
        /\ consumed = Total(r) /\ Len(buf) >= HeadUnits(script[r])

\* A spooled body is consumed as it comes, and the buffer is empty until it is whole.
Spooling(r) ==
    at = "spool" =>
        /\ Len(body) + need = script[r].len
        /\ \A k \in 1 .. Len(body) : body[k] = Unit(r, HeadUnits(script[r]) + k)
        /\ IF need > 0 THEN buf = <<>> /\ Starts(Pending, r, HeadUnits(script[r]) + Len(body) + 1)
                       ELSE Starts(Pending, r + 1, 1)

\* Once the body is there, what is left to drop ends where the next request starts.
Answering(r) ==
    at \in {"answer", "handle", "write"} =>
        /\ body = BodyOf(script, r)
        /\ \/ consumed = 0 /\ Starts(Pending, r + 1, 1)
           \/ consumed = Total(r) /\ consumed <= Len(buf) /\ Starts(Pending, r, 1)

\* After the signal only a request already past its decision may still be kept alive.
Late ==
    \/ lateKeep = 0
    \/ lateKeep = 1 /\ stopping /\ (at \in {"handle", "write"} => ~persist)

ConnInv == /\ ConnTypeOK /\ Buffers /\ Late
           /\ Current(Owed) /\ InMemory(Owed) /\ Spooling(Owed) /\ Answering(Owed)

-----------------------------------------------------------------------------
(* ConnInv is inductive, one lemma for each kind of step.                  *)
LEMMA InvFacts ==
    ASSUME ConnInv
    PROVE  /\ script \in Scripts /\ script \in Seq(Request) /\ Len(script) \in Nat
           /\ nsent \in Nat /\ nsent \in 0 .. Len(script)
           /\ buf \in Seq(Units) /\ wire \in Seq(Units) /\ body \in Seq(Units) /\ Pending \in Seq(Units)
           /\ Len(buf) \in Nat /\ Len(wire) \in Nat /\ Len(body) \in Nat
           /\ out \in Seq(Responses) /\ Len(out) \in Nat /\ Owed \in Nat /\ Owed >= 1
           /\ Stream(Pending)
<1>1. script \in Scripts /\ script \in Seq(Request)
  BY ConnAssumption DEF ConnInv, Buffers
<1>2. buf \in Seq(Units) /\ wire \in Seq(Units) /\ body \in Seq(Units) /\ out \in Seq(Responses) /\ Stream(Pending)
  BY DEF ConnInv, Buffers
<1>3. Len(buf) \in Nat /\ Len(wire) \in Nat /\ Len(body) \in Nat /\ Len(out) \in Nat /\ Len(script) \in Nat
  BY <1>1, <1>2, LenProperties
<1>4. Pending \in Seq(Units)
  BY <1>2, ConcatProperties DEF Pending
<1>5. nsent \in Nat /\ nsent \in 0 .. Len(script)
  BY <1>3 DEF ConnInv, Buffers
<1> QED BY <1>1, <1>2, <1>3, <1>4, <1>5 DEF Owed

LEMMA PendingKept ==
    ASSUME ConnInv, UNCHANGED <<script, nsent>>, Pending' = Pending
    PROVE  Stream(Pending)' /\ \A q, k : Starts(Pending, q, k) => Starts(Pending, q, k)'
<1>1. PICK v : v = Pending
  OBVIOUS
<1>2. Stream(v) /\ (Stream(v) => Stream(v)')
  BY <1>1, InvFacts, StreamFrame
<1>3. \A q, k : Starts(v, q, k) => Starts(v, q, k)'
  BY StreamFrame
<1>4. v = Pending'
  BY <1>1
<1>5. Stream(Pending)'
  BY <1>2, <1>4 DEF Stream
<1>6. ASSUME NEW q, NEW k, Starts(Pending, q, k) PROVE Starts(Pending, q, k)'
  <2>1. Starts(v, q, k)'
    BY <1>1, <1>3, <1>6
  <2> QED BY <1>4, <2>1 DEF Starts
<1> QED BY <1>5, <1>6

LEMMA Closing ==
    ASSUME ConnInv, Close, UNCHANGED <<script, nsent, wire, buf, served, persist, stopping, lateKeep>>,
           temp' \subseteq temp, out' \in Seq(Responses), Len(out') <= Len(script)
    PROVE  ConnInv'
<1>0. Pending' = Pending /\ Stream(Pending)'
  BY PendingKept DEF Pending
<1>1. ConnTypeOK'
  BY InvFacts DEF ConnInv, ConnTypeOK, Close
<1>2. Buffers'
  BY <1>0, InvFacts, EmptySeq DEF ConnInv, Buffers, Close
<1>3. Late'
  BY DEF ConnInv, Late, Close
<1>4. Current(Owed)' /\ InMemory(Owed)' /\ Spooling(Owed)' /\ Answering(Owed)'
  BY DEF Current, InMemory, Spooling, Answering, Close
<1> QED BY <1>1, <1>2, <1>3, <1>4 DEF ConnInv

\* The answers never outnumber the requests.
LEMMA AnswersBounded ==
    ASSUME ConnInv
    PROVE  Len(out) <= Len(script)
BY InvFacts DEF ConnInv, Current, Owed, ConnTypeOK

LEMMA ReadStep ==
    ASSUME ConnInv, ReadHead \/ ReadBody
    PROVE  ConnInv'
<1>1. PICK n \in ReadSizes : buf' = buf \o Received(n) /\ wire' = SubSeq(wire, n + 1, Len(wire))
  BY DEF ReadHead, ReadBody
<1>2. UNCHANGED <<script, nsent, at, served, cur, body, need, consumed, persist, temp, out, stopping, lateKeep>>
      /\ at \in {"head", "body"}
  BY DEF ReadHead, ReadBody
<1>3. n \in 0 .. Len(wire)
  BY ConnAssumption, InvFacts DEF ReadSizes
<1>4. buf' \in Seq(Units) /\ wire' \in Seq(Units) /\ Pending' = Pending
  BY <1>1, <1>3, ReadKeeps, InvFacts DEF Pending, Received
<1>5. Stream(Pending)' /\ \A q, k : Starts(Pending, q, k) => Starts(Pending, q, k)'
  BY <1>2, <1>4, PendingKept
<1>6. Len(buf') \in Nat /\ Len(buf') >= Len(buf)
  <2>1. PICK x \in Seq(Units) : x = Received(n)
    BY <1>3, InvFacts, ReadKeeps DEF Received
  <2>2. Len(buf') = Len(buf) + Len(x) /\ Len(x) \in Nat
    BY <1>1, <2>1, InvFacts, ConcatProperties, LenProperties
  <2> QED BY <2>2, InvFacts
<1>7. ConnTypeOK'
  BY <1>2 DEF ConnInv, ConnTypeOK
<1>8. Buffers'
  BY <1>2, <1>4, <1>5 DEF ConnInv, Buffers
<1>9. Late'
  BY <1>2 DEF ConnInv, Late
<1>10. Owed' = Owed
  BY <1>2 DEF Owed
<1>11. Current(Owed)'
  BY <1>2, <1>5, <1>10 DEF ConnInv, Current
<1>12. InMemory(Owed)'
  <2> SUFFICES ASSUME at = "body" PROVE InMemory(Owed)'
    BY <1>2 DEF InMemory
  <2>1. Starts(Pending, Owed, 1) /\ consumed = Total(Owed) /\ Len(buf) >= HeadUnits(script[Owed]) /\ Owed \in 1 .. Len(script)
    BY DEF ConnInv, InMemory, Current
  <2>2. HeadUnits(script[Owed]) \in Nat
    BY <2>1, InvFacts, RequestTypes
  <2>3. Starts(Pending, Owed, 1)'
    BY <1>5, <1>10, <2>1 DEF Starts
  <2>4. Len(buf') >= HeadUnits(script[Owed])
    BY <1>6, <2>1, <2>2, InvFacts
  <2> QED BY <1>2, <1>10, <2>1, <2>3, <2>4 DEF InMemory, Total, HeadUnits
<1>13. Spooling(Owed)' /\ Answering(Owed)'
  BY <1>2 DEF Spooling, Answering
<1> QED BY <1>7, <1>8, <1>9, <1>11, <1>12, <1>13 DEF ConnInv

\* The head in the buffer, if any, is that of the request owed.
LEMMA AtHead ==
    ASSUME ConnInv, at = "head", buf # <<>>
    PROVE  /\ Owed \in 1 .. Len(script) /\ Starts(Pending, Owed, 1)
           /\ buf[1].req = Owed /\ buf[1].k = 1
           /\ HeadUnits(script[Owed]) <= Len(buf) => HeadEnd = HeadUnits(script[Owed])
           /\ ~(HeadUnits(script[Owed]) <= Len(buf)) => HeadEnd = 0
<1>1. Starts(Pending, Owed, 1)
  BY DEF ConnInv, Current
<1>2. Pending # <<>>
  BY InvFacts, ConcatProperties, EmptySeq DEF Pending
<1>3. PICK r : r = Owed
  OBVIOUS
<1>4. r \in 1 .. Len(script)
  BY <1>1, <1>2, <1>3, InvFacts, StartsSent
<1>5. /\ HeadUnits(script[r]) <= Len(buf) => HeadEnd = HeadUnits(script[r])
      /\ ~(HeadUnits(script[r]) <= Len(buf)) => HeadEnd = 0
      /\ buf[1] = Unit(r, 1)
  BY <1>1, <1>3, <1>4, InvFacts, HeadFound
<1> QED BY <1>1, <1>3, <1>4, <1>5, UnitFields

LEMMA NothingBuffered ==
    ASSUME buf = <<>>
    PROVE  ~Malformed /\ ~Complete
<1>1. HeadEnd = 0 /\ Len(buf) = 0
  BY EmptySeq DEF HeadEnd, SelectInSeq
<1> QED BY <1>1, ConnAssumption DEF Malformed, Complete, Incomplete

LEMMA CompleteHead ==
    ASSUME ConnInv, at = "head", Complete
    PROVE  /\ Owed \in 1 .. Len(script) /\ Starts(Pending, Owed, 1) /\ buf[1].req = Owed
           /\ HeadEnd = HeadUnits(script[Owed]) /\ HeadUnits(script[Owed]) <= Len(buf)
           /\ ContentLength = script[Owed].len
<1>1. buf # <<>>
  BY NothingBuffered
<1>2. HeadEnd # 0
  BY InvFacts, ConnAssumption DEF Complete, Incomplete, Malformed
<1> QED BY <1>1, <1>2, AtHead DEF ContentLength

LEMMA RefuseOnly ==
    ASSUME ConnInv, Refuse
    PROVE  Owed \in 1 .. Len(script) /\ buf[1].req = Owed /\ Refusable(script[Owed])
<1>1. at = "head" /\ (Malformed \/ (Complete /\ ContentLength > MaxUploadSize)) /\ buf # <<>>
  BY NothingBuffered DEF Refuse
<1>2. PICK r \in 1 .. Len(script) : r = Owed
  BY <1>1, AtHead
<1>3. HeadUnits(script[r]) \in Nat /\ HeadUnits(script[r]) >= 2
  BY InvFacts, RequestTypes
<1>4. CASE Malformed
  <2>1. CASE HeadUnits(script[r]) <= Len(buf)
    <3>1. HeadEnd = HeadUnits(script[r]) /\ buf[1].k = 1 /\ buf[1].req = r
      BY <1>1, <1>2, <2>1, AtHead
    <3> QED BY <1>1, <1>2, <1>3, <1>4, <3>1, AtHead DEF Malformed, Refusable
  <2>2. CASE ~(HeadUnits(script[r]) <= Len(buf))
    <3>1. HeadEnd = 0
      BY <1>1, <1>2, <2>2, AtHead
    <3>2. Len(buf) > MaxHeadUnits
      BY <1>4, <3>1, ConnAssumption DEF Malformed
    <3> QED BY <1>1, <1>2, <1>3, <2>2, <3>2, AtHead, InvFacts, ConnAssumption DEF Refusable
  <2> QED BY <2>1, <2>2
<1>5. CASE Complete /\ ContentLength > MaxUploadSize
  BY <1>1, <1>2, <1>5, CompleteHead DEF Refusable
<1> QED BY <1>1, <1>4, <1>5

LEMMA AppendAnswer ==
    ASSUME ConnInv, Owed \in 1 .. Len(script), NEW b \in Seq(Units), NEW ok \in BOOLEAN, NEW last \in BOOLEAN,
           NEW s \in BOOLEAN, out' = Append(out, Response(Owed, b, ok, last, s))
    PROVE  out' \in Seq(Responses) /\ Len(out') = Owed /\ Len(out') <= Len(script)
<1>1. Response(Owed, b, ok, last, s) \in Responses
  BY InvFacts DEF Response, Responses
<1>2. out' \in Seq(Responses) /\ Len(out') = Len(out) + 1
  BY <1>1, InvFacts, AppendProperties
<1> QED BY <1>2, InvFacts DEF Owed

LEMMA CloseStep ==
    ASSUME ConnInv, HangUp \/ SignalClose \/ Refuse \/ SpoolFails \/ WriteFails
    PROVE  ConnInv'
<1>1. CASE HangUp \/ SignalClose \/ SpoolFails \/ WriteFails
  <2>1. Close /\ UNCHANGED <<script, nsent, wire, buf, served, persist, out, stopping, lateKeep>> /\ temp' \subseteq temp
    BY <1>1 DEF HangUp, SignalClose, SpoolFails, WriteFails
  <2>2. out' \in Seq(Responses) /\ Len(out') <= Len(script)
    BY <2>1, InvFacts, AnswersBounded
  <2> QED BY <2>1, <2>2, Closing
<1>2. CASE Refuse
  <2>1. Close /\ UNCHANGED <<script, nsent, wire, buf, served, persist, stopping, lateKeep>> /\ temp' \subseteq temp
    BY <1>2 DEF Refuse
  <2>2. out' = Append(out, Response(Owed, <<>>, FALSE, TRUE, FALSE)) /\ Owed \in 1 .. Len(script)
    BY <1>2, RefuseOnly DEF Refuse
  <2>3. <<>> \in Seq(Units)
    BY EmptySeq
  <2>4. out' \in Seq(Responses) /\ Len(out') <= Len(script)
    BY <2>2, <2>3, AppendAnswer
  <2> QED BY <2>1, <2>4, Closing
<1> QED BY <1>1, <1>2

LEMMA BufferStep ==
    ASSUME ConnInv, BufferBody
    PROVE  ConnInv'
<1>1. /\ at = "head" /\ Complete /\ at' = "body" /\ cur' = Owed /\ consumed' = Total(Owed)
      /\ Owed \in 1 .. Len(script) /\ Starts(Pending, Owed, 1) /\ HeadUnits(script[Owed]) <= Len(buf)
  BY CompleteHead DEF BufferBody, Total
<1>2. UNCHANGED <<script, nsent, wire, buf, served, body, need, persist, temp, out, stopping, lateKeep>>
  BY DEF BufferBody
<1>3. Pending' = Pending /\ Owed' = Owed
  BY <1>2 DEF Pending, Owed
<1>4. Stream(Pending)' /\ Starts(Pending, Owed, 1)'
  BY <1>1, <1>2, <1>3, PendingKept DEF Starts
<1>5. Total(Owed) \in Nat
  BY <1>1, InvFacts, RequestTypes
<1>6. ConnTypeOK'
  BY <1>1, <1>2, <1>5, InvFacts DEF ConnInv, ConnTypeOK
<1>7. Buffers'
  BY <1>2, <1>4 DEF ConnInv, Buffers
<1>8. Late' /\ Current(Owed)' /\ Spooling(Owed)' /\ Answering(Owed)'
  BY <1>1, <1>2, <1>3 DEF ConnInv, Late, Current, Spooling, Answering
<1>9. InMemory(Owed)'
  BY <1>1, <1>2, <1>3, <1>4, InvFacts, <1>5 DEF InMemory, Total, HeadUnits
<1> QED BY <1>6, <1>7, <1>8, <1>9 DEF ConnInv

\* A body is known by its length and its units.
LEMMA BodyIs ==
    ASSUME script \in Seq(Request), NEW r \in 1 .. Len(script), NEW b \in Seq(Units), Len(b) = script[r].len,
           \A k \in 1 .. Len(b) : b[k] = Unit(r, HeadUnits(script[r]) + k)
    PROVE  b = BodyOf(script, r)
<1>1. b = [k \in 1 .. Len(b) |-> b[k]]
  BY LenProperties
<1> QED BY <1>1 DEF BodyOf

LEMMA BufferedStep ==
    ASSUME ConnInv, BodyBuffered
    PROVE  ConnInv'
<1>1. /\ at = "body" /\ at' = "answer" /\ cur = Owed /\ Owed \in 1 .. Len(script) /\ Starts(Pending, Owed, 1)
      /\ consumed = Total(Owed) /\ Len(buf) >= HeadUnits(script[Owed])
      /\ body' = SubSeq(buf, HeadEnd + 1, consumed) /\ ~BodyMissing
  BY DEF BodyBuffered, ConnInv, Current, InMemory
<1>2. UNCHANGED <<script, nsent, wire, buf, served, cur, need, consumed, persist, temp, out, stopping, lateKeep>>
  BY DEF BodyBuffered
<1>3. Pending' = Pending /\ Owed' = Owed
  BY <1>2 DEF Pending, Owed
<1>4. Stream(Pending)' /\ Starts(Pending, Owed, 1)'
  BY <1>1, <1>2, <1>3, PendingKept DEF Starts
<1>5. PICK r \in 1 .. Len(script) : r = Owed
  BY <1>1
<1>6. PICK h \in Nat : h = HeadUnits(script[r]) /\ h >= 2
  BY InvFacts, RequestTypes
<1>7. PICK l \in Nat : l = script[r].len
  BY InvFacts, RequestTypes
<1>8. Total(r) = h + l /\ consumed = h + l
  BY <1>1, <1>5, <1>6, <1>7 DEF Total
<1>9. h + l <= Len(buf)
  BY <1>1, <1>8, InvFacts DEF BodyMissing
<1>10. HeadEnd = h
  BY <1>1, <1>5, <1>6, InvFacts, HeadFound
<1>11. ASSUME NEW k \in 1 .. l PROVE buf[h + k] = Unit(r, h + k)
  <2>1. PICK m \in 1 .. Len(Pending) : m = h + k
    BY <1>9, InvFacts, ConcatProperties DEF Pending
  <2>2. (1 + m) - 1 <= Total(r) /\ (1 + m) - 1 = m
    BY <1>8, <2>1
  <2>3. Pending[m] = Unit(r, m)
    BY <1>1, <1>5, <2>2, InvFacts, RunFrom
  <2>4. m \in 1 .. Len(buf) /\ Pending[m] = buf[m]
    BY <1>9, <2>1, InvFacts, ConcatProperties DEF Pending
  <2> QED BY <2>1, <2>3, <2>4
<1>12. PICK b \in Seq(Units) : b = SubSeq(buf, h + 1, h + l) /\ Len(b) = l /\ \A k \in 1 .. l : b[k] = buf[h + k]
  <2>1. buf \in Seq(Units)
    BY InvFacts
  <2> QED BY <1>9, <2>1, Slice
<1>13. b = BodyOf(script, r)
  <2>1. Len(b) = script[r].len /\ \A k \in 1 .. Len(b) : b[k] = Unit(r, HeadUnits(script[r]) + k)
    BY <1>6, <1>7, <1>11, <1>12
  <2> QED BY <2>1, InvFacts, BodyIs
<1>14. body' = BodyOf(script, r) /\ body' \in Seq(Units)
  BY <1>1, <1>8, <1>10, <1>12, <1>13
<1>15. ConnTypeOK'
  BY <1>1, <1>2, <1>5, InvFacts DEF ConnInv, ConnTypeOK
<1>16. Buffers'
  BY <1>2, <1>4, <1>14 DEF ConnInv, Buffers
<1>17. Late' /\ Current(Owed)' /\ Spooling(Owed)' /\ InMemory(Owed)'
  BY <1>1, <1>2, <1>3 DEF ConnInv, Late, Current, Spooling, InMemory
<1>18. Answering(Owed)'
  <2>1. consumed' = Total(Owed)' /\ consumed' <= Len(buf')
    BY <1>1, <1>2, <1>3, <1>8, <1>9 DEF Total, HeadUnits
  <2>2. body' = BodyOf(script, Owed)'
    BY <1>2, <1>3, <1>5, <1>14 DEF BodyOf, HeadUnits
  <2> QED BY <1>4, <2>1, <2>2 DEF Answering
<1> QED BY <1>15, <1>16, <1>17, <1>18 DEF ConnInv

LEMMA SpoolStartStep ==
    ASSUME ConnInv, SpoolStart
    PROVE  ConnInv'
<1>1. at = "head" /\ Complete /\ at' = "spool"
  BY DEF SpoolStart
<1>2. UNCHANGED <<script, nsent, wire, served, consumed, persist, out, stopping, lateKeep>> /\ Owed' = Owed
  BY DEF SpoolStart, Owed
<1>3. PICK r \in 1 .. Len(script) : r = Owed
  BY <1>1, CompleteHead
<1>4. PICK h \in Nat : h = HeadUnits(script[r]) /\ h >= 2
  BY InvFacts, RequestTypes
<1>5. PICK l \in Nat : l = script[r].len
  BY InvFacts, RequestTypes
<1>6. HeadEnd = h /\ h <= Len(buf) /\ ContentLength = l /\ buf[1].req = r /\ Starts(Pending, r, 1) /\ Total(r) = h + l
  BY <1>1, <1>3, <1>4, <1>5, CompleteHead DEF Total
<1>7. PICK f \in Nat : f = (IF l < Len(buf) - h THEN l ELSE Len(buf) - h) /\ h + f <= Len(buf) /\ f <= l
  BY <1>6, InvFacts
<1>8. /\ cur' = r /\ body' = SubSeq(buf, h + 1, h + f) /\ need' = l - f /\ temp' = temp \union {r}
      /\ buf' = SubSeq(buf, (h + f) + 1, Len(buf))
  BY <1>6, <1>7 DEF SpoolStart
<1>9. body' \in Seq(Units) /\ Len(body') = f /\ \A k \in 1 .. f : body'[k] = buf[h + k]
  <2>1. buf \in Seq(Units) /\ h + f <= Len(buf)
    BY <1>7, InvFacts
  <2>2. SubSeq(buf, h + 1, h + f) \in Seq(Units) /\ Len(SubSeq(buf, h + 1, h + f)) = f
        /\ \A k \in 1 .. f : SubSeq(buf, h + 1, h + f)[k] = buf[h + k]
    BY <2>1, Slice
  <2> QED BY <1>8, <2>2
<1>10. PICK n \in 0 .. Len(buf) : n = h + f
  BY <1>7, InvFacts
<1>11. buf' \in Seq(Units) /\ Dropped(buf' \o wire, Pending, n)
  BY <1>8, <1>10, InvFacts, DropBuffer DEF Pending
<1>12. PICK v \in Seq(Units) : v = buf' \o wire
  BY <1>11, InvFacts, ConcatProperties
<1>13. v = Pending'
  BY <1>2, <1>12 DEF Pending
<1>14. Stream(v)
  BY <1>11, <1>12, InvFacts, DropStream
<1>15. IF 1 + n = Total(r) + 1 THEN Starts(v, r + 1, 1) ELSE Starts(v, r, 1 + n)
  <2>1. Total(r) = h + l /\ n = h + f /\ f <= l /\ h >= 2
    BY <1>4, <1>6, <1>7, <1>10
  <2>2. 1 \in 1 .. Total(r) /\ 1 + n <= Total(r) + 1
    BY <2>1
  <2>3. script \in Seq(Request) /\ nsent \in 0 .. Len(script) /\ Pending \in Seq(Units) /\ Stream(Pending)
    BY InvFacts
  <2>4. Dropped(v, Pending, n) /\ Starts(Pending, r, 1)
    BY <1>6, <1>11, <1>12
  <2> QED BY <2>2, <2>3, <2>4, DropStarts
<1>16. Stream(Pending)'
  <2>1. Stream(v)'
    BY <1>2, <1>14, StreamFrame
  <2> QED BY <1>13, <2>1 DEF Stream
<1>17. ASSUME NEW k \in 1 .. f PROVE body'[k] = Unit(r, h + k)
  <2>1. PICK m \in 1 .. Len(Pending) : m = h + k
    BY <1>7, InvFacts, ConcatProperties DEF Pending
  <2>2. (1 + m) - 1 <= Total(r) /\ (1 + m) - 1 = m /\ Starts(Pending, r, 1)
    BY <1>6, <1>7, <2>1
  <2>5. Pending \in Seq(Units) /\ Stream(Pending)
    BY InvFacts
  <2>3. Pending[m] = Unit(r, m)
    BY <2>2, <2>5, RunFrom
  <2>4. m \in 1 .. Len(buf) /\ Pending[m] = buf[m]
    BY <1>7, <2>1, InvFacts, ConcatProperties DEF Pending
  <2> QED BY <1>9, <2>1, <2>3, <2>4
<1>18. ConnTypeOK'
  BY <1>1, <1>2, <1>7, <1>8, InvFacts DEF ConnInv, ConnTypeOK
<1>19. Buffers'
  BY <1>2, <1>9, <1>11, <1>16 DEF ConnInv, Buffers
<1>20. Late' /\ Current(Owed)' /\ InMemory(Owed)' /\ Answering(Owed)'
  BY <1>1, <1>2, <1>3, <1>8 DEF ConnInv, Late, Current, InMemory, Answering
<1>21. Spooling(r)'
  <2>1. Len(body') + need' = script'[r].len
    BY <1>2, <1>5, <1>7, <1>8, <1>9
  <2>2. \A k \in 1 .. Len(body') : body'[k] = Unit(r, HeadUnits(script'[r]) + k)
    BY <1>2, <1>4, <1>9, <1>17
  <2>3. CASE need' > 0
    <3>1. f < l /\ f = Len(buf) - h /\ n = Len(buf)
      BY <1>7, <1>8, <1>10, <2>3, InvFacts
    <3>2. buf' = <<>>
      BY <1>8, <1>10, <3>1, InvFacts, SubSeqEmpty
    <3>7. 1 + n # Total(r) + 1
      BY <1>6, <1>10, <3>1
    <3>3. Starts(v, r, 1 + n)
      BY <1>15, <3>7
    <3>4. 1 + n = (HeadUnits(script'[r]) + Len(body')) + 1
      BY <1>2, <1>4, <1>9, <1>10
    <3>5. Starts(v, r, 1 + n)'
      BY <1>2, <3>3, StreamFrame
    <3>6. Starts(Pending, r, (HeadUnits(script[r]) + Len(body)) + 1)'
      BY <1>13, <3>4, <3>5 DEF Starts, HeadUnits
    <3> QED BY <2>1, <2>2, <2>3, <3>2, <3>6 DEF Spooling, HeadUnits
  <2>4. CASE ~(need' > 0)
    <3>1. f = l
      BY <1>7, <1>8, <2>4
    <3>2. Starts(v, r + 1, 1)
      BY <1>6, <1>10, <1>15, <3>1
    <3>3. Starts(Pending, r + 1, 1)'
      BY <1>2, <1>13, <3>2, StreamFrame DEF Starts
    <3> QED BY <2>1, <2>2, <2>4, <3>3 DEF Spooling, HeadUnits
  <2> QED BY <2>3, <2>4
<1>22. Spooling(Owed)'
  BY <1>2, <1>3, <1>21
<1> QED BY <1>18, <1>19, <1>20, <1>22 DEF ConnInv

LEMMA SpoolReadStep ==
    ASSUME ConnInv, SpoolRead
    PROVE  ConnInv'
<1>1. at = "spool" /\ need > 0 /\ need \in Nat /\ buf = <<>>
  BY DEF SpoolRead, ConnInv, ConnTypeOK, Spooling
<1>2. UNCHANGED <<script, nsent, at, served, cur, consumed, persist, temp, out, stopping, lateKeep>> /\ Owed' = Owed
  BY DEF SpoolRead, Owed
<1>3. PICK r \in 1 .. Len(script) : r = Owed /\ cur = r
  BY <1>1 DEF ConnInv, Current
<1>4. PICK h \in Nat : h = HeadUnits(script[r]) /\ h >= 2
  BY InvFacts, RequestTypes
<1>5. PICK l \in Nat : l = script[r].len /\ Total(r) = h + l
  BY <1>4, InvFacts, RequestTypes DEF Total
<1>6. PICK b \in Nat : b = Len(body)
  BY InvFacts
<1>7. b + need = l /\ Starts(Pending, r, (h + b) + 1) /\ \A k \in 1 .. b : body[k] = Unit(r, h + k)
  BY <1>1, <1>3, <1>4, <1>5, <1>6 DEF ConnInv, Spooling
<1>8. PICK n \in ReadSizes :
         LET take == IF need < n THEN need ELSE n IN
         /\ body' = body \o SubSeq(wire, 1, take) /\ need' = need - take
         /\ buf' = buf \o SubSeq(wire, take + 1, n) /\ wire' = SubSeq(wire, n + 1, Len(wire))
  BY DEF SpoolRead
<1>9. n \in 0 .. Len(wire) /\ n \in Nat
  BY ConnAssumption, InvFacts DEF ReadSizes
<1>10. PICK t \in 0 .. n : t = IF need < n THEN need ELSE n
  BY <1>1, <1>9
<1>11. t \in 0 .. Len(wire) /\ t \in Nat /\ t <= need /\ (t = need \/ t = n)
  BY <1>1, <1>9, <1>10, InvFacts
<1>12. /\ body' = body \o SubSeq(wire, 1, t) /\ need' = need - t
       /\ buf' = buf \o SubSeq(wire, t + 1, n) /\ wire' = SubSeq(wire, n + 1, Len(wire))
  BY <1>8, <1>10
<1>13. wire \in Seq(Units) /\ body \in Seq(Units)
  BY InvFacts
<1>14. /\ SubSeq(wire, t + 1, n) \in Seq(Units) /\ SubSeq(wire, n + 1, Len(wire)) \in Seq(Units)
       /\ Dropped(SubSeq(wire, t + 1, n) \o SubSeq(wire, n + 1, Len(wire)), wire, t)
       /\ t < n \/ SubSeq(wire, t + 1, n) = <<>>
  BY <1>9, <1>13, DropRead
<1>15. buf' = SubSeq(wire, t + 1, n) /\ Pending = wire
  BY <1>1, <1>12, <1>13, <1>14, ConcatEmptySeq DEF Pending
<1>16. PICK v \in Seq(Units) : v = buf' \o wire'
  BY <1>12, <1>14, <1>15, ConcatProperties
<1>17. v = Pending' /\ Dropped(v, Pending, t)
  BY <1>12, <1>14, <1>15, <1>16 DEF Pending
<1>18. Stream(v)
  BY <1>17, InvFacts, DropStream
<1>19. IF ((h + b) + 1) + t = Total(r) + 1 THEN Starts(v, r + 1, 1) ELSE Starts(v, r, ((h + b) + 1) + t)
  <2>1. PICK k \in 1 .. Total(r) : k = (h + b) + 1 /\ k + t <= Total(r) + 1
    BY <1>1, <1>5, <1>7, <1>11
  <2>2. script \in Seq(Request) /\ nsent \in 0 .. Len(script) /\ Pending \in Seq(Units) /\ Stream(Pending)
    BY InvFacts
  <2>3. Starts(Pending, r, k)
    BY <1>7, <2>1
  <2>4. IF k + t = Total(r) + 1 THEN Starts(v, r + 1, 1) ELSE Starts(v, r, k + t)
    <3>1. Dropped(v, Pending, t) /\ k + t <= Total(r) + 1
      BY <1>17, <2>1
    <3> QED BY <2>2, <2>3, <3>1, DropStarts
  <2> QED BY <2>1, <2>4
<1>20. Stream(Pending)'
  <2>1. Stream(v)'
    BY <1>2, <1>18, StreamFrame
  <2> QED BY <1>17, <2>1 DEF Stream
<1>21. SubSeq(wire, 1, t) \in Seq(Units) /\ Len(SubSeq(wire, 1, t)) = t /\ \A k \in 1 .. t : SubSeq(wire, 1, t)[k] = wire[k]
  <2>1. 0 + t <= Len(wire)
    BY <1>11, InvFacts
  <2>2. SubSeq(wire, 0 + 1, 0 + t) \in Seq(Units) /\ Len(SubSeq(wire, 0 + 1, 0 + t)) = t
        /\ \A k \in 1 .. t : SubSeq(wire, 0 + 1, 0 + t)[k] = wire[0 + k]
    BY <1>11, <1>13, <2>1, Slice
  <2> QED BY <1>11, <2>2
<1>22. body' \in Seq(Units) /\ Len(body') = b + t
  BY <1>6, <1>12, <1>13, <1>21, ConcatProperties
<1>23. ASSUME NEW k \in 1 .. b + t PROVE body'[k] = Unit(r, h + k)
  <2>1. CASE k <= b
    <3>1. body'[k] = body[k]
      BY <1>6, <1>12, <1>13, <1>21, <2>1, ConcatProperties
    <3> QED BY <1>7, <2>1, <3>1
  <2>2. CASE ~(k <= b)
    <3>1. PICK m \in 1 .. Len(wire) : m = k - b /\ m <= t
      BY <1>11, <1>23, <2>2, InvFacts
    <3>2. PICK g \in Seq(Units) : g = SubSeq(wire, 1, t) /\ Len(g) = t /\ \A i \in 1 .. t : g[i] = wire[i]
      BY <1>21
    <3>3. body'[k] = g[m]
      BY <1>6, <1>12, <1>13, <2>2, <3>1, <3>2, ConcatProperties
    <3>4. m \in 1 .. t
      BY <1>11, <3>1
    <3>5. g[m] = wire[m]
      BY <3>2, <3>4
    <3>6. PICK q \in Nat : q = (h + b) + 1
      OBVIOUS
    <3>7. (q + m) - 1 <= Total(r) /\ (q + m) - 1 = h + k
      <4>1. PICK d \in Nat : d = need
        BY <1>1
      <4>2. b + d = l /\ t \in Nat /\ t <= d
        BY <1>7, <1>11, <4>1
      <4>3. m \in Nat /\ k \in Nat /\ m = k - b /\ m <= t
        BY <1>11, <3>1
      <4>4. (q + m) - 1 <= h + l /\ (q + m) - 1 = h + k
        BY <3>6, <4>2, <4>3
      <4> QED BY <1>5, <4>4
    <3>8. Starts(wire, r, q) /\ Stream(wire)
      BY <1>7, <1>15, <3>6, InvFacts
    <3>9. wire[m] = Unit(r, (q + m) - 1)
      BY <1>13, <3>7, <3>8, RunFrom
    <3> QED BY <3>3, <3>5, <3>7, <3>9
  <2> QED BY <2>1, <2>2
<1>24. ConnTypeOK'
  BY <1>1, <1>2, <1>11, <1>12 DEF ConnInv, ConnTypeOK
<1>25. Buffers'
  BY <1>2, <1>12, <1>14, <1>15, <1>20, <1>22 DEF ConnInv, Buffers
<1>26. Late' /\ Current(Owed)' /\ InMemory(Owed)' /\ Answering(Owed)'
  BY <1>1, <1>2, <1>3 DEF ConnInv, Late, Current, InMemory, Answering
<1>27. Spooling(r)'
  <2>1. Len(body') + need' = script'[r].len
    <3>1. b + need = l /\ need' = need - t /\ Len(body') = b + t /\ script'[r].len = l
      BY <1>2, <1>5, <1>7, <1>12, <1>22
    <3> QED BY <1>1, <1>11, <3>1
  <2>2. \A k \in 1 .. Len(body') : body'[k] = Unit(r, HeadUnits(script'[r]) + k)
    BY <1>2, <1>4, <1>22, <1>23
  <2>3. CASE need' > 0
    <3>1. t < need /\ t = n
      BY <1>1, <1>11, <1>12, <2>3
    <3>2. buf' = <<>>
      BY <1>9, <1>14, <1>15, <3>1
    <3>3. ((h + b) + 1) + t # Total(r) + 1
      BY <1>1, <1>5, <1>7, <1>11, <3>1
    <3>4. Starts(v, r, ((h + b) + 1) + t)'
      BY <1>2, <1>19, <3>3, StreamFrame
    <3>5. ((h + b) + 1) + t = (HeadUnits(script'[r]) + Len(body')) + 1
      BY <1>2, <1>4, <1>11, <1>22
    <3>6. Starts(Pending, r, (HeadUnits(script[r]) + Len(body)) + 1)'
      BY <1>17, <3>4, <3>5 DEF Starts, HeadUnits
    <3> QED BY <2>1, <2>2, <2>3, <3>2, <3>6 DEF Spooling, HeadUnits
  <2>4. CASE ~(need' > 0)
    <3>1. t = need
      BY <1>1, <1>11, <1>12, <2>4
    <3>2. ((h + b) + 1) + t = Total(r) + 1
      BY <1>1, <1>5, <1>7, <3>1
    <3>3. Starts(Pending, r + 1, 1)'
      BY <1>2, <1>17, <1>19, <3>2, StreamFrame DEF Starts
    <3> QED BY <2>1, <2>2, <2>4, <3>3 DEF Spooling, HeadUnits
  <2> QED BY <2>3, <2>4
<1>28. Spooling(Owed)'
  BY <1>2, <1>3, <1>27
<1> QED BY <1>24, <1>25, <1>26, <1>28 DEF ConnInv

LEMMA SpooledStep ==
    ASSUME ConnInv, Spooled
    PROVE  ConnInv'
<1>1. at = "spool" /\ need = 0 /\ at' = "answer" /\ consumed' = 0
  BY DEF Spooled
<1>2. UNCHANGED <<script, nsent, wire, buf, served, cur, body, need, persist, temp, out, stopping, lateKeep>>
  BY DEF Spooled
<1>3. Pending' = Pending /\ Owed' = Owed
  BY <1>2 DEF Pending, Owed
<1>4. PICK r \in 1 .. Len(script) : r = Owed /\ cur = r
  BY <1>1 DEF ConnInv, Current
<1>5. /\ Len(body) + need = script[r].len /\ Starts(Pending, r + 1, 1)
      /\ \A k \in 1 .. Len(body) : body[k] = Unit(r, HeadUnits(script[r]) + k)
  BY <1>1, <1>4 DEF ConnInv, Spooling
<1>6. body = BodyOf(script, r)
  <2>1. Len(body) = script[r].len
    BY <1>1, <1>5, InvFacts
  <2> QED BY <1>5, <2>1, InvFacts, BodyIs
<1>7. Stream(Pending)' /\ Starts(Pending, r + 1, 1)'
  BY <1>2, <1>3, <1>5, PendingKept
<1>8. ConnTypeOK'
  BY <1>1, <1>2, <1>4, InvFacts DEF ConnInv, ConnTypeOK
<1>9. Buffers'
  BY <1>2, <1>7 DEF ConnInv, Buffers
<1>10. Late' /\ Current(Owed)' /\ Spooling(Owed)' /\ InMemory(Owed)'
  BY <1>1, <1>2, <1>3, <1>4 DEF ConnInv, Late, Current, Spooling, InMemory
<1>11. Answering(r)'
  BY <1>1, <1>2, <1>6, <1>7 DEF Answering, BodyOf, HeadUnits
<1>12. Answering(Owed)'
  BY <1>3, <1>4, <1>11
<1> QED BY <1>8, <1>9, <1>10, <1>12 DEF ConnInv

LEMMA DecideStep ==
    ASSUME ConnInv, Decide \/ Handle
    PROVE  ConnInv'
<1>11. persist' \in BOOLEAN
  BY DEF Decide, Handle, ConnInv, ConnTypeOK
<1>12. served' \in Nat
  BY DEF Decide, Handle, ConnInv, ConnTypeOK
<1>1. /\ at \in {"answer", "handle"} /\ at' \in {"handle", "write"}
      /\ UNCHANGED <<script, nsent, wire, buf, cur, body, need, consumed, out, stopping, lateKeep>>
      /\ temp' \subseteq temp /\ served' \in Nat /\ persist' \in BOOLEAN
  BY <1>11, <1>12 DEF Decide, Handle
<1>2. Pending' = Pending /\ Owed' = Owed
  BY <1>1 DEF Pending, Owed
<1>3. PICK r \in 1 .. Len(script) : r = Owed /\ cur = r
  BY <1>1 DEF ConnInv, Current
<1>4. Stream(Pending)' /\ \A q, k : Starts(Pending, q, k) => Starts(Pending, q, k)'
  BY <1>1, <1>2, PendingKept
<1>5. ConnTypeOK'
  BY <1>1, InvFacts DEF ConnInv, ConnTypeOK
<1>6. Buffers'
  BY <1>1, <1>4 DEF ConnInv, Buffers
<1>7. Late'
  BY DEF ConnInv, Late, Decide, Handle
<1>8. Current(Owed)' /\ Spooling(Owed)' /\ InMemory(Owed)'
  BY <1>1, <1>2, <1>3 DEF Current, Spooling, InMemory
<1>9. Answering(r)'
  <2>1. Answering(r)
    BY <1>3 DEF ConnInv
  <2>2. /\ body = BodyOf(script, r)
        /\ \/ consumed = 0 /\ Starts(Pending, r + 1, 1)
           \/ consumed = Total(r) /\ consumed <= Len(buf) /\ Starts(Pending, r, 1)
    BY <1>1, <2>1 DEF Answering
  <2>3. body' = BodyOf(script, r)' /\ Total(r)' = Total(r)
    BY <1>1, <2>2 DEF BodyOf, Total, HeadUnits
  <2> QED BY <1>1, <1>4, <2>2, <2>3 DEF Answering
<1>10. Answering(Owed)'
  BY <1>2, <1>3, <1>9
<1> QED BY <1>5, <1>6, <1>7, <1>8, <1>10 DEF ConnInv

\* What the request took up of the buffer is dropped: the next one starts the stream.
LEMMA NextStarts ==
    ASSUME ConnInv, at = "write", NEW b, b = SubSeq(buf, consumed + 1, Len(buf))
    PROVE  b \in Seq(Units) /\ Stream(b \o wire) /\ Starts(b \o wire, Owed + 1, 1)
<1>1. PICK r \in 1 .. Len(script) : r = Owed /\ cur = r
  BY DEF ConnInv, Current
<1>2. \/ consumed = 0 /\ Starts(Pending, r + 1, 1)
      \/ consumed = Total(r) /\ consumed <= Len(buf) /\ Starts(Pending, r, 1)
  BY <1>1 DEF ConnInv, Answering
<1>3. Total(r) \in Nat /\ Total(r) >= 2
  BY InvFacts, RequestTypes
<1>4. consumed \in 0 .. Len(buf)
  BY <1>2, <1>3, InvFacts
<1>5. b \in Seq(Units) /\ Dropped(b \o wire, Pending, consumed)
  BY <1>4, InvFacts, DropBuffer DEF Pending
<1>6. PICK v \in Seq(Units) : v = b \o wire
  BY <1>5, InvFacts, ConcatProperties
<1>7. Stream(v)
  BY <1>5, <1>6, InvFacts, DropStream
<1>8. CASE consumed = 0 /\ Starts(Pending, r + 1, 1)
  <2>1. Len(v) = Len(Pending) /\ \A j \in 1 .. Len(v) : v[j] = Pending[j]
    BY <1>5, <1>6, <1>8, InvFacts, LenProperties DEF Dropped
  <2>2. v = Pending
    BY <2>1, InvFacts, SeqEqual
  <2> QED BY <1>1, <1>5, <1>6, <1>7, <1>8, <2>2
<1>9. CASE consumed = Total(r) /\ consumed <= Len(buf) /\ Starts(Pending, r, 1)
  <2>1. 1 \in 1 .. Total(r) /\ 1 + consumed = Total(r) + 1 /\ 1 + consumed <= Total(r) + 1
    BY <1>3, <1>9
  <2>2. script \in Seq(Request) /\ nsent \in 0 .. Len(script) /\ Pending \in Seq(Units) /\ Stream(Pending)
        /\ Dropped(v, Pending, consumed) /\ Starts(Pending, r, 1)
    BY <1>5, <1>6, <1>9, InvFacts
  <2>3. Starts(v, r + 1, 1)
    BY <2>1, <2>2, DropStarts
  <2> QED BY <1>1, <1>5, <1>6, <1>7, <2>3
<1> QED BY <1>2, <1>8, <1>9

LEMMA WriteStep ==
    ASSUME ConnInv, NEW s \in BOOLEAN, WriteResponse(s)
    PROVE  ConnInv'
<1>1. /\ at = "write" /\ temp' \subseteq temp /\ UNCHANGED <<script, nsent, wire, served, persist, stopping>>
      /\ out' = Append(out, Response(cur, body, TRUE, ~persist, s))
      /\ lateKeep' = IF stopping /\ persist THEN lateKeep + 1 ELSE lateKeep
  BY DEF WriteResponse
<1>2. Owed \in 1 .. Len(script) /\ cur = Owed /\ persist \in BOOLEAN
  BY <1>1 DEF ConnInv, Current, ConnTypeOK
<1>3. out' \in Seq(Responses) /\ Len(out') = Owed /\ Len(out') <= Len(script)
  BY <1>1, <1>2, InvFacts, AppendAnswer
<1>4. CASE ~persist
  <2>1. Close /\ UNCHANGED <<buf, lateKeep>>
    BY <1>1, <1>4 DEF WriteResponse
  <2> QED BY <1>1, <1>3, <2>1, Closing
<1>5. CASE persist
  <2>1. /\ at' = "head" /\ buf' = SubSeq(buf, consumed + 1, Len(buf))
        /\ cur' = 0 /\ body' = <<>> /\ need' = 0 /\ consumed' = 0
    BY <1>5 DEF WriteResponse
  <2>2. PICK b : b = SubSeq(buf, consumed + 1, Len(buf))
    OBVIOUS
  <2>3. b \in Seq(Units) /\ Stream(b \o wire) /\ Starts(b \o wire, Owed + 1, 1)
    BY <1>1, <2>2, NextStarts
  <2>4. PICK v : v = b \o wire
    OBVIOUS
  <2>5. v = Pending'
    BY <1>1, <2>1, <2>2, <2>4 DEF Pending
  <2>6. Stream(v)' /\ Starts(v, Owed + 1, 1)
    BY <1>1, <2>3, <2>4, StreamFrame
  <2>7. PICK r \in 1 .. Len(script) : r = Owed
    BY <1>2
  <2>8. Starts(v, r + 1, 1)'
    BY <1>1, <2>6, <2>7, StreamFrame
  <2>9. Stream(Pending)' /\ Starts(Pending, r + 1, 1)'
    BY <2>5, <2>6, <2>8 DEF Stream, Starts
  <2>10. Owed' = r + 1
    BY <1>3, <2>7 DEF Owed
  <2>11. ConnTypeOK'
    <3>1. lateKeep' \in Nat
      BY <1>1 DEF ConnInv, ConnTypeOK
    <3> QED BY <1>1, <2>1, <3>1, InvFacts DEF ConnInv, ConnTypeOK
  <2>12. Buffers'
    BY <1>1, <1>3, <2>1, <2>2, <2>3, <2>9, EmptySeq DEF ConnInv, Buffers
  <2>13. Late'
    BY <1>1, <1>5, <2>1 DEF ConnInv, Late
  <2>14. Current(r + 1)'
    BY <1>1, <2>1, <2>7, <2>9, InvFacts DEF Current
  <2>15. Current(Owed)'
    BY <2>10, <2>14
  <2>16. InMemory(Owed)' /\ Spooling(Owed)' /\ Answering(Owed)'
    BY <2>1 DEF InMemory, Spooling, Answering
  <2> QED BY <2>11, <2>12, <2>13, <2>15, <2>16 DEF ConnInv
<1> QED BY <1>2, <1>4, <1>5

\* The rest of the world moves and serve_connection does not.
LEMMA Elsewhere ==
    ASSUME ConnInv, UNCHANGED <<script, buf, at, served, cur, body, need, consumed, persist, temp, out, lateKeep>>,
           stopping' = TRUE \/ stopping' = stopping, wire' \in Seq(Units), nsent' \in 0 .. Len(script),
           Stream(Pending)', \A q, k : Starts(Pending, q, k) => Starts(Pending, q, k)'
    PROVE  ConnInv'
<1>1. UNCHANGED <<script, buf, at, served, cur, body, need, consumed, persist, temp, out, lateKeep>>
  OBVIOUS
<1>2. Owed' = Owed
  BY <1>1 DEF Owed
<1>3. Stream(Pending)' /\ \A q, k : Starts(Pending, q, k) => Starts(Pending, q, k)'
  OBVIOUS
<1>4. PICK r : r = Owed
  OBVIOUS
<1>5. Total(r)' = Total(r) /\ HeadUnits(script[r])' = HeadUnits(script[r]) /\ BodyOf(script, r)' = BodyOf(script, r)
  BY <1>1 DEF Total, HeadUnits, BodyOf
<1>6. Current(r) /\ InMemory(r) /\ Spooling(r) /\ Answering(r)
  BY <1>4 DEF ConnInv
<1>7. Current(r)'
  BY <1>1, <1>3, <1>6 DEF Current
<1>8. InMemory(r)'
  BY <1>1, <1>3, <1>5, <1>6 DEF InMemory
<1>9. Spooling(r)'
  <2> SUFFICES ASSUME at = "spool" PROVE Spooling(r)'
    BY <1>1 DEF Spooling
  <2>1. PICK k : k = HeadUnits(script[r]) + Len(body) + 1
    OBVIOUS
  <2>2. k = (HeadUnits(script[r]) + Len(body) + 1)'
    BY <1>1, <2>1 DEF HeadUnits
  <2>3. IF need > 0 THEN buf = <<>> /\ Starts(Pending, r, k)' ELSE Starts(Pending, r + 1, 1)'
    BY <1>3, <1>6, <2>1 DEF Spooling
  <2>4. need' > 0 => Starts(Pending, r, HeadUnits(script[r]) + Len(body) + 1)'
    BY <1>1, <2>2, <2>3 DEF Starts
  <2>5. Len(body') + need' = script'[r].len /\ \A i \in 1 .. Len(body') : body'[i] = Unit(r, HeadUnits(script'[r]) + i)
    BY <1>1, <1>6 DEF Spooling
  <2> QED BY <1>1, <2>3, <2>4, <2>5 DEF Spooling, HeadUnits
<1>10. Answering(r)'
  BY <1>1, <1>3, <1>5, <1>6 DEF Answering
<1>11. Current(Owed)' /\ InMemory(Owed)' /\ Spooling(Owed)' /\ Answering(Owed)'
  BY <1>2, <1>4, <1>7, <1>8, <1>9, <1>10
<1>12. ConnTypeOK'
  BY <1>1 DEF ConnInv, ConnTypeOK
<1>13. Buffers'
  BY <1>1, <1>3 DEF ConnInv, Buffers
<1>14. Late'
  BY <1>1 DEF ConnInv, Late
<1> QED BY <1>11, <1>12, <1>13, <1>14 DEF ConnInv

LEMMA StopStep ==
    ASSUME ConnInv, Stop \/ UNCHANGED connVars
    PROVE  ConnInv'
<1>1. /\ UNCHANGED <<script, nsent, wire, buf, at, served, cur, body, need, consumed, persist, temp, out, lateKeep>>
      /\ stopping' = TRUE \/ stopping' = stopping
  BY DEF Stop, connVars
<1>2. Pending' = Pending
  BY <1>1 DEF Pending
<1>3. Stream(Pending)' /\ \A q, k : Starts(Pending, q, k) => Starts(Pending, q, k)'
  BY <1>1, <1>2, PendingKept
<1>4. wire' \in Seq(Units) /\ nsent' \in 0 .. Len(script)
  BY <1>1, InvFacts
<1> QED BY <1>1, <1>3, <1>4, Elsewhere

LEMMA Reassociate == \A a, b, c \in Seq(Units) : (a \o b) \o c = a \o (b \o c)
BY ConcatAssociative

LEMMA SendStep ==
    ASSUME ConnInv, Send
    PROVE  ConnInv'
<1>1. /\ nsent < Len(script) /\ nsent' = nsent + 1 /\ wire' = wire \o Message(script, nsent + 1)
      /\ UNCHANGED <<script, buf, at, served, cur, body, need, consumed, persist, temp, out, stopping, lateKeep>>
  BY DEF Send
<1>2. PICK N \in 1 .. Len(script) : N = nsent + 1
  BY <1>1, InvFacts
<1>3. PICK p \in Seq(Units) : p = Pending
  BY InvFacts
<1>4. PICK g \in Seq(Units) : g = Message(script, N)
  BY <1>1, <1>2, <1>3, InvFacts, SentUnits
<1>5. PICK M \in Nat : M <= Total(N) /\ (N < Len(script) => M = Total(N)) /\ Extends(p \o g, p, N, M)
  BY <1>1, <1>2, <1>4, InvFacts, SentUnits
<1>6. PICK v : v = p \o g
  OBVIOUS
<1>7. v = Pending' /\ wire' \in Seq(Units)
  <2>1. wire' = wire \o g /\ buf' = buf /\ wire \in Seq(Units) /\ buf \in Seq(Units)
    BY <1>1, <1>2, <1>4, InvFacts
  <2>3. (buf \o wire) \o g = buf \o (wire \o g)
    BY <2>1, Reassociate
  <2>2. (buf \o wire) \o g = buf \o (wire \o g) /\ wire \o g \in Seq(Units)
    BY <2>1, <2>3, ConcatProperties
  <2> QED BY <1>3, <1>6, <2>1, <2>2 DEF Pending
<1>8. /\ script \in Seq(Request) /\ nsent \in 0 .. Len(script) /\ nsent < Len(script) /\ Stream(p)
      /\ script' = script /\ nsent' = nsent + 1 /\ M <= Total(N) /\ (N < Len(script) => M = Total(N))
      /\ Extends(v, p, N, M)
  BY <1>1, <1>3, <1>5, <1>6, InvFacts
<1>9. Stream(v)'
  BY <1>2, <1>8, SendStream
<1>10. \A q, k : Starts(p, q, k) => Starts(v, q, k)'
  BY <1>2, <1>8, SendStarts
<1>11. Stream(Pending)'
  BY <1>7, <1>9 DEF Stream
<1>12. ASSUME NEW q, NEW k, Starts(Pending, q, k) PROVE Starts(Pending, q, k)'
  <2>1. Starts(v, q, k)'
    BY <1>3, <1>10, <1>12
  <2> QED BY <1>7, <2>1 DEF Starts
<1>13. nsent' \in 0 .. Len(script)
  BY <1>1, InvFacts
<1> QED BY <1>1, <1>7, <1>11, <1>12, <1>13, Elsewhere

LEMMA ConnInvInit == ConnInit => ConnInv
<1> SUFFICES ASSUME ConnInit PROVE ConnInv
  OBVIOUS
<1>1. script \in Scripts /\ script \in Seq(Request) /\ Len(script) \in Nat
  BY ConnAssumption, LenProperties DEF ConnInit
<1>2. Pending = <<>> /\ <<>> \in Seq(Units) /\ <<>> \in Seq(Responses) /\ Len(<<>>) = 0
  BY EmptySeq, ConcatEmptySeq DEF ConnInit, Pending
<1>3. Owed = 1 /\ Len(out) = 0 /\ at = "head"
  BY <1>2 DEF ConnInit, Owed
<1>4. Stream(Pending) /\ Starts(Pending, 1, 1)
  BY <1>2 DEF ConnInit, Stream, Starts
<1>5. ConnTypeOK
  <2>1. persist \in BOOLEAN /\ stopping \in BOOLEAN
    BY DEF ConnInit
  <2>2. served \in Nat /\ need \in Nat /\ consumed \in Nat /\ lateKeep \in Nat /\ cur = 0 /\ at = "head" /\ temp = {}
    BY DEF ConnInit
  <2>3. cur \in 0 .. Len(script) /\ temp \subseteq 1 .. Len(script)
    BY <1>1, <2>2
  <2> QED BY <1>1, <2>1, <2>2, <2>3 DEF ConnTypeOK
<1>6. Buffers
  BY <1>1, <1>2, <1>4 DEF ConnInit, Buffers
<1>7. Late
  BY DEF ConnInit, Late
<1>8. Current(1) /\ InMemory(1) /\ Spooling(1) /\ Answering(1)
  BY <1>1, <1>3, <1>4 DEF Current, InMemory, Spooling, Answering
<1> QED BY <1>3, <1>5, <1>6, <1>7, <1>8 DEF ConnInv

LEMMA ConnInvNext == ConnInv /\ [ConnNext]_connVars => ConnInv'
<1> SUFFICES ASSUME ConnInv, [ConnNext]_connVars PROVE ConnInv'
  OBVIOUS
<1>1. CASE ReadHead \/ ReadBody
  BY <1>1, ReadStep
<1>2. CASE HangUp \/ SignalClose \/ Refuse \/ SpoolFails \/ WriteFails
  BY <1>2, CloseStep
<1>3. CASE BufferBody
  BY <1>3, BufferStep
<1>4. CASE BodyBuffered
  BY <1>4, BufferedStep
<1>5. CASE SpoolStart
  BY <1>5, SpoolStartStep
<1>6. CASE SpoolRead
  BY <1>6, SpoolReadStep
<1>7. CASE Spooled
  BY <1>7, SpooledStep
<1>8. CASE Decide \/ Handle
  BY <1>8, DecideStep
<1>9. CASE \E s \in BOOLEAN : WriteResponse(s)
  BY <1>9, WriteStep
<1>10. CASE Stop \/ UNCHANGED connVars
  BY <1>10, StopStep
<1>11. CASE Send
  BY <1>11, SendStep
<1> QED BY <1>1, <1>2, <1>3, <1>4, <1>5, <1>6, <1>7, <1>8, <1>9, <1>10, <1>11 DEF ConnNext, Serve

-----------------------------------------------------------------------------
\* The variables of a connection keep their types, and a request is in hand exactly while
\* one is being read or answered.
THEOREM ConnectionTypeCorrect == ConnSpec => []ConnTypeOK
<1>1. ConnInv => ConnTypeOK
  BY DEF ConnInv
<1> QED BY ConnInvInit, ConnInvNext, <1>1, PTL DEF ConnSpec

\* However requests, reads and the signal interleave, at most one answer written after the
\* shutdown signal still says keep-alive (the decision of serve_connection, app.rs:751).
THEOREM LateKeepAliveBounded == ConnSpec => []OneLateKeepAlive
<1>1. ConnInv => OneLateKeepAlive
  BY DEF ConnInv, Late, OneLateKeepAlive
<1> QED BY ConnInvInit, ConnInvNext, <1>1, PTL DEF ConnSpec

-----------------------------------------------------------------------------
(* The connection implements the service.                                  *)
LEMMA FunctionIsSeq ==
    ASSUME NEW S, NEW n \in Nat, NEW f \in [1 .. n -> S]
    PROVE  f \in Seq(S) /\ Len(f) = n
BY SeqDef, LenProperties

LEMMA AnswersAppend ==
    ASSUME ConnInv, Owed \in 1 .. Len(script), NEW b \in Seq(Units), NEW ok \in BOOLEAN, NEW last \in BOOLEAN,
           NEW s \in BOOLEAN, out' = Append(out, Response(Owed, b, ok, last, s))
    PROVE  /\ Answers' = Append(Answers, [req |-> Owed, body |-> b, served |-> ok, close |-> last])
           /\ Len(Answers) = Len(out)
<1> DEFINE S == [req : Nat, body : Seq(Units), served : BOOLEAN, close : BOOLEAN]
           A(x) == [req |-> x.req, body |-> x.body, served |-> x.served, close |-> x.close]
           x0 == Response(Owed, b, ok, last, s)
<1>1. x0 \in Responses /\ A(x0) \in S
  BY InvFacts DEF Response, Responses
<1>2. out \in Seq(Responses) /\ out' \in Seq(Responses) /\ Len(out') = Len(out) + 1 /\ Len(out) \in Nat
      /\ \A i \in 1 .. Len(out) : out'[i] = out[i]
  BY <1>1, InvFacts, AppendProperties
<1>3. out'[Len(out) + 1] = x0
  BY <1>1, InvFacts, AppendProperties
<1>4. ASSUME NEW i \in 1 .. Len(out) PROVE A(out[i]) \in S
  <2>1. out[i] \in Responses
    BY <1>2, ElementOfSeq
  <2> QED BY <2>1 DEF Responses
<1>5. Answers = [i \in 1 .. Len(out) |-> A(out[i])]
  BY <1>2, LenProperties DEF Answers
<1>6. Answers' = [i \in 1 .. Len(out) + 1 |-> A(out'[i])]
  BY <1>2, LenProperties DEF Answers
<1>7. Answers \in Seq(S) /\ Len(Answers) = Len(out)
  <2>1. Answers \in [1 .. Len(out) -> S]
    BY <1>4, <1>5
  <2> HIDE DEF S
  <2> QED BY <1>2, <2>1, FunctionIsSeq
<1>8. A(x0) = [req |-> Owed, body |-> b, served |-> ok, close |-> last]
  BY DEF Response
<1>9. Append(Answers, A(x0)) \in Seq(S) /\ Len(Append(Answers, A(x0))) = Len(out) + 1
      /\ Append(Answers, A(x0))[Len(out) + 1] = A(x0)
  BY <1>1, <1>7, AppendProperties
<1>10. \A i \in 1 .. Len(out) : Append(Answers, A(x0))[i] = A(out[i])
  BY <1>1, <1>5, <1>7, AppendProperties
<1>11. Answers' \in Seq(S) /\ Len(Answers') = Len(out) + 1
  <2>1. \A i \in 1 .. Len(out) + 1 : A(out'[i]) \in S
    BY <1>1, <1>2, <1>3, <1>4
  <2>2. Answers' \in [1 .. Len(out) + 1 -> S]
    BY <1>6, <2>1
  <2> HIDE DEF S
  <2>3. PICK n \in Nat : n = Len(out) + 1
    BY <1>2
  <2> QED BY <2>2, <2>3, FunctionIsSeq
<1>12. ASSUME NEW i \in 1 .. Len(out) + 1 PROVE Answers'[i] = Append(Answers, A(x0))[i]
  <2>1. Answers'[i] = A(out'[i])
    BY <1>6
  <2>2. CASE i = Len(out) + 1
    BY <1>3, <1>9, <2>1, <2>2
  <2>3. CASE i # Len(out) + 1
    <3>1. i \in 1 .. Len(out)
      BY <1>2, <2>3
    <3> QED BY <1>2, <1>10, <2>1, <3>1
  <2> QED BY <2>2, <2>3
<1>13. Answers' = Append(Answers, A(x0))
  BY <1>9, <1>11, <1>12, SeqEqual
<1> QED BY <1>7, <1>8, <1>13

\* An answer written is the service's answer to the next request.
LEMMA RefineAnswer ==
    ASSUME ConnInv, NEW ok \in BOOLEAN, NEW last \in BOOLEAN, NEW s \in BOOLEAN, NEW b,
           Owed \in 1 .. Len(script), at # "closed", (at' # "closed") = ~last,
           ok \/ (last /\ Refusable(script[Owed])),
           b = IF ok THEN BodyOf(script, Owed) ELSE <<>>, b \in Seq(Units),
           out' = Append(out, Response(Owed, b, ok, last, s)), script' = script
    PROVE  Promise!AnswerNext
<1>1. /\ Answers' = Append(Answers, [req |-> Owed, body |-> b, served |-> ok, close |-> last])
      /\ Len(Answers) = Len(out)
  BY AnswersAppend
<1>2. Len(Answers) + 1 = Owed /\ Len(Answers) < Len(script)
  BY <1>1, InvFacts DEF Owed
<1>3. Promise!Answer(Owed, ok, last) = [req |-> Owed, body |-> b, served |-> ok, close |-> last]
  BY DEF Promise!Answer
<1> QED BY <1>1, <1>2, <1>3 DEF Promise!AnswerNext

LEMMA RefineStep ==
    ASSUME ConnInv, [ConnNext]_connVars
    PROVE  [Promise!Next]_<<script, Answers, at # "closed">>
<1>1. CASE UNCHANGED <<script, out>> /\ (at' = "closed" <=> at = "closed")
  BY <1>1 DEF Answers
<1>2. CASE UNCHANGED <<script, out>> /\ at # "closed" /\ at' = "closed"
  <2>1. Answers' = Answers
    BY <1>2 DEF Answers
  <2>2. Promise!GiveUp
    BY <1>2, <2>1 DEF Promise!GiveUp
  <2> QED BY <2>2 DEF Promise!Next
<1>3. CASE Refuse
  <2>1. Owed \in 1 .. Len(script) /\ buf[1].req = Owed /\ Refusable(script[Owed])
    BY <1>3, RefuseOnly
  <2>2. /\ at = "head" /\ at' = "closed" /\ script' = script
        /\ out' = Append(out, Response(Owed, <<>>, FALSE, TRUE, FALSE))
    BY <1>3, <2>1 DEF Refuse, Close
  <2>3. <<>> \in Seq(Units) /\ <<>> = IF FALSE THEN BodyOf(script, Owed) ELSE <<>>
    BY EmptySeq
  <2>4. Promise!AnswerNext
    BY <2>1, <2>2, <2>3, RefineAnswer
  <2> QED BY <2>4 DEF Promise!Next
<1>4. ASSUME NEW s \in BOOLEAN, WriteResponse(s) PROVE Promise!Next
  <2>1. at = "write" /\ script' = script /\ out' = Append(out, Response(cur, body, TRUE, ~persist, s))
    BY <1>4 DEF WriteResponse
  <2>2. Owed \in 1 .. Len(script) /\ cur = Owed /\ persist \in BOOLEAN /\ body = BodyOf(script, Owed) /\ body \in Seq(Units)
    BY <2>1 DEF ConnInv, Current, ConnTypeOK, Answering, Buffers
  <2>3. at' = IF persist THEN "head" ELSE "closed"
    BY <1>4 DEF WriteResponse, Close
  <2>5. PICK last \in BOOLEAN : last = ~persist
    BY <2>2
  <2>6. (at' # "closed") = ~last
    <3>1. CASE persist = TRUE
      <4>1. at' = "head" /\ last = FALSE
        BY <2>3, <2>5, <3>1
      <4> QED BY <4>1
    <3>2. CASE persist = FALSE
      <4>1. at' = "closed" /\ last = TRUE
        BY <2>3, <2>5, <3>2
      <4> QED BY <4>1
    <3> QED BY <2>2, <3>1, <3>2
  <2>7. out' = Append(out, Response(Owed, body, TRUE, last, s)) /\ body = IF TRUE THEN BodyOf(script, Owed) ELSE <<>>
    BY <2>1, <2>2, <2>5
  <2>8. Promise!AnswerNext
    BY <2>1, <2>2, <2>6, <2>7, RefineAnswer
  <2> QED BY <2>8 DEF Promise!Next
<1>5. CASE ReadHead \/ ReadBody \/ BufferBody \/ BodyBuffered \/ SpoolStart \/ SpoolRead \/ Spooled \/ Decide \/ Handle \/ Stop \/ Send \/ UNCHANGED connVars
  <2>1. UNCHANGED <<script, out>> /\ (at' = "closed" <=> at = "closed")
    BY <1>5 DEF ReadHead, ReadBody, BufferBody, BodyBuffered, SpoolStart, SpoolRead, Spooled, Decide, Handle, Stop, Send, connVars
  <2> QED BY <1>1, <2>1
<1>6. CASE HangUp \/ SignalClose \/ SpoolFails \/ WriteFails
  <2>1. UNCHANGED <<script, out>> /\ at # "closed" /\ at' = "closed"
    BY <1>6 DEF HangUp, SignalClose, SpoolFails, WriteFails, Close
  <2> QED BY <1>2, <2>1
<1> QED BY <1>3, <1>4, <1>5, <1>6 DEF ConnNext, Serve

\* serve_connection implements HttpService: whatever the reads return, whichever way the
\* bodies are read and whenever the signal comes, the answers are those of the requests in
\* the order they were sent, each from its own body, refused only for what they are, and
\* none after the one that announced the close.
THEOREM ImplementsService == ConnSpec => AnswersInOrder
<1>1. ConnInit => Promise!Init
  <2> SUFFICES ASSUME ConnInit PROVE Promise!Init
    OBVIOUS
  <2>1. out = <<>> /\ at = "head" /\ DOMAIN <<>> = {}
    BY DEF ConnInit
  <2>2. Answers = <<>>
    BY <2>1 DEF Answers
  <2> QED BY <2>1, <2>2 DEF Promise!Init
<1>2. ConnInv /\ [ConnNext]_connVars => [Promise!Next]_<<script, Answers, at # "closed">>
  BY RefineStep
<1> QED BY ConnInvInit, ConnInvNext, <1>1, <1>2, PTL DEF ConnSpec, AnswersInOrder, Promise!Spec
=============================================================================
