---------------------------- MODULE StoresProofs ----------------------------
(***************************************************************************)
(* TLAPS proofs about the components that keep state behind the handlers:  *)
(* the pooled Redis client hands nobody the reply to another's command,    *)
(* and presence, the cache, sign-in, the issuer's keys, the HTTP client,   *)
(* the resolver and the log contexts keep what they promise, for any       *)
(* callers, sizes and clocks.                                              *)
(***************************************************************************)
EXTENDS MCStores, SequenceTheorems, FiniteSetTheorems, WellFoundedInduction, TLAPS

Replies == [cmd : Nat, value : BOOLEAN]
LinkRecords == [up : BOOLEAN, asked : Seq(Nat), wire : Seq(Replies), buf : Seq(Replies), ok : BOOLEAN, made : BOOLEAN]
TaskRecords == [at : {"idle", "write", "read", "done", "failed"}, link : SUBSET Links, cmd : Nat, left : Nat,
                shaking : BOOLEAN]

\* An error reply at the front of the buffer is never consumed: every later read returns it.
Stuck(k) == k.buf # <<>> /\ ~k.buf[1].value

Drained(k) == k.buf = <<>> /\ k.wire = <<>> /\ k.asked = <<>>

\* Command n and nothing else is under way, before or after the server answered it.
Expecting(k, n) ==
    /\ k.buf = <<>>
    /\ \/ k.wire = <<>> /\ k.asked = <<n>> /\ k.up
       \/ k.asked = <<>> /\ \E v \in BOOLEAN : k.wire = <<[cmd |-> n, value |-> v]>>
       \/ Drained(k) /\ ~k.up

Settled(k) == Stuck(k) \/ Drained(k)

RedisTypes ==
    /\ link \in [Links -> LinkRecords] /\ idle \in Seq(Links) /\ task \in [RedisCallers -> TaskRecords]
    /\ numbered \in Nat

\* What a task holds, and what may be under way on it.
Held(t, k) ==
    /\ t.at = "idle" => t.link = {}
    /\ t.at # "idle" => \E l \in Links : t.link = {l}
    /\ t.at \in {"write", "read"} => t.left >= 1
    /\ \A l \in t.link : k[l].made
    /\ \A l \in t.link : IF t.at = "read" THEN Stuck(k[l]) \/ Expecting(k[l], t.cmd) ELSE Settled(k[l])

RedisInv ==
    /\ RedisTypes /\ OwnReply
    /\ \A c \in RedisCallers : Held(task[c], link)
    /\ \A i \in 1 .. Len(idle) : Settled(link[idle[i]]) /\ link[idle[i]].made

-----------------------------------------------------------------------------
LEMMA RedisFacts ==
    ASSUME RedisInv
    PROVE  /\ link \in [Links -> LinkRecords] /\ idle \in Seq(Links) /\ task \in [RedisCallers -> TaskRecords]
           /\ numbered \in Nat /\ foreign = FALSE /\ Len(idle) \in Nat /\ DOMAIN idle = 1 .. Len(idle)
           /\ \A i, j \in 1 .. Len(idle) : idle[i] = idle[j] => i = j
           /\ \A i \in 1 .. Len(idle) : idle[i] \in Links
           /\ \A i \in 1 .. Len(idle), c \in RedisCallers : idle[i] \notin task[c].link
           /\ \A c, d \in RedisCallers : \A l : l \in task[c].link /\ l \in task[d].link => c = d
           /\ \A c \in RedisCallers : Held(task[c], link)
           /\ \A i \in 1 .. Len(idle) : Settled(link[idle[i]]) /\ link[idle[i]].made
<1>1. /\ link \in [Links -> LinkRecords] /\ idle \in Seq(Links) /\ task \in [RedisCallers -> TaskRecords]
      /\ numbered \in Nat
  BY DEF RedisInv, RedisTypes
<1>2. Len(idle) \in Nat /\ DOMAIN idle = 1 .. Len(idle) /\ \A i \in 1 .. Len(idle) : idle[i] \in Links
  BY <1>1, LenProperties, ElementOfSeq
<1>3. foreign = FALSE /\ \A c, d \in RedisCallers : task[c].link \intersect task[d].link # {} => c = d
  BY DEF RedisInv, OwnReply
<1>4. /\ \A i, j \in 1 .. Len(idle) : idle[i] = idle[j] => i = j
      /\ \A i \in 1 .. Len(idle), c \in RedisCallers : idle[i] \notin task[c].link
  BY <1>2 DEF RedisInv, OwnReply
<1>5. \A c, d \in RedisCallers : \A l : l \in task[c].link /\ l \in task[d].link => c = d
  BY <1>3
<1> QED BY <1>1, <1>2, <1>3, <1>4, <1>5 DEF RedisInv

\* g is f with value v at x.
Updated(g, f, x, v) == g[x] = v /\ \A y \in DOMAIN f : y # x => g[y] = f[y]

\* A step of caller c, which holds at most l, at most l's connection and the pool with it.
LEMMA CallerStep ==
    ASSUME RedisInv, NEW c \in RedisCallers, NEW l \in Links, NEW t \in TaskRecords, NEW k \in LinkRecords,
           task' \in [RedisCallers -> TaskRecords], Updated(task', task, c, t),
           link' \in [Links -> LinkRecords], Updated(link', link, l, k), numbered' \in Nat, foreign' = FALSE,
           t.link \subseteq {l}, Held(t, link'),
           \A d \in RedisCallers : d # c => l \notin task[d].link,
           idle' \in Seq(Links), \A i, j \in 1 .. Len(idle') : idle'[i] = idle'[j] => i = j,
           \A i \in 1 .. Len(idle') : IF idle'[i] = l THEN t.link = {} /\ Settled(k) /\ k.made
                                                     ELSE \E j \in 1 .. Len(idle) : idle[j] = idle'[i]
    PROVE  RedisInv'
<1>1. link \in [Links -> LinkRecords] /\ task \in [RedisCallers -> TaskRecords]
  BY RedisFacts
<1>2. link' \in [Links -> LinkRecords] /\ link'[l] = k /\ \A m \in Links : m # l => link'[m] = link[m]
  BY <1>1 DEF Updated
<1>3. task' \in [RedisCallers -> TaskRecords] /\ task'[c] = t /\ \A d \in RedisCallers : d # c => task'[d] = task[d]
  BY <1>1 DEF Updated
<1>4. RedisTypes'
  BY <1>2, <1>3 DEF RedisTypes
<1>5. Len(idle') \in Nat /\ DOMAIN idle' = 1 .. Len(idle') /\ \A i \in 1 .. Len(idle') : idle'[i] \in Links
  BY LenProperties, ElementOfSeq
<1>6. \A i \in 1 .. Len(idle'), d \in RedisCallers : idle'[i] \notin task'[d].link
  <2> SUFFICES ASSUME NEW i \in 1 .. Len(idle'), NEW d \in RedisCallers PROVE idle'[i] \notin task'[d].link
    OBVIOUS
  <2>1. CASE idle'[i] = l
    BY <1>3, <2>1
  <2>2. CASE idle'[i] # l
    <3>1. PICK j \in 1 .. Len(idle) : idle[j] = idle'[i]
      BY <2>2
    <3>2. idle[j] \notin task[d].link
      BY RedisFacts
    <3> QED BY <1>3, <2>2, <3>1, <3>2
  <2> QED BY <2>1, <2>2
<1>7. ASSUME NEW d \in RedisCallers, NEW e \in RedisCallers, NEW m, m \in task'[d].link, m \in task'[e].link PROVE d = e
  BY <1>3, <1>7, RedisFacts
<1>8. OwnReply'
  BY <1>5, <1>6, <1>7 DEF OwnReply
<1>9. ASSUME NEW d \in RedisCallers PROVE Held(task'[d], link')
  <2>1. CASE d = c
    BY <1>3, <2>1
  <2>2. CASE d # c
    <3>1. task'[d] = task[d] /\ Held(task[d], link) /\ task[d] \in TaskRecords
      BY <1>1, <1>3, <2>2, RedisFacts
    <3>2. \A m \in task[d].link : link'[m] = link[m]
      BY <1>2, <2>2, <3>1 DEF TaskRecords
    <3> QED BY <3>1, <3>2 DEF Held
  <2> QED BY <2>1, <2>2
<1>10. ASSUME NEW i \in 1 .. Len(idle') PROVE Settled(link'[idle'[i]]) /\ link'[idle'[i]].made
  <2>1. CASE idle'[i] = l
    BY <1>2, <2>1
  <2>2. CASE idle'[i] # l
    <3>1. PICK j \in 1 .. Len(idle) : idle[j] = idle'[i]
      BY <2>2
    <3>2. Settled(link[idle[j]]) /\ link[idle[j]].made /\ idle[j] \in Links
      BY RedisFacts
    <3> QED BY <1>2, <2>2, <3>1, <3>2
  <2> QED BY <2>1, <2>2
<1>11. \A d \in RedisCallers : Held(task[d], link)'
  BY <1>9 DEF Held, Stuck, Expecting, Drained, Settled
<1>12. \A i \in 1 .. Len(idle') : Settled(link[idle[i]])' /\ link'[idle'[i]].made
  BY <1>10 DEF Stuck, Drained, Settled
<1> QED BY <1>4, <1>8, <1>11, <1>12 DEF RedisInv

LEMMA HeldLink ==
    ASSUME RedisInv, NEW c \in RedisCallers, task[c].at # "idle"
    PROVE  /\ Of(c) \in Links /\ task[c].link = {Of(c)} /\ link[Of(c)] \in LinkRecords /\ link[Of(c)].made
           /\ task[c] \in TaskRecords
           /\ \A d \in RedisCallers : d # c => Of(c) \notin task[d].link
           /\ \A i \in 1 .. Len(idle) : idle[i] # Of(c)
           /\ IF task[c].at = "read" THEN Stuck(link[Of(c)]) \/ Expecting(link[Of(c)], task[c].cmd)
                                     ELSE Settled(link[Of(c)])
           /\ task[c].at \in {"write", "read"} => task[c].left >= 1
<1>1. Held(task[c], link) /\ link \in [Links -> LinkRecords] /\ task[c] \in TaskRecords
  BY RedisFacts
<1>2. PICK l \in Links : task[c].link = {l}
  BY <1>1 DEF Held
<1>3. Of(c) = l
  BY <1>2 DEF Of
<1>4. link[l].made /\ IF task[c].at = "read" THEN Stuck(link[l]) \/ Expecting(link[l], task[c].cmd) ELSE Settled(link[l])
  BY <1>1, <1>2 DEF Held
<1>5. \A d \in RedisCallers : d # c => l \notin task[d].link
  BY <1>2, RedisFacts
<1>6. \A i \in 1 .. Len(idle) : idle[i] # l
  BY <1>2, RedisFacts
<1> QED BY <1>1, <1>2, <1>3, <1>4, <1>5, <1>6 DEF Held

\* A caller goes on with its connection, the pool untouched.
LEMMA OwnStep ==
    ASSUME RedisInv, NEW c \in RedisCallers, task[c].at # "idle", NEW t \in TaskRecords, NEW k \in LinkRecords,
           task' \in [RedisCallers -> TaskRecords], Updated(task', task, c, t),
           link' \in [Links -> LinkRecords], Updated(link', link, Of(c), k), numbered' \in Nat, foreign' = FALSE,
           idle' = idle, t.link = {Of(c)}, k.made, t.at # "idle", t.at \in {"write", "read"} => t.left >= 1,
           IF t.at = "read" THEN Stuck(k) \/ Expecting(k, t.cmd) ELSE Settled(k)
    PROVE  RedisInv'
<1>1. PICK l \in Links : l = Of(c)
  BY HeldLink
<1>4. link'[l] = k
  BY <1>1 DEF Updated
<1>5. Held(t, link')
  BY <1>1, <1>4 DEF Held
<1>6. /\ idle' \in Seq(Links) /\ \A i, j \in 1 .. Len(idle') : idle'[i] = idle'[j] => i = j
      /\ \A i \in 1 .. Len(idle') : idle'[i] # l /\ \E j \in 1 .. Len(idle) : idle[j] = idle'[i]
  BY <1>1, HeldLink, RedisFacts
<1>7. \A d \in RedisCallers : d # c => l \notin task[d].link
  BY <1>1, HeldLink
<1>8. t.link \subseteq {l} /\ Updated(link', link, l, k)
  BY <1>1
<1>9. \A i \in 1 .. Len(idle') : IF idle'[i] = l THEN t.link = {} /\ Settled(k) /\ k.made
                                                ELSE \E j \in 1 .. Len(idle) : idle[j] = idle'[i]
  BY <1>6
<1> QED BY <1>5, <1>6, <1>7, <1>8, <1>9, CallerStep

\* A caller is done with its connection: it goes back to the pool or is dropped.
LEMMA GivenBack ==
    ASSUME RedisInv, NEW c \in RedisCallers, task[c].at # "idle", NEW l \in Links, l = Of(c),
           task' \in [RedisCallers -> TaskRecords], Updated(task', task, c, NoTask),
           link' \in [Links -> LinkRecords], numbered' \in Nat, foreign' = FALSE,
           \/ idle' = idle /\ Updated(link', link, l, NoLink)
           \/ idle' = Append(idle, l) /\ link' = link /\ Settled(link[l])
    PROVE  RedisInv'
<1>1. /\ link \in [Links -> LinkRecords] /\ link[l] \in LinkRecords /\ link[l].made
      /\ \A i \in 1 .. Len(idle) : idle[i] # l
      /\ \A d \in RedisCallers : d # c => l \notin task[d].link
  BY HeldLink, RedisFacts
<1>2. PICK t \in TaskRecords : t = NoTask /\ t.link = {} /\ t.at = "idle"
  <2>1. NoTask \in TaskRecords /\ NoTask.link = {} /\ NoTask.at = "idle"
    BY DEF NoTask, TaskRecords
  <2> QED BY <2>1
<1>3. Held(t, link') /\ Updated(task', task, c, t) /\ t.link \subseteq {l}
  BY <1>2 DEF Held
<1>4. CASE idle' = idle /\ Updated(link', link, l, NoLink)
  <2>1. PICK k \in LinkRecords : k = NoLink
    BY EmptySeq DEF NoLink, LinkRecords
  <2>2. /\ idle' \in Seq(Links) /\ \A i, j \in 1 .. Len(idle') : idle'[i] = idle'[j] => i = j
        /\ \A i \in 1 .. Len(idle') : idle'[i] # l /\ \E j \in 1 .. Len(idle) : idle[j] = idle'[i]
    BY <1>1, <1>4, RedisFacts
  <2>3. Updated(link', link, l, k)
    BY <1>4, <2>1
  <2> QED BY <1>1, <1>3, <2>2, <2>3, CallerStep
<1>5. CASE idle' = Append(idle, l) /\ link' = link /\ Settled(link[l])
  <2>1. PICK k \in LinkRecords : k = link[l] /\ k.made /\ Settled(k) /\ Updated(link', link, l, k)
    BY <1>1, <1>5 DEF Updated
  <2>2. /\ idle \in Seq(Links) /\ Len(idle) \in Nat /\ idle' \in Seq(Links) /\ Len(idle') = Len(idle) + 1
        /\ idle'[Len(idle) + 1] = l /\ \A i \in 1 .. Len(idle) : idle'[i] = idle[i]
    BY <1>5, RedisFacts, AppendProperties
  <2>3. ASSUME NEW i \in 1 .. Len(idle')
        PROVE  IF idle'[i] = l THEN i = Len(idle) + 1 ELSE i \in 1 .. Len(idle) /\ idle'[i] = idle[i]
    <3>1. CASE i = Len(idle) + 1
      BY <2>2, <3>1
    <3>2. CASE i # Len(idle) + 1
      <4>1. i \in 1 .. Len(idle)
        BY <2>2, <3>2
      <4> QED BY <1>1, <2>2, <4>1
    <3> QED BY <3>1, <3>2
  <2>4. \A i, j \in 1 .. Len(idle') : idle'[i] = idle'[j] => i = j
    <3>1. \A i, j \in 1 .. Len(idle) : idle[i] = idle[j] => i = j
      BY RedisFacts
    <3> QED BY <2>3, <3>1
  <2>5. \A i \in 1 .. Len(idle') : IF idle'[i] = l THEN t.link = {} /\ Settled(k) /\ k.made
                                                  ELSE \E j \in 1 .. Len(idle) : idle[j] = idle'[i]
    BY <1>2, <2>1, <2>3
  <2>6. idle' \in Seq(Links) /\ Updated(link', link, l, k)
    BY <2>1, <2>2
  <2> QED BY <1>1, <1>3, <2>4, <2>5, <2>6, CallerStep
<1> QED BY <1>4, <1>5

LEMMA TaskUpdate ==
    ASSUME RedisInv, NEW c \in RedisCallers, NEW t \in TaskRecords, task' = [task EXCEPT ![c] = t]
    PROVE  task' \in [RedisCallers -> TaskRecords] /\ Updated(task', task, c, t)
<1>1. task \in [RedisCallers -> TaskRecords]
  BY RedisFacts
<1> QED BY <1>1 DEF Updated

LEMMA LinkUpdate ==
    ASSUME RedisInv, NEW l \in Links, NEW k \in LinkRecords, link' = [link EXCEPT ![l] = k]
    PROVE  link' \in [Links -> LinkRecords] /\ Updated(link', link, l, k)
<1>1. link \in [Links -> LinkRecords]
  BY RedisFacts
<1> QED BY <1>1 DEF Updated

LEMMA CheckoutStep ==
    ASSUME RedisInv, NEW c \in RedisCallers, NEW n \in 1 .. 2, Checkout(c, n)
    PROVE  RedisInv'
<1>1. /\ task[c].at = "idle" /\ idle # <<>> /\ idle' = Front(idle) /\ link' = link
      /\ task' = [task EXCEPT ![c] = [NoTask EXCEPT !.at = "write", !.link = {Last(idle)}, !.left = n]]
      /\ numbered' = numbered /\ foreign' = foreign
  BY DEF Checkout
<1>2. idle \in Seq(Links) /\ Len(idle) \in Nat /\ Len(idle) >= 1 /\ link \in [Links -> LinkRecords]
  BY <1>1, RedisFacts, EmptySeq
<1>3. PICK m \in Nat : m = Len(idle) - 1 /\ Len(idle) = m + 1
  <2>1. Len(idle) - 1 \in Nat /\ Len(idle) = (Len(idle) - 1) + 1
    BY <1>2
  <2> QED BY <2>1
<1>4. PICK l \in Links : l = idle[m + 1] /\ l = Last(idle)
  BY <1>2, <1>3, RedisFacts DEF Last
<1>5. idle' \in Seq(Links) /\ Len(idle') = m /\ \A i \in 1 .. m : idle'[i] = idle[i]
  <2>1. idle' = SubSeq(idle, 1, m)
    BY <1>1, <1>3 DEF Front
  <2>2. \A i \in 1 .. m : idle[i] \in Links
    BY <1>2, <1>3, RedisFacts
  <2>3. /\ SubSeq(idle, 1, m) \in Seq(Links) /\ Len(SubSeq(idle, 1, m)) = m
        /\ \A i \in 1 .. m : SubSeq(idle, 1, m)[i] = idle[i]
    BY <2>2, SubSeqProperties
  <2> QED BY <2>1, <2>3
<1>6. \A i, j \in 1 .. m + 1 : idle[i] = idle[j] => i = j
  BY <1>3, RedisFacts
<1>7. \A i, j \in 1 .. Len(idle') : idle'[i] = idle'[j] => i = j
  BY <1>5, <1>6
<1>8. \A i \in 1 .. Len(idle') : idle'[i] # l /\ \E j \in 1 .. Len(idle) : idle[j] = idle'[i]
  BY <1>3, <1>4, <1>5, <1>6
<1>9. PICK t \in TaskRecords : t = [NoTask EXCEPT !.at = "write", !.link = {l}, !.left = n]
                               /\ t.at = "write" /\ t.link = {l} /\ t.left = n
  <2>2. n \in Nat /\ {l} \in SUBSET Links
    OBVIOUS
  <2>1. [NoTask EXCEPT !.at = "write", !.link = {l}, !.left = n] \in TaskRecords
    BY <2>2 DEF NoTask, TaskRecords
  <2> QED BY <2>1 DEF NoTask
<1>10. task' \in [RedisCallers -> TaskRecords] /\ Updated(task', task, c, t)
  <2>1. task' = [task EXCEPT ![c] = t]
    BY <1>1, <1>4, <1>9
  <2> QED BY <2>1, TaskUpdate
<1>11. PICK k \in LinkRecords : k = link[l] /\ k.made /\ Settled(k)
  <2>1. m + 1 \in 1 .. Len(idle)
    BY <1>3
  <2>2. Settled(link[idle[m + 1]]) /\ link[idle[m + 1]].made
    BY <2>1, RedisFacts
  <2> QED BY <1>2, <1>4, <2>2
<1>12. link' \in [Links -> LinkRecords] /\ Updated(link', link, l, k)
  BY <1>1, <1>2, <1>11 DEF Updated
<1>13. Held(t, link')
  BY <1>1, <1>9, <1>11 DEF Held
<1>14. \A d \in RedisCallers : d # c => l \notin task[d].link
  <2>1. m + 1 \in 1 .. Len(idle)
    BY <1>3
  <2>2. PICK q \in 1 .. Len(idle) : q = m + 1
    BY <2>1
  <2>3. \A d \in RedisCallers : idle[q] \notin task[d].link
    BY RedisFacts
  <2> QED BY <1>4, <2>2, <2>3
<1>15. \A i \in 1 .. Len(idle') : IF idle'[i] = l THEN t.link = {} /\ Settled(k) /\ k.made
                                                 ELSE \E j \in 1 .. Len(idle) : idle[j] = idle'[i]
  BY <1>8
<1>16. numbered' \in Nat /\ foreign' = FALSE /\ t.link \subseteq {l} /\ idle' \in Seq(Links)
  BY <1>1, <1>5, <1>9, RedisFacts
<1> QED BY <1>7, <1>10, <1>12, <1>13, <1>14, <1>15, <1>16, CallerStep

LEMMA DialStep ==
    ASSUME RedisInv, NEW c \in RedisCallers, NEW n \in 1 .. 2, Dial(c, n)
    PROVE  RedisInv'
<1>1. PICK l \in Links :
          /\ ~link[l].made
          /\ link' = [link EXCEPT ![l] = [NoLink EXCEPT !.up = TRUE, !.made = TRUE]]
          /\ task' = [task EXCEPT ![c] = [NoTask EXCEPT !.at = "write", !.link = {l}, !.shaking = WithAuth,
                                                        !.left = IF WithAuth THEN n + 1 ELSE n]]
  BY DEF Dial
<1>2. idle' = idle /\ numbered' = numbered /\ foreign' = foreign
  BY DEF Dial
<1>3. PICK j \in Nat : j = (IF WithAuth THEN n + 1 ELSE n) /\ j >= 1
  BY RedisAssumption
<1>4. PICK t \in TaskRecords : t = [NoTask EXCEPT !.at = "write", !.link = {l}, !.shaking = WithAuth, !.left = j]
                               /\ t.at = "write" /\ t.link = {l} /\ t.left = j
  <2>1. [NoTask EXCEPT !.at = "write", !.link = {l}, !.shaking = WithAuth, !.left = j] \in TaskRecords
    BY RedisAssumption DEF NoTask, TaskRecords
  <2> QED BY <2>1 DEF NoTask
<1>5. PICK k \in LinkRecords : k = [NoLink EXCEPT !.up = TRUE, !.made = TRUE] /\ k.made /\ Settled(k)
  <2>1. [NoLink EXCEPT !.up = TRUE, !.made = TRUE] \in LinkRecords
    BY EmptySeq DEF NoLink, LinkRecords
  <2>2. [NoLink EXCEPT !.up = TRUE, !.made = TRUE].made /\ Settled([NoLink EXCEPT !.up = TRUE, !.made = TRUE])
    BY DEF NoLink, Settled, Drained
  <2> QED BY <2>1, <2>2
<1>6. task' \in [RedisCallers -> TaskRecords] /\ Updated(task', task, c, t)
  <2>1. task' = [task EXCEPT ![c] = t]
    BY <1>1, <1>3, <1>4
  <2> QED BY <2>1, TaskUpdate
<1>7. link' \in [Links -> LinkRecords] /\ Updated(link', link, l, k)
  <2>1. link' = [link EXCEPT ![l] = k]
    BY <1>1, <1>5
  <2> QED BY <2>1, LinkUpdate
<1>8. link'[l] = k
  BY <1>7 DEF Updated
<1>9. Held(t, link')
  BY <1>3, <1>4, <1>5, <1>8 DEF Held
<1>10. \A d \in RedisCallers : l \notin task[d].link
  BY <1>1, RedisFacts DEF Held
<1>11. \A i \in 1 .. Len(idle) : idle[i] # l
  BY <1>1, RedisFacts
<1>12. \A i \in 1 .. Len(idle') : IF idle'[i] = l THEN t.link = {} /\ Settled(k) /\ k.made
                                                 ELSE \E m \in 1 .. Len(idle) : idle[m] = idle'[i]
  BY <1>2, <1>11
<1>13. /\ numbered' \in Nat /\ foreign' = FALSE /\ t.link \subseteq {l} /\ idle' \in Seq(Links)
       /\ \A i, m \in 1 .. Len(idle') : idle'[i] = idle'[m] => i = m
  BY <1>2, <1>4, RedisFacts
<1> QED BY <1>6, <1>7, <1>9, <1>10, <1>12, <1>13, CallerStep

LEMMA WriteCommand ==
    ASSUME RedisInv, NEW c \in RedisCallers, Write(c)
    PROVE  RedisInv'
<1>1. /\ task[c].at = "write" /\ link[Of(c)].up /\ numbered' = numbered + 1 /\ idle' = idle /\ foreign' = foreign
      /\ link' = [link EXCEPT ![Of(c)] = [@ EXCEPT !.asked = Append(link[Of(c)].asked, numbered + 1), !.ok = FALSE]]
      /\ task' = [task EXCEPT ![c] = [@ EXCEPT !.at = "read", !.cmd = numbered + 1]]
  BY DEF Write
<1>2. PICK l \in Links : l = Of(c)
  BY <1>1, HeldLink
<1>3. PICK o \in LinkRecords : o = link[l] /\ o.made /\ o.up /\ Settled(o)
  BY <1>1, <1>2, HeldLink
<1>4. PICK u \in TaskRecords : u = task[c] /\ u.link = {Of(c)} /\ u.left >= 1
  BY <1>1, HeldLink
<1>5. PICK n \in Nat : n = numbered + 1
  BY RedisFacts
<1>6. o.asked \in Seq(Nat) /\ Append(o.asked, n) \in Seq(Nat)
  BY <1>3, AppendProperties DEF LinkRecords
<1>7. PICK k : k = [o EXCEPT !.asked = Append(o.asked, n), !.ok = FALSE]
  OBVIOUS
<1>8. k \in LinkRecords /\ k.buf = o.buf /\ k.wire = o.wire /\ k.made = o.made /\ k.up = o.up /\ k.asked = Append(o.asked, n)
  BY <1>6, <1>7 DEF LinkRecords
<1>9. PICK t : t = [u EXCEPT !.at = "read", !.cmd = n]
  OBVIOUS
<1>10. t \in TaskRecords /\ t.at = "read" /\ t.cmd = n /\ t.link = u.link /\ t.left = u.left
  BY <1>9 DEF TaskRecords
<1>11. task' \in [RedisCallers -> TaskRecords] /\ Updated(task', task, c, t)
  <2>1. task' = [task EXCEPT ![c] = t]
    BY <1>1, <1>4, <1>5, <1>9
  <2> QED BY <1>10, <2>1, TaskUpdate
<1>12. link' \in [Links -> LinkRecords] /\ Updated(link', link, Of(c), k)
  <2>2. k = [link[l] EXCEPT !.asked = Append(link[l].asked, numbered + 1), !.ok = FALSE]
    BY <1>3, <1>5, <1>7
  <2>1. link' = [link EXCEPT ![l] = k]
    BY <1>1, <1>2, <2>2
  <2> QED BY <1>2, <1>8, <2>1, LinkUpdate
<1>13. Stuck(k) \/ Expecting(k, n)
  <2>1. CASE Stuck(o)
    BY <1>8, <2>1 DEF Stuck
  <2>2. CASE Drained(o)
    <3>1. Append(o.asked, n) = <<n>>
      BY <2>2 DEF Drained
    <3> QED BY <1>3, <1>8, <2>2, <3>1 DEF Drained, Expecting
  <2> QED BY <1>3, <2>1, <2>2 DEF Settled
<1>14. numbered' \in Nat /\ foreign' = FALSE
  BY <1>1, <1>5, RedisFacts
<1>15. k.made /\ t.link = {Of(c)} /\ t.left >= 1 /\ IF t.at = "read" THEN Stuck(k) \/ Expecting(k, t.cmd) ELSE Settled(k)
  BY <1>3, <1>4, <1>8, <1>10, <1>13
<1> QED BY <1>1, <1>8, <1>10, <1>11, <1>12, <1>14, <1>15, OwnStep

LEMMA FirstOf ==
    ASSUME NEW b \in Seq(Replies), NEW w \in Seq(Replies)
    PROVE  /\ b \o w \in Seq(Replies) /\ b = <<>> => b \o w = w
           /\ b # <<>> => (b \o w)[1] = b[1] /\ b \o w # <<>>
<1>1. b \o w \in Seq(Replies) /\ (b = <<>> => b \o w = w)
  BY ConcatProperties, ConcatEmptySeq
<1>2. ASSUME b # <<>> PROVE (b \o w)[1] = b[1] /\ b \o w # <<>>
  <2>1. Len(b) \in Nat /\ Len(b) >= 1 /\ Len(w) \in Nat
    BY <1>2, EmptySeq, LenProperties
  <2>2. 1 \in 1 .. Len(b) + Len(w) /\ Len(b \o w) = Len(b) + Len(w)
    BY <2>1, ConcatProperties
  <2>3. (b \o w)[1] = b[1]
    BY <2>1, <2>2, ConcatProperties
  <2> QED BY <1>1, <2>1, <2>2, <2>3, EmptySeq
<1> QED BY <1>1, <1>2

\* What read_reply finds first, buffered or just received.
LEMMA FirstReply ==
    ASSUME NEW o \in LinkRecords, NEW n, Stuck(o) \/ Expecting(o, n), NEW g \in Seq(Replies), g # <<>>,
           o.buf = <<>> => g = o.wire, o.buf # <<>> => g[1] = o.buf[1]
    PROVE  Head(g).value => Head(g).cmd = n /\ Tail(g) = <<>> /\ o.asked = <<>>
<1>3. Head(g) = g[1]
  OBVIOUS
<1>4. CASE Stuck(o)
  BY <1>3, <1>4 DEF Stuck
<1>5. CASE Expecting(o, n)
  <2>1. g = o.wire
    BY <1>5 DEF Expecting
  <2>2. PICK v \in BOOLEAN : o.asked = <<>> /\ o.wire = <<[cmd |-> n, value |-> v]>>
    BY <1>5, <2>1 DEF Expecting, Drained
  <2>3. g = <<[cmd |-> n, value |-> v]>>
    BY <2>1, <2>2
  <2>4. Head(g) = [cmd |-> n, value |-> v] /\ Tail(g) = <<>>
    BY <2>3
  <2> QED BY <2>2, <2>4
<1> QED BY <1>4, <1>5

LEMMA ReadValueStep ==
    ASSUME RedisInv, NEW c \in RedisCallers, ReadValue(c)
    PROVE  RedisInv'
<1>1. task[c].at = "read" /\ idle' = idle /\ numbered' = numbered
  BY DEF ReadValue
<1>2. PICK l \in Links : l = Of(c)
  BY <1>1, HeldLink
<1>3. PICK o \in LinkRecords : o = link[l] /\ o.made
  BY <1>1, <1>2, HeldLink
<1>4. PICK u \in TaskRecords : u = task[c] /\ u.link = {Of(c)} /\ u.left >= 1 /\ u.at = "read"
  BY <1>1, HeldLink
<1>5. Stuck(o) \/ Expecting(o, u.cmd)
  BY <1>1, <1>2, <1>3, <1>4, HeldLink
<1>6. PICK g : g = o.buf \o o.wire
  OBVIOUS
<1>7. /\ g # <<>> /\ Head(g).value /\ foreign' = (foreign \/ Head(g).cmd # u.cmd)
      /\ link' = [link EXCEPT ![l] = [@ EXCEPT !.buf = Tail(g), !.wire = <<>>, !.ok = TRUE]]
      /\ task' = [task EXCEPT ![c] = [@ EXCEPT !.at = IF task[c].left = 1 THEN "done" ELSE "write",
                                               !.left = task[c].left - 1, !.shaking = FALSE]]
  BY <1>2, <1>3, <1>4, <1>6 DEF ReadValue
<1>8. Head(g).cmd = u.cmd /\ Tail(g) = <<>> /\ o.asked = <<>>
  <2>1. o.buf \in Seq(Replies) /\ o.wire \in Seq(Replies)
    BY DEF LinkRecords
  <2>2. g \in Seq(Replies) /\ (o.buf = <<>> => g = o.wire) /\ (o.buf # <<>> => g[1] = o.buf[1])
    <3>1. PICK b \in Seq(Replies), w \in Seq(Replies) : b = o.buf /\ w = o.wire
      BY <2>1
    <3>2. g = b \o w
      BY <1>6, <3>1
    <3>3. b \o w \in Seq(Replies) /\ (b = <<>> => b \o w = w) /\ (b # <<>> => (b \o w)[1] = b[1])
      BY FirstOf
    <3> QED BY <3>1, <3>2, <3>3
  <2> QED BY <1>5, <1>7, <2>2, FirstReply
<1>9. foreign' = FALSE /\ numbered' \in Nat
  BY <1>1, <1>7, <1>8, RedisFacts
<1>10. PICK k : k = [o EXCEPT !.buf = <<>>, !.wire = <<>>, !.ok = TRUE]
  OBVIOUS
<1>11. k \in LinkRecords /\ k.buf = <<>> /\ k.wire = <<>> /\ k.asked = o.asked /\ k.made = o.made
  BY <1>10, EmptySeq DEF LinkRecords
<1>12. PICK w : w = IF u.left = 1 THEN "done" ELSE "write"
  OBVIOUS
<1>13. PICK t : t = [u EXCEPT !.at = w, !.left = u.left - 1, !.shaking = FALSE]
  OBVIOUS
<1>14. t \in TaskRecords /\ t.at = w /\ t.left = u.left - 1 /\ t.link = u.link
  <2>1. u.left \in Nat
    BY DEF TaskRecords
  <2>2. PICK j \in Nat : j = u.left - 1
    BY <1>4, <2>1
  <2>3. w \in {"done", "write"}
    BY <1>12
  <2>4. t = [u EXCEPT !.at = w, !.left = j, !.shaking = FALSE]
    BY <1>13, <2>2
  <2>5. t \in TaskRecords /\ t.at = w /\ t.left = j /\ t.link = u.link
    BY <2>3, <2>4 DEF TaskRecords
  <2> QED BY <2>2, <2>5
<1>15. task' \in [RedisCallers -> TaskRecords] /\ Updated(task', task, c, t)
  <2>2. t = [task[c] EXCEPT !.at = IF task[c].left = 1 THEN "done" ELSE "write",
                            !.left = task[c].left - 1, !.shaking = FALSE]
    BY <1>4, <1>12, <1>13
  <2>1. task' = [task EXCEPT ![c] = t]
    BY <1>7, <2>2
  <2> QED BY <1>14, <2>1, TaskUpdate
<1>16. link' \in [Links -> LinkRecords] /\ Updated(link', link, Of(c), k)
  <2>1. link' = [link EXCEPT ![l] = k]
    BY <1>3, <1>7, <1>8, <1>10
  <2> QED BY <1>2, <1>11, <2>1, LinkUpdate
<1>17. Settled(k)
  BY <1>8, <1>11 DEF Settled, Drained
<1>18. /\ k.made /\ t.link = {Of(c)} /\ t.at # "idle" /\ (t.at \in {"write", "read"} => t.left >= 1)
       /\ IF t.at = "read" THEN Stuck(k) \/ Expecting(k, t.cmd) ELSE Settled(k)
  <2>1. u.left \in Nat
    BY DEF TaskRecords
  <2> QED BY <2>1, <1>3, <1>4, <1>11, <1>12, <1>14, <1>17
<1> QED BY <1>1, <1>9, <1>11, <1>14, <1>15, <1>16, <1>18, OwnStep

LEMMA ReadErrorStep ==
    ASSUME RedisInv, NEW c \in RedisCallers, ReadError(c)
    PROVE  RedisInv'
<1>1. task[c].at = "read" /\ idle' = idle /\ numbered' = numbered /\ foreign' = foreign
  BY DEF ReadError
<1>2. PICK l \in Links : l = Of(c)
  BY <1>1, HeldLink
<1>3. PICK o \in LinkRecords : o = link[l] /\ o.made
  BY <1>1, <1>2, HeldLink
<1>4. PICK u \in TaskRecords : u = task[c] /\ u.link = {Of(c)}
  BY <1>1, HeldLink
<1>5. PICK b \in Seq(Replies), w \in Seq(Replies) : b = o.buf /\ w = o.wire
  BY DEF LinkRecords
<1>6. PICK g \in Seq(Replies) : g = b \o w
  BY ConcatProperties
<1>7. /\ g # <<>> /\ ~Head(g).value
      /\ link' = [link EXCEPT ![l] = [@ EXCEPT !.buf = g, !.wire = <<>>]]
      /\ task' = [task EXCEPT ![c].at = "failed"]
  BY <1>2, <1>3, <1>5, <1>6 DEF ReadError
<1>8. PICK k : k = [o EXCEPT !.buf = g, !.wire = <<>>]
  OBVIOUS
<1>9. k \in LinkRecords /\ k.buf = g /\ k.made = o.made
  BY <1>8, EmptySeq DEF LinkRecords
<1>10. PICK t : t = [u EXCEPT !.at = "failed"]
  OBVIOUS
<1>11. t \in TaskRecords /\ t.at = "failed" /\ t.link = u.link
  BY <1>10 DEF TaskRecords
<1>12. task' \in [RedisCallers -> TaskRecords] /\ Updated(task', task, c, t)
  <2>1. t = [task[c] EXCEPT !.at = "failed"]
    BY <1>4, <1>10
  <2>2. task' = [task EXCEPT ![c] = t]
    BY <1>7, <2>1
  <2> QED BY <1>11, <2>2, TaskUpdate
<1>13. link' \in [Links -> LinkRecords] /\ Updated(link', link, Of(c), k)
  <2>1. k = [link[l] EXCEPT !.buf = g, !.wire = <<>>]
    BY <1>3, <1>8
  <2>2. link' = [link EXCEPT ![l] = k]
    BY <1>7, <2>1
  <2> QED BY <1>2, <1>9, <2>2, LinkUpdate
<1>14. Settled(k)
  <2>1. PICK h \in Seq(Replies) : h = g
    OBVIOUS
  <2>2. Head(h) = h[1]
    BY <1>7, <2>1
  <2> QED BY <1>7, <1>9, <2>1, <2>2 DEF Settled, Stuck
<1>15. numbered' \in Nat /\ foreign' = FALSE
  BY <1>1, RedisFacts
<1>16. /\ k.made /\ t.link = {Of(c)} /\ t.at # "idle" /\ (t.at \in {"write", "read"} => t.left >= 1)
       /\ IF t.at = "read" THEN Stuck(k) \/ Expecting(k, t.cmd) ELSE Settled(k)
  BY <1>3, <1>4, <1>9, <1>11, <1>14
<1> QED BY <1>1, <1>9, <1>11, <1>12, <1>13, <1>15, <1>16, OwnStep

LEMMA BrokenStep ==
    ASSUME RedisInv, NEW c \in RedisCallers, Broken(c)
    PROVE  RedisInv'
<1>1. /\ task[c].at = "write" \/ (task[c].at = "read" /\ link[Of(c)].buf \o link[Of(c)].wire = <<>>)
      /\ ~link[Of(c)].up /\ task' = [task EXCEPT ![c].at = "failed"]
      /\ link' = link /\ idle' = idle /\ numbered' = numbered /\ foreign' = foreign
  BY DEF Broken
<1>2. PICK l \in Links : l = Of(c)
  BY <1>1, HeldLink
<1>3. PICK k \in LinkRecords : k = link[l] /\ k.made
  BY <1>1, <1>2, HeldLink
<1>4. PICK u \in TaskRecords : u = task[c] /\ u.link = {Of(c)}
  BY <1>1, HeldLink
<1>5. PICK t : t = [u EXCEPT !.at = "failed"]
  OBVIOUS
<1>6. t \in TaskRecords /\ t.at = "failed" /\ t.link = u.link
  BY <1>5 DEF TaskRecords
<1>7. task' \in [RedisCallers -> TaskRecords] /\ Updated(task', task, c, t)
  <2>1. t = [task[c] EXCEPT !.at = "failed"]
    BY <1>4, <1>5
  <2>2. task' = [task EXCEPT ![c] = t]
    BY <1>1, <2>1
  <2> QED BY <1>6, <2>2, TaskUpdate
<1>8. link' \in [Links -> LinkRecords] /\ Updated(link', link, Of(c), k)
  BY <1>1, <1>2, <1>3, RedisFacts DEF Updated
<1>9. Settled(k)
  <2>1. CASE task[c].at = "write"
    BY <1>2, <1>3, <2>1, HeldLink
  <2>2. CASE task[c].at = "read" /\ link[Of(c)].buf \o link[Of(c)].wire = <<>>
    <3>1. PICK b \in Seq(Replies), w \in Seq(Replies) : b = k.buf /\ w = k.wire
      BY DEF LinkRecords
    <3>2. b \o w = <<>>
      BY <1>2, <1>3, <2>2, <3>1
    <3>3. b = <<>> /\ w = <<>>
      BY <3>2, ConcatEqualIffEmpty
    <3>4. Stuck(k) \/ Expecting(k, task[c].cmd)
      BY <1>2, <1>3, <2>2, HeldLink
    <3>5. \A v : w # <<v>>
      BY <3>3
    <3> QED BY <1>1, <1>2, <1>3, <3>1, <3>3, <3>4, <3>5 DEF Settled, Expecting, Drained
  <2> QED BY <1>1, <2>1, <2>2
<1>10. numbered' \in Nat /\ foreign' = FALSE
  BY <1>1, RedisFacts
<1>11. /\ k.made /\ t.link = {Of(c)} /\ t.at # "idle" /\ (t.at \in {"write", "read"} => t.left >= 1)
       /\ IF t.at = "read" THEN Stuck(k) \/ Expecting(k, t.cmd) ELSE Settled(k)
  BY <1>3, <1>4, <1>6, <1>9
<1> QED BY <1>1, <1>6, <1>7, <1>8, <1>10, <1>11, OwnStep

LEMMA EndStep ==
    ASSUME RedisInv, NEW c \in RedisCallers, Succeed(c) \/ FailCall(c) \/ Cancel(c)
    PROVE  RedisInv'
<1>1. /\ task[c].at # "idle" /\ task' = [task EXCEPT ![c] = NoTask] /\ numbered' = numbered /\ foreign' = foreign
      /\ (task[c].at # "read" /\ Checkin(Of(c))) \/ DropLink(Of(c))
  BY DEF Succeed, FailCall, Cancel
<1>2. PICK l \in Links : l = Of(c)
  BY <1>1, HeldLink
<1>3. task' \in [RedisCallers -> TaskRecords] /\ Updated(task', task, c, NoTask)
  <2>1. NoTask \in TaskRecords
    BY DEF NoTask, TaskRecords
  <2> QED BY <1>1, <2>1, TaskUpdate
<1>4. numbered' \in Nat /\ foreign' = FALSE
  BY <1>1, RedisFacts
<1>5. CASE idle' = idle /\ link' = [link EXCEPT ![l] = NoLink]
  <2>1. PICK k \in LinkRecords : k = NoLink
    BY EmptySeq DEF NoLink, LinkRecords
  <2>2. link' = [link EXCEPT ![l] = k]
    BY <1>5, <2>1
  <2>3. link' \in [Links -> LinkRecords] /\ Updated(link', link, l, NoLink)
    BY <2>1, <2>2, LinkUpdate
  <2> QED BY <1>1, <1>2, <1>3, <1>4, <1>5, <2>3, GivenBack
<1>6. CASE idle' = Append(idle, l) /\ link' = link /\ task[c].at # "read"
  <2>1. Settled(link[l]) /\ link' \in [Links -> LinkRecords]
    BY <1>1, <1>2, <1>6, HeldLink, RedisFacts
  <2> QED BY <1>1, <1>2, <1>3, <1>4, <1>6, <2>1, GivenBack
<1> QED BY <1>1, <1>2, <1>5, <1>6 DEF Checkin, DropLink

\* The server moves on one connection and settles nothing that was not.
LEMMA ServerStep ==
    ASSUME RedisInv, NEW l \in Links, NEW k \in LinkRecords, link' = [link EXCEPT ![l] = k],
           idle' = idle, task' = task, numbered' = numbered, foreign' = foreign,
           k.made = link[l].made, Settled(link[l]) => Settled(k),
           \A n : Stuck(link[l]) \/ Expecting(link[l], n) => Stuck(k) \/ Expecting(k, n)
    PROVE  RedisInv'
<1>1. link' \in [Links -> LinkRecords] /\ link'[l] = k /\ \A m \in Links : m # l => link'[m] = link[m]
  BY RedisFacts
<1>2. RedisTypes' /\ OwnReply'
  BY <1>1 DEF RedisInv, RedisTypes, OwnReply
<1>3. ASSUME NEW c \in RedisCallers PROVE Held(task[c], link')
  <2>1. Held(task[c], link) /\ task[c] \in TaskRecords
    BY RedisFacts
  <2>2. \A m \in task[c].link : m \in Links
    BY <2>1 DEF TaskRecords
  <2>3. \A m \in task[c].link : link'[m].made
    BY <1>1, <2>1, <2>2 DEF Held
  <2>4. ASSUME NEW m \in task[c].link
        PROVE  IF task[c].at = "read" THEN Stuck(link'[m]) \/ Expecting(link'[m], task[c].cmd) ELSE Settled(link'[m])
    <3>1. IF task[c].at = "read" THEN Stuck(link[m]) \/ Expecting(link[m], task[c].cmd) ELSE Settled(link[m])
      BY <2>1 DEF Held
    <3>2. CASE m = l
      BY <1>1, <3>1, <3>2
    <3>3. CASE m # l
      BY <1>1, <2>2, <3>1, <3>3
    <3> QED BY <3>2, <3>3
  <2> QED BY <2>1, <2>3, <2>4 DEF Held
<1>4. ASSUME NEW i \in 1 .. Len(idle) PROVE Settled(link'[idle[i]]) /\ link'[idle[i]].made
  <2>1. Settled(link[idle[i]]) /\ link[idle[i]].made /\ idle[i] \in Links
    BY RedisFacts
  <2> QED BY <1>1, <2>1
<1>5. \A c \in RedisCallers : Held(task'[c], link')
  BY <1>3
<1>6. \A i \in 1 .. Len(idle') : Settled(link[idle[i]])' /\ link'[idle'[i]].made
  BY <1>4 DEF Stuck, Drained, Settled
<1> QED BY <1>2, <1>5, <1>6 DEF RedisInv

LEMMA AnswerStep ==
    ASSUME RedisInv, NEW l \in Links, NEW v \in BOOLEAN, Answer(l, v)
    PROVE  RedisInv'
<1>1. PICK o \in LinkRecords : o = link[l]
  BY RedisFacts
<1>2. /\ o.up /\ o.asked # <<>> /\ idle' = idle /\ task' = task /\ numbered' = numbered /\ foreign' = foreign
      /\ link' = [link EXCEPT ![l] = [@ EXCEPT !.asked = Tail(link[l].asked),
                                               !.wire = Append(link[l].wire, [cmd |-> Head(link[l].asked), value |-> v])]]
  BY <1>1 DEF Answer
<1>3. PICK a \in Seq(Nat), w \in Seq(Replies) : a = o.asked /\ w = o.wire
  BY DEF LinkRecords
<1>4. a # <<>> /\ Head(a) \in Nat /\ Tail(a) \in Seq(Nat)
  BY <1>2, <1>3, HeadTailProperties
<1>5. PICK y \in Replies : y = [cmd |-> Head(a), value |-> v]
  BY <1>4 DEF Replies
<1>6. Append(w, y) \in Seq(Replies)
  BY AppendProperties
<1>7. PICK k : k = [o EXCEPT !.asked = Tail(a), !.wire = Append(w, y)]
  OBVIOUS
<1>8. k \in LinkRecords /\ k.asked = Tail(a) /\ k.wire = Append(w, y) /\ k.buf = o.buf /\ k.made = o.made /\ k.up = o.up
  BY <1>4, <1>6, <1>7 DEF LinkRecords
<1>9. link' = [link EXCEPT ![l] = k]
  <2>1. k = [link[l] EXCEPT !.asked = Tail(link[l].asked),
                            !.wire = Append(link[l].wire, [cmd |-> Head(link[l].asked), value |-> v])]
    BY <1>1, <1>3, <1>5, <1>7
  <2> QED BY <1>2, <2>1
<1>10. Stuck(o) => Stuck(k)
  BY <1>8 DEF Stuck
<1>11. ~Drained(o)
  BY <1>2 DEF Drained
<1>12. ASSUME NEW n, Expecting(o, n) PROVE Expecting(k, n)
  <2>1. o.buf = <<>> /\ w = <<>> /\ a = <<n>>
    BY <1>2, <1>3, <1>11, <1>12 DEF Expecting
  <2>2. Tail(a) = <<>> /\ Head(a) = n
    BY <2>1
  <2>3. Append(w, y) = <<[cmd |-> n, value |-> v]>>
    BY <1>5, <2>1, <2>2
  <2> QED BY <1>8, <2>1, <2>2, <2>3 DEF Expecting
<1>13. Settled(o) => Settled(k)
  BY <1>10, <1>11 DEF Settled
<1>14. \A n : Stuck(link[l]) \/ Expecting(link[l], n) => Stuck(k) \/ Expecting(k, n)
  BY <1>1, <1>10, <1>12
<1>15. k.made = link[l].made /\ (Settled(link[l]) => Settled(k))
  BY <1>1, <1>8, <1>13
<1> QED BY <1>2, <1>8, <1>9, <1>14, <1>15, ServerStep

LEMMA DisconnectStep ==
    ASSUME RedisInv, NEW l \in Links, Disconnect(l)
    PROVE  RedisInv'
<1>1. PICK o \in LinkRecords : o = link[l]
  BY RedisFacts
<1>2. /\ idle' = idle /\ task' = task /\ numbered' = numbered /\ foreign' = foreign
      /\ link' = [link EXCEPT ![l] = [@ EXCEPT !.up = FALSE, !.asked = <<>>]]
  BY DEF Disconnect
<1>3. PICK k : k = [o EXCEPT !.up = FALSE, !.asked = <<>>]
  OBVIOUS
<1>4. k \in LinkRecords /\ k.asked = <<>> /\ ~k.up /\ k.wire = o.wire /\ k.buf = o.buf /\ k.made = o.made
  BY <1>3, EmptySeq DEF LinkRecords
<1>5. link' = [link EXCEPT ![l] = k]
  <2>1. k = [link[l] EXCEPT !.up = FALSE, !.asked = <<>>]
    BY <1>1, <1>3
  <2> QED BY <1>2, <2>1
<1>6. (Stuck(o) => Stuck(k)) /\ (Drained(o) => Drained(k))
  BY <1>4 DEF Stuck, Drained
<1>7. ASSUME NEW n, Expecting(o, n) PROVE Expecting(k, n)
  BY <1>4, <1>7 DEF Expecting, Drained
<1>8. \A n : Stuck(link[l]) \/ Expecting(link[l], n) => Stuck(k) \/ Expecting(k, n)
  BY <1>1, <1>6, <1>7
<1>9. k.made = link[l].made /\ (Settled(link[l]) => Settled(k))
  BY <1>1, <1>4, <1>6 DEF Settled
<1> QED BY <1>2, <1>4, <1>5, <1>8, <1>9, ServerStep

LEMMA RedisInvInit == RedisInit => RedisInv
<1> SUFFICES ASSUME RedisInit PROVE RedisInv
  OBVIOUS
<1>1. NoLink \in LinkRecords
  BY EmptySeq DEF NoLink, LinkRecords
<1>2. NoTask \in TaskRecords /\ NoTask.link = {} /\ NoTask.at = "idle"
  BY DEF NoTask, TaskRecords
<1>3. idle \in Seq(Links) /\ Len(idle) = 0 /\ DOMAIN idle = {}
  BY EmptySeq DEF RedisInit
<1>4. RedisTypes
  BY <1>1, <1>2, <1>3 DEF RedisInit, RedisTypes
<1>5. \A c \in RedisCallers : task[c] = NoTask
  BY DEF RedisInit
<1>6. OwnReply
  BY <1>2, <1>3, <1>5 DEF RedisInit, OwnReply
<1>7. \A c \in RedisCallers : Held(task[c], link)
  BY <1>2, <1>5 DEF Held
<1> QED BY <1>3, <1>4, <1>6, <1>7 DEF RedisInv

LEMMA RedisInvNext == RedisInv /\ [RedisNext]_redisVars => RedisInv'
<1> SUFFICES ASSUME RedisInv, [RedisNext]_redisVars PROVE RedisInv'
  OBVIOUS
<1>1. ASSUME NEW c \in RedisCallers, NEW n \in 1 .. 2, Checkout(c, n) \/ Dial(c, n) PROVE RedisInv'
  BY <1>1, CheckoutStep, DialStep
<1>2. ASSUME NEW c \in RedisCallers, Write(c) \/ ReadValue(c) \/ ReadError(c) \/ Broken(c) PROVE RedisInv'
  BY <1>2, WriteCommand, ReadValueStep, ReadErrorStep, BrokenStep
<1>3. ASSUME NEW c \in RedisCallers, Succeed(c) \/ FailCall(c) \/ Cancel(c) PROVE RedisInv'
  BY <1>3, EndStep
<1>4. ASSUME NEW l \in Links, Disconnect(l) \/ \E v \in BOOLEAN : Answer(l, v) PROVE RedisInv'
  BY <1>4, DisconnectStep, AnswerStep
<1>5. CASE UNCHANGED redisVars
  BY <1>5 DEF redisVars, RedisInv, RedisTypes, OwnReply, Held, Stuck, Expecting, Drained, Settled
<1> QED BY <1>1, <1>2, <1>3, <1>4, <1>5 DEF RedisNext

\* Whoever shares the pool, however calls are cancelled, connections break and the server
\* refuses, a connection is never in two hands and no caller is given the value that answers
\* another's command (Pool::with, Connection::read_reply and RedisBanStore's check-in).
THEOREM RepliesBelong == RedisSpec => []OwnReply
<1>1. RedisInv => OwnReply
  BY DEF RedisInv
<1> QED BY RedisInvInit, RedisInvNext, <1>1, PTL DEF RedisSpec

-----------------------------------------------------------------------------
(* Who is here now.                                                        *)
Halves == [who : Visitors, at : Nat]

PresenceTypes ==
    /\ time \in 1 .. LastTime /\ last \in [Visitors -> Nat] /\ data \in [Visitors -> Nat]
    /\ begun \in [Visitors -> Nat] /\ complete \in [Visitors -> Nat]
    /\ recorder \in [Recorders -> SUBSET Halves] /\ reader \in [Readers -> Nat]

\* A beat is recorded at most ClockLag before it was made; only a prune, of what is
\* older than the window, or leaving removes it.
Recorded(v) ==
    /\ complete[v] <= begun[v] /\ begun[v] <= time
    /\ last[v] # 0 => last[v] <= begun[v] /\ begun[v] <= last[v] + ClockLag
    /\ begun[v] # 0 /\ last[v] = 0 => begun[v] + OnlineWindow < time + ClockLag

\* The record of a completed beat expires no earlier than a window after it.
Backed(v) == tracker = "activity" /\ complete[v] # 0 => complete[v] + OnlineWindow <= data[v]

\* A beat half recorded is among those begun.
HalvesOK ==
    \A r \in Recorders : \A w \in recorder[r] : tracker = "activity" /\ w.at <= begun[w.who] /\ w.at <= time

\* A reader has pruned what had left its window when it began.
PrunedFor(r) ==
    /\ reader[r] <= time
    /\ reader[r] # 0 => \A v \in Visitors : last[v] # 0 => reader[r] <= begun[v] + OnlineWindow

PresenceInv ==
    /\ PresenceTypes /\ HalvesOK
    /\ \A v \in Visitors : Recorded(v) /\ Backed(v)
    /\ \A r \in Readers : PrunedFor(r)

LEMMA PresenceInitial == PresenceInit => PresenceInv
<1> SUFFICES ASSUME PresenceInit PROVE PresenceInv
  OBVIOUS
<1>1. time = 1 /\ 1 \in 1 .. LastTime
  BY PresenceAssumption DEF PresenceInit
<1>2. PresenceTypes
  BY <1>1 DEF PresenceInit, PresenceTypes
<1>3. HalvesOK
  BY DEF PresenceInit, HalvesOK
<1>4. ASSUME NEW v \in Visitors PROVE Recorded(v) /\ Backed(v)
  BY <1>1 DEF PresenceInit, Recorded, Backed
<1>5. ASSUME NEW r \in Readers PROVE PrunedFor(r)
  BY <1>1 DEF PresenceInit, PrunedFor
<1> QED  BY <1>2, <1>3, <1>4, <1>5 DEF PresenceInv

LEMMA LaterOfTwo ==
    ASSUME NEW a \in Nat, NEW b \in Nat
    PROVE  Max({a, b}) \in {a, b} /\ a <= Max({a, b}) /\ b <= Max({a, b})
<1>1. CASE a <= b
  <2>1. b \in {a, b} /\ \A y \in {a, b} : b >= y
    BY <1>1
  <2> QED  BY <2>1 DEF Max
<1>2. CASE b <= a
  <2>1. a \in {a, b} /\ \A y \in {a, b} : a >= y
    BY <1>2
  <2> QED  BY <2>1 DEF Max
<1> QED  BY <1>1, <1>2

\* A caller's clock reading.
LEMMA LaggingIs ==
    ASSUME PresenceTypes, NEW t \in Lagging
    PROVE  t \in Nat \ {0} /\ t <= time /\ time <= t + ClockLag /\ time \in Nat
BY PresenceAssumption DEF PresenceTypes, Lagging

\* Moving the start of v's latest beat to the present keeps what readers rely on.
LEMMA BeatStep ==
    ASSUME PresenceInv, NEW v \in Visitors, NEW t \in Lagging,
           last' = [last EXCEPT ![v] = t], begun' = [begun EXCEPT ![v] = time], UNCHANGED <<tracker, time, data, reader>>
    PROVE  /\ \A u \in Visitors : last'[u] = (IF u = v THEN t ELSE last[u]) /\ begun'[u] = (IF u = v THEN time ELSE begun[u])
           /\ last' \in [Visitors -> Nat] /\ begun' \in [Visitors -> Nat]
           /\ \A u \in Visitors : complete'[u] <= begun'[u] /\ (u # v => complete'[u] = complete[u]) => Recorded(u)'
           /\ \A r \in Readers : PrunedFor(r)'
<1>1. t \in Nat \ {0} /\ t <= time /\ time <= t + ClockLag /\ time \in Nat
  BY LaggingIs DEF PresenceInv
<1>2. /\ last \in [Visitors -> Nat] /\ begun \in [Visitors -> Nat] /\ reader \in [Readers -> Nat]
      /\ complete \in [Visitors -> Nat]
  BY DEF PresenceInv, PresenceTypes
<1>3. \A u \in Visitors : last'[u] = (IF u = v THEN t ELSE last[u]) /\ begun'[u] = (IF u = v THEN time ELSE begun[u])
  BY <1>2
<1>4. last' \in [Visitors -> Nat] /\ begun' \in [Visitors -> Nat]
  BY <1>1, <1>2
<1>5. ASSUME NEW u \in Visitors, complete'[u] <= begun'[u], u # v => complete'[u] = complete[u] PROVE Recorded(u)'
  <2>1. CASE u = v
    <3>1. last'[u] = t /\ begun'[u] = time /\ time' = time
      BY <1>3, <2>1
    <3> QED  BY <1>1, <1>5, <3>1 DEF Recorded
  <2>2. CASE u # v
    <3>1. last'[u] = last[u] /\ begun'[u] = begun[u] /\ complete'[u] = complete[u] /\ time' = time
      BY <1>3, <1>5, <2>2
    <3> QED  BY <3>1 DEF PresenceInv, Recorded
  <2> QED  BY <2>1, <2>2
<1>6. ASSUME NEW r \in Readers PROVE PrunedFor(r)'
  <2>1. reader'[r] = reader[r] /\ reader[r] \in Nat /\ reader[r] <= time /\ time' = time /\ OnlineWindow \in Nat
    BY <1>2, PresenceAssumption DEF PresenceInv, PrunedFor
  <2>2. ASSUME NEW u \in Visitors, reader[r] # 0, last'[u] # 0 PROVE reader[r] <= begun'[u] + OnlineWindow
    <3>1. CASE u = v
      BY <1>1, <1>3, <2>1, <3>1
    <3>2. CASE u # v
      BY <1>3, <2>2, <3>2 DEF PresenceInv, PrunedFor
    <3> QED  BY <3>1, <3>2
  <2> QED  BY <2>1, <2>2 DEF PrunedFor
<1> QED  BY <1>3, <1>4, <1>5, <1>6

LEMMA SinceIs ==
    ASSUME NEW t \in Nat, NEW x \in Nat
    PROVE  /\ x < Since(t) => x + OnlineWindow < t
           /\ ~(x < Since(t)) => t <= x + OnlineWindow
<1>1. OnlineWindow \in Nat
  BY PresenceAssumption
<1>2. CASE t > OnlineWindow
  <2>1. Since(t) = t - OnlineWindow
    BY <1>2 DEF Since
  <2> QED  BY <1>1, <1>2, <2>1
<1>3. CASE ~(t > OnlineWindow)
  <2>1. Since(t) = 0
    BY <1>3 DEF Since
  <2> QED  BY <1>1, <1>3, <2>1
<1> QED  BY <1>2, <1>3

\* A prune for a reader whose clock says t.
LEMMA PruneKeeps ==
    ASSUME PresenceInv, NEW t \in Lagging, last' = Pruned(t), UNCHANGED <<tracker, time, data, begun, complete>>
    PROVE  /\ last' \in [Visitors -> Nat]
           /\ \A u \in Visitors : /\ Recorded(u)' /\ Backed(u)'
                                  /\ last'[u] # 0 => last[u] # 0 /\ t <= begun[u] + OnlineWindow
<1>1. t \in Nat \ {0} /\ t <= time /\ time <= t + ClockLag /\ time \in Nat
  BY LaggingIs DEF PresenceInv
<1>2. last \in [Visitors -> Nat] /\ begun \in [Visitors -> Nat] /\ OnlineWindow \in Nat /\ ClockLag \in Nat
  BY PresenceAssumption DEF PresenceInv, PresenceTypes
<1>3. \A u \in Visitors : last'[u] = IF last[u] < Since(t) THEN 0 ELSE last[u]
  BY DEF Pruned
<1>4. last' \in [Visitors -> Nat]
  BY <1>2 DEF Pruned
<1>5. ASSUME NEW u \in Visitors
      PROVE  Recorded(u)' /\ (last'[u] # 0 => last[u] # 0 /\ t <= begun[u] + OnlineWindow)
  <2>1. PICK x \in Nat : x = last[u]
    BY <1>2
  <2>2. PICK y \in Nat : y = begun[u]
    BY <1>2
  <2>3. /\ complete[u] <= y /\ y <= time /\ (x # 0 => x <= y /\ y <= x + ClockLag)
        /\ y # 0 /\ x = 0 => y + OnlineWindow < time + ClockLag
    BY <2>1, <2>2 DEF PresenceInv, Recorded
  <2>4. CASE x < Since(t)
    <3>1. last'[u] = 0 /\ x + OnlineWindow < t
      BY <1>1, <1>3, <2>1, <2>4, SinceIs
    <3>2. y # 0 => y + OnlineWindow < time + ClockLag
      BY <1>1, <1>2, <2>3, <3>1
    <3> QED  BY <2>2, <2>3, <3>1, <3>2 DEF Recorded
  <2>5. CASE ~(x < Since(t))
    <3>1. last'[u] = x /\ t <= x + OnlineWindow
      BY <1>1, <1>3, <2>1, <2>5, SinceIs
    <3>2. x # 0 => t <= y + OnlineWindow
      BY <1>1, <1>2, <2>3, <3>1
    <3> QED  BY <2>1, <2>2, <2>3, <3>1, <3>2 DEF Recorded
  <2> QED  BY <2>4, <2>5
<1>6. ASSUME NEW u \in Visitors PROVE Backed(u)'
  BY DEF PresenceInv, Backed
<1> QED  BY <1>4, <1>5, <1>6

LEMMA HeartbeatStep == ASSUME PresenceInv, NEW v \in Visitors, NEW t \in Lagging, Heartbeat(v, t) PROVE PresenceInv'
<1>1. /\ tracker # "activity" /\ last' = [last EXCEPT ![v] = t] /\ begun' = [begun EXCEPT ![v] = time]
      /\ complete' = [complete EXCEPT ![v] = time] /\ UNCHANGED <<tracker, time, data, recorder, reader>>
  BY DEF Heartbeat
<1>2. complete \in [Visitors -> Nat] /\ begun \in [Visitors -> Nat] /\ time \in Nat
  BY PresenceAssumption DEF PresenceInv, PresenceTypes
<1>3. /\ \A u \in Visitors : begun'[u] = IF u = v THEN time ELSE begun[u]
      /\ last' \in [Visitors -> Nat] /\ begun' \in [Visitors -> Nat]
      /\ \A u \in Visitors : complete'[u] <= begun'[u] /\ (u # v => complete'[u] = complete[u]) => Recorded(u)'
      /\ \A r \in Readers : PrunedFor(r)'
  BY <1>1, BeatStep
<1>4. ASSUME NEW u \in Visitors PROVE Recorded(u)' /\ Backed(u)'
  <2>1. complete'[u] = IF u = v THEN time ELSE complete[u]
    BY <1>1, <1>2
  <2>2. complete[u] <= begun[u]
    BY DEF PresenceInv, Recorded
  <2>3. complete'[u] <= begun'[u]
    BY <1>2, <1>3, <2>1, <2>2
  <2> QED  BY <1>1, <1>3, <2>1, <2>3 DEF Backed
<1>5. HalvesOK'
  <2>1. ASSUME NEW r \in Recorders, NEW w \in recorder[r] PROVE FALSE
    BY <1>1 DEF PresenceInv, HalvesOK
  <2> QED  BY <1>1, <2>1 DEF HalvesOK
<1>6. PresenceTypes'
  BY <1>1, <1>2, <1>3 DEF PresenceInv, PresenceTypes
<1> QED  BY <1>3, <1>4, <1>5, <1>6 DEF PresenceInv

LEMMA RecordIndexStep ==
    ASSUME PresenceInv, NEW r \in Recorders, NEW v \in Visitors, NEW t \in Lagging, RecordIndex(r, v, t)
    PROVE  PresenceInv'
<1>1. PICK h : h = [who |-> v, at |-> time]
  OBVIOUS
<1>2. /\ tracker = "activity" /\ last' = [last EXCEPT ![v] = t] /\ begun' = [begun EXCEPT ![v] = time]
      /\ recorder' = [recorder EXCEPT ![r] = {h}] /\ UNCHANGED <<tracker, time, data, reader, complete>>
  BY <1>1 DEF RecordIndex
<1>3. /\ complete \in [Visitors -> Nat] /\ begun \in [Visitors -> Nat] /\ time \in Nat
      /\ recorder \in [Recorders -> SUBSET Halves]
  BY PresenceAssumption DEF PresenceInv, PresenceTypes
<1>4. /\ \A u \in Visitors : begun'[u] = IF u = v THEN time ELSE begun[u]
      /\ last' \in [Visitors -> Nat] /\ begun' \in [Visitors -> Nat]
      /\ \A u \in Visitors : complete'[u] <= begun'[u] /\ (u # v => complete'[u] = complete[u]) => Recorded(u)'
      /\ \A s \in Readers : PrunedFor(s)'
  BY <1>2, BeatStep
<1>5. ASSUME NEW u \in Visitors PROVE Recorded(u)' /\ Backed(u)'
  <2>1. complete[u] \in Nat /\ begun[u] \in Nat /\ complete[u] <= begun[u] /\ begun[u] <= time
    BY <1>3 DEF PresenceInv, Recorded
  <2>2. complete'[u] <= begun'[u] /\ complete'[u] = complete[u]
    BY <1>2, <1>3, <1>4, <2>1
  <2> QED  BY <1>2, <1>4, <2>2 DEF PresenceInv, Backed
<1>6. h \in Halves /\ h.who = v /\ h.at = time
  BY <1>1, <1>3 DEF Halves
<1>7. /\ recorder' \in [Recorders -> SUBSET Halves]
      /\ \A s \in Recorders : recorder'[s] = IF s = r THEN {h} ELSE recorder[s]
  BY <1>2, <1>3, <1>6
<1>8. ASSUME NEW s \in Recorders, NEW w \in recorder'[s] PROVE w.at <= begun'[w.who] /\ w.at <= time'
  <2>1. CASE s = r
    BY <1>2, <1>3, <1>4, <1>6, <1>7, <2>1
  <2>2. CASE s # r
    <3>1. w \in recorder[s] /\ w \in Halves
      BY <1>3, <1>7, <2>2
    <3>2. w.who \in Visitors /\ w.at \in Nat /\ w.at <= begun[w.who] /\ w.at <= time
      BY <3>1 DEF Halves, PresenceInv, HalvesOK
    <3> QED  BY <1>2, <1>3, <1>4, <3>2
  <2> QED  BY <2>1, <2>2
<1>9. HalvesOK'
  BY <1>2, <1>8 DEF HalvesOK
<1>10. PresenceTypes'
  BY <1>2, <1>3, <1>4, <1>7 DEF PresenceInv, PresenceTypes
<1> QED  BY <1>4, <1>5, <1>9, <1>10 DEF PresenceInv

LEMMA RecordDataStep == ASSUME PresenceInv, NEW r \in Recorders, RecordData(r) PROVE PresenceInv'
<1>1. /\ recorder \in [Recorders -> SUBSET Halves] /\ time \in Nat /\ data \in [Visitors -> Nat]
      /\ complete \in [Visitors -> Nat] /\ begun \in [Visitors -> Nat] /\ OnlineWindow \in Nat
  BY PresenceAssumption DEF PresenceInv, PresenceTypes
<1>2. PICK w \in recorder[r] : /\ data' = [data EXCEPT ![w.who] = time + Max({OnlineWindow, 1})]
                               /\ complete' = [complete EXCEPT ![w.who] = Max({@, w.at})]
  BY DEF RecordData
<1>3. recorder' = [recorder EXCEPT ![r] = {}] /\ UNCHANGED <<tracker, time, last, reader, begun>>
  BY DEF RecordData
<1>4. PICK v \in Visitors : v = w.who
  BY <1>1 DEF Halves
<1>5. PICK a \in Nat : a = w.at
  BY <1>1 DEF Halves
<1>6. tracker = "activity" /\ a <= begun[v] /\ a <= time
  BY <1>4, <1>5 DEF PresenceInv, HalvesOK
<1>7. PICK c \in Nat : c = complete[v]
  BY <1>1
<1>8. PICK m : m = Max({c, a})
  OBVIOUS
<1>9. m \in Nat /\ (m = c \/ m = a)
  BY <1>8, LaterOfTwo
<1>10. PICK k : k = Max({OnlineWindow, 1})
  OBVIOUS
<1>11. k \in Nat /\ OnlineWindow <= k
  BY <1>1, <1>10, LaterOfTwo
<1>12. data' = [data EXCEPT ![v] = time + k] /\ complete' = [complete EXCEPT ![v] = m]
  BY <1>2, <1>4, <1>5, <1>7, <1>8, <1>10
<1>13. /\ data' \in [Visitors -> Nat] /\ complete' \in [Visitors -> Nat]
       /\ \A u \in Visitors : /\ data'[u] = IF u = v THEN time + k ELSE data[u]
                              /\ complete'[u] = IF u = v THEN m ELSE complete[u]
  BY <1>1, <1>9, <1>11, <1>12
<1>14. c <= begun[v] /\ begun[v] <= time /\ begun[v] \in Nat
  BY <1>1, <1>7 DEF PresenceInv, Recorded
<1>15. m <= begun[v] /\ m <= time
  BY <1>1, <1>6, <1>9, <1>14
<1>16. ASSUME NEW u \in Visitors PROVE Recorded(u)' /\ Backed(u)'
  <2>1. CASE u = v
    <3>1. complete'[u] = m /\ data'[u] = time + k /\ begun'[u] = begun[v] /\ last'[u] = last[u]
      BY <1>3, <1>13, <2>1
    <3>2. Recorded(u)'
      BY <1>3, <1>15, <2>1, <3>1 DEF PresenceInv, Recorded
    <3>3. Backed(u)'
      <4>1. m + OnlineWindow <= time + k
        BY <1>1, <1>9, <1>11, <1>15
      <4> QED  BY <3>1, <4>1 DEF Backed
    <3> QED  BY <3>2, <3>3
  <2>2. CASE u # v
    <3>1. complete'[u] = complete[u] /\ data'[u] = data[u]
      BY <1>13, <2>2
    <3> QED  BY <1>3, <3>1 DEF PresenceInv, Recorded, Backed
  <2> QED  BY <2>1, <2>2
<1>17. /\ recorder' \in [Recorders -> SUBSET Halves]
       /\ \A s \in Recorders : recorder'[s] \subseteq recorder[s]
  BY <1>1, <1>3
<1>18. HalvesOK'
  BY <1>3, <1>17 DEF PresenceInv, HalvesOK
<1>19. PresenceTypes'
  BY <1>3, <1>13, <1>17 DEF PresenceInv, PresenceTypes
<1>20. \A s \in Readers : PrunedFor(s)'
  BY <1>3 DEF PresenceInv, PrunedFor
<1> QED  BY <1>16, <1>18, <1>19, <1>20 DEF PresenceInv

LEMMA ForgetStep == ASSUME PresenceInv, NEW v \in Visitors, Forget(v) PROVE PresenceInv'
<1>1. /\ tracker = "devices" /\ last' = [last EXCEPT ![v] = 0] /\ begun' = [begun EXCEPT ![v] = 0]
      /\ complete' = [complete EXCEPT ![v] = 0] /\ UNCHANGED <<tracker, time, data, recorder, reader>>
  BY DEF Forget
<1>2. /\ last \in [Visitors -> Nat] /\ begun \in [Visitors -> Nat] /\ complete \in [Visitors -> Nat]
      /\ time \in Nat
  BY PresenceAssumption DEF PresenceInv, PresenceTypes
<1>3. /\ last' \in [Visitors -> Nat] /\ begun' \in [Visitors -> Nat] /\ complete' \in [Visitors -> Nat]
      /\ \A u \in Visitors : /\ last'[u] = IF u = v THEN 0 ELSE last[u]
                             /\ begun'[u] = IF u = v THEN 0 ELSE begun[u]
                             /\ complete'[u] = IF u = v THEN 0 ELSE complete[u]
  BY <1>1, <1>2
<1>4. PresenceTypes'
  BY <1>1, <1>3 DEF PresenceInv, PresenceTypes
<1>5. ASSUME NEW u \in Visitors PROVE Recorded(u)' /\ Backed(u)'
  <2>1. CASE u = v
    BY <1>1, <1>2, <1>3, <2>1 DEF Recorded, Backed
  <2>2. CASE u # v
    <3>1. last'[u] = last[u] /\ begun'[u] = begun[u] /\ complete'[u] = complete[u]
      BY <1>3, <2>2
    <3> QED  BY <1>1, <3>1 DEF PresenceInv, Recorded, Backed
  <2> QED  BY <2>1, <2>2
<1>6. HalvesOK'
  BY <1>1 DEF PresenceInv, HalvesOK
<1>7. ASSUME NEW r \in Readers PROVE PrunedFor(r)'
  <2>1. ASSUME NEW u \in Visitors, reader[r] # 0, last'[u] # 0 PROVE reader[r] <= begun'[u] + OnlineWindow
    <3>1. last'[u] = last[u] /\ begun'[u] = begun[u]
      BY <1>3, <2>1
    <3> QED  BY <2>1, <3>1 DEF PresenceInv, PrunedFor
  <2> QED  BY <1>1, <2>1 DEF PresenceInv, PrunedFor
<1> QED  BY <1>4, <1>5, <1>6, <1>7 DEF PresenceInv

LEMMA PruneStep == ASSUME PresenceInv, NEW r \in Readers, NEW t \in Lagging, Prune(r, t) PROVE PresenceInv'
<1>1. /\ last' = Pruned(t) /\ reader' = [reader EXCEPT ![r] = t]
      /\ UNCHANGED <<tracker, time, data, recorder, begun, complete>>
  BY DEF Prune
<1>2. t \in Nat \ {0} /\ t <= time /\ reader \in [Readers -> Nat]
  BY LaggingIs DEF PresenceInv, PresenceTypes
<1>3. /\ last' \in [Visitors -> Nat]
      /\ \A u \in Visitors : /\ Recorded(u)' /\ Backed(u)'
                             /\ last'[u] # 0 => last[u] # 0 /\ t <= begun[u] + OnlineWindow
  BY <1>1, PruneKeeps
<1>4. reader' \in [Readers -> Nat] /\ \A s \in Readers : reader'[s] = IF s = r THEN t ELSE reader[s]
  BY <1>2, <1>1
<1>5. PresenceTypes' /\ HalvesOK'
  BY <1>1, <1>3, <1>4 DEF PresenceInv, PresenceTypes, HalvesOK
<1>6. ASSUME NEW s \in Readers PROVE PrunedFor(s)'
  <2>1. CASE s = r
    BY <1>1, <1>2, <1>3, <1>4, <2>1 DEF PrunedFor
  <2>2. CASE s # r
    BY <1>1, <1>3, <1>4, <2>2 DEF PresenceInv, PrunedFor
  <2> QED  BY <2>1, <2>2
<1> QED  BY <1>3, <1>5, <1>6 DEF PresenceInv

LEMMA OnlineMemoryStep == ASSUME PresenceInv, NEW t \in Lagging, OnlineMemory(t) PROVE PresenceInv'
<1>1. last' = Pruned(t) /\ UNCHANGED <<tracker, time, data, recorder, reader, begun, complete>>
  BY DEF OnlineMemory
<1>2. /\ last' \in [Visitors -> Nat]
      /\ \A u \in Visitors : /\ Recorded(u)' /\ Backed(u)'
                             /\ last'[u] # 0 => last[u] # 0 /\ t <= begun[u] + OnlineWindow
  BY <1>1, PruneKeeps
<1>3. PresenceTypes' /\ HalvesOK'
  BY <1>1, <1>2 DEF PresenceInv, PresenceTypes, HalvesOK
<1>4. ASSUME NEW r \in Readers PROVE PrunedFor(r)'
  BY <1>1, <1>2 DEF PresenceInv, PrunedFor
<1> QED  BY <1>2, <1>3, <1>4 DEF PresenceInv

LEMMA PresenceTickStep == ASSUME PresenceInv, PresenceTick PROVE PresenceInv'
<1>1. time' = time + 1 /\ time' \in 1 .. LastTime /\ time \in Nat
      /\ UNCHANGED <<tracker, last, data, recorder, reader, begun, complete>>
  BY PresenceAssumption DEF PresenceTick, PresenceInv, PresenceTypes
<1>2. /\ begun \in [Visitors -> Nat] /\ last \in [Visitors -> Nat] /\ reader \in [Readers -> Nat]
      /\ recorder \in [Recorders -> SUBSET Halves] /\ OnlineWindow \in Nat /\ ClockLag \in Nat
  BY PresenceAssumption DEF PresenceInv, PresenceTypes
<1>3. PresenceTypes'
  BY <1>1 DEF PresenceInv, PresenceTypes
<1>4. ASSUME NEW r \in Recorders, NEW w \in recorder[r] PROVE tracker = "activity" /\ w.at <= begun[w.who] /\ w.at <= time'
  <2>1. w.at \in Nat /\ tracker = "activity" /\ w.at <= begun[w.who] /\ w.at <= time
    BY <1>2 DEF PresenceInv, HalvesOK, Halves
  <2> QED  BY <1>1, <2>1
<1>5. HalvesOK'
  BY <1>1, <1>4 DEF HalvesOK
<1>6. ASSUME NEW u \in Visitors PROVE Recorded(u)' /\ Backed(u)'
  <2>1. begun[u] \in Nat /\ last[u] \in Nat
    BY <1>2
  <2>2. Recorded(u) /\ Backed(u)
    BY DEF PresenceInv
  <2>3. Recorded(u)'
    BY <1>1, <1>2, <2>1, <2>2 DEF Recorded
  <2> QED  BY <1>1, <2>2, <2>3 DEF Backed
<1>7. ASSUME NEW r \in Readers PROVE PrunedFor(r)'
  <2>1. reader[r] \in Nat /\ PrunedFor(r)
    BY <1>2 DEF PresenceInv
  <2>2. reader[r] <= time'
    BY <1>1, <2>1 DEF PrunedFor
  <2> QED  BY <1>1, <2>1, <2>2 DEF PrunedFor
<1> QED  BY <1>3, <1>5, <1>6, <1>7 DEF PresenceInv

LEMMA PresenceStep == PresenceInv /\ [PresenceNext]_presenceVars => PresenceInv'
<1> SUFFICES ASSUME PresenceInv, [PresenceNext]_presenceVars PROVE PresenceInv'
  OBVIOUS
<1>1. ASSUME NEW r \in Recorders, RecordError(r) PROVE PresenceInv'
  <2>1. /\ recorder' = [recorder EXCEPT ![r] = {}]
        /\ UNCHANGED <<tracker, time, last, data, reader, begun, complete>>
    BY <1>1 DEF RecordError
  <2>2. recorder' \in [Recorders -> SUBSET Halves] /\ \A s \in Recorders : recorder'[s] \subseteq recorder[s]
    BY <2>1 DEF PresenceInv, PresenceTypes
  <2>3. PresenceTypes' /\ HalvesOK'
    BY <2>1, <2>2 DEF PresenceInv, PresenceTypes, HalvesOK
  <2> QED  BY <2>1, <2>3 DEF PresenceInv, Recorded, Backed, PrunedFor
<1>2. ASSUME NEW r \in Readers, List(r) PROVE PresenceInv'
  <2>1. reader' = [reader EXCEPT ![r] = 0] /\ UNCHANGED <<tracker, time, last, data, recorder, begun, complete>>
    BY <1>2 DEF List
  <2>2. reader \in [Readers -> Nat] /\ time \in Nat
    BY PresenceAssumption DEF PresenceInv, PresenceTypes
  <2>3. reader' \in [Readers -> Nat] /\ \A s \in Readers : reader'[s] = IF s = r THEN 0 ELSE reader[s]
    BY <2>1, <2>2
  <2>4. PresenceTypes' /\ HalvesOK'
    BY <2>1, <2>3 DEF PresenceInv, PresenceTypes, HalvesOK
  <2>5. ASSUME NEW s \in Readers PROVE PrunedFor(s)'
    BY <2>1, <2>2, <2>3 DEF PresenceInv, PrunedFor
  <2> QED  BY <2>1, <2>4, <2>5 DEF PresenceInv, Recorded, Backed
<1>3. CASE UNCHANGED presenceVars
  <2>1. UNCHANGED <<tracker, time, last, data, recorder, reader, begun, complete>>
    BY <1>3 DEF presenceVars
  <2> QED  BY <2>1 DEF PresenceInv, PresenceTypes, HalvesOK, Recorded, Backed, PrunedFor
<1> QED
  BY <1>1, <1>2, <1>3, HeartbeatStep, RecordIndexStep, RecordDataStep, ForgetStep, PruneStep, OnlineMemoryStep,
     PresenceTickStep DEF PresenceNext

LEMMA PresenceHoldsThen == PresenceInv => PresenceTypeOK /\ PresenceWindow
<1> SUFFICES ASSUME PresenceInv PROVE PresenceTypeOK /\ PresenceWindow
  OBVIOUS
<1>1. /\ time \in 1 .. LastTime /\ time \in Nat /\ OnlineWindow \in Nat /\ ClockLag \in Nat
      /\ last \in [Visitors -> Nat] /\ begun \in [Visitors -> Nat] /\ complete \in [Visitors -> Nat]
      /\ data \in [Visitors -> Nat] /\ reader \in [Readers -> Nat]
  BY PresenceAssumption DEF PresenceInv, PresenceTypes
<1>2. ASSUME NEW v \in Visitors PROVE last[v] \in 0 .. time /\ complete[v] <= begun[v] /\ begun[v] <= time
  <2>1. last[v] \in Nat /\ begun[v] \in Nat /\ Recorded(v)
    BY <1>1 DEF PresenceInv
  <2> QED  BY <1>1, <2>1 DEF Recorded
<1>3. ASSUME NEW v \in Visitors, complete[v] # 0, time + ClockLag < complete[v] + OnlineWindow
      PROVE  last[v] # 0 /\ time < last[v] + OnlineWindow /\ (tracker = "activity" => time < data[v])
  <2>1. last[v] \in Nat /\ begun[v] \in Nat /\ complete[v] \in Nat /\ data[v] \in Nat /\ Recorded(v) /\ Backed(v)
    BY <1>1 DEF PresenceInv
  <2>2. time + ClockLag < begun[v] + OnlineWindow /\ begun[v] # 0
    BY <1>1, <1>3, <2>1 DEF Recorded
  <2>3. last[v] # 0
    BY <1>1, <2>1, <2>2 DEF Recorded
  <2>4. begun[v] <= last[v] + ClockLag
    BY <2>1, <2>3 DEF Recorded
  <2>5. time < last[v] + OnlineWindow
    BY <1>1, <2>1, <2>2, <2>4
  <2>6. tracker = "activity" => complete[v] + OnlineWindow <= data[v]
    BY <1>3, <2>1 DEF Backed
  <2>7. tracker = "activity" => time < data[v]
    BY <1>1, <1>3, <2>1, <2>6
  <2> QED  BY <2>3, <2>5, <2>7
<1>4. ASSUME NEW v \in Visitors, complete[v] # 0, time + ClockLag < complete[v] + OnlineWindow,
             NEW t \in Nat, t <= time
      PROVE  last[v] >= Since(t)
  <2>1. last[v] \in Nat /\ time < last[v] + OnlineWindow
    BY <1>1, <1>3, <1>4
  <2>2. ~(last[v] < Since(t))
    BY <1>1, <1>4, <2>1, SinceIs
  <2>3. Since(t) \in Nat
    BY <1>1 DEF Since
  <2> QED  BY <2>1, <2>2, <2>3
<1>5. ASSUME NEW v \in Visitors, complete[v] # 0, time + ClockLag < complete[v] + OnlineWindow
      PROVE  /\ \A t \in Lagging : IsOnline(v, t)
             /\ \A r \in Readers : reader[r] # 0 => v \in Listed(r)
  <2>1. ASSUME NEW t \in Lagging PROVE IsOnline(v, t)
    <3>1. t \in Nat /\ t <= time
      BY LaggingIs DEF PresenceInv
    <3> QED  BY <1>3, <1>4, <1>5, <3>1 DEF IsOnline
  <2>2. ASSUME NEW r \in Readers, reader[r] # 0 PROVE v \in Listed(r)
    <3>1. reader[r] \in Nat /\ reader[r] <= time
      BY <1>1 DEF PresenceInv, PrunedFor
    <3>2. last[v] # 0 /\ last[v] >= Since(reader[r]) /\ (tracker = "activity" => time < data[v]) /\ data[v] \in Nat
      BY <1>1, <1>3, <1>4, <1>5, <3>1
    <3>3. tracker = "activity" => data[v] > time
      BY <1>1, <3>2
    <3> QED  BY <3>2, <3>3 DEF Listed
  <2> QED  BY <2>1, <2>2
<1>6. ASSUME NEW r \in Readers, reader[r] # 0, NEW v \in Listed(r)
      PROVE  begun[v] # 0 /\ begun[v] + OnlineWindow >= reader[r]
  <2>1. v \in Visitors /\ last[v] # 0
    BY DEF Listed
  <2>2. last[v] \in Nat /\ begun[v] \in Nat /\ reader[r] \in Nat /\ Recorded(v) /\ PrunedFor(r)
    BY <1>1, <2>1 DEF PresenceInv
  <2>3. reader[r] <= begun[v] + OnlineWindow
    BY <1>6, <2>1, <2>2 DEF PrunedFor
  <2>4. last[v] <= begun[v]
    BY <2>1, <2>2 DEF Recorded
  <2>5. begun[v] # 0
    BY <2>1, <2>2, <2>4
  <2> QED  BY <1>1, <2>2, <2>3, <2>5
<1> QED  BY <1>1, <1>2, <1>5, <1>6 DEF PresenceTypeOK, PresenceWindow

-----------------------------------------------------------------------------
(* The cache.                                                              *)
Loadings == [at : {"idle", "load", "put"}, key : {{}} \cup {{k} : k \in CacheKeys}, value : Nat]

CacheTypes ==
    /\ CacheTypeOK /\ crossed \subseteq CacheKeys
    /\ source \in [CacheKeys -> Nat] /\ extra \in Nat /\ loading \in [Loaders -> Loadings]

\* What value k is entitled to, in an entry and in the hands of a loader.
Current(k, v) == v = source[k] \/ k \in writing \/ k \in crossed

CacheInv ==
    /\ CacheTypes
    /\ \A k \in Present : Current(k, entries[k].value)
    /\ \A l \in Loaders : loading[l].at = "put" => \A k \in loading[l].key : Current(k, loading[l].value)
    /\ CacheBounded

LEMMA CacheInitial == CacheInit => CacheInv
<1> SUFFICES ASSUME CacheInit PROVE CacheInv
  OBVIOUS
<1>1. Present = {}
  BY DEF CacheInit, Present
<1>2. CacheTypes
  <2>1. NotLoading \in Loadings
    BY DEF NotLoading, Loadings
  <2>2. instant \in 0 .. LastInstant
    BY CacheAssumption DEF CacheInit
  <2> QED  BY <1>1, <2>1, <2>2 DEF CacheInit, CacheTypes, CacheTypeOK
<1>3. CacheBounded
  BY <1>1, CacheAssumption, FS_EmptySet DEF CacheInit, CacheBounded
<1> QED  BY <1>1, <1>2, <1>3 DEF CacheInv, CacheInit, NotLoading

\* Fewer keys are within the same bound.
LEMMA FewerEntries ==
    ASSUME CacheInv, NEW S, S \subseteq Present
    PROVE  Cardinality(S) <= CacheCap + extra
<1>1. IsFiniteSet(Present)
  BY CacheAssumption, FS_Subset DEF CacheInv, CacheTypes, CacheTypeOK
<1>2. Cardinality(S) <= Cardinality(Present) /\ Cardinality(S) \in Nat /\ Cardinality(Present) \in Nat
  BY <1>1, FS_Subset, FS_CardinalityType
<1> QED  BY <1>2, CacheAssumption DEF CacheInv, CacheTypes, CacheBounded

\* The entries of some keys, the rest of the cache as it was or further on.
LEMMA OnlyKeeps ==
    ASSUME CacheInv, NEW S, S \subseteq Present, entries' = Only(S), extra' = extra
    PROVE  /\ Present' = S /\ CacheBounded'
           /\ \A k \in Present' : entries'[k].value = entries[k].value
<1>1. Present' = S
  BY DEF Present, Only
<1>2. CacheBounded'
  BY <1>1, FewerEntries DEF CacheBounded
<1>3. ASSUME NEW k \in Present' PROVE entries'[k].value = entries[k].value
  BY <1>1, <1>3 DEF Only
<1> QED  BY <1>1, <1>2, <1>3


\* A read drops some entries, a loader may begin or fail.
LEMMA CacheRead ==
    ASSUME CacheInv, NEW S, S \subseteq Present, entries' = Only(S), extra' = extra,
           source' = source, writing' = writing, crossed' = crossed, instant' = instant,
           loading' \in [Loaders -> Loadings],
           \A l \in Loaders : loading'[l].at = "put" => loading'[l] = loading[l]
    PROVE  CacheInv'
<1>1. /\ Present' = S /\ CacheBounded'
      /\ \A k \in Present' : entries'[k].value = entries[k].value
  BY OnlyKeeps
<1>2. CacheTypes'
  BY <1>1 DEF CacheInv, CacheTypes, CacheTypeOK
<1>3. ASSUME NEW k \in Present' PROVE Current(k, entries[k].value)'
  BY <1>1, <1>3 DEF CacheInv, Current
<1>4. ASSUME NEW l \in Loaders, loading'[l].at = "put", NEW k \in loading'[l].key
      PROVE  Current(k, loading[l].value)'
  BY <1>4 DEF CacheInv, Current
<1> QED  BY <1>1, <1>2, <1>3, <1>4 DEF CacheInv

LEMMA GetOrLoadStep == ASSUME CacheInv, NEW l \in Loaders, NEW k \in CacheKeys, GetOrLoad(l, k) PROVE CacheInv'
<1> DEFINE S == IF k \in Present /\ Expired(k) THEN Present \ {k} ELSE Present
           e == IF k \in LiveKeys THEN NotLoading ELSE [at |-> "load", key |-> {k}, value |-> 0]
<1>1. S \subseteq Present /\ entries' = Only(S)
  BY DEF GetOrLoad
<1>2. e \in Loadings /\ e.at # "put"
  BY DEF NotLoading, Loadings
<1> HIDE DEF S, e
<1>3. loading' = [loading EXCEPT ![l] = e] /\ loading \in [Loaders -> Loadings]
  BY DEF GetOrLoad, e, CacheInv, CacheTypes
<1>4. loading' \in [Loaders -> Loadings] /\ \A m \in Loaders : loading'[m] = IF m = l THEN e ELSE loading[m]
  BY <1>2, <1>3
<1> QED  BY <1>1, <1>2, <1>4, CacheRead DEF GetOrLoad

LEMMA LoadValueStep == ASSUME CacheInv, NEW l \in Loaders, LoadValue(l) PROVE CacheInv'
<1>1. /\ UNCHANGED <<instant, entries, source, writing, crossed, extra>>
      /\ loading \in [Loaders -> Loadings] /\ loading[l] \in Loadings /\ source \in [CacheKeys -> Nat]
  BY DEF LoadValue, CacheInv, CacheTypes
<1>2. PICK e \in Loadings : /\ loading' = [loading EXCEPT ![l] = e]
                            /\ e.at = "put" => \A k \in e.key : e.value = source[k]
  <2>1. CASE loading' = [loading EXCEPT ![l] = NotLoading]
    <3>1. NotLoading \in Loadings /\ NotLoading.at # "put"
      BY DEF NotLoading, Loadings
    <3> QED  BY <2>1, <3>1
  <2>2. CASE \E k \in loading[l].key : loading' = [loading EXCEPT ![l] = [@ EXCEPT !.at = "put", !.value = source[k]]]
    <3>1. PICK k \in loading[l].key : loading' = [loading EXCEPT ![l] = [@ EXCEPT !.at = "put", !.value = source[k]]]
      BY <2>2
    <3>2. loading[l].key = {k} /\ k \in CacheKeys /\ source[k] \in Nat
      BY <1>1, <3>1 DEF Loadings
    <3>3. PICK e : e = [loading[l] EXCEPT !.at = "put", !.value = source[k]]
      OBVIOUS
    <3>4. e \in Loadings /\ e.key = {k} /\ e.value = source[k]
      BY <1>1, <3>2, <3>3 DEF Loadings
    <3>5. loading' = [loading EXCEPT ![l] = e]
      BY <1>1, <3>1, <3>3
    <3> QED  BY <3>4, <3>5
  <2> QED  BY <2>1, <2>2 DEF LoadValue
<1>3. loading' \in [Loaders -> Loadings] /\ \A m \in Loaders : loading'[m] = IF m = l THEN e ELSE loading[m]
  BY <1>1, <1>2
<1>4. CacheTypes' /\ CacheBounded' /\ Present' = Present
  BY <1>1, <1>3 DEF CacheInv, CacheTypes, CacheTypeOK, CacheBounded, Present
<1>5. \A k \in Present' : Current(k, entries[k].value)'
  BY <1>1, <1>4 DEF CacheInv, Current
<1>6. ASSUME NEW m \in Loaders, loading'[m].at = "put", NEW k \in loading'[m].key PROVE Current(k, loading[m].value)'
  BY <1>1, <1>2, <1>3, <1>6 DEF CacheInv, Current
<1> QED  BY <1>4, <1>5, <1>6 DEF CacheInv

\* Whatever put keeps is part of what it whole, and within the bound.
LEMMA KeptWithin ==
    ASSUME NEW whole, NEW keys \in KeptKeys(whole)
    PROVE  keys \subseteq DOMAIN whole /\ Cardinality(keys) <= CacheCap
<1> DEFINE fresh == {k \in DOMAIN whole : instant - whole[k].made < EntryTtl}
<1>1. CASE Cardinality(DOMAIN whole) <= CacheCap
  BY <1>1 DEF KeptKeys
<1>2. CASE ~(Cardinality(DOMAIN whole) <= CacheCap) /\ Cardinality(fresh) <= CacheCap
  BY <1>2 DEF KeptKeys
<1>3. CASE ~(Cardinality(DOMAIN whole) <= CacheCap) /\ ~(Cardinality(fresh) <= CacheCap)
  <2>1. keys \in SUBSET fresh /\ Cardinality(keys) = CacheCap
    BY <1>3 DEF KeptKeys
  <2> QED  BY <2>1, CacheAssumption
<1> QED  BY <1>1, <1>2, <1>3

LEMMA PutStep == ASSUME CacheInv, NEW l \in Loaders, Put(l) PROVE CacheInv'
<1>1. /\ UNCHANGED <<instant, source, writing, crossed>> /\ extra' = 0 /\ loading[l].at = "put"
      /\ loading' = [loading EXCEPT ![l] = NotLoading]
      /\ loading \in [Loaders -> Loadings] /\ loading[l] \in Loadings
  BY DEF Put, CacheInv, CacheTypes
<1>2. PICK k \in loading[l].key : \E keys \in KeptKeys(With(k, loading[l].value)) :
             entries' = [j \in keys |-> With(k, loading[l].value)[j]]
  BY DEF Put
<1>3. PICK whole : whole = With(k, loading[l].value)
  OBVIOUS
<1>4. PICK keys \in KeptKeys(whole) : entries' = [j \in keys |-> whole[j]]
  BY <1>2, <1>3
<1>5. k \in CacheKeys /\ Current(k, loading[l].value)
  BY <1>1 DEF CacheInv, Loadings
<1>6. /\ DOMAIN whole = Present \cup {k}
      /\ \A j \in DOMAIN whole : whole[j].value = IF j = k THEN loading[l].value ELSE entries[j].value
  BY <1>3 DEF With
<1>7. keys \subseteq DOMAIN whole /\ Cardinality(keys) <= CacheCap
  BY KeptWithin
<1>8. Present' = keys /\ \A j \in keys : entries'[j] = whole[j]
  BY <1>4 DEF Present
<1>9. NotLoading \in Loadings /\ NotLoading.at # "put"
  BY DEF NotLoading, Loadings
<1>10. loading' \in [Loaders -> Loadings] /\ \A m \in Loaders : loading'[m] = IF m = l THEN NotLoading ELSE loading[m]
  BY <1>1, <1>9
<1>11. CacheTypes'
  BY <1>1, <1>5, <1>6, <1>7, <1>8, <1>10 DEF CacheInv, CacheTypes, CacheTypeOK
<1>12. CacheBounded'
  <2>1. Cardinality(Present') <= CacheCap
    BY <1>7, <1>8
  <2>2. CacheCap + extra' = CacheCap
    BY <1>1, CacheAssumption
  <2> QED  BY <2>1, <2>2 DEF CacheBounded
<1>13. ASSUME NEW j \in Present' PROVE Current(j, entries[j].value)'
  BY <1>1, <1>5, <1>6, <1>7, <1>8, <1>13 DEF CacheInv, Current
<1>14. ASSUME NEW m \in Loaders, loading'[m].at = "put", NEW j \in loading'[m].key PROVE Current(j, loading[m].value)'
  BY <1>1, <1>9, <1>10, <1>14 DEF CacheInv, Current
<1> QED  BY <1>11, <1>12, <1>13, <1>14 DEF CacheInv

LEMMA PutIfAbsentStep == ASSUME CacheInv, NEW k \in CacheKeys, PutIfAbsent(k) PROVE CacheInv'
<1>1. /\ UNCHANGED <<instant, source, writing, loading, crossed>>
      /\ entries' = With(k, source[k])
      /\ extra' = IF k \in Present \/ extra = Cardinality(CacheKeys) THEN extra ELSE extra + 1
      /\ extra \in Nat
  BY DEF PutIfAbsent, CacheInv, CacheTypes
<1>2. /\ Present' = Present \cup {k}
      /\ \A j \in Present' : entries'[j].value = IF j = k THEN source[k] ELSE entries[j].value
  BY <1>1 DEF Present, With
<1>3. IsFiniteSet(Present) /\ Present \subseteq CacheKeys
  BY CacheAssumption, FS_Subset DEF CacheInv, CacheTypes, CacheTypeOK
<1>4. Cardinality(Present) \in Nat /\ Cardinality(CacheKeys) \in Nat
  BY <1>3, CacheAssumption, FS_CardinalityType
<1>5. extra' \in Nat
  BY <1>1
<1>6. CacheTypes'
  BY <1>1, <1>2, <1>3, <1>5 DEF CacheInv, CacheTypes, CacheTypeOK
<1>7. CacheBounded'
  <2>1. Cardinality(Present) <= CacheCap + extra
    BY DEF CacheInv, CacheBounded
  <2>2. CASE k \in Present
    <3>1. Present' = Present
      BY <1>2, <2>2
    <3> QED  BY <1>1, <2>1, <2>2, <3>1 DEF CacheBounded
  <2>3. CASE extra = Cardinality(CacheKeys)
    <3>1. Present' \subseteq CacheKeys
      BY <1>2, <1>3
    <3>2. Cardinality(Present') <= Cardinality(CacheKeys)
      BY <3>1, CacheAssumption, FS_Subset
    <3>3. Cardinality(Present') \in Nat
      BY <3>1, CacheAssumption, FS_Subset, FS_CardinalityType
    <3>4. extra' = Cardinality(CacheKeys)
      BY <1>1, <2>3
    <3> QED  BY <1>4, <3>2, <3>3, <3>4, CacheAssumption DEF CacheBounded
  <2>4. CASE k \notin Present /\ extra # Cardinality(CacheKeys)
    <3>1. Cardinality(Present') = Cardinality(Present) + 1
      BY <1>2, <1>3, <2>4, FS_AddElement
    <3>2. extra' = extra + 1
      BY <1>1, <2>4
    <3> QED  BY <1>1, <1>4, <2>1, <3>1, <3>2, CacheAssumption DEF CacheBounded
  <2> QED  BY <2>2, <2>3, <2>4
<1>8. ASSUME NEW j \in Present' PROVE Current(j, entries[j].value)'
  BY <1>1, <1>2, <1>8 DEF CacheInv, Current
<1>9. ASSUME NEW l \in Loaders, loading'[l].at = "put", NEW j \in loading'[l].key PROVE Current(j, loading[l].value)'
  BY <1>1, <1>9 DEF CacheInv, Current
<1> QED  BY <1>6, <1>7, <1>8, <1>9 DEF CacheInv

LEMMA WriteSourceStep == ASSUME CacheInv, NEW k \in CacheKeys, WriteSource(k) PROVE CacheInv'
<1>1. /\ UNCHANGED <<instant, entries, loading, crossed, extra>>
      /\ source' = [source EXCEPT ![k] = @ + 1] /\ writing' = writing \cup {k} /\ source \in [CacheKeys -> Nat]
  BY DEF WriteSource, CacheInv, CacheTypes
<1>2. Present' = Present /\ CacheBounded'
  BY <1>1 DEF Present, CacheInv, CacheBounded
<1>3. source' \in [CacheKeys -> Nat] /\ \A j \in CacheKeys : j # k => source'[j] = source[j]
  BY <1>1
<1>4. CacheTypes'
  BY <1>1, <1>2, <1>3 DEF CacheInv, CacheTypes, CacheTypeOK
<1>5. ASSUME NEW j \in CacheKeys, NEW v, Current(j, v) PROVE v = source'[j] \/ j \in writing' \/ j \in crossed'
  BY <1>1, <1>3, <1>5 DEF Current
<1>6. ASSUME NEW j \in Present' PROVE Current(j, entries[j].value)'
  BY <1>1, <1>2, <1>5, <1>6 DEF CacheInv, CacheTypes, CacheTypeOK, Current
<1>7. ASSUME NEW l \in Loaders, loading'[l].at = "put", NEW j \in loading'[l].key PROVE Current(j, loading[l].value)'
  <2>1. loading[l] \in Loadings /\ j \in loading[l].key
    BY <1>1 DEF CacheInv, CacheTypes
  <2>2. j \in CacheKeys
    BY <2>1 DEF Loadings
  <2> QED  BY <1>1, <1>5, <1>7, <2>1, <2>2 DEF CacheInv, Current
<1> QED  BY <1>2, <1>4, <1>6, <1>7 DEF CacheInv

\* An eviction that passes a load still to put marks the key as crossed.
LEMMA EvictingStep ==
    ASSUME CacheInv, NEW S, S \subseteq CacheKeys, Evicting(S), writing' = writing \ S,
           UNCHANGED <<instant, source, loading, extra>>
    PROVE  CacheInv'
<1>1. entries' = Only(Present \ S) /\ extra' = extra /\ Present \ S \subseteq Present
  BY DEF Evicting
<1>2. PICK passing : passing = {k \in S : \E l \in Loaders : loading[l].at = "put" /\ loading[l].key = {k}}
  OBVIOUS
<1>3. crossed' = (crossed \ S) \cup passing
  BY <1>2 DEF Evicting
<1>4. /\ Present' = Present \ S /\ CacheBounded'
      /\ \A k \in Present' : entries'[k].value = entries[k].value
  BY <1>1, OnlyKeeps
<1>5. CacheTypes'
  BY <1>2, <1>3, <1>4 DEF CacheInv, CacheTypes, CacheTypeOK
<1>6. ASSUME NEW k \in Present' PROVE Current(k, entries[k].value)'
  BY <1>3, <1>4, <1>6 DEF CacheInv, Current
<1>7. ASSUME NEW l \in Loaders, loading'[l].at = "put", NEW k \in loading'[l].key PROVE Current(k, loading[l].value)'
  <2>1. loading[l] \in Loadings /\ k \in loading[l].key /\ loading[l].at = "put"
    BY <1>7 DEF CacheInv, CacheTypes
  <2>2. loading[l].key = {k}
    BY <2>1 DEF Loadings
  <2>3. k \in S => k \in passing
    BY <1>2, <2>1, <2>2
  <2> QED  BY <1>3, <2>1, <2>3 DEF CacheInv, Current
<1> QED  BY <1>4, <1>5, <1>6, <1>7 DEF CacheInv

LEMMA CacheStep == CacheInv /\ [CacheNext]_cacheVars => CacheInv'
<1> SUFFICES ASSUME CacheInv, [CacheNext]_cacheVars PROVE CacheInv'
  OBVIOUS
<1>1. loading \in [Loaders -> Loadings] /\ writing \subseteq CacheKeys /\ Present \subseteq CacheKeys
  BY DEF CacheInv, CacheTypes, CacheTypeOK
<1>2. ASSUME NEW k \in CacheKeys, Get(k) PROVE CacheInv'
  <2>1. PICK S : S = IF k \in Present /\ Expired(k) THEN Present \ {k} ELSE Present
    OBVIOUS
  <2>2. S \subseteq Present /\ entries' = Only(S)
    BY <1>2, <2>1 DEF Get
  <2> QED  BY <1>1, <1>2, <2>2, CacheRead DEF Get
<1>3. ASSUME Size PROVE CacheInv'
  <2>1. LiveKeys \subseteq Present
    BY DEF LiveKeys
  <2> QED  BY <1>1, <1>3, <2>1, CacheRead DEF Size
<1>4. ASSUME NEW k \in CacheKeys, Evict(k) PROVE CacheInv'
  BY <1>4, EvictingStep DEF Evict
<1>5. ASSUME ClearCache PROVE CacheInv'
  <2>1. writing' = writing \ CacheKeys
    BY <1>1, <1>5 DEF ClearCache
  <2> QED  BY <1>5, <2>1, EvictingStep DEF ClearCache
<1>6. ASSUME Instant \/ UNCHANGED cacheVars PROVE CacheInv'
  <2>1. UNCHANGED <<entries, source, writing, loading, crossed, extra>>
    BY <1>6 DEF Instant, cacheVars
  <2>2. instant' \in 0 .. LastInstant
    BY <1>6, CacheAssumption DEF Instant, cacheVars, CacheInv, CacheTypes, CacheTypeOK
  <2>3. Present' = Present /\ CacheBounded'
    BY <2>1 DEF Present, CacheInv, CacheBounded
  <2>4. CacheTypes'
    BY <2>1, <2>2, <2>3 DEF CacheInv, CacheTypes, CacheTypeOK
  <2>5. ASSUME NEW k \in Present' PROVE Current(k, entries[k].value)'
    BY <2>1, <2>3, <2>5 DEF CacheInv, Current
  <2>6. ASSUME NEW l \in Loaders, loading'[l].at = "put", NEW k \in loading'[l].key PROVE Current(k, loading[l].value)'
    BY <2>1, <2>6 DEF CacheInv, Current
  <2> QED  BY <2>3, <2>4, <2>5, <2>6 DEF CacheInv
<1> QED
  BY <1>2, <1>3, <1>4, <1>5, <1>6, GetOrLoadStep, LoadValueStep, PutStep, PutIfAbsentStep, WriteSourceStep DEF CacheNext

LEMMA CacheHoldsThen == CacheInv => CacheTypeOK /\ CacheIsFresh /\ CacheBounded
BY DEF CacheInv, CacheTypes, Current, CacheIsFresh, LiveKeys

-----------------------------------------------------------------------------
(* Signing in.                                                             *)
Callbacks == [at : {"idle", "exchange", "redeemed", "refused", "userinfo"}, login : Nat, verifier : Nat,
              token : Accounts \cup {NoUser}]
SignedIn == [user : Accounts \cup {NoUser}, login : Nat]

SignInTypes ==
    /\ logins \in Seq(Browsers) /\ Len(logins) <= MaxLogins
    /\ saved \in [Browsers -> 0 .. Len(logins)]
    /\ DOMAIN codes \subseteq DOMAIN logins /\ (\A n \in DOMAIN codes : codes[n] \in Accounts)
    /\ spent \subseteq DOMAIN codes
    /\ calls \in [Browsers -> Callbacks] /\ session \in [Browsers -> SignedIn]

\* Login n was begun by browser b, and its code issued.
OwnLogin(b, n) == n \in DOMAIN codes /\ logins[n] = b

\* A callback is about a login of its own browser, and what it has redeemed is that login's.
CallbackIsOwn(b) ==
    calls[b].at # "idle" =>
        /\ OwnLogin(b, calls[b].login)
        /\ calls[b].at \in {"redeemed", "userinfo"} => calls[b].token = codes[calls[b].login]

SessionIsOwn(b) ==
    session[b].login # 0 => OwnLogin(b, session[b].login) /\ session[b].user = codes[session[b].login]

SignInInv ==
    /\ SignInTypes
    /\ \A b \in Browsers : (saved[b] # 0 => logins[saved[b]] = b) /\ CallbackIsOwn(b) /\ SessionIsOwn(b)

LEMMA SignInInitial == SignInInit => SignInInv
<1> SUFFICES ASSUME SignInInit PROVE SignInInv
  OBVIOUS
<1>1. <<>> \in Seq(Browsers) /\ Len(<<>>) = 0
  OBVIOUS
<1>2. NoCall \in Callbacks /\ NoCall.at = "idle" /\ [user |-> NoUser, login |-> 0] \in SignedIn
  BY DEF NoCall, NoUser, Callbacks, SignedIn
<1>3. SignInTypes
  BY <1>1, <1>2, SignInAssumption DEF SignInInit, SignInTypes
<1>4. ASSUME NEW b \in Browsers PROVE (saved[b] # 0 => logins[saved[b]] = b) /\ CallbackIsOwn(b) /\ SessionIsOwn(b)
  BY <1>2 DEF SignInInit, CallbackIsOwn, SessionIsOwn
<1> QED  BY <1>3, <1>4 DEF SignInInv

LEMMA AuthorizeStep == ASSUME SignInInv, NEW b \in Browsers, AuthorizeUrl(b) PROVE SignInInv'
<1>1. PICK n \in Nat : n = Len(logins)
  BY DEF SignInInv, SignInTypes
<1>2. /\ logins' = Append(logins, b) /\ saved' = [saved EXCEPT ![b] = n + 1] /\ n < MaxLogins
      /\ UNCHANGED <<codes, spent, calls, session>> /\ logins \in Seq(Browsers)
      /\ saved \in [Browsers -> 0 .. n] /\ DOMAIN logins = 1 .. n /\ DOMAIN codes \subseteq 1 .. n
  BY <1>1 DEF AuthorizeUrl, SignInInv, SignInTypes
<1>3. /\ logins' \in Seq(Browsers) /\ Len(logins') = n + 1 /\ DOMAIN logins' = 1 .. n + 1
      /\ logins'[n + 1] = b /\ \A i \in 1 .. n : logins'[i] = logins[i]
  BY <1>1, <1>2, AppendProperties
<1>4. saved' \in [Browsers -> 0 .. n + 1] /\ \A c \in Browsers : saved'[c] = IF c = b THEN n + 1 ELSE saved[c]
  BY <1>1, <1>2
<1>5. SignInTypes'
  <2>1. Len(logins') <= MaxLogins
    BY <1>1, <1>2, <1>3, SignInAssumption
  <2>2. DOMAIN codes \subseteq DOMAIN logins'
    BY <1>1, <1>2, <1>3
  <2> QED  BY <1>2, <1>3, <1>4, <2>1, <2>2 DEF SignInInv, SignInTypes
<1>6. ASSUME NEW c \in Browsers PROVE saved'[c] # 0 => logins'[saved'[c]] = c
  <2>1. saved[c] \in 0 .. n /\ (saved[c] # 0 => logins[saved[c]] = c)
    BY <1>2 DEF SignInInv
  <2> QED  BY <1>1, <1>3, <1>4, <2>1
<1>7. ASSUME NEW m \in DOMAIN codes PROVE logins'[m] = logins[m]
  BY <1>2, <1>3
<1>8. ASSUME NEW c \in Browsers PROVE CallbackIsOwn(c)' /\ SessionIsOwn(c)'
  BY <1>2, <1>7 DEF SignInInv, CallbackIsOwn, SessionIsOwn, OwnLogin
<1> QED  BY <1>5, <1>6, <1>8 DEF SignInInv

LEMMA ApproveStep == ASSUME SignInInv, NEW n \in DOMAIN logins, NEW u \in Accounts, Approve(n, u) PROVE SignInInv'
<1>1. /\ n \notin DOMAIN codes /\ DOMAIN codes' = DOMAIN codes \cup {n} /\ codes'[n] = u
      /\ \A m \in DOMAIN codes : codes'[m] = codes[m]
      /\ UNCHANGED <<logins, saved, spent, calls, session>>
  BY DEF Approve
<1>2. SignInTypes'
  BY <1>1 DEF SignInInv, SignInTypes
<1>3. ASSUME NEW c \in Browsers PROVE CallbackIsOwn(c)' /\ SessionIsOwn(c)'
  BY <1>1 DEF SignInInv, CallbackIsOwn, SessionIsOwn, OwnLogin
<1> QED  BY <1>1, <1>2, <1>3 DEF SignInInv

\* The steps of a callback change the call of one browser, and may redeem its code.
LEMMA CallChange ==
    ASSUME SignInInv, NEW b \in Browsers, NEW c \in Callbacks, calls' = [calls EXCEPT ![b] = c],
           UNCHANGED <<logins, saved, codes, session>>, spent' \subseteq DOMAIN codes,
           c.at # "idle" => OwnLogin(b, c.login),
           c.at \in {"redeemed", "userinfo"} => c.token = codes[c.login]
    PROVE  SignInInv'
<1>1. calls' \in [Browsers -> Callbacks] /\ \A d \in Browsers : calls'[d] = IF d = b THEN c ELSE calls[d]
  BY DEF SignInInv, SignInTypes
<1>2. SignInTypes'
  BY <1>1 DEF SignInInv, SignInTypes
<1>3. ASSUME NEW d \in Browsers PROVE CallbackIsOwn(d)' /\ SessionIsOwn(d)'
  BY <1>1 DEF SignInInv, CallbackIsOwn, SessionIsOwn, OwnLogin
<1> QED  BY <1>2, <1>3 DEF SignInInv

LEMMA CallbackStep == ASSUME SignInInv, NEW b \in Browsers, NEW n \in DOMAIN codes, Callback(b, n) PROVE SignInInv'
<1>1. PICK c : c = [at |-> "exchange", login |-> n, verifier |-> saved[b], token |-> NoUser]
  OBVIOUS
<1>2. /\ saved[b] = n /\ n # 0 /\ calls' = [calls EXCEPT ![b] = c]
      /\ UNCHANGED <<logins, saved, codes, spent, session>>
  BY <1>1 DEF Callback, StateOf
<1>3. n \in Nat /\ saved[b] \in Nat /\ spent \subseteq DOMAIN codes
  BY DEF SignInInv, SignInTypes
<1>4. c \in Callbacks /\ c.at = "exchange" /\ c.login = n
  BY <1>1, <1>3 DEF Callbacks
<1>5. OwnLogin(b, n)
  BY <1>2 DEF SignInInv, OwnLogin
<1> QED  BY <1>2, <1>3, <1>4, <1>5, CallChange

LEMMA RedeemStep == ASSUME SignInInv, NEW b \in Browsers, Redeem(b) PROVE SignInInv'
<1>1. calls[b] \in Callbacks /\ calls[b].at = "exchange" /\ OwnLogin(b, calls[b].login)
  BY DEF Redeem, SignInInv, SignInTypes, CallbackIsOwn
<1>2. codes[calls[b].login] \in Accounts /\ spent \cup {calls[b].login} \subseteq DOMAIN codes
  BY <1>1 DEF SignInInv, SignInTypes, OwnLogin
<1>3. PICK good : good = (calls[b].login \notin spent /\ calls[b].verifier = calls[b].login)
  OBVIOUS
<1>4. PICK c : c = IF good THEN [calls[b] EXCEPT !.at = "redeemed", !.token = codes[calls[b].login]]
                   ELSE [calls[b] EXCEPT !.at = "refused"]
  OBVIOUS
<1>5. /\ c \in Callbacks /\ c.login = calls[b].login /\ c.at \in {"redeemed", "refused"}
      /\ c.at = "redeemed" => c.token = codes[c.login]
  BY <1>1, <1>2, <1>4 DEF Callbacks
<1>6. /\ calls' = [calls EXCEPT ![b] = c] /\ UNCHANGED <<logins, saved, codes, session>>
      /\ spent' \subseteq DOMAIN codes
  BY <1>2, <1>3, <1>4 DEF Redeem
<1> QED  BY <1>1, <1>5, <1>6, CallChange

LEMMA ExchangedStep == ASSUME SignInInv, NEW b \in Browsers, Exchanged(b) PROVE SignInInv'
<1>1. /\ calls[b] \in Callbacks /\ calls[b].at \in {"redeemed", "refused"} /\ OwnLogin(b, calls[b].login)
      /\ calls[b].at = "redeemed" => calls[b].token = codes[calls[b].login]
      /\ UNCHANGED <<logins, saved, codes, spent, session>> /\ spent \subseteq DOMAIN codes
      /\ calls \in [Browsers -> Callbacks]
  BY DEF Exchanged, SignInInv, SignInTypes, CallbackIsOwn
<1>2. PICK c : c = [calls[b] EXCEPT !.at = "userinfo"]
  OBVIOUS
<1>3. c \in Callbacks /\ c.at = "userinfo" /\ c.login = calls[b].login /\ c.token = calls[b].token
  BY <1>1, <1>2 DEF Callbacks
<1>4. NoCall \in Callbacks /\ NoCall.at = "idle"
  BY DEF NoCall, NoUser, Callbacks
<1>5. CASE calls' = [calls EXCEPT ![b] = NoCall]
  BY <1>1, <1>4, <1>5, CallChange
<1>6. CASE calls[b].at = "redeemed" /\ calls' = [calls EXCEPT ![b] = c]
  BY <1>1, <1>3, <1>6, CallChange
<1>7. calls' = [calls EXCEPT ![b] = NoCall] \/ (calls[b].at = "redeemed" /\ calls' = [calls EXCEPT ![b] = c])
  BY <1>1, <1>2 DEF Exchanged
<1> QED  BY <1>5, <1>6, <1>7

LEMMA UserinfoStep == ASSUME SignInInv, NEW b \in Browsers, Userinfo(b) PROVE SignInInv'
<1>1. /\ calls[b] \in Callbacks /\ OwnLogin(b, calls[b].login) /\ calls[b].token = codes[calls[b].login]
      /\ calls' = [calls EXCEPT ![b] = NoCall] /\ UNCHANGED <<logins, codes, spent>>
      /\ calls \in [Browsers -> Callbacks]
  BY DEF Userinfo, SignInInv, SignInTypes, CallbackIsOwn
<1>2. NoCall \in Callbacks /\ NoCall.at = "idle"
  BY DEF NoCall, NoUser, Callbacks
<1>3. calls' \in [Browsers -> Callbacks] /\ \A d \in Browsers : calls'[d] = IF d = b THEN NoCall ELSE calls[d]
  BY <1>1, <1>2
<1>4. PICK s : s = [user |-> calls[b].token, login |-> calls[b].login]
  OBVIOUS
<1>5. s \in SignedIn /\ s.login = calls[b].login /\ s.user = codes[s.login]
  BY <1>1, <1>4 DEF Callbacks, SignedIn
<1>6. saved \in [Browsers -> 0 .. Len(logins)] /\ session \in [Browsers -> SignedIn] /\ Len(logins) \in Nat
  BY DEF SignInInv, SignInTypes
<1>7. \/ session' = [session EXCEPT ![b] = s] /\ saved' = [saved EXCEPT ![b] = IF @ = calls[b].login THEN 0 ELSE @]
      \/ UNCHANGED <<session, saved>>
  BY <1>4 DEF Userinfo
<1>8. /\ saved' \in [Browsers -> 0 .. Len(logins)] /\ session' \in [Browsers -> SignedIn]
      /\ \A d \in Browsers : (saved'[d] = 0 \/ saved'[d] = saved[d]) /\ (session'[d] = session[d] \/ (d = b /\ session'[d] = s))
  <2>1. CASE UNCHANGED <<session, saved>>
    <3>1. ASSUME NEW d \in Browsers PROVE (saved'[d] = 0 \/ saved'[d] = saved[d]) /\ session'[d] = session[d]
      BY <2>1
    <3>2. saved' \in [Browsers -> 0 .. Len(logins)] /\ session' \in [Browsers -> SignedIn]
      BY <1>6, <2>1
    <3> QED  BY <3>1, <3>2
  <2>2. CASE /\ session' = [session EXCEPT ![b] = s]
             /\ saved' = [saved EXCEPT ![b] = IF @ = calls[b].login THEN 0 ELSE @]
    <3>1. session' \in [Browsers -> SignedIn] /\ \A d \in Browsers : session'[d] = IF d = b THEN s ELSE session[d]
      BY <1>5, <1>6, <2>2
    <3>2. PICK x : x = IF saved[b] = calls[b].login THEN 0 ELSE saved[b]
      OBVIOUS
    <3>3. x \in 0 .. Len(logins) /\ (x = 0 \/ x = saved[b]) /\ saved' = [saved EXCEPT ![b] = x]
      BY <1>6, <2>2, <3>2
    <3>4. saved' \in [Browsers -> 0 .. Len(logins)] /\ \A d \in Browsers : saved'[d] = IF d = b THEN x ELSE saved[d]
      BY <1>6, <3>3
    <3>5. ASSUME NEW d \in Browsers
          PROVE  (saved'[d] = 0 \/ saved'[d] = saved[d]) /\ (session'[d] = session[d] \/ (d = b /\ session'[d] = s))
      BY <3>1, <3>3, <3>4
    <3> QED  BY <3>1, <3>4, <3>5
  <2> QED  BY <1>7, <2>1, <2>2
<1>9. SignInTypes'
  BY <1>1, <1>3, <1>8 DEF SignInInv, SignInTypes
<1>10. ASSUME NEW d \in Browsers
       PROVE  (saved'[d] # 0 => logins'[saved'[d]] = d) /\ CallbackIsOwn(d)' /\ SessionIsOwn(d)'
  <2>1. saved'[d] # 0 => logins'[saved'[d]] = d
    BY <1>1, <1>8 DEF SignInInv
  <2>2. CallbackIsOwn(d)'
    BY <1>1, <1>2, <1>3 DEF SignInInv, CallbackIsOwn, OwnLogin
  <2>3. SessionIsOwn(d)'
    BY <1>1, <1>5, <1>8 DEF SignInInv, SessionIsOwn, OwnLogin
  <2> QED  BY <2>1, <2>2, <2>3
<1> QED  BY <1>9, <1>10 DEF SignInInv

LEMMA SignInStep == SignInInv /\ [SignInNext]_signInVars => SignInInv'
<1> SUFFICES ASSUME SignInInv, [SignInNext]_signInVars PROVE SignInInv'
  OBVIOUS
<1>1. CASE UNCHANGED signInVars
  <2>1. SignInTypes'
    BY <1>1 DEF signInVars, SignInInv, SignInTypes
  <2> QED  BY <1>1, <2>1 DEF signInVars, SignInInv, CallbackIsOwn, SessionIsOwn, OwnLogin
<1> QED
  BY <1>1, AuthorizeStep, ApproveStep, CallbackStep, RedeemStep, ExchangedStep, UserinfoStep DEF SignInNext

LEMMA SignInHoldsThen == SignInInv => SignInTypeOK /\ SignInIsOwn
<1> SUFFICES ASSUME SignInInv PROVE SignInTypeOK /\ SignInIsOwn
  OBVIOUS
<1>1. SignInTypeOK
  BY DEF SignInInv, SignInTypes, SignInTypeOK
<1>2. ASSUME NEW b \in Browsers, session[b].login # 0
      PROVE  logins[session[b].login] = b /\ session[b].user = codes[session[b].login]
  BY <1>2 DEF SignInInv, SessionIsOwn, OwnLogin
<1>3. ASSUME NEW b \in Browsers, NEW c \in Browsers, b # c, session[b].login # 0
      PROVE  session[b].login # session[c].login
  BY <1>2, <1>3
<1>4. \A b \in Browsers : calls[b].at # "idle" => logins[calls[b].login] = b
  BY DEF SignInInv, CallbackIsOwn, OwnLogin
<1> QED  BY <1>1, <1>2, <1>3, <1>4 DEF SignInIsOwn

-----------------------------------------------------------------------------
(* Tokens of an issuer that rotates its keys.                              *)
Waits == [at : {"checking", "fetching", "received"}, token : Bearers, time : Nat, since : Nat, failed : {FALSE},
          keys : {NoKeys} \cup {Rotation[e] : e \in 1 .. Len(Rotation)}, retried : BOOLEAN]

JwksTypes ==
    /\ now \in 1 .. LastSecond /\ epoch \in 1 .. Len(Rotation) /\ verified \in 0 .. MaxVerifies
    /\ keyCache = NoKeys \/ \E e \in 1 .. epoch : keyCache = Rotation[e]
    /\ DOMAIN job = Verifiers /\ job = [v \in Verifiers |-> job[v]]

\* A set a call may check against was published; one it fetched, during the call.
Judging(j) ==
    /\ j.since \in 1 .. epoch
    /\ j.at \in {"checking", "received"} => \E e \in 1 .. epoch : j.keys = Rotation[e]
    /\ j.at = "received" \/ (j.at = "checking" /\ j.retried) => \E e \in j.since .. epoch : j.keys = Rotation[e]

Genuine(t, when) ==
    /\ t.alg = "RS256" /\ t.kid \in {t.key, "none"} /\ \E e \in 1 .. epoch : In(t.key, e)
    /\ t.exp # 0 => when <= t.exp + Leeway
    /\ Expected.iss \in {"any", t.iss} /\ Expected.aud \in {"any", t.aud}
Steady(t, from) == t.wellFormed /\ t.alg = "RS256" /\ t.kid = t.key /\ \A e \in from .. epoch : In(t.key, e)

Judged(j) ==
    /\ j.result = "ok" => Genuine(j.token, j.time)
    /\ ~j.failed /\ Steady(j.token, j.since) => j.result = ValidateClaims(j.token, j.time)

JobOK(j) ==
    \/ j.at = "idle"
    \/ j \in Waits /\ Judging(j)
    \/ j.at = "done" /\ j.since \in 1 .. epoch /\ Judged(j)

JwksInv == JwksTypes /\ \A v \in Verifiers : JobOK(job[v])

LEMMA RotationFacts ==
    /\ Len(Rotation) \in Nat \ {0} /\ DOMAIN Rotation = 1 .. Len(Rotation)
    /\ \A e \in 1 .. Len(Rotation) : Rotation[e] # <<>> => 1 \in DOMAIN Rotation[e]
<1>1. PICK Names : Names = STRING
  OBVIOUS
<1>2. Rotation \in Seq(Seq(Names)) /\ Rotation # <<>>
  BY <1>1, JwksAssumption, Zenon
<1>3. PICK Sets : Sets = Seq(Names)
  OBVIOUS
<1>4. Rotation \in Seq(Sets) /\ Rotation # <<>>
  BY <1>2, <1>3, Zenon
<1>5. /\ Len(Rotation) \in Nat \ {0} /\ DOMAIN Rotation = 1 .. Len(Rotation)
      /\ \A e \in 1 .. Len(Rotation) : Rotation[e] \in Sets
  BY <1>4
<1>6. ASSUME NEW s \in Seq(Names), s # <<>> PROVE 1 \in DOMAIN s
  BY <1>6
<1> QED  BY <1>3, <1>5, <1>6

LEMMA JwksNumbers == Leeway \in Nat /\ LastSecond \in Nat \ {0} /\ MaxVerifies \in Nat
BY JwksAssumption, Zenon

LEMMA InTime ==
    ASSUME NEW x \in Nat, NEW l \in Nat, NEW when \in Nat, ~(x # 0 /\ when > x + l)
    PROVE  x # 0 => when <= x + l
OBVIOUS

LEMMA RangeWithin == ASSUME NEW n \in Nat, NEW m \in 1 .. n, NEW e \in 1 .. m PROVE e \in 1 .. n
OBVIOUS

LEMMA JwksInitial == JwksInit => JwksInv
<1> SUFFICES ASSUME JwksInit PROVE JwksInv
  OBVIOUS
<1>1. LastSecond \in Nat \ {0} /\ MaxVerifies \in Nat
  BY JwksAssumption
<1>2. JwksTypes
  BY <1>1, RotationFacts DEF JwksInit, JwksTypes
<1>3. ASSUME NEW v \in Verifiers PROVE JobOK(job[v])
  BY DEF JwksInit, JobOK
<1> QED  BY <1>2, <1>3 DEF JwksInv

\* What held of a call holds when the issuer publishes another set.
LEMMA JobKept ==
    ASSUME JwksInv, epoch' \in Nat, epoch <= epoch', NEW j, JobOK(j)
    PROVE  JobOK(j)'
<1>1. epoch \in Nat \ {0} /\ \A e \in 1 .. epoch : e \in 1 .. epoch'
  BY RotationFacts DEF JwksInv, JwksTypes
<1>2. CASE j.at = "idle"
  BY <1>2 DEF JobOK
<1>3. CASE j \in Waits /\ Judging(j)
  <2>1. j.since \in Nat /\ \A e \in j.since .. epoch : e \in j.since .. epoch'
    BY <1>1, <1>3 DEF Judging
  <2>2. Judging(j)'
    BY <1>1, <1>3, <2>1 DEF Judging
  <2> QED  BY <1>3, <2>2 DEF JobOK
<1>4. CASE j.at = "done" /\ j.since \in 1 .. epoch /\ Judged(j)
  <2>1. j.since \in 1 .. epoch' /\ \A e \in j.since .. epoch : e \in j.since .. epoch'
    BY <1>1, <1>4
  <2>2. ASSUME Genuine(j.token, j.time) PROVE Genuine(j.token, j.time)'
    BY <1>1, <2>2 DEF Genuine
  <2>3. ASSUME Steady(j.token, j.since)' PROVE Steady(j.token, j.since)
    BY <2>1, <2>3 DEF Steady
  <2>4. Judged(j)'
    BY <1>4, <2>2, <2>3 DEF Judged
  <2> QED  BY <1>4, <2>1, <2>4 DEF JobOK
<1> QED  BY <1>2, <1>3, <1>4 DEF JobOK

\* A step of one call.
LEMMA JobChange ==
    ASSUME JwksInv, NEW v \in Verifiers, NEW j, JobOK(j), job' = [job EXCEPT ![v] = j],
           UNCHANGED <<now, epoch>>, verified' \in 0 .. MaxVerifies,
           keyCache' = keyCache \/ \E e \in 1 .. epoch : keyCache' = Rotation[e]
    PROVE  JwksInv'
<1>1. epoch \in Nat /\ DOMAIN job = Verifiers
  BY RotationFacts DEF JwksInv, JwksTypes
<1>2. DOMAIN job' = Verifiers /\ \A w \in Verifiers : job'[w] = IF w = v THEN j ELSE job[w]
  BY <1>1
<1>3. job' = [w \in Verifiers |-> job'[w]]
  BY <1>1
<1>4. JwksTypes'
  BY <1>2, <1>3 DEF JwksInv, JwksTypes
<1>5. ASSUME NEW w \in Verifiers PROVE JobOK(job[w])'
  <2>1. PICK k : k = job'[w]
    OBVIOUS
  <2>2. JobOK(k)
    BY <1>2, <2>1 DEF JwksInv
  <2>3. JobOK(k)'
    BY <1>1, <2>2, JobKept
  <2> QED  BY <2>1, <2>3
<1> QED  BY <1>4, <1>5 DEF JwksInv

\* The verdict of a call on the set it looks in last.
LEMMA Verdict ==
    ASSUME JwksInv, NEW j \in Waits, Judging(j), j.at = "checking", NEW r,
           r = VerifyWith(j.keys, j.token, j.time), r = "unknown key" => j.retried
    PROVE  /\ r = "ok" => Genuine(j.token, j.time)
           /\ Steady(j.token, j.since) => r = ValidateClaims(j.token, j.time)
<1>1. PICK t \in Bearers : t = j.token
  BY DEF Waits
<1>2. PICK keys, when : keys = j.keys /\ when = j.time
  OBVIOUS
<1>3. /\ when \in Nat /\ t.exp \in Nat /\ Leeway \in Nat
      /\ t.key # "none" /\ t.key # "no key"
  BY <1>1, <1>2, JwksAssumption DEF Waits
<1>4. PICK e \in 1 .. epoch : keys = Rotation[e]
  BY <1>2 DEF Judging
<1>5. e \in 1 .. Len(Rotation)
  <2>1. PICK n \in Nat : n = Len(Rotation)
    BY RotationFacts
  <2>2. epoch \in 1 .. n
    BY <2>1 DEF JwksInv, JwksTypes
  <2>3. e \in 1 .. n
    BY <2>2, RangeWithin
  <2> QED  BY <2>1, <2>3
<1>6. keys # <<>> => 1 \in DOMAIN keys
  BY <1>4, <1>5, RotationFacts
<1>7. r = VerifyWith(keys, t, when)
  BY <1>1, <1>2
<1>8. ASSUME r = "ok" PROVE Genuine(t, when)
  <2>1. /\ t.wellFormed /\ t.alg = "RS256" /\ KeyFor(keys, t.kid) # "no key" /\ KeyFor(keys, t.kid) = t.key
        /\ ValidateClaims(t, when) = "ok"
    BY <1>7, <1>8 DEF VerifyWith
  <2>2. t.kid \in {t.key, "none"} /\ In(t.key, e)
    <3>1. CASE t.kid = "none"
      BY <1>4, <1>6, <2>1, <3>1 DEF KeyFor, In
    <3>2. CASE t.kid # "none"
      BY <1>4, <2>1, <3>2 DEF KeyFor, In
    <3> QED  BY <3>1, <3>2
  <2>3. ~(t.exp # 0 /\ when > t.exp + Leeway) /\ Expected.iss \in {"any", t.iss} /\ Expected.aud \in {"any", t.aud}
    BY <2>1 DEF ValidateClaims
  <2>4. t.exp # 0 => when <= t.exp + Leeway
    <3>1. PICK x \in Nat : x = t.exp
      BY <1>3
    <3>2. PICK l \in Nat : l = Leeway
      BY <1>3
    <3>3. ~(x # 0 /\ when > x + l)
      BY <2>3, <3>1, <3>2, Zenon
    <3>4. x # 0 => when <= x + l
      BY <1>3, <3>3, InTime
    <3> QED  BY <3>1, <3>2, <3>4, Zenon
  <2> QED  BY <2>1, <2>2, <2>3, <2>4 DEF Genuine
<1>9. ASSUME Steady(t, j.since) PROVE r = ValidateClaims(t, when)
  <2>1. t.wellFormed /\ t.alg = "RS256" /\ t.kid = t.key
    BY <1>9 DEF Steady
  <2>2. CASE \E i \in DOMAIN keys : keys[i] = t.key
    <3>1. KeyFor(keys, t.kid) = t.key
      BY <1>3, <2>1, <2>2 DEF KeyFor
    <3> QED  BY <1>3, <1>7, <2>1, <3>1 DEF VerifyWith
  <2>3. CASE ~ \E i \in DOMAIN keys : keys[i] = t.key
    <3>1. KeyFor(keys, t.kid) = "no key"
      BY <1>3, <2>1, <2>3 DEF KeyFor
    <3>2. r = "unknown key"
      BY <1>7, <2>1, <3>1 DEF VerifyWith
    <3>3. PICK f \in j.since .. epoch : keys = Rotation[f]
      BY <1>2, <3>2 DEF Judging
    <3>4. In(t.key, f)
      BY <1>9, <3>3 DEF Steady
    <3> QED  BY <2>3, <3>3, <3>4 DEF In
  <2> QED  BY <2>2, <2>3
<1> QED  BY <1>1, <1>2, <1>8, <1>9

LEMMA WaitFields ==
    ASSUME JwksInv, NEW v \in Verifiers, job[v].at \in {"checking", "fetching", "received"}
    PROVE  job[v] \in Waits /\ Judging(job[v]) /\ job[v].failed = FALSE
BY DEF JwksInv, JobOK, Waits

LEMMA VerifyStep == ASSUME JwksInv, NEW v \in Verifiers, NEW t \in Bearers, Verify(v, t) PROVE JwksInv'
<1>1. PICK start : start = [at |-> "checking", token |-> t, time |-> now, since |-> epoch,
                            failed |-> FALSE, keys |-> keyCache, retried |-> FALSE]
  OBVIOUS
<1>2. PICK j : j = IF keyCache = NoKeys THEN [start EXCEPT !.at = "fetching"] ELSE start
  OBVIOUS
<1>3. job' = [job EXCEPT ![v] = j] /\ UNCHANGED <<now, epoch, keyCache>> /\ verified < MaxVerifies /\ verified' = verified + 1
  BY <1>1, <1>2 DEF Verify
<1>4. PICK n \in Nat \ {0} : n = Len(Rotation)
  BY RotationFacts
<1>5. now \in Nat /\ epoch \in 1 .. n /\ (keyCache = NoKeys \/ \E e \in 1 .. epoch : keyCache = Rotation[e])
  <2>1. now \in 1 .. LastSecond /\ epoch \in 1 .. n
    BY <1>4 DEF JwksInv, JwksTypes
  <2>2. now \in Nat
    BY <2>1, JwksNumbers
  <2>3. keyCache = NoKeys \/ \E e \in 1 .. epoch : keyCache = Rotation[e]
    BY DEF JwksInv, JwksTypes
  <2> QED  BY <2>1, <2>2, <2>3
<1>6. keyCache \in {NoKeys} \cup {Rotation[e] : e \in 1 .. n}
  BY <1>5
<1>7. start \in Waits
  BY <1>1, <1>4, <1>5, <1>6 DEF Waits
<1>8. j \in Waits /\ j.since = epoch /\ j.keys = keyCache /\ j.retried = FALSE
      /\ (j.at = "fetching" \/ (j.at = "checking" /\ keyCache # NoKeys))
  BY <1>1, <1>2, <1>7 DEF Waits
<1>9. Judging(j)
  <2>1. epoch \in 1 .. epoch
    BY <1>5
  <2> QED  BY <1>5, <1>8, <2>1 DEF Judging
<1>10. verified' \in 0 .. MaxVerifies
  <2>1. verified \in 0 .. MaxVerifies
    BY DEF JwksInv, JwksTypes
  <2> QED  BY <1>3, <2>1, JwksNumbers
<1>11. JobOK(j)
  BY <1>8, <1>9 DEF JobOK
<1> QED  BY <1>3, <1>10, <1>11, JobChange

LEMMA ServeStep == ASSUME JwksInv, NEW v \in Verifiers, Serve(v) PROVE JwksInv'
<1>1. job[v] \in Waits /\ Judging(job[v]) /\ job[v].at = "fetching"
  BY WaitFields DEF Serve
<1>2. PICK j : j = [job[v] EXCEPT !.at = "received", !.keys = Rotation[epoch]]
  OBVIOUS
<1>3. PICK n \in Nat \ {0} : n = Len(Rotation)
  BY RotationFacts
<1>4. epoch \in 1 .. n /\ verified \in 0 .. MaxVerifies
  BY <1>3 DEF JwksInv, JwksTypes
<1>5. j \in Waits /\ j.since = job[v].since /\ j.keys = Rotation[epoch] /\ j.at = "received"
  BY <1>1, <1>2, <1>3, <1>4 DEF Waits
<1>6. Judging(j)
  <2>1. j.since \in 1 .. epoch
    BY <1>1, <1>5 DEF Judging
  <2>2. epoch \in 1 .. epoch /\ epoch \in j.since .. epoch
    BY <1>4, <2>1
  <2> QED  BY <1>5, <2>1, <2>2 DEF Judging
<1>7. job' = [job EXCEPT ![v] = j] /\ UNCHANGED <<now, epoch, keyCache, verified>>
  BY <1>2 DEF Serve, Published
<1>8. JobOK(j)
  BY <1>5, <1>6 DEF JobOK
<1> QED  BY <1>4, <1>7, <1>8, JobChange

LEMMA FetchFailsStep == ASSUME JwksInv, NEW v \in Verifiers, FetchFails(v) PROVE JwksInv'
<1>1. job[v] \in Waits /\ Judging(job[v])
  BY WaitFields DEF FetchFails
<1>2. PICK j : j = [at |-> "done", token |-> job[v].token, time |-> job[v].time, since |-> job[v].since,
                    failed |-> TRUE, result |-> "fetch"]
  OBVIOUS
<1>3. job' = [job EXCEPT ![v] = j] /\ UNCHANGED <<now, epoch, keyCache, verified>> /\ verified \in 0 .. MaxVerifies
  BY <1>2 DEF FetchFails, JwksInv, JwksTypes
<1>4. JobOK(j)
  BY <1>1, <1>2 DEF JobOK, Judging, Judged
<1> QED  BY <1>3, <1>4, JobChange

LEMMA FetchedStep == ASSUME JwksInv, NEW v \in Verifiers, Fetched(v) PROVE JwksInv'
<1>1. job[v] \in Waits /\ Judging(job[v]) /\ job[v].at = "received"
  BY WaitFields DEF Fetched
<1>2. PICK j : j = [job[v] EXCEPT !.at = "checking"]
  OBVIOUS
<1>3. /\ j \in Waits /\ j.since = job[v].since /\ j.keys = job[v].keys /\ j.at = "checking"
  BY <1>1, <1>2 DEF Waits
<1>4. Judging(j) /\ \E e \in 1 .. epoch : job[v].keys = Rotation[e]
  BY <1>1, <1>3 DEF Judging
<1>5. /\ job' = [job EXCEPT ![v] = j] /\ UNCHANGED <<now, epoch, verified>> /\ verified \in 0 .. MaxVerifies
      /\ keyCache' = job[v].keys
  BY <1>2 DEF Fetched, JwksInv, JwksTypes
<1>6. JobOK(j)
  BY <1>3, <1>4 DEF JobOK
<1> QED  BY <1>4, <1>5, <1>6, JobChange

LEMMA CheckTokenStep == ASSUME JwksInv, NEW v \in Verifiers, CheckToken(v) PROVE JwksInv'
<1>1. job[v] \in Waits /\ Judging(job[v]) /\ job[v].at = "checking" /\ job[v].failed = FALSE
  BY WaitFields DEF CheckToken
<1>2. PICK r : r = VerifyWith(job[v].keys, job[v].token, job[v].time)
  OBVIOUS
<1>3. UNCHANGED <<now, epoch, keyCache, verified>> /\ verified \in 0 .. MaxVerifies
  BY DEF CheckToken, JwksInv, JwksTypes
<1>4. CASE r = "unknown key" /\ ~job[v].retried
  <2>1. PICK j : j = [job[v] EXCEPT !.at = "fetching", !.retried = TRUE]
    OBVIOUS
  <2>2. j \in Waits /\ j.since = job[v].since /\ j.at = "fetching"
    BY <1>1, <2>1 DEF Waits
  <2>3. JobOK(j)
    BY <1>1, <2>2 DEF JobOK, Judging
  <2>4. job' = [job EXCEPT ![v] = j]
    BY <1>2, <1>4, <2>1 DEF CheckToken
  <2> QED  BY <1>3, <2>3, <2>4, JobChange
<1>5. CASE ~(r = "unknown key" /\ ~job[v].retried)
  <2>1. PICK j : j = [at |-> "done", token |-> job[v].token, time |-> job[v].time, since |-> job[v].since,
                      failed |-> job[v].failed, result |-> r]
    OBVIOUS
  <2>2. /\ r = "ok" => Genuine(job[v].token, job[v].time)
        /\ Steady(job[v].token, job[v].since) => r = ValidateClaims(job[v].token, job[v].time)
    <3>1. PICK w \in Waits : w = job[v]
      BY <1>1
    <3> QED  BY <1>1, <1>2, <1>5, <3>1, Verdict
  <2>3. JobOK(j)
    BY <1>1, <2>1, <2>2 DEF JobOK, Judged, Judging
  <2>4. job' = [job EXCEPT ![v] = j]
    BY <1>2, <1>5, <2>1 DEF CheckToken, Settle
  <2> QED  BY <1>3, <2>3, <2>4, JobChange
<1> QED  BY <1>4, <1>5

LEMMA RotateStep == ASSUME JwksInv, Rotate PROVE JwksInv'
<1>1. PICK n \in Nat \ {0} : n = Len(Rotation)
  BY RotationFacts
<1>2. epoch \in 1 .. n /\ epoch' = epoch + 1 /\ epoch < n /\ UNCHANGED <<now, keyCache, job, verified>>
  BY <1>1 DEF Rotate, JwksInv, JwksTypes
<1>3. epoch' \in 1 .. n /\ \A e \in 1 .. epoch : e \in 1 .. epoch'
  BY <1>2
<1>4. JwksTypes'
  BY <1>1, <1>2, <1>3 DEF JwksInv, JwksTypes
<1>5. ASSUME NEW v \in Verifiers PROVE JobOK(job[v])'
  <2>1. PICK j : j = job[v]
    OBVIOUS
  <2>2. JobOK(j)'
    BY <1>2, <1>3, <2>1, JobKept DEF JwksInv
  <2> QED  BY <1>2, <2>1, <2>2
<1> QED  BY <1>4, <1>5 DEF JwksInv

LEMMA JwksStep == JwksInv /\ [JwksNext]_jwksVars => JwksInv'
<1> SUFFICES ASSUME JwksInv, [JwksNext]_jwksVars PROVE JwksInv'
  OBVIOUS
<1>1. ASSUME Second \/ UNCHANGED jwksVars PROVE JwksInv'
  <2>1. UNCHANGED <<epoch, keyCache, job, verified>>
    BY <1>1 DEF Second, jwksVars
  <2>2. now' \in 1 .. LastSecond
    <3>1. now \in 1 .. LastSecond /\ (now' = now \/ (now < LastSecond /\ now' = now + 1))
      BY <1>1 DEF Second, jwksVars, JwksInv, JwksTypes
    <3> QED  BY <3>1, JwksNumbers
  <2>3. JwksTypes'
    BY <2>1, <2>2 DEF JwksInv, JwksTypes
  <2>4. ASSUME NEW v \in Verifiers PROVE JobOK(job[v])'
    BY <2>1 DEF JwksInv, JobOK, Judging, Judged, Genuine, Steady
  <2> QED  BY <2>3, <2>4 DEF JwksInv
<1> QED
  BY <1>1, VerifyStep, ServeStep, FetchFailsStep, FetchedStep, CheckTokenStep, RotateStep DEF JwksNext

LEMMA JwksHoldsThen == JwksInv => JwksTypeOK /\ JwksHolds
<1> SUFFICES ASSUME JwksInv PROVE JwksTypeOK /\ JwksHolds
  OBVIOUS
<1>1. ASSUME NEW v \in Verifiers PROVE job[v].at \in {"idle", "checking", "fetching", "received", "done"}
  BY DEF JwksInv, JobOK, Waits
<1>2. JwksTypeOK
  BY <1>1, RotationFacts DEF JwksInv, JwksTypes, JwksTypeOK
<1>3. ASSUME NEW v \in Verifiers, job[v].at = "done" PROVE Judged(job[v])
  BY <1>3 DEF JwksInv, JobOK, Waits
<1>4. AcceptedIsGenuine
  BY <1>3 DEF Judged, Genuine, AcceptedIsGenuine
<1>5. CurrentKeyAccepted
  BY <1>3 DEF Judged, Steady, CurrentKeyAccepted
<1> QED  BY <1>2, <1>4, <1>5 DEF JwksHolds

-----------------------------------------------------------------------------
(* The HTTP client.  A connection is in one place - a call's hands or one    *)
(* bucket - and what is unread on it answers one request.                   *)
\* A set of numbers with a bound has a greatest one.
LEMMA GreatestNatural ==
    ASSUME NEW m \in Nat, NEW S \in SUBSET (1 .. m), S # {}
    PROVE  \E i \in S : \A j \in S : j <= i
<1> DEFINE T == {n \in Nat : m - n \in S}  Smaller == {ss \in Nat \X Nat : ss[1] < ss[2]}
<1>1. PICK s \in S : TRUE
  OBVIOUS
<1>2. m - s \in Nat /\ m - (m - s) = s
  OBVIOUS
<1>3. T \subseteq Nat /\ T # {}
  BY <1>2
<1>4. IsWellFoundedOn(Smaller, Nat)
  BY NatLessThanWellFounded DEF OpToRel
<1>5. PICK n \in T : \A x \in T : ~(<<x, n>> \in Smaller)
  BY <1>3, <1>4, WFMin
<1>6. \A j \in S : m - j \in T
  <2>1. \A j \in S : m - j \in Nat /\ m - (m - j) = j
    OBVIOUS
  <2> QED  BY <2>1
<1>7. n \in Nat /\ m - n \in S
  BY <1>3
<1>8. ASSUME NEW j \in S PROVE j <= m - n
  <2>1. m - j \in T /\ m - j \in Nat
    BY <1>3, <1>6
  <2>2. ~(m - j < n)
    <3> DEFINE x == m - j
    <3>1. <<x, n>> \in Nat \X Nat /\ <<x, n>>[1] = x /\ <<x, n>>[2] = n /\ x \in T
      BY <1>7, <2>1
    <3> HIDE DEF x
    <3>2. ~(x < n)
      BY <1>5, <3>1
    <3> QED  BY <3>2 DEF x
  <2> QED  BY <1>7, <2>1, <2>2
<1> QED  BY <1>7, <1>8

Framings == {"length", "chunked", "close"}
UnitRecs == [k : {"head", "data", "last", "crlf"}, num : Nat, framing : Framings, to : SUBSET Origins]
SockRecs == [made : BOOLEAN, home : SUBSET HomeShards, origin : SUBSET Origins, wire : Seq(UnitRecs), open : BOOLEAN,
             aged : BOOLEAN]
SendRecs == [at : {"idle", "take", "write", "read", "redial"}, named : SUBSET Origins, origin : SUBSET Origins,
             auth : BOOLEAN, sock : SUBSET Conns, reused : BOOLEAN, num : Nat, buf : Seq(UnitRecs), hops : Nat]
Buckets == HomeShards \X Origins

ClientTypes ==
    /\ sock \in [Conns -> SockRecs] /\ pool \in [Buckets -> Seq(Conns)] /\ sending \in [Calls -> SendRecs] /\ serial \in Nat

\* Between two exchanges a connection carries no head: at most the end of the last answer.
Leftover(w) == w = <<>> \/ w[1].k # "head"

\* What request n finds: no answer of its own can begin behind a leftover; otherwise all there
\* is, read or not, is its answer, and a head comes first or not at all.
Answering(n, buf, w) ==
    \/ buf # <<>> /\ buf[1].k # "head"
    \/ buf = <<>> /\ w # <<>> /\ w[1].k # "head"
    \/ /\ \A i \in 1 .. Len(buf) : buf[i].num = n /\ (buf[i].k = "head" => i = 1)
       /\ \A i \in 1 .. Len(w) : w[i].num = n /\ (w[i].k = "head" => i = 1 /\ buf = <<>>)

\* A connection of bucket b.
Parked(b, k) == k.made /\ k.home = {b[1]} /\ k.origin = {b[2]} /\ Leftover(k.wire)

\* A call's connection is of its shard and of the origin it goes to, and credentials go to
\* the origin the caller named.
Sound(c, t, ks) ==
    /\ t.at # "idle" => \E o \in Origins : t.origin = {o}
    /\ t.auth => t.named = t.origin
    /\ t.at \notin {"write", "read"} => t.sock = {}
    /\ t.at \in {"write", "read"} =>
          \E k \in Conns : /\ t.sock = {k} /\ ks[k].made /\ ks[k].home = {HomeShard[c]} /\ ks[k].origin = t.origin
                           /\ t.at = "write" => Leftover(ks[k].wire)
                           /\ t.at = "read" => Answering(t.num, t.buf, ks[k].wire)

ClientInv ==
    /\ ClientTypes /\ mixed = FALSE /\ strayed = FALSE
    /\ \A c \in Calls : Sound(c, sending[c], sock)
    /\ \A c, d \in Calls : \A k \in Conns : k \in sending[c].sock /\ k \in sending[d].sock => c = d
    /\ \A b \in Buckets : \A i \in 1 .. Len(pool[b]) : Parked(b, sock[pool[b][i]])
    /\ \A b \in Buckets : \A i, j \in 1 .. Len(pool[b]) : pool[b][i] = pool[b][j] => i = j
    /\ \A b \in Buckets : \A i \in 1 .. Len(pool[b]), c \in Calls : pool[b][i] \notin sending[c].sock

-----------------------------------------------------------------------------
LEMMA ClientInitial == ClientInit => ClientInv
<1> SUFFICES ASSUME ClientInit PROVE ClientInv
  OBVIOUS
<1>1. NoSock \in SockRecs /\ NoHttpCall \in SendRecs
  BY DEF NoSock, NoHttpCall, SockRecs, SendRecs, UnitRecs
<1>2. /\ sock \in [Conns -> SockRecs] /\ sending \in [Calls -> SendRecs] /\ serial = 0 /\ mixed = FALSE /\ strayed = FALSE
      /\ \A c \in Calls : sending[c] = NoHttpCall
  BY <1>1 DEF ClientInit
<1>3. pool \in [Buckets -> Seq(Conns)] /\ \A b \in Buckets : pool[b] = <<>>
  BY DEF ClientInit, Buckets
<1>4. \A c \in Calls : Sound(c, sending[c], sock) /\ sending[c].sock = {}
  BY <1>2 DEF Sound, NoHttpCall
<1> QED  BY <1>2, <1>3, <1>4 DEF ClientInv, ClientTypes

\* Connection k is in the hands of a call other than c, or in a bucket other than b.
Elsewhere(k, c, b) ==
    \/ \E d \in Calls \ {c} : k \in sending[d].sock
    \/ \E e \in Buckets \ {b} : \E i \in 1 .. Len(pool[e]) : pool[e][i] = k

LEMMA PoolFacts ==
    ASSUME ClientInv, NEW b \in Buckets
    PROVE  /\ pool[b] \in Seq(Conns) /\ Len(pool[b]) \in Nat /\ DOMAIN pool[b] = 1 .. Len(pool[b])
           /\ \A i \in 1 .. Len(pool[b]) : pool[b][i] \in Conns /\ Parked(b, sock[pool[b][i]])
           /\ \A i, j \in 1 .. Len(pool[b]) : pool[b][i] = pool[b][j] => i = j
           /\ \A i \in 1 .. Len(pool[b]), c \in Calls : ~Elsewhere(pool[b][i], c, b) /\ pool[b][i] \notin sending[c].sock
<1>1. pool[b] \in Seq(Conns)
  BY DEF ClientInv, ClientTypes
<1>2. Len(pool[b]) \in Nat /\ DOMAIN pool[b] = 1 .. Len(pool[b]) /\ \A i \in 1 .. Len(pool[b]) : pool[b][i] \in Conns
  BY <1>1, LenProperties, ElementOfSeq
<1>3. /\ \A i \in 1 .. Len(pool[b]) : Parked(b, sock[pool[b][i]])
      /\ \A i, j \in 1 .. Len(pool[b]) : pool[b][i] = pool[b][j] => i = j
      /\ \A i \in 1 .. Len(pool[b]), c \in Calls : pool[b][i] \notin sending[c].sock
  BY DEF ClientInv
<1>4. ASSUME NEW i \in 1 .. Len(pool[b]), NEW e \in Buckets, NEW j \in 1 .. Len(pool[e]), pool[e][j] = pool[b][i]
      PROVE  e = b
  <2>1. Parked(e, sock[pool[b][i]]) /\ Parked(b, sock[pool[b][i]])
    BY <1>3, <1>4 DEF ClientInv
  <2>2. {e[1]} = {b[1]} /\ {e[2]} = {b[2]}
    BY <2>1 DEF Parked
  <2>3. e[1] = b[1] /\ e[2] = b[2]
    BY <2>2, e[1] \in {e[1]}, e[2] \in {e[2]}
  <2> QED  BY <2>3 DEF Buckets
<1> QED  BY <1>1, <1>2, <1>3, <1>4 DEF Elsewhere

LEMMA CallFacts ==
    ASSUME ClientInv, NEW c \in Calls, sending[c].at \in {"write", "read"}
    PROVE  \E k \in Conns :
              /\ SockOf(c) = k /\ sending[c].sock = {k} /\ sock[k].made /\ sock[k].home = {HomeShard[c]}
              /\ sock[k].origin = sending[c].origin /\ sock[k] \in SockRecs
              /\ sending[c].at = "write" => Leftover(sock[k].wire)
              /\ sending[c].at = "read" => Answering(sending[c].num, sending[c].buf, sock[k].wire)
              /\ \A b \in Buckets : ~Elsewhere(k, c, b)
              /\ \A b \in Buckets : \A i \in 1 .. Len(pool[b]) : pool[b][i] # k
<1>1. PICK k \in Conns : /\ sending[c].sock = {k} /\ sock[k].made /\ sock[k].home = {HomeShard[c]}
                         /\ sock[k].origin = sending[c].origin
                         /\ sending[c].at = "write" => Leftover(sock[k].wire)
                         /\ sending[c].at = "read" => Answering(sending[c].num, sending[c].buf, sock[k].wire)
  BY DEF ClientInv, Sound
<1>2. SockOf(c) = k
  BY <1>1 DEF SockOf
<1>3. sock[k] \in SockRecs
  BY DEF ClientInv, ClientTypes
<1>4. \A d \in Calls \ {c} : k \notin sending[d].sock
  BY <1>1 DEF ClientInv
<1>5. \A b \in Buckets : \A i \in 1 .. Len(pool[b]) : pool[b][i] # k
  BY <1>1 DEF ClientInv
<1> QED  BY <1>1, <1>2, <1>3, <1>4, <1>5 DEF Elsewhere

LEMMA BucketFacts ==
    ASSUME ClientInv, NEW c \in Calls, sending[c].at # "idle"
    PROVE  /\ Bucket(c) \in Buckets /\ Bucket(c)[1] = HomeShard[c] /\ sending[c].origin = {Bucket(c)[2]}
           /\ sending[c].origin = {OriginOf(c)} /\ OriginOf(c) \in Origins
<1>1. PICK o \in Origins : sending[c].origin = {o}
  BY DEF ClientInv, Sound
<1>2. OriginOf(c) = o
  BY <1>1 DEF OriginOf
<1> QED  BY <1>1, <1>2 DEF Bucket, Buckets, HomeShards

\* A step of call c, of connections in nobody else's hands, and of bucket b.
LEMMA CallStep ==
    ASSUME ClientInv, NEW c \in Calls, NEW t \in SendRecs, NEW b \in Buckets, NEW q \in Seq(Conns),
           sending' = [sending EXCEPT ![c] = t], pool' = [pool EXCEPT ![b] = q], sock' \in [Conns -> SockRecs],
           serial' \in Nat, mixed' = FALSE, strayed' = FALSE, Sound(c, t, sock'),
           \A k \in Conns : sock'[k] # sock[k] \/ k \in t.sock => ~Elsewhere(k, c, b),
           \A i \in 1 .. Len(q) : Parked(b, sock'[q[i]]) /\ q[i] \notin t.sock /\ ~Elsewhere(q[i], c, b),
           \A i, j \in 1 .. Len(q) : q[i] = q[j] => i = j
    PROVE  ClientInv'
<1>1. /\ sending'[c] = t /\ (\A d \in Calls \ {c} : sending'[d] = sending[d])
      /\ pool'[b] = q /\ (\A e \in Buckets \ {b} : pool'[e] = pool[e])
  BY DEF ClientInv, ClientTypes
<1>2. ClientTypes'
  BY DEF ClientInv, ClientTypes
<1>3. ASSUME NEW d \in Calls PROVE Sound(d, sending'[d], sock')
  <2>1. CASE d = c
    BY <1>1, <2>1
  <2>2. CASE d # c
    <3>1. Sound(d, sending[d], sock) /\ sending'[d] = sending[d]
      BY <1>1, <2>2 DEF ClientInv
    <3>2. \A k \in Conns : k \in sending[d].sock => sock'[k] = sock[k]
      BY <2>2 DEF Elsewhere
    <3> QED  BY <3>1, <3>2 DEF Sound
  <2> QED  BY <2>1, <2>2
<1>4. ASSUME NEW d \in Calls, NEW e \in Calls, NEW k \in Conns, k \in sending'[d].sock, k \in sending'[e].sock PROVE d = e
  <2>1. CASE d # c /\ e # c
    BY <1>1, <1>4, <2>1 DEF ClientInv
  <2>2. CASE d = c /\ e # c
    BY <1>1, <1>4, <2>2 DEF Elsewhere
  <2>3. CASE d # c /\ e = c
    BY <1>1, <1>4, <2>3 DEF Elsewhere
  <2> QED  BY <2>1, <2>2, <2>3
<1>5. ASSUME NEW e \in Buckets, NEW i \in 1 .. Len(pool'[e])
      PROVE  Parked(e, sock'[pool'[e][i]]) /\ (\A d \in Calls : pool'[e][i] \notin sending'[d].sock)
  <2>1. CASE e = b
    BY <1>1, <1>5, <2>1 DEF Elsewhere
  <2>2. CASE e # b
    <3>1. pool'[e] = pool[e] /\ i \in 1 .. Len(pool[e])
      BY <1>1, <1>5, <2>2
    <3>2. pool[e][i] \in Conns /\ Parked(e, sock[pool[e][i]]) /\ (\A d \in Calls : pool[e][i] \notin sending[d].sock)
      BY <3>1, PoolFacts
    <3>3. Elsewhere(pool[e][i], c, b)
      BY <2>2, <3>1 DEF Elsewhere
    <3>4. sock'[pool[e][i]] = sock[pool[e][i]] /\ pool[e][i] \notin t.sock
      BY <3>2, <3>3
    <3> QED  BY <1>1, <3>1, <3>2, <3>4
  <2> QED  BY <2>1, <2>2
<1>6. \A e \in Buckets : \A i, j \in 1 .. Len(pool'[e]) : pool'[e][i] = pool'[e][j] => i = j
  BY <1>1 DEF ClientInv
<1> QED  BY <1>2, <1>3, <1>4, <1>5, <1>6 DEF ClientInv

\* In nobody's hands but c's, and in no bucket.
Loose(k, c) ==
    /\ \A d \in Calls \ {c} : k \notin sending[d].sock
    /\ \A b \in Buckets : \A i \in 1 .. Len(pool[b]) : pool[b][i] # k

\* A step of call c, and of connections that are its own.
LEMMA HandsStep ==
    ASSUME ClientInv, NEW c \in Calls, NEW t \in SendRecs, NEW b \in Buckets,
           sending' = [sending EXCEPT ![c] = t], UNCHANGED pool, sock' \in [Conns -> SockRecs],
           serial' \in Nat, mixed' = FALSE, strayed' = FALSE, Sound(c, t, sock'),
           \A k \in Conns : sock'[k] # sock[k] \/ k \in t.sock => Loose(k, c)
    PROVE  ClientInv'
<1>1. pool' = [pool EXCEPT ![b] = pool[b]]
  BY DEF ClientInv, ClientTypes
<1>2. /\ pool[b] \in Seq(Conns)
      /\ \A i \in 1 .. Len(pool[b]) : pool[b][i] \in Conns /\ Parked(b, sock[pool[b][i]]) /\ ~Elsewhere(pool[b][i], c, b)
      /\ \A i, j \in 1 .. Len(pool[b]) : pool[b][i] = pool[b][j] => i = j
  BY PoolFacts
<1>3. \A k \in Conns : sock'[k] # sock[k] \/ k \in t.sock => ~Elsewhere(k, c, b)
  BY DEF Loose, Elsewhere
<1>4. ASSUME NEW i \in 1 .. Len(pool[b]) PROVE Parked(b, sock'[pool[b][i]]) /\ pool[b][i] \notin t.sock
  <2>1. ~Loose(pool[b][i], c)
    BY DEF Loose
  <2>2. sock'[pool[b][i]] = sock[pool[b][i]] /\ pool[b][i] \notin t.sock
    BY <1>2, <2>1
  <2> QED  BY <1>2, <2>2
<1> QED  BY <1>1, <1>2, <1>3, <1>4, CallStep

LEMMA HeldIsFree ==
    ASSUME ClientInv, NEW c \in Calls, sending[c].at \in {"write", "read"}
    PROVE  SockOf(c) \in Conns /\ sending[c].sock = {SockOf(c)} /\ Loose(SockOf(c), c)
<1>1. PICK k \in Conns : /\ SockOf(c) = k /\ sending[c].sock = {k}
                         /\ \A b \in Buckets : \A i \in 1 .. Len(pool[b]) : pool[b][i] # k
  BY CallFacts
<1>2. \A d \in Calls \ {c} : k \notin sending[d].sock
  BY <1>1 DEF ClientInv
<1> QED  BY <1>1, <1>2 DEF Loose

LEMMA UnmadeIsFree == ASSUME ClientInv, NEW c \in Calls, NEW k \in Conns, ~sock[k].made PROVE Loose(k, c)
<1>1. \A d \in Calls : k \notin sending[d].sock
  BY DEF ClientInv, Sound
<1>2. \A b \in Buckets : \A i \in 1 .. Len(pool[b]) : pool[b][i] # k
  BY DEF ClientInv, Parked
<1> QED  BY <1>1, <1>2 DEF Loose

LEMMA Resting == NoHttpCall \in SendRecs /\ NoSock \in SockRecs /\ \A c \in Calls : \A ks : Sound(c, NoHttpCall, ks)
<1>1. NoHttpCall \in SendRecs /\ NoSock \in SockRecs
  BY DEF NoSock, NoHttpCall, SockRecs, SendRecs, UnitRecs
<1>2. NoHttpCall.at = "idle" /\ NoHttpCall.auth = FALSE /\ NoHttpCall.sock = {}
  BY DEF NoHttpCall
<1> QED  BY <1>1, <1>2 DEF Sound

\* A call that is over or goes on without its connection closes it.
LEMMA CloseStep ==
    ASSUME ClientInv, NEW c \in Calls, NEW t \in SendRecs, sending[c].at \in {"write", "read"}, Close(c),
           sending' = [sending EXCEPT ![c] = t], UNCHANGED <<pool, serial>>, mixed' = FALSE, strayed' = FALSE,
           t.sock = {}, \A ks : Sound(c, t, ks)
    PROVE  ClientInv'
<1>1. SockOf(c) \in Conns /\ Loose(SockOf(c), c) /\ Bucket(c) \in Buckets
  BY HeldIsFree, BucketFacts
<1>2. sock' \in [Conns -> SockRecs] /\ \A k \in Conns : sock'[k] # sock[k] => k = SockOf(c)
  BY <1>1, Resting DEF Close, ClientInv, ClientTypes
<1>3. serial' \in Nat
  BY DEF ClientInv, ClientTypes
<1> QED  BY <1>1, <1>2, <1>3, HandsStep

LEMMA SendStep == ASSUME ClientInv, NEW c \in Calls, NEW o \in UrlOrigins, Send(c, o) PROVE ClientInv'
<1> DEFINE t == [NoHttpCall EXCEPT !.at = "take", !.named = {o}, !.origin = {o}, !.auth = TRUE]
<1>1. sending' = [sending EXCEPT ![c] = t] /\ UNCHANGED <<sock, pool, serial, mixed, strayed>>
  BY DEF Send
<1>2. o \in Origins
  BY ClientAssumption
<1>3. t \in SendRecs /\ t.at = "take" /\ t.origin = {o} /\ t.named = {o} /\ t.sock = {}
  <2>1. /\ NoHttpCall \in SendRecs /\ NoHttpCall.sock = {} /\ {o} \in SUBSET Origins
        /\ t = [NoHttpCall EXCEPT !.at = "take", !.named = {o}, !.origin = {o}, !.auth = TRUE]
    BY <1>2, Resting DEF NoHttpCall
  <2> HIDE DEF t
  <2> QED  BY <2>1 DEF SendRecs
<1>4. Sound(c, t, sock')
  BY <1>2, <1>3 DEF Sound
<1>5. <<HomeShard[c], o>> \in Buckets
  BY <1>2 DEF Buckets, HomeShards
<1> HIDE DEF t
<1>6. /\ sock' \in [Conns -> SockRecs] /\ serial' \in Nat /\ mixed' = FALSE /\ strayed' = FALSE
      /\ \A k \in Conns : sock'[k] = sock[k] /\ k \notin t.sock
  BY <1>1, <1>3 DEF ClientInv, ClientTypes
<1> QED  BY <1>1, <1>3, <1>4, <1>5, <1>6, HandsStep

\* resolve and connect on a connection that is not made yet, as Connect and Redial do.
LEMMA DialedStep ==
    ASSUME ClientInv, NEW c \in Calls, NEW k \in Conns, sending[c].at \in {"take", "redial"}, ~sock[k].made,
           sock' = [sock EXCEPT ![k] = [NoSock EXCEPT !.made = TRUE, !.home = {HomeShard[c]}, !.origin = sending[c].origin,
                                                      !.open = TRUE]],
           sending' = [sending EXCEPT ![c] = [sending[c] EXCEPT !.at = "write", !.sock = {k}, !.reused = FALSE]],
           UNCHANGED <<pool, serial, mixed, strayed>>
    PROVE  ClientInv'
<1> DEFINE n == [NoSock EXCEPT !.made = TRUE, !.home = {HomeShard[c]}, !.origin = sending[c].origin, !.open = TRUE]
           t == [sending[c] EXCEPT !.at = "write", !.sock = {k}, !.reused = FALSE]
<1>1. sending[c] \in SendRecs
  BY DEF ClientInv, ClientTypes
<1>2. /\ n \in SockRecs /\ n.made /\ n.home = {HomeShard[c]} /\ n.origin = sending[c].origin /\ n.wire = <<>>
  <2>1. /\ NoSock \in SockRecs /\ NoSock.wire = <<>> /\ {HomeShard[c]} \in SUBSET HomeShards
        /\ sending[c].origin \in SUBSET Origins
    BY <1>1, Resting DEF NoSock, SendRecs, HomeShards
  <2>2. n = [NoSock EXCEPT !.made = TRUE, !.home = {HomeShard[c]}, !.origin = sending[c].origin, !.open = TRUE]
    OBVIOUS
  <2> HIDE DEF n
  <2> QED  BY <2>1, <2>2 DEF SockRecs
<1>3. /\ t \in SendRecs /\ t.at = "write" /\ t.sock = {k} /\ t.origin = sending[c].origin /\ t.auth = sending[c].auth
      /\ t.named = sending[c].named
  BY <1>1 DEF SendRecs
<1> HIDE DEF n, t
<1>4. /\ sock' \in [Conns -> SockRecs] /\ sock'[k] = n /\ \A j \in Conns : j # k => sock'[j] = sock[j]
      /\ serial' \in Nat /\ mixed' = FALSE /\ strayed' = FALSE /\ sending' = [sending EXCEPT ![c] = t]
  BY <1>2 DEF ClientInv, ClientTypes, n, t
<1>5. Sound(c, sending[c], sock) /\ Bucket(c) \in Buckets
  BY BucketFacts DEF ClientInv
<1>6. Sound(c, t, sock')
  <2>1. Leftover(n.wire)
    BY <1>2 DEF Leftover
  <2>2. t.auth => t.named = t.origin
    BY <1>3, <1>5 DEF Sound
  <2>3. \E o \in Origins : t.origin = {o}
    BY <1>3, <1>5 DEF Sound
  <2> QED  BY <1>2, <1>3, <1>4, <2>1, <2>2, <2>3 DEF Sound
<1>7. Loose(k, c)
  BY UnmadeIsFree
<1>8. \A j \in Conns : sock'[j] # sock[j] \/ j \in t.sock => Loose(j, c)
  BY <1>3, <1>4, <1>7
<1> QED  BY <1>3, <1>4, <1>5, <1>6, <1>8, HandsStep

\* The call fails before it has a connection.
LEMMA GiveUpStep ==
    ASSUME ClientInv, NEW c \in Calls, sending[c].at # "idle", sending' = [sending EXCEPT ![c] = NoHttpCall],
           UNCHANGED <<sock, pool, serial, mixed, strayed>>
    PROVE  ClientInv'
<1>1. /\ sock' \in [Conns -> SockRecs] /\ serial' \in Nat /\ mixed' = FALSE /\ strayed' = FALSE
      /\ \A k \in Conns : sock'[k] = sock[k]
  BY DEF ClientInv, ClientTypes
<1>2. NoHttpCall.sock = {} /\ Bucket(c) \in Buckets
  BY BucketFacts DEF NoHttpCall
<1> QED  BY <1>1, <1>2, Resting, HandsStep

LEMMA ConnectStep == ASSUME ClientInv, NEW c \in Calls, Connect(c) PROVE ClientInv'
<1>1. sending[c].at = "take" /\ UNCHANGED <<pool, serial, mixed, strayed>>
  BY DEF Connect
<1>2. CASE sending' = [sending EXCEPT ![c] = NoHttpCall] /\ UNCHANGED sock
  BY <1>1, <1>2, GiveUpStep
<1>3. CASE ~(sending' = [sending EXCEPT ![c] = NoHttpCall] /\ UNCHANGED sock)
  <2> DEFINE k == CHOOSE k \in Conns : ~sock[k].made
  <2>1. /\ \E j \in Conns : ~sock[j].made
        /\ sock' = [sock EXCEPT ![k] = [NoSock EXCEPT !.made = TRUE, !.home = {HomeShard[c]}, !.origin = sending[c].origin,
                                                      !.open = TRUE]]
        /\ sending' = [sending EXCEPT ![c] = [sending[c] EXCEPT !.at = "write", !.sock = {k}, !.reused = FALSE]]
    BY <1>3 DEF Connect
  <2>2. k \in Conns /\ ~sock[k].made
    BY <2>1
  <2> HIDE DEF k
  <2> QED  BY <1>1, <2>1, <2>2, DialedStep
<1> QED  BY <1>2, <1>3

LEMMA RedialStep == ASSUME ClientInv, NEW c \in Calls, Redial(c) PROVE ClientInv'
<1>1. sending[c].at = "redial" /\ UNCHANGED <<pool, serial, mixed, strayed>>
  BY DEF Redial
<1>2. CASE sending' = [sending EXCEPT ![c] = NoHttpCall] /\ UNCHANGED sock
  BY <1>1, <1>2, GiveUpStep
<1>3. CASE ~(sending' = [sending EXCEPT ![c] = NoHttpCall] /\ UNCHANGED sock)
  <2>1. PICK k \in Conns :
          /\ ~sock[k].made
          /\ sock' = [sock EXCEPT ![k] = [NoSock EXCEPT !.made = TRUE, !.home = {HomeShard[c]}, !.origin = sending[c].origin,
                                                        !.open = TRUE]]
          /\ sending' = [sending EXCEPT ![c] = [sending[c] EXCEPT !.at = "write", !.sock = {k}, !.reused = FALSE]]
    BY <1>3 DEF Redial
  <2> QED  BY <1>1, <2>1, DialedStep
<1> QED  BY <1>2, <1>3

LEMMA StaleStep == ASSUME ClientInv, NEW c \in Calls, Stale(c) PROVE ClientInv'
<1> DEFINE r == [sending[c] EXCEPT !.at = "redial", !.sock = {}]
<1>1. /\ sending[c].at = "read" /\ Close(c) /\ UNCHANGED <<pool, serial, mixed, strayed>>
      /\ sending' = [sending EXCEPT ![c] = IF sending[c].reused THEN r ELSE NoHttpCall]
  BY DEF Stale
<1>2. sending[c] \in SendRecs /\ Sound(c, sending[c], sock) /\ mixed = FALSE /\ strayed = FALSE
  BY DEF ClientInv, ClientTypes
<1>3. /\ r \in SendRecs /\ r.at = "redial" /\ r.sock = {} /\ r.origin = sending[c].origin /\ r.auth = sending[c].auth
      /\ r.named = sending[c].named
  BY <1>2 DEF SendRecs
<1> HIDE DEF r
<1>4. \A ks : Sound(c, r, ks)
  BY <1>1, <1>2, <1>3 DEF Sound
<1>5. NoHttpCall.sock = {}
  BY DEF NoHttpCall
<1> QED  BY <1>1, <1>2, <1>3, <1>4, <1>5, Resting, CloseStep

LEMMA DropStep == ASSUME ClientInv, NEW c \in Calls, BadResponse(c) \/ Abandon(c) PROVE ClientInv'
<1>1. /\ sending[c].at \in {"write", "read"} /\ Close(c) /\ UNCHANGED <<pool, serial, mixed, strayed>>
      /\ sending' = [sending EXCEPT ![c] = NoHttpCall]
  BY DEF BadResponse, Abandon
<1>2. mixed = FALSE /\ strayed = FALSE /\ NoHttpCall.sock = {}
  BY DEF ClientInv, NoHttpCall
<1> QED  BY <1>1, <1>2, Resting, CloseStep

-----------------------------------------------------------------------------
LEMMA Joined ==
    ASSUME NEW S, NEW a \in Seq(S), NEW b \in Seq(S), NEW l \in Nat, l = Len(a), NEW m \in Nat, m = Len(b)
    PROVE  /\ a \o b \in Seq(S) /\ Len(a \o b) = l + m /\ \A i \in 1 .. l : (a \o b)[i] = a[i]
           /\ \A i \in 1 .. m : (a \o b)[l + i] = b[i]
<1>1. /\ a \o b \in Seq(S) /\ Len(a \o b) = l + m
      /\ \A i \in 1 .. l + m : (a \o b)[i] = IF i <= l THEN a[i] ELSE b[i - l]
  BY ConcatProperties
<1>2. \A i \in 1 .. l : i \in 1 .. l + m /\ i <= l
  OBVIOUS
<1>3. \A i \in 1 .. m : l + i \in 1 .. l + m /\ ~(l + i <= l) /\ (l + i) - l = i
  OBVIOUS
<1> QED  BY <1>1, <1>2, <1>3

\* A piece of a sequence, from its first element on or from a later one.
LEMMA Started ==
    ASSUME NEW S, NEW w \in Seq(S), NEW x \in Nat, x <= Len(w)
    PROVE  SubSeq(w, 1, x) \in Seq(S) /\ Len(SubSeq(w, 1, x)) = x /\ \A i \in 1 .. x : SubSeq(w, 1, x)[i] = w[i]
<1>1. \A i \in 1 .. x : w[i] \in S
  <2>1. Len(w) \in Nat
    OBVIOUS
  <2>2. \A i \in 1 .. x : i \in 1 .. Len(w)
    BY <2>1
  <2> QED  BY <2>2, ElementOfSeq
<1>2. /\ SubSeq(w, 1, x) \in Seq(S) /\ Len(SubSeq(w, 1, x)) = IF 1 <= x THEN x - 1 + 1 ELSE 0
      /\ \A i \in 1 .. x - 1 + 1 : SubSeq(w, 1, x)[i] = w[1 + i - 1]
  BY <1>1, SubSeqProperties
<1>3. x - 1 + 1 = x /\ (~(1 <= x) => x = 0) /\ \A i \in 1 .. x : 1 + i - 1 = i
  OBVIOUS
<1> QED  BY <1>2, <1>3

LEMMA Rest ==
    ASSUME NEW S, NEW w \in Seq(S), NEW n \in Nat, NEW m \in Nat, m = Len(w)
    PROVE  /\ SubSeq(w, n + 1, m) \in Seq(S)
           /\ \A i \in 1 .. Len(SubSeq(w, n + 1, m)) : n + i \in 1 .. m /\ SubSeq(w, n + 1, m)[i] = w[n + i]
<1>1. \A i \in n + 1 .. m : w[i] \in S
  <2>1. \A i \in n + 1 .. m : i \in 1 .. m
    OBVIOUS
  <2> QED  BY <2>1, ElementOfSeq
<1>2. /\ SubSeq(w, n + 1, m) \in Seq(S) /\ Len(SubSeq(w, n + 1, m)) = IF n + 1 <= m THEN m - (n + 1) + 1 ELSE 0
      /\ \A i \in 1 .. m - (n + 1) + 1 : SubSeq(w, n + 1, m)[i] = w[n + 1 + i - 1]
  BY <1>1, SubSeqProperties
<1>3. m - (n + 1) + 1 = m - n /\ \A i \in 1 .. m - n : n + 1 + i - 1 = n + i /\ n + i \in 1 .. m
  OBVIOUS
<1>4. CASE n + 1 <= m
  BY <1>2, <1>3, <1>4
<1>5. CASE ~(n + 1 <= m)
  BY <1>2, <1>5
<1> QED  BY <1>4, <1>5

LEMMA UnitsFacts ==
    ASSUME NEW n \in Nat, NEW framing \in Framings, NEW to \in SUBSET Origins
    PROVE  /\ Units(n, framing, to) \in Seq(UnitRecs)
           /\ \A i \in 1 .. Len(Units(n, framing, to)) :
                 Units(n, framing, to)[i].num = n /\ (Units(n, framing, to)[i].k = "head" => i = 1)
<1> DEFINE U(kind) == [k |-> kind, num |-> n, framing |-> framing, to |-> to]
           p == <<U("head"), U("data")>>  q == IF framing = "chunked" THEN <<U("last"), U("crlf")>> ELSE <<>>
<1>1. \A kind \in {"head", "data", "last", "crlf"} : U(kind) \in UnitRecs /\ U(kind).num = n /\ U(kind).k = kind
  BY DEF UnitRecs
<1>2. /\ p \in Seq(UnitRecs) /\ Len(p) = 2 /\ p[1].num = n /\ p[2].num = n /\ p[2].k # "head"
  BY <1>1
<1>3. /\ q \in Seq(UnitRecs) /\ Len(q) \in {0, 2} /\ \A i \in 1 .. Len(q) : q[i].num = n /\ q[i].k # "head"
  <2>1. CASE framing = "chunked"
    <3>1. q = <<U("last"), U("crlf")>>
      BY <2>1
    <3> HIDE DEF q
    <3> QED  BY <1>1, <3>1
  <2>2. CASE framing # "chunked"
    <3>1. q = <<>>
      BY <2>2
    <3> HIDE DEF q
    <3> QED  BY <3>1
  <2> QED  BY <2>1, <2>2
<1>4. Units(n, framing, to) = p \o q
  BY DEF Units
<1> HIDE DEF p, q, U
<1>5. PICK m \in Nat : m = Len(q) /\ m \in {0, 2}
  BY <1>3
<1>6. /\ p \o q \in Seq(UnitRecs) /\ Len(p \o q) = 2 + m /\ (\A i \in 1 .. 2 : (p \o q)[i] = p[i])
      /\ \A i \in 1 .. m : (p \o q)[2 + i] = q[i]
  <2>1. PICK two \in Nat : two = 2
    OBVIOUS
  <2>2. p \in Seq(UnitRecs) /\ q \in Seq(UnitRecs) /\ two = Len(p)
    BY <1>2, <1>3, <2>1
  <2>3. /\ p \o q \in Seq(UnitRecs) /\ Len(p \o q) = two + m /\ (\A i \in 1 .. two : (p \o q)[i] = p[i])
        /\ \A i \in 1 .. m : (p \o q)[two + i] = q[i]
    BY <1>5, <2>2, Joined
  <2> QED  BY <2>1, <2>3
<1>7. ASSUME NEW i \in 1 .. 2 + m PROVE (p \o q)[i].num = n /\ ((p \o q)[i].k = "head" => i = 1)
  <2>1. CASE i \in 1 .. 2
    <3>1. i = 1 \/ i = 2
      BY <2>1
    <3> QED  BY <1>2, <1>6, <2>1, <3>1
  <2>2. CASE i \notin 1 .. 2
    <3>1. PICK j \in 1 .. m : i = 2 + j
      BY <1>5, <2>2
    <3> QED  BY <1>3, <1>5, <1>6, <3>1
  <2> QED  BY <2>1, <2>2
<1> QED  BY <1>4, <1>6, <1>7

\* The answer's first m units, on a wire with nothing or a leftover.
LEMMA WireThen ==
    ASSUME NEW w \in Seq(UnitRecs), Leftover(w), NEW n \in Nat, NEW u \in Seq(UnitRecs), NEW m \in Nat, m <= Len(u),
           \A i \in 1 .. Len(u) : u[i].num = n /\ (u[i].k = "head" => i = 1)
    PROVE  w \o SubSeq(u, 1, m) \in Seq(UnitRecs) /\ Answering(n, <<>>, w \o SubSeq(u, 1, m))
<1> DEFINE s == SubSeq(u, 1, m)
<1>1. s \in Seq(UnitRecs) /\ Len(s) = m /\ \A i \in 1 .. m : s[i] = u[i]
  BY Started
<1>2. \A i \in 1 .. m : i \in 1 .. Len(u)
  BY LenProperties
<1> HIDE DEF s
<1>3. PICK l \in Nat : l = Len(w)
  BY LenProperties
<1>4. w \o s \in Seq(UnitRecs) /\ Len(w \o s) = l + m /\ \A i \in 1 .. l : (w \o s)[i] = w[i]
  BY <1>1, <1>3, Joined
<1>5. CASE w = <<>>
  <2>1. w \o s = s
    BY <1>1, <1>5, ConcatEmptySeq
  <2>2. \A i \in 1 .. Len(s) : s[i].num = n /\ (s[i].k = "head" => i = 1)
    BY <1>1, <1>2
  <2> QED  BY <1>4, <2>1, <2>2 DEF Answering, s
<1>6. CASE w # <<>>
  <2>1. l # 0 /\ w[1].k # "head"
    BY <1>3, <1>6, EmptySeq DEF Leftover
  <2>2. 1 \in 1 .. l /\ l + m # 0
    BY <2>1
  <2>3. (w \o s)[1] = w[1] /\ w \o s # <<>>
    BY <1>4, <2>2, EmptySeq
  <2> QED  BY <1>4, <2>1, <2>3 DEF Answering, s
<1> QED  BY <1>5, <1>6

LEMMA AnswerThen ==
    ASSUME NEW w \in Seq(UnitRecs), Leftover(w), NEW n \in Nat, NEW framing \in Framings, NEW to \in SUBSET Origins,
           NEW dies \in BOOLEAN, NEW m \in IF dies THEN 0 .. Len(Units(n, framing, to)) - 1 ELSE {Len(Units(n, framing, to))}
    PROVE  /\ w \o SubSeq(Units(n, framing, to), 1, m) \in Seq(UnitRecs)
           /\ Answering(n, <<>>, w \o SubSeq(Units(n, framing, to), 1, m))
<1> DEFINE u == Units(n, framing, to)
<1>1. u \in Seq(UnitRecs) /\ \A i \in 1 .. Len(u) : u[i].num = n /\ (u[i].k = "head" => i = 1)
  BY UnitsFacts
<1> HIDE DEF u
<1>2. m \in Nat /\ m <= Len(u)
  BY <1>1, LenProperties DEF u
<1>3. w \o SubSeq(u, 1, m) \in Seq(UnitRecs) /\ Answering(n, <<>>, w \o SubSeq(u, 1, m))
  BY <1>1, <1>2, WireThen
<1> QED  BY <1>3 DEF u

LEMMA LeftoverThen == ASSUME NEW w \in Seq(UnitRecs), Leftover(w), NEW n PROVE Answering(n, <<>>, w)
BY DEF Leftover, Answering

LEMMA WriteStep == ASSUME ClientInv, NEW c \in Calls, WriteRequest(c) PROVE ClientInv'
<1> DEFINE k == SockOf(c)  n == serial + 1
           t == [sending[c] EXCEPT !.at = "read", !.num = n, !.buf = <<>>]
<1>1. /\ sending[c].at = "write" /\ serial' = n /\ sending' = [sending EXCEPT ![c] = t]
      /\ strayed' = (strayed \/ (sending[c].auth /\ sending[c].origin # sending[c].named)) /\ UNCHANGED <<pool, mixed>>
  BY DEF WriteRequest
<1>2. /\ k \in Conns /\ sending[c].sock = {k} /\ sock[k].made /\ sock[k].home = {HomeShard[c]}
      /\ sock[k].origin = sending[c].origin /\ sock[k] \in SockRecs /\ Leftover(sock[k].wire)
  BY <1>1, CallFacts
<1>3. Loose(k, c) /\ Bucket(c) \in Buckets
  BY <1>1, HeldIsFree, BucketFacts
<1>4. /\ sending[c] \in SendRecs /\ Sound(c, sending[c], sock) /\ mixed = FALSE /\ strayed = FALSE /\ serial \in Nat
      /\ sock[k].wire \in Seq(UnitRecs)
  BY <1>2 DEF ClientInv, ClientTypes, SockRecs
<1>5. n \in Nat /\ mixed' = FALSE /\ strayed' = FALSE
  <2>1. n \in Nat
    BY <1>4
  <2>2. sending[c].auth => sending[c].origin = sending[c].named
    BY <1>4 DEF Sound
  <2> QED  BY <1>1, <1>4, <2>1, <2>2
<1>6. PICK z \in SockRecs : /\ sock' = [sock EXCEPT ![k] = z] /\ z.made = sock[k].made /\ z.home = sock[k].home
                            /\ z.origin = sock[k].origin /\ Answering(n, <<>>, z.wire)
  <2>1. CASE sock[k].open /\ \E framing \in {"length", "chunked", "close"}, to \in {{}} \union {{o} : o \in Origins}, dies \in BOOLEAN :
               LET units == Units(n, framing, to) IN
               \E m \in IF dies THEN 0 .. Len(units) - 1 ELSE {Len(units)} :
                  /\ to # {} => framing = "length" /\ ~dies
                  /\ sock' = [sock EXCEPT ![k] = [sock[k] EXCEPT !.wire = sock[k].wire \o SubSeq(units, 1, m),
                                                                  !.open = ~dies /\ framing # "close"]]
    <3>1. PICK framing \in {"length", "chunked", "close"}, to \in {{}} \union {{o} : o \in Origins}, dies \in BOOLEAN :
             LET units == Units(n, framing, to) IN
               \E m \in IF dies THEN 0 .. Len(units) - 1 ELSE {Len(units)} :
                  /\ to # {} => framing = "length" /\ ~dies
                  /\ sock' = [sock EXCEPT ![k] = [sock[k] EXCEPT !.wire = sock[k].wire \o SubSeq(units, 1, m),
                                                                  !.open = ~dies /\ framing # "close"]]
      BY <2>1
    <3> DEFINE u == Units(n, framing, to)
    <3>2. PICK m \in IF dies THEN 0 .. Len(u) - 1 ELSE {Len(u)} :
             sock' = [sock EXCEPT ![k] = [sock[k] EXCEPT !.wire = sock[k].wire \o SubSeq(u, 1, m),
                                                         !.open = ~dies /\ framing # "close"]]
      BY <3>1
    <3>3. framing \in Framings /\ to \in SUBSET Origins
      BY DEF Framings
    <3> HIDE DEF n
    <3> DEFINE w == sock[k].wire \o SubSeq(u, 1, m)
    <3>9. w \in Seq(UnitRecs) /\ Answering(n, <<>>, w)
      BY <1>2, <1>4, <1>5, <3>3, AnswerThen
    <3>5. PICK b \in BOOLEAN : b = (~dies /\ framing # "close")
      OBVIOUS
    <3> DEFINE z == [sock[k] EXCEPT !.wire = w, !.open = b]
    <3>6. sock' = [sock EXCEPT ![k] = z]
      BY <3>2, <3>5
    <3> HIDE DEF w
    <3>7. /\ z \in SockRecs /\ z.made = sock[k].made /\ z.home = sock[k].home /\ z.origin = sock[k].origin /\ z.wire = w
      BY <1>2, <3>5, <3>9 DEF SockRecs
    <3> HIDE DEF z
    <3> QED  BY <3>6, <3>7, <3>9
  <2>2. CASE ~sock[k].open /\ UNCHANGED sock
    <3>1. sock' = [sock EXCEPT ![k] = sock[k]]
      BY <2>2 DEF ClientInv, ClientTypes
    <3> QED  BY <1>2, <1>4, <3>1, LeftoverThen
  <2> QED  BY <2>1, <2>2 DEF WriteRequest
<1>7. /\ t \in SendRecs /\ t.at = "read" /\ t.sock = {k} /\ t.num = n /\ t.buf = <<>> /\ t.origin = sending[c].origin
      /\ t.auth = sending[c].auth /\ t.named = sending[c].named
  <2>1. <<>> \in Seq(UnitRecs)
    OBVIOUS
  <2> HIDE DEF n
  <2> QED  BY <1>2, <1>4, <1>5, <2>1 DEF SendRecs
<1> HIDE DEF t, n
<1>8. sock' \in [Conns -> SockRecs] /\ sock'[k] = z /\ \A j \in Conns : j # k => sock'[j] = sock[j]
  BY <1>2, <1>6 DEF ClientInv, ClientTypes
<1>9. Sound(c, t, sock')
  <2>1. (\E o \in Origins : t.origin = {o}) /\ (t.auth => t.named = t.origin)
    BY <1>1, <1>4, <1>7 DEF Sound
  <2>2. /\ t.sock = {k} /\ sock'[k].made /\ sock'[k].home = {HomeShard[c]} /\ sock'[k].origin = t.origin
        /\ Answering(t.num, t.buf, sock'[k].wire)
    BY <1>2, <1>6, <1>7, <1>8
  <2> QED  BY <1>2, <1>7, <2>1, <2>2 DEF Sound
<1>10. \A j \in Conns : sock'[j] # sock[j] \/ j \in t.sock => Loose(j, c)
  BY <1>3, <1>7, <1>8
<1> QED  BY <1>1, <1>3, <1>5, <1>7, <1>8, <1>9, <1>10, HandsStep

LEMMA MinIs == ASSUME NEW x \in Nat, NEW y \in Nat PROVE Min({x, y}) = IF x <= y THEN x ELSE y
<1>1. \E z \in {x, y} : \A e \in {x, y} : z <= e
  OBVIOUS
<1>2. Min({x, y}) \in {x, y} /\ \A e \in {x, y} : Min({x, y}) <= e
  BY <1>1 DEF Min
<1> QED  BY <1>2

\* A read moves units from the wire to the buffer.
LEMMA ReadThen ==
    ASSUME NEW num \in Nat, NEW b \in Seq(UnitRecs), NEW w \in Seq(UnitRecs), Answering(num, b, w), w # <<>>,
           NEW n \in Nat \ {0}, NEW x \in Nat \ {0}, x <= Len(w)
    PROVE  /\ b \o SubSeq(w, 1, x) \in Seq(UnitRecs) /\ SubSeq(w, n + 1, Len(w)) \in Seq(UnitRecs)
           /\ Answering(num, b \o SubSeq(w, 1, x), SubSeq(w, n + 1, Len(w)))
<1>1. PICK l \in Nat, m \in Nat : l = Len(b) /\ m = Len(w)
  BY LenProperties
<1> DEFINE s == SubSeq(w, 1, x)  r == SubSeq(w, n + 1, m)  q == b \o s
<1>2. s \in Seq(UnitRecs) /\ Len(s) = x /\ \A i \in 1 .. x : s[i] = w[i]
  BY <1>1, Started
<1>3. r \in Seq(UnitRecs) /\ \A i \in 1 .. Len(r) : n + i \in 1 .. m /\ r[i] = w[n + i]
  BY <1>1, Rest
<1> HIDE DEF s, r
<1>4. /\ q \in Seq(UnitRecs) /\ Len(q) = l + x /\ (\A i \in 1 .. l : q[i] = b[i]) /\ \A i \in 1 .. x : q[l + i] = s[i]
  <2>1. x \in Nat /\ x = Len(s) /\ l = Len(b) /\ s \in Seq(UnitRecs)
    BY <1>1, <1>2
  <2> QED  BY <2>1, Joined
<1> HIDE DEF q
<1>5. q # <<>>
  BY <1>4
<1>6. Answering(num, q, r)
  <2>1. CASE b # <<>> /\ b[1].k # "head"
    <3>1. l # 0
      BY <1>1, <2>1, EmptySeq
    <3>2. 1 \in 1 .. l
      BY <3>1
    <3>3. q[1] = b[1]
      BY <1>4, <3>2
    <3> QED  BY <1>5, <2>1, <3>3 DEF Answering
  <2>2. CASE b = <<>> /\ w[1].k # "head"
    <3>1. l = 0
      BY <1>1, <2>2
    <3>2. 1 \in 1 .. x /\ l + 1 = 1
      BY <3>1
    <3>3. q[1] = w[1]
      BY <1>2, <1>4, <3>2
    <3> QED  BY <1>5, <2>2, <3>3 DEF Answering
  <2>3. CASE /\ \A i \in 1 .. l : b[i].num = num /\ (b[i].k = "head" => i = 1)
             /\ \A i \in 1 .. m : w[i].num = num /\ (w[i].k = "head" => i = 1 /\ b = <<>>)
    <3>1. ASSUME NEW i \in 1 .. l + x PROVE q[i].num = num /\ (q[i].k = "head" => i = 1)
      <4>1. CASE i \in 1 .. l
        BY <1>4, <2>3, <4>1
      <4>2. CASE i \notin 1 .. l
        <5>1. PICK j \in 1 .. x : i = l + j
          BY <4>2
        <5>2. j \in 1 .. m
          BY <1>1
        <5>3. q[i] = w[j]
          BY <1>2, <1>4, <5>1
        <5>4. b = <<>> => l = 0
          BY <1>1
        <5>5. q[i].k = "head" => j = 1 /\ l = 0
          BY <2>3, <5>2, <5>3, <5>4
        <5>6. j = 1 /\ l = 0 => i = 1
          BY <5>1
        <5> QED  BY <2>3, <5>2, <5>3, <5>5, <5>6
      <4> QED  BY <4>1, <4>2
    <3>2. ASSUME NEW i \in 1 .. Len(r) PROVE r[i].num = num /\ r[i].k # "head"
      <4>1. r[i] = w[n + i] /\ n + i \in 1 .. m
        BY <1>3
      <4>2. i >= 1
        OBVIOUS
      <4>3. n + i # 1
        BY <4>2
      <4> QED  BY <2>3, <4>1, <4>3
    <3> QED  BY <1>4, <3>1, <3>2 DEF Answering
  <2> QED  BY <1>1, <2>1, <2>2, <2>3 DEF Answering
<1> QED  BY <1>1, <1>3, <1>4, <1>6 DEF s, r, q

LEMMA ReadStep == ASSUME ClientInv, NEW c \in Calls, NEW n \in ReadSizes \union {4}, ReadMore(c, n) PROVE ClientInv'
<1> DEFINE k == SockOf(c)  w == sock[k].wire  x == Min({n, Len(w)})
           b == sending[c].buf \o SubSeq(w, 1, x)  r == SubSeq(w, n + 1, Len(w))
           t == [sending[c] EXCEPT !.buf = b]  z == [sock[k] EXCEPT !.wire = r]
<1>1. /\ k \in Conns /\ sending[c].sock = {k} /\ sock[k].made /\ sock[k].home = {HomeShard[c]}
      /\ sock[k].origin = sending[c].origin /\ sock[k] \in SockRecs /\ sending[c].at = "read"
      /\ Answering(sending[c].num, sending[c].buf, w) /\ w # <<>> /\ UNCHANGED <<pool, serial, mixed, strayed>>
  BY CallFacts DEF ReadMore
<1>2. sending[c] \in SendRecs /\ Sound(c, sending[c], sock) /\ mixed = FALSE /\ strayed = FALSE /\ serial \in Nat
  BY DEF ClientInv, ClientTypes
<1>3. sending' = [sending EXCEPT ![c] = t] /\ sock' = [sock EXCEPT ![k] = z]
  BY <1>1, <1>2 DEF ReadMore, ClientInv, ClientTypes
<1>4. /\ sending[c].num \in Nat /\ sending[c].buf \in Seq(UnitRecs) /\ w \in Seq(UnitRecs)
  BY <1>1, <1>2 DEF SendRecs, SockRecs
<1>5. n \in Nat \ {0} /\ x \in Nat \ {0} /\ x <= Len(w)
  <2>1. n \in Nat \ {0}
    BY ClientAssumption
  <2>2. PICK m \in Nat \ {0} : m = Len(w)
    BY <1>1, <1>4, EmptySeq
  <2>3. Min({n, m}) = IF n <= m THEN n ELSE m
    BY <2>1, MinIs
  <2> HIDE DEF w
  <2> QED  BY <2>1, <2>2, <2>3
<1> HIDE DEF x
<1>6. b \in Seq(UnitRecs) /\ r \in Seq(UnitRecs) /\ Answering(sending[c].num, b, r)
  <2> HIDE DEF w
  <2> QED  BY <1>1, <1>4, <1>5, ReadThen
<1> HIDE DEF w, b, r
<1>7. /\ t \in SendRecs /\ t.at = "read" /\ t.sock = {k} /\ t.num = sending[c].num /\ t.buf = b
      /\ t.origin = sending[c].origin /\ t.auth = sending[c].auth /\ t.named = sending[c].named
  BY <1>1, <1>2, <1>6 DEF SendRecs
<1>8. z \in SockRecs /\ z.made = sock[k].made /\ z.home = sock[k].home /\ z.origin = sock[k].origin /\ z.wire = r
  BY <1>1, <1>6 DEF SockRecs
<1> HIDE DEF t, z
<1>9. sock' \in [Conns -> SockRecs] /\ sock'[k] = z /\ \A j \in Conns : j # k => sock'[j] = sock[j]
  BY <1>1, <1>3, <1>8 DEF ClientInv, ClientTypes
<1>10. Sound(c, t, sock')
  <2>1. (\E o \in Origins : t.origin = {o}) /\ (t.auth => t.named = t.origin)
    BY <1>1, <1>2, <1>7 DEF Sound
  <2>2. /\ t.sock = {k} /\ sock'[k].made /\ sock'[k].home = {HomeShard[c]} /\ sock'[k].origin = t.origin
        /\ Answering(t.num, t.buf, sock'[k].wire)
    BY <1>1, <1>6, <1>7, <1>8, <1>9
  <2> QED  BY <1>1, <1>7, <2>1, <2>2 DEF Sound
<1>11. Loose(k, c) /\ Bucket(c) \in Buckets
  BY <1>1, HeldIsFree, BucketFacts
<1>12. \A j \in Conns : sock'[j] # sock[j] \/ j \in t.sock => Loose(j, c)
  BY <1>7, <1>9, <1>11
<1> QED  BY <1>1, <1>2, <1>3, <1>7, <1>9, <1>10, <1>11, <1>12, HandsStep

LEMMA TakeStep == ASSUME ClientInv, NEW c \in Calls, Take(c) PROVE ClientInv'
<1> DEFINE b == Bucket(c)  p == pool[b]  fresh == {i \in DOMAIN p : ~sock[p[i]].aged}
           newest == CHOOSE i \in fresh : \A j \in fresh : j <= i
<1>1. sending[c].at = "take" /\ p # <<>> /\ UNCHANGED <<serial, mixed, strayed>>
  BY DEF Take
<1>2. /\ b \in Buckets /\ b[1] = HomeShard[c] /\ sending[c].origin = {b[2]} /\ sending[c] \in SendRecs
      /\ mixed = FALSE /\ strayed = FALSE /\ serial \in Nat /\ Sound(c, sending[c], sock)
  BY <1>1, BucketFacts DEF ClientInv, ClientTypes
<1>3. /\ p \in Seq(Conns) /\ Len(p) \in Nat /\ DOMAIN p = 1 .. Len(p)
      /\ \A i \in 1 .. Len(p) : p[i] \in Conns /\ Parked(b, sock[p[i]])
      /\ \A i, j \in 1 .. Len(p) : p[i] = p[j] => i = j
      /\ \A i \in 1 .. Len(p) : ~Elsewhere(p[i], c, b)
  BY <1>2, PoolFacts
<1>4. CASE fresh = {}
  <2>1. /\ pool' = [pool EXCEPT ![b] = <<>>] /\ sending' = sending
        /\ sock' = [k \in Conns |-> IF k \in Range(p) THEN NoSock ELSE sock[k]]
    BY <1>4 DEF Take
  <2>2. sending' = [sending EXCEPT ![c] = sending[c]]
    BY <2>1 DEF ClientInv, ClientTypes
  <2>3. /\ sock' \in [Conns -> SockRecs]
        /\ \A k \in Conns : sock'[k] # sock[k] => \E i \in 1 .. Len(p) : p[i] = k
    <3>1. NoSock \in SockRecs
      BY Resting
    <3>2. \A k \in Range(p) : \E i \in 1 .. Len(p) : p[i] = k
      BY <1>3 DEF Range
    <3> HIDE DEF p
    <3> QED  BY <2>1, <3>1, <3>2 DEF ClientInv, ClientTypes
  <2>4. sending[c].sock = {}
    BY <1>1, <1>2 DEF Sound
  <2>5. Sound(c, sending[c], sock')
    BY <1>1, <1>2, <2>4 DEF Sound
  <2>6. PICK q \in Seq(Conns) : q = <<>> /\ \A i \in 1 .. Len(q) : FALSE
    <3>1. <<>> \in Seq(Conns) /\ \A i \in 1 .. Len(<<>>) : FALSE
      OBVIOUS
    <3> QED  BY <3>1
  <2>7. \A k \in Conns : sock'[k] # sock[k] \/ k \in sending[c].sock => ~Elsewhere(k, c, b)
    BY <1>3, <2>3, <2>4
  <2> HIDE DEF b, p, fresh, newest
  <2>8. sending[c] \in SendRecs /\ pool' = [pool EXCEPT ![b] = q] /\ serial' \in Nat /\ mixed' = FALSE /\ strayed' = FALSE
    BY <1>1, <1>2, <2>1, <2>6
  <2> QED  BY <1>2, <2>2, <2>3, <2>5, <2>6, <2>7, <2>8, CallStep
<1>5. CASE fresh # {}
  <2> DEFINE q == SubSeq(p, 1, newest - 1)  t == [sending[c] EXCEPT !.at = "write", !.sock = {p[newest]}, !.reused = TRUE]
  <2>1. /\ pool' = [pool EXCEPT ![b] = q] /\ sending' = [sending EXCEPT ![c] = t]
        /\ sock' = [k \in Conns |-> IF \E i \in DOMAIN p : i > newest /\ p[i] = k THEN NoSock ELSE sock[k]]
    BY <1>5 DEF Take
  <2>2. newest \in 1 .. Len(p)
    <3>1. fresh \subseteq 1 .. Len(p)
      BY <1>3
    <3>2. PICK m \in Nat : m = Len(p)
      BY <1>3
    <3> HIDE DEF fresh
    <3>3. \E i \in fresh : \A j \in fresh : j <= i
      BY <1>5, <3>1, <3>2, GreatestNatural
    <3>4. newest \in fresh
      BY <3>3
    <3> QED  BY <3>1, <3>4
  <2> HIDE DEF newest, fresh
  <2>3. PICK y \in Nat : y + 1 = newest
    BY <2>2
  <2>4. q \in Seq(Conns) /\ Len(q) = y /\ \A i \in 1 .. y : q[i] = p[i]
    <3>1. newest - 1 = y /\ y <= Len(p)
      BY <1>3, <2>2, <2>3
    <3> HIDE DEF p
    <3> QED  BY <1>3, <3>1, Started
  <2>5. \A i \in 1 .. y : i \in 1 .. Len(p) /\ i # newest
    BY <1>3, <2>2, <2>3
  <2> DEFINE k == p[newest]
  <2>6. k \in Conns /\ Parked(b, sock[k]) /\ ~Elsewhere(k, c, b)
    BY <1>3, <2>2
  <2>7. /\ sock' \in [Conns -> SockRecs]
        /\ \A j \in Conns : sock'[j] # sock[j] => \E i \in 1 .. Len(p) : i > newest /\ p[i] = j
    <3>1. NoSock \in SockRecs
      BY Resting
    <3> HIDE DEF p
    <3> QED  BY <1>3, <2>1, <3>1 DEF ClientInv, ClientTypes
  <2>8. \A i \in 1 .. Len(p) : i <= newest => sock'[p[i]] = sock[p[i]]
    <3>1. ASSUME NEW i \in 1 .. Len(p), i <= newest, NEW j \in 1 .. Len(p), j > newest PROVE p[j] # p[i]
      <4>1. i # j
        BY <2>2, <3>1
      <4> QED  BY <1>3, <4>1
    <3> HIDE DEF p
    <3> QED  BY <1>3, <2>7, <3>1
  <2>9. sock'[k] = sock[k]
    BY <2>2, <2>8
  <2>10. /\ t \in SendRecs /\ t.at = "write" /\ t.sock = {k} /\ t.origin = sending[c].origin /\ t.auth = sending[c].auth
         /\ t.named = sending[c].named
    <3> HIDE DEF p
    <3> QED  BY <1>2, <2>6 DEF SendRecs
  <2> HIDE DEF t
  <2>11. Sound(c, t, sock')
    <3>1. (\E o \in Origins : t.origin = {o}) /\ (t.auth => t.named = t.origin)
      BY <1>1, <1>2, <2>10 DEF Sound
    <3>2. /\ sock'[k].made /\ sock'[k].home = {HomeShard[c]} /\ sock'[k].origin = t.origin /\ Leftover(sock'[k].wire)
      BY <1>2, <2>6, <2>9, <2>10 DEF Parked
    <3> HIDE DEF k
    <3> QED  BY <2>6, <2>10, <3>1, <3>2 DEF Sound
  <2>12. \A i \in 1 .. Len(q) : Parked(b, sock'[q[i]]) /\ q[i] \notin t.sock /\ ~Elsewhere(q[i], c, b)
    <3>1. ASSUME NEW i \in 1 .. y PROVE Parked(b, sock'[p[i]]) /\ p[i] # p[newest] /\ ~Elsewhere(p[i], c, b)
      <4>1. i \in 1 .. Len(p) /\ i # newest
        BY <2>5
      <4>2. i <= newest
        BY <2>3
      <4>3. sock'[p[i]] = sock[p[i]]
        BY <2>8, <4>1, <4>2
      <4> QED  BY <1>3, <2>2, <4>1, <4>3
    <3> HIDE DEF p
    <3> QED  BY <2>4, <2>10, <3>1
  <2>13. \A i, j \in 1 .. Len(q) : q[i] = q[j] => i = j
    <3> HIDE DEF p
    <3> QED  BY <1>3, <2>4, <2>5
  <2>14. \A j \in Conns : sock'[j] # sock[j] \/ j \in t.sock => ~Elsewhere(j, c, b)
    <3> HIDE DEF p
    <3> QED  BY <1>3, <2>6, <2>7, <2>10
  <2> HIDE DEF b, q, p, k
  <2> QED  BY <1>1, <1>2, <2>1, <2>4, <2>7, <2>10, <2>11, <2>12, <2>13, <2>14, CallStep
<1> QED  BY <1>4, <1>5

LEMMA AnsweredStep == ASSUME ClientInv, NEW c \in Calls, Answered(c) PROVE ClientInv'
<1> DEFINE k == SockOf(c)  b == Bucket(c)  o == CHOOSE o \in Origins : o \in FirstRead(c).to  f == Follow(c, o)
           t == IF FirstRead(c).to # {} /\ sending[c].hops < MaxRedirects THEN f ELSE NoHttpCall
<1>1. /\ Complete(c) /\ GiveBack(c) /\ sending' = [sending EXCEPT ![c] = t] /\ UNCHANGED <<serial, strayed>>
      /\ mixed' = (mixed \/ \E i \in DOMAIN sending[c].buf : sending[c].buf[i].num # sending[c].num)
  BY DEF Answered
<1>2. sending[c].at = "read" /\ sending[c].buf # <<>> /\ FirstRead(c).k = "head"
  BY <1>1 DEF Complete
<1>3. /\ k \in Conns /\ sending[c].sock = {k} /\ sock[k].made /\ sock[k].home = {HomeShard[c]}
      /\ sock[k].origin = sending[c].origin /\ sock[k] \in SockRecs
      /\ Answering(sending[c].num, sending[c].buf, sock[k].wire) /\ ~Elsewhere(k, c, b)
      /\ \A e \in Buckets : \A i \in 1 .. Len(pool[e]) : pool[e][i] # k
      /\ b \in Buckets /\ b[1] = HomeShard[c] /\ sending[c].origin = {b[2]}
  <2>1. b \in Buckets /\ b[1] = HomeShard[c] /\ sending[c].origin = {b[2]}
    BY <1>2, BucketFacts
  <2> HIDE DEF b
  <2> QED  BY <1>2, <2>1, CallFacts
<1>4. sending[c] \in SendRecs /\ Sound(c, sending[c], sock) /\ mixed = FALSE /\ strayed = FALSE /\ serial \in Nat
  BY DEF ClientInv, ClientTypes
<1>5. /\ sending[c].buf \in Seq(UnitRecs) /\ DOMAIN sending[c].buf = 1 .. Len(sending[c].buf)
      /\ 1 \in 1 .. Len(sending[c].buf) /\ FirstRead(c) = sending[c].buf[1] /\ FirstRead(c) \in UnitRecs
  <2>1. sending[c].buf \in Seq(UnitRecs)
    BY <1>4 DEF SendRecs
  <2>2. Len(sending[c].buf) \in Nat \ {0}
    BY <1>2, <2>1, EmptySeq
  <2>3. 1 \in 1 .. Len(sending[c].buf)
    BY <2>2
  <2>4. Head(sending[c].buf) = sending[c].buf[1]
    BY <1>2, <2>1
  <2> QED  BY <2>1, <2>3, <2>4, ElementOfSeq, LenProperties DEF FirstRead
<1>6. /\ \A i \in 1 .. Len(sending[c].buf) : sending[c].buf[i].num = sending[c].num
      /\ Leftover(sock[k].wire)
  <2>1. /\ \A i \in 1 .. Len(sending[c].buf) : sending[c].buf[i].num = sending[c].num
        /\ \A i \in 1 .. Len(sock[k].wire) : sock[k].wire[i].k = "head" => sending[c].buf = <<>>
    BY <1>2, <1>3, <1>5 DEF Answering
  <2>2. sock[k].wire \in Seq(UnitRecs)
    BY <1>3 DEF SockRecs
  <2>3. sock[k].wire # <<>> => Len(sock[k].wire) \in Nat \ {0}
    BY <2>2, EmptySeq
  <2>4. sock[k].wire # <<>> => 1 \in 1 .. Len(sock[k].wire)
    BY <2>3
  <2> QED  BY <1>2, <2>1, <2>4 DEF Leftover
<1>7. mixed' = FALSE /\ strayed' = FALSE /\ serial' \in Nat
  BY <1>1, <1>4, <1>5, <1>6
<1>8. t \in SendRecs /\ t.sock = {} /\ \A ks : Sound(c, t, ks)
  <2>1. CASE FirstRead(c).to # {} /\ sending[c].hops < MaxRedirects
    <3>1. o \in Origins
      BY <1>5, <2>1 DEF UnitRecs
    <3>2. sending[c].auth => sending[c].named = sending[c].origin
      BY <1>4 DEF Sound
    <3> HIDE DEF o
    <3>3. /\ f \in SendRecs /\ f.at = "take" /\ f.sock = {} /\ f.origin = {o} /\ f.named = sending[c].named
          /\ f.auth = (sending[c].auth /\ sending[c].origin = {o})
      <4>1. sending[c].hops + 1 \in Nat /\ <<>> \in Seq(UnitRecs) /\ {o} \in SUBSET Origins
        BY <1>4, <3>1 DEF SendRecs
      <4>2. PICK g \in BOOLEAN : g = (sending[c].auth /\ sending[c].origin = {o})
        BY <1>4
      <4>3. f = [sending[c] EXCEPT !.at = "take", !.origin = {o}, !.sock = {}, !.buf = <<>>, !.hops = sending[c].hops + 1,
                                   !.auth = g]
        BY <1>4, <4>2 DEF Follow, SendRecs
      <4> HIDE DEF f
      <4> QED  BY <1>4, <4>1, <4>2, <4>3 DEF SendRecs
    <3>4. t = f
      BY <2>1
    <3> HIDE DEF f, t
    <3> QED  BY <3>1, <3>2, <3>3, <3>4 DEF Sound
  <2>2. CASE ~(FirstRead(c).to # {} /\ sending[c].hops < MaxRedirects)
    <3>1. t = NoHttpCall
      BY <2>2
    <3>2. NoHttpCall.sock = {}
      BY DEF NoHttpCall
    <3> HIDE DEF t
    <3> QED  BY <3>1, <3>2, Resting
  <2> QED  BY <2>1, <2>2
<1> HIDE DEF t, f, o
<1>9. CASE FirstRead(c).framing # "close" /\ Len(pool[b]) < MaxIdlePerHost
  <2> DEFINE p == pool[b]  q == Append(p, k)
  <2>1. pool' = [pool EXCEPT ![b] = q] /\ UNCHANGED sock
    BY <1>1, <1>3, <1>9 DEF GiveBack, ClientInv, ClientTypes
  <2>2. /\ p \in Seq(Conns) /\ Len(p) \in Nat
        /\ \A i \in 1 .. Len(p) : p[i] \in Conns /\ Parked(b, sock[p[i]]) /\ ~Elsewhere(p[i], c, b) /\ p[i] # k
        /\ \A i, j \in 1 .. Len(p) : p[i] = p[j] => i = j
    BY <1>3, PoolFacts
  <2>3. Parked(b, sock[k])
    BY <1>3, <1>6 DEF Parked
  <2> HIDE DEF p, b, k
  <2>4. PICK m \in Nat : m = Len(p)
    BY <2>2
  <2>5. q \in Seq(Conns) /\ Len(q) = m + 1 /\ q[m + 1] = k /\ \A i \in 1 .. m : q[i] = p[i]
    BY <1>3, <2>2, <2>4, AppendProperties
  <2> HIDE DEF q
  <2>6. ASSUME NEW i \in 1 .. m + 1
        PROVE  /\ Parked(b, sock'[q[i]]) /\ q[i] \notin t.sock /\ ~Elsewhere(q[i], c, b)
               /\ \A j \in 1 .. m + 1 : q[i] = q[j] => i = j
    <3>1. \A j \in 1 .. m + 1 : j = m + 1 \/ j \in 1 .. m
      OBVIOUS
    <3>2. CASE i = m + 1
      BY <1>3, <1>8, <2>1, <2>2, <2>3, <2>4, <2>5, <3>1, <3>2
    <3>3. CASE i \in 1 .. m
      BY <1>3, <1>8, <2>1, <2>2, <2>4, <2>5, <3>1, <3>3
    <3> QED  BY <3>1, <3>2, <3>3
  <2>7. sock' \in [Conns -> SockRecs] /\ \A j \in Conns : sock'[j] = sock[j]
    BY <2>1 DEF ClientInv, ClientTypes
  <2>8. /\ \A i \in 1 .. Len(q) : Parked(b, sock'[q[i]]) /\ q[i] \notin t.sock /\ ~Elsewhere(q[i], c, b)
        /\ \A i, j \in 1 .. Len(q) : q[i] = q[j] => i = j
        /\ \A j \in Conns : sock'[j] # sock[j] \/ j \in t.sock => ~Elsewhere(j, c, b)
    BY <1>8, <2>5, <2>6, <2>7
  <2>9. Sound(c, t, sock') /\ b \in Buckets /\ t \in SendRecs
    BY <1>3, <1>8
  <2>10. sending' = [sending EXCEPT ![c] = t]
    BY <1>1
  <2>11. q \in Seq(Conns) /\ sock' \in [Conns -> SockRecs] /\ pool' = [pool EXCEPT ![b] = q]
    BY <2>1, <2>5, <2>7
  <2> QED  BY <1>7, <2>8, <2>9, <2>10, <2>11, CallStep
<1>10. CASE ~(FirstRead(c).framing # "close" /\ Len(pool[b]) < MaxIdlePerHost)
  <2>1. UNCHANGED pool /\ Close(c)
    BY <1>1, <1>10 DEF GiveBack
  <2> QED  BY <1>1, <1>2, <1>7, <1>8, <2>1, CloseStep
<1> QED  BY <1>9, <1>10

\* The server closes a pooled connection, or the connection grows old.
LEMMA PooledStep == ASSUME ClientInv, NEW k \in Conns, ServerCloses(k) \/ GrowOld(k) PROVE ClientInv'
<1>1. PICK z : /\ z \in {[sock[k] EXCEPT !.open = FALSE], [sock[k] EXCEPT !.aged = TRUE]} /\ sock' = [sock EXCEPT ![k] = z]
               /\ UNCHANGED <<pool, sending, serial, mixed, strayed>>
  BY DEF ServerCloses, GrowOld
<1>2. sock[k] \in SockRecs
  BY DEF ClientInv, ClientTypes
<1>3. /\ z \in SockRecs /\ z.made = sock[k].made /\ z.home = sock[k].home /\ z.origin = sock[k].origin /\ z.wire = sock[k].wire
  BY <1>1, <1>2 DEF SockRecs
<1>4. /\ sock' \in [Conns -> SockRecs]
      /\ \A j \in Conns : /\ sock'[j].made = sock[j].made /\ sock'[j].home = sock[j].home /\ sock'[j].origin = sock[j].origin
                          /\ sock'[j].wire = sock[j].wire
  BY <1>1, <1>2, <1>3 DEF ClientInv, ClientTypes
<1>5. ClientTypes' /\ mixed' = FALSE /\ strayed' = FALSE
  BY <1>1, <1>4 DEF ClientInv, ClientTypes
<1>6. ASSUME NEW c \in Calls PROVE Sound(c, sending'[c], sock')
  <2>1. Sound(c, sending[c], sock) /\ sending'[c] = sending[c]
    BY <1>1 DEF ClientInv
  <2> QED  BY <1>4, <2>1 DEF Sound
<1>7. ASSUME NEW b \in Buckets, NEW i \in 1 .. Len(pool[b]) PROVE Parked(b, sock'[pool[b][i]])
  BY <1>4, PoolFacts DEF Parked
<1> QED  BY <1>1, <1>5, <1>6, <1>7 DEF ClientInv

LEMMA ClientStep == ClientInv /\ [ClientNext]_clientVars => ClientInv'
<1> SUFFICES ASSUME ClientInv, [ClientNext]_clientVars PROVE ClientInv'
  OBVIOUS
<1>1. CASE UNCHANGED clientVars
  BY <1>1 DEF clientVars, ClientInv, ClientTypes, Sound, Parked
<1>2. ASSUME NEW c \in Calls,
             \/ \E o \in UrlOrigins : Send(c, o)
             \/ Take(c) \/ Connect(c) \/ WriteRequest(c) \/ \E n \in ReadSizes \union {4} : ReadMore(c, n)
             \/ Stale(c) \/ Redial(c) \/ BadResponse(c) \/ Answered(c) \/ Abandon(c)
      PROVE  ClientInv'
  BY <1>2, SendStep, TakeStep, ConnectStep, WriteStep, ReadStep, StaleStep, RedialStep, DropStep, AnsweredStep
<1>3. ASSUME NEW k \in Conns, ServerCloses(k) \/ GrowOld(k) PROVE ClientInv'
  BY <1>3, PooledStep
<1> QED  BY <1>1, <1>2, <1>3 DEF ClientNext

LEMMA ClientHoldsThen == ClientInv => ClientHolds
<1> SUFFICES ASSUME ClientInv PROVE ClientHolds
  OBVIOUS
<1>1. DOMAIN pool = Buckets
  BY DEF ClientInv, ClientTypes
<1>2. ASSUME NEW b \in Buckets, NEW i \in DOMAIN pool[b]
      PROVE  /\ sock[pool[b][i]].home = {b[1]} /\ sock[pool[b][i]].origin = {b[2]}
             /\ \A j \in DOMAIN pool[b] : pool[b][i] = pool[b][j] => i = j
             /\ \A c \in Calls : pool[b][i] \notin sending[c].sock
  BY <1>2, PoolFacts DEF Parked
<1>3. mixed = FALSE /\ strayed = FALSE
  BY DEF ClientInv
<1> QED  BY <1>1, <1>2, <1>3 DEF ClientHolds

-----------------------------------------------------------------------------
(* The resolver.  Each answer, in hand or cached, is tied to the moment    *)
(* its server read its zone.                                                *)
Families == {"A", "AAAA"}
Errs == {"NameNotFound", "ServerFailure", "NoAddresses", "Io"}
IpSets == {z.a : z \in Zones} \union {z.aaaa : z \in Zones}
ServerReplies == [kind : {"failure", "truncated"}] \union [kind : {"answer"}, zone : Zones, ttl : TTLs]
LookAnswers == [err : Errs] \union [key : Families \X AllNames, ips : IpSets, cached : BOOLEAN]
LookRecs == [at : {"idle", "consult", "wait", "waitTcp", "done"}, cands : Seq(AllNames), fam : Families, cand : Nat, try : Nat,
             server : Nat, sent : Nat, reply : SUBSET ServerReplies, got : SUBSET LookAnswers]

DnsTypes ==
    /\ dnsNow \in Nat /\ zone \in [AllNames -> Zones] /\ lastHeld \in [AllNames -> [Zones -> Nat]]
    /\ look \in [Lookups -> LookRecs]

\* Addresses of the family that z gives a name.
Given(fam, z) == IF fam = "A" THEN z.a ELSE z.aaaa

\* The addresses under key k were true at some moment from t on, and t is no more than late before moment.
TrueAt(k, ips, late1, moment) ==
    \E z \in Zones : ips = Given(k[1], z) /\ lastHeld[k[2]][z] + late1 >= moment

\* A server's answer was true after the question was put; what a lookup hands over is recent.
LookGood(l) ==
    /\ l.at \in {"consult", "wait", "waitTcp"} => l.cand \in 1 .. Len(l.cands)
    /\ l.at \in {"wait", "waitTcp"} =>
          /\ l.sent <= dnsNow /\ dnsNow <= l.sent + QueryTimeout
          /\ \A r \in l.reply : r.kind = "answer" => lastHeld[l.cands[l.cand]][r.zone] >= l.sent
    /\ l.at # "done" => l.got = {}
    /\ \A g \in l.got : "ips" \in DOMAIN g =>
          TrueAt(g.key, g.ips, QueryTimeout + (IF g.cached THEN MaxTtl ELSE 0), dnsNow)

\* What the cache would still hand out was true within a query's time of when it was put.
CacheGood ==
    \A k \in DOMAIN dcache :
       /\ dcache[k].expires \in Nat /\ dcache[k].negative \in BOOLEAN
       /\ ~dcache[k].negative =>
             /\ k \in Families \X AllNames /\ dcache[k].ips \in IpSets
             /\ TrueAt(k, dcache[k].ips, QueryTimeout + MaxTtl, dcache[k].expires)

DnsInv ==
    /\ DnsTypes /\ CacheGood
    /\ \A n \in AllNames : lastHeld[n][zone[n]] = dnsNow
    /\ \A n \in AllNames, z \in Zones : lastHeld[n][z] <= dnsNow
    /\ \A q \in Lookups : LookGood(look[q])

-----------------------------------------------------------------------------
LEMMA DnsNumbers == QueryTimeout \in Nat /\ MinTtl \in Nat /\ MaxTtl \in Nat /\ MinTtl <= MaxTtl /\ NegativeTtl \in Nat /\ Nameservers \in Nat
BY DnsAssumption

LEMMA DnsInitial == DnsInit => DnsInv
<1> SUFFICES ASSUME DnsInit PROVE DnsInv
  OBVIOUS
<1>1. NotLooking \in LookRecs
  <2>1. <<>> \in Seq(AllNames)
    OBVIOUS
  <2> QED  BY <2>1 DEF NotLooking, LookRecs, Families
<1>2. DnsTypes
  BY <1>1 DEF DnsInit, DnsTypes
<1>3. CacheGood
  <2>1. DOMAIN <<>> = {}
    OBVIOUS
  <2> QED  BY <2>1 DEF DnsInit, CacheGood
<1>4. (\A n \in AllNames : lastHeld[n][zone[n]] = dnsNow) /\ \A n \in AllNames, z \in Zones : lastHeld[n][z] <= dnsNow
  BY <1>2 DEF DnsInit, DnsTypes
<1>5. \A q \in Lookups : LookGood(look[q])
  BY DEF DnsInit, LookGood, NotLooking
<1> QED  BY <1>2, <1>3, <1>4, <1>5 DEF DnsInv

\* A step of lookup q, which may put something into the cache.
LEMMA LookChange ==
    ASSUME DnsInv, NEW q \in Lookups, NEW l \in LookRecs, LookGood(l), look' = [look EXCEPT ![q] = l],
           UNCHANGED <<dnsNow, zone, lastHeld>>, CacheGood'
    PROVE  DnsInv'
<1>1. DnsTypes'
  BY DEF DnsInv, DnsTypes
<1>2. look'[q] = l /\ \A x \in Lookups : x # q => look'[x] = look[x]
  BY DEF DnsInv, DnsTypes
<1>3. ASSUME NEW x \in Lookups PROVE LookGood(look[x])'
  <2>1. LookGood(look'[x])
    BY <1>2 DEF DnsInv
  <2> QED  BY <2>1 DEF LookGood, TrueAt
<1> QED  BY <1>1, <1>3 DEF DnsInv

LEMMA CacheKept == ASSUME DnsInv, UNCHANGED <<dcache, lastHeld>> PROVE CacheGood'
BY DEF DnsInv, CacheGood, TrueAt

LEMMA LookFacts ==
    ASSUME DnsInv, NEW q \in Lookups, look[q].at \in {"consult", "wait", "waitTcp"}
    PROVE  /\ look[q] \in LookRecs /\ look[q].got = {} /\ look[q].cands \in Seq(AllNames) /\ Name(q) \in AllNames
           /\ look[q].cand \in 1 .. Len(look[q].cands) /\ CacheKey(q) \in Families \X AllNames
           /\ CacheKey(q)[1] = look[q].fam /\ CacheKey(q)[2] = Name(q) /\ dnsNow \in Nat /\ look[q].fam \in Families
<1>1. look[q] \in LookRecs /\ LookGood(look[q]) /\ dnsNow \in Nat
  BY DEF DnsInv, DnsTypes
<1>2. look[q].cands \in Seq(AllNames) /\ look[q].fam \in Families /\ look[q].cand \in 1 .. Len(look[q].cands) /\ look[q].got = {}
  BY <1>1 DEF LookRecs, LookGood
<1>3. Name(q) \in AllNames
  BY <1>2, ElementOfSeq DEF Name
<1> QED  BY <1>1, <1>2, <1>3 DEF CacheKey

\* A lookup that goes on with a candidate, asks a server or has found nothing.
GoesOn(q) == \E l \in LookRecs : LookGood(l) /\ look' = [look EXCEPT ![q] = l]

LEMMA NotFoundThen ==
    ASSUME DnsInv, NEW q \in Lookups, look[q].at \in {"consult", "wait", "waitTcp"}, NEW err \in Errs, NotFound(q, err)
    PROVE  GoesOn(q)
<1> DEFINE g == [err |-> err]  l == [look[q] EXCEPT !.at = "done", !.reply = {}, !.got = {g}]
<1>1. look' = [look EXCEPT ![q] = l]
  BY DEF NotFound, Found
<1>2. g \in LookAnswers /\ "ips" \notin DOMAIN g
  BY DEF LookAnswers
<1> HIDE DEF g
<1>3. l \in LookRecs /\ l.at = "done" /\ l.got = {g}
  <2>1. look[q] \in LookRecs /\ {g} \in SUBSET LookAnswers
    BY <1>2, LookFacts
  <2> QED  BY <2>1 DEF LookRecs
<1> HIDE DEF l
<1>4. LookGood(l)
  BY <1>2, <1>3 DEF LookGood
<1> QED  BY <1>1, <1>3, <1>4 DEF GoesOn

LEMMA NextCandidateThen ==
    ASSUME DnsInv, NEW q \in Lookups, look[q].at \in {"consult", "wait", "waitTcp"}, NEW err \in Errs, NextCandidate(q, err)
    PROVE  GoesOn(q)
<1>1. PICK m \in Nat, i \in Nat : m = Len(look[q].cands) /\ i = look[q].cand /\ i \in 1 .. m
  BY LookFacts, LenProperties
<1>2. look[q] \in LookRecs /\ look[q].got = {}
  BY LookFacts
<1>3. CASE look[q].cand < Len(look[q].cands)
  <2> DEFINE l == [look[q] EXCEPT !.at = "consult", !.cand = look[q].cand + 1, !.reply = {}]
  <2>1. look' = [look EXCEPT ![q] = l]
    BY <1>3 DEF NextCandidate
  <2>2. i + 1 \in Nat /\ i + 1 \in 1 .. m
    BY <1>1, <1>3
  <2>3. l \in LookRecs /\ l.at = "consult" /\ l.cand = i + 1 /\ l.cands = look[q].cands /\ l.got = {}
    BY <1>1, <1>2, <2>2 DEF LookRecs
  <2> HIDE DEF l
  <2>4. LookGood(l)
    BY <1>1, <2>2, <2>3 DEF LookGood
  <2> QED  BY <2>1, <2>3, <2>4 DEF GoesOn
<1>4. CASE look[q].cand = Len(look[q].cands) /\ look[q].fam = "A" /\ err # "NameNotFound"
  <2> DEFINE l == [look[q] EXCEPT !.at = "consult", !.fam = "AAAA", !.cand = 1, !.reply = {}]
  <2>1. look' = [look EXCEPT ![q] = l]
    BY <1>1, <1>4 DEF NextCandidate
  <2>2. 1 \in 1 .. m
    BY <1>1
  <2>3. l \in LookRecs /\ l.at = "consult" /\ l.cand = 1 /\ l.cands = look[q].cands /\ l.got = {}
    BY <1>2 DEF LookRecs, Families
  <2> HIDE DEF l
  <2>4. LookGood(l)
    BY <1>1, <2>2, <2>3 DEF LookGood
  <2> QED  BY <2>1, <2>3, <2>4 DEF GoesOn
<1>5. CASE /\ ~(look[q].cand < Len(look[q].cands))
           /\ ~(look[q].cand = Len(look[q].cands) /\ look[q].fam = "A" /\ err # "NameNotFound")
  BY <1>5, NotFoundThen DEF NextCandidate
<1> QED  BY <1>3, <1>4, <1>5

LEMMA AskThen ==
    ASSUME DnsInv, NEW q \in Lookups, look[q].at \in {"consult", "wait", "waitTcp"}, NEW s \in Nat, NEW t \in Nat, Ask(q, s, t)
    PROVE  GoesOn(q)
<1> DEFINE l == [look[q] EXCEPT !.at = "wait", !.server = s, !.try = t, !.sent = dnsNow, !.reply = {}]
<1>1. look' = [look EXCEPT ![q] = l]
  BY DEF Ask
<1>2. /\ look[q] \in LookRecs /\ look[q].got = {} /\ dnsNow \in Nat /\ look[q].cand \in 1 .. Len(look[q].cands)
  BY LookFacts
<1>3. /\ l \in LookRecs /\ l.at = "wait" /\ l.sent = dnsNow /\ l.reply = {} /\ l.cands = look[q].cands
      /\ l.cand = look[q].cand /\ l.got = {}
  BY <1>2 DEF LookRecs
<1> HIDE DEF l
<1>4. dnsNow <= dnsNow /\ dnsNow <= dnsNow + QueryTimeout
  BY <1>2, DnsNumbers
<1>5. LookGood(l)
  BY <1>2, <1>3, <1>4 DEF LookGood
<1> QED  BY <1>1, <1>3, <1>5 DEF GoesOn

LEMMA NextServerThen ==
    ASSUME DnsInv, NEW q \in Lookups, look[q].at \in {"wait", "waitTcp"}, NEW err \in Errs, NextServer(q, err)
    PROVE  GoesOn(q)
<1>1. look[q].server \in Nat /\ look[q].try \in Nat
  BY LookFacts DEF LookRecs
<1>2. look[q].server + 1 \in Nat /\ look[q].try + 1 \in Nat
  BY <1>1
<1>3. CASE look[q].server < Nameservers
  BY <1>1, <1>2, <1>3, AskThen DEF NextServer
<1>4. CASE look[q].server = Nameservers /\ look[q].try < Attempts
  BY <1>1, <1>2, <1>4, AskThen, DnsNumbers DEF NextServer
<1>5. CASE ~(look[q].server < Nameservers) /\ ~(look[q].server = Nameservers /\ look[q].try < Attempts)
  BY <1>5, NextCandidateThen DEF NextServer
<1> QED  BY <1>3, <1>4, <1>5

LEMMA OwnRange ==
    ASSUME NEW T, NEW s \in Seq(T), s # <<>>, Range(s) \subseteq AllNames
    PROVE  s \in Seq(AllNames) /\ 1 \in 1 .. Len(s)
<1>1. Len(s) \in Nat /\ DOMAIN s = 1 .. Len(s) /\ s \in [1 .. Len(s) -> T]
  BY LenProperties
<1>2. Len(s) # 0
  BY EmptySeq
<1>3. \A i \in 1 .. Len(s) : s[i] \in AllNames
  BY <1>1 DEF Range
<1>4. s \in [1 .. Len(s) -> AllNames]
  BY <1>1, <1>3
<1>5. s \in Seq(AllNames)
  BY <1>1, <1>4, SeqDef
<1> QED  BY <1>1, <1>2, <1>5

LEMMA CandidatesAreNames ==
    ASSUME NEW q \in Lookups, NEW h \in HostsOf[q]
    PROVE  Candidates(h) \in Seq(AllNames) /\ 1 \in 1 .. Len(Candidates(h))
<1> DEFINE suffixed == [i \in DOMAIN SearchList |-> h.labels \o SearchList[i]]
           T == {h.labels} \union {suffixed[i] : i \in DOMAIN SearchList}
<1>1. PICK n \in Nat : n = Len(SearchList) /\ DOMAIN SearchList = 1 .. n
  BY DnsAssumption
<1>2. suffixed \in Seq(T)
  <2>1. suffixed \in [1 .. n -> T]
    BY <1>1
  <2> HIDE DEF suffixed, T
  <2> QED  BY <2>1, SeqDef
<1>3. \/ Candidates(h) = <<h.labels>> \/ Candidates(h) = <<h.labels>> \o suffixed
      \/ Candidates(h) = Append(suffixed, h.labels)
  BY DEF Candidates
<1>4. h.labels \in T /\ <<h.labels>> \in Seq(T) /\ Len(<<h.labels>>) = 1
  OBVIOUS
<1> HIDE DEF suffixed, T
<1>5. PICK s : s = Candidates(h) /\ s \in Seq(T) /\ s # <<>>
  <2>1. CASE Candidates(h) = <<h.labels>>
    BY <1>4, <2>1
  <2>2. CASE Candidates(h) = <<h.labels>> \o suffixed
    <3>1. Candidates(h) \in Seq(T) /\ Len(Candidates(h)) = 1 + Len(suffixed) /\ Len(suffixed) \in Nat
      BY <1>2, <1>4, <2>2, ConcatProperties, LenProperties
    <3> QED  BY <3>1, EmptySeq
  <2>3. CASE Candidates(h) = Append(suffixed, h.labels)
    BY <1>2, <1>4, <2>3, AppendProperties
  <2> QED  BY <1>3, <2>1, <2>2, <2>3
<1>6. Range(Candidates(h)) \subseteq AllNames
  BY DEF AllNames
<1> QED  BY <1>5, <1>6, OwnRange

LEMMA StartLookupStep == ASSUME DnsInv, NEW q \in Lookups, NEW h \in HostsOf[q], StartLookup(q, h) PROVE DnsInv'
<1> DEFINE l == [NotLooking EXCEPT !.at = "consult", !.cands = Candidates(h)]
<1>1. look' = [look EXCEPT ![q] = l] /\ UNCHANGED <<dnsNow, zone, lastHeld, dcache>>
  BY DEF StartLookup
<1>2. Candidates(h) \in Seq(AllNames) /\ 1 \in 1 .. Len(Candidates(h))
  BY CandidatesAreNames
<1>3. NotLooking \in LookRecs
  <2>1. <<>> \in Seq(AllNames)
    OBVIOUS
  <2> QED  BY <2>1 DEF NotLooking, LookRecs, Families
<1>4. l \in LookRecs /\ l.at = "consult" /\ l.cands = Candidates(h) /\ l.cand = 1 /\ l.got = {}
  <2>1. NotLooking.cand = 1 /\ NotLooking.got = {}
    BY DEF NotLooking
  <2> QED  BY <1>2, <1>3, <2>1 DEF LookRecs
<1> HIDE DEF l
<1>5. LookGood(l)
  BY <1>2, <1>4 DEF LookGood
<1> QED  BY <1>1, <1>4, <1>5, LookChange, CacheKept

LEMMA ConsultStep == ASSUME DnsInv, NEW q \in Lookups, Consult(q) PROVE DnsInv'
<1> DEFINE k == CacheKey(q)
<1>1. look[q].at = "consult" /\ UNCHANGED <<dnsNow, zone, lastHeld, dcache>>
  BY DEF Consult
<1>2. CacheGood'
  BY <1>1, CacheKept
<1>3. CASE LiveEntry(k) /\ ~dcache[k].negative
  <2> DEFINE g == [key |-> k, ips |-> dcache[k].ips, cached |-> TRUE]
             l == [look[q] EXCEPT !.at = "done", !.reply = {}, !.got = {g}]
  <2>1. look' = [look EXCEPT ![q] = l]
    BY <1>3 DEF Consult, Found
  <2>2. /\ k \in Families \X AllNames /\ dcache[k].ips \in IpSets /\ dcache[k].expires \in Nat /\ dnsNow < dcache[k].expires
        /\ TrueAt(k, dcache[k].ips, QueryTimeout + MaxTtl, dcache[k].expires)
    BY <1>3 DEF LiveEntry, DnsInv, CacheGood
  <2>3. TrueAt(k, dcache[k].ips, QueryTimeout + MaxTtl, dnsNow)
    <3>1. PICK z \in Zones : dcache[k].ips = Given(k[1], z) /\ lastHeld[k[2]][z] + (QueryTimeout + MaxTtl) >= dcache[k].expires
      BY <2>2 DEF TrueAt
    <3>2. lastHeld[k[2]][z] \in Nat /\ dnsNow \in Nat
      BY <2>2 DEF DnsInv, DnsTypes
    <3>3. lastHeld[k[2]][z] + (QueryTimeout + MaxTtl) >= dnsNow
      BY <2>2, <3>1, <3>2, DnsNumbers
    <3> QED  BY <3>1, <3>3 DEF TrueAt
  <2>4. g \in LookAnswers /\ g.key = k /\ g.ips = dcache[k].ips /\ g.cached = TRUE
    <3> HIDE DEF k
    <3> QED  BY <2>2 DEF LookAnswers
  <2> HIDE DEF g, k
  <2>5. l \in LookRecs /\ l.at = "done" /\ l.got = {g}
    <3>1. look[q] \in LookRecs /\ {g} \in SUBSET LookAnswers
      BY <1>1, <2>4, LookFacts
    <3> QED  BY <3>1 DEF LookRecs
  <2> HIDE DEF l
  <2>6. LookGood(l)
    BY <2>3, <2>4, <2>5 DEF LookGood
  <2> QED  BY <1>1, <1>2, <2>1, <2>5, <2>6, LookChange
<1>4. CASE LiveEntry(k) /\ dcache[k].negative
  <2>1. NextCandidate(q, "NameNotFound") /\ "NameNotFound" \in Errs
    BY <1>4 DEF Consult, Errs
  <2>2. GoesOn(q)
    BY <1>1, <2>1, NextCandidateThen
  <2> QED  BY <1>1, <1>2, <2>2, LookChange DEF GoesOn
<1>5. CASE ~(LiveEntry(k) /\ ~dcache[k].negative) /\ ~(LiveEntry(k) /\ dcache[k].negative)
  <2>1. Ask(q, 1, 1)
    BY <1>5 DEF Consult
  <2>2. GoesOn(q)
    BY <1>1, <2>1, AskThen
  <2> QED  BY <1>1, <1>2, <2>2, LookChange DEF GoesOn
<1> QED  BY <1>3, <1>4, <1>5

LEMMA ServerReplyStep == ASSUME DnsInv, NEW q \in Lookups, ServerReply(q) PROVE DnsInv'
<1>1. /\ look[q].at \in {"wait", "waitTcp"} /\ UNCHANGED <<dnsNow, zone, lastHeld, dcache>>
  BY DEF ServerReply
<1>2. /\ look[q] \in LookRecs /\ LookGood(look[q]) /\ Name(q) \in AllNames /\ look[q].sent \in Nat
  BY <1>1, LookFacts DEF DnsInv, LookRecs
<1>3. PICK r \in ServerReplies : /\ look' = [look EXCEPT ![q].reply = {r}]
                                 /\ r.kind = "answer" => r.zone = zone[Name(q)]
  <2>1. PICK r : /\ look' = [look EXCEPT ![q].reply = {r}]
                 /\ \/ r = [kind |-> "failure"] \/ r = [kind |-> "truncated"]
                    \/ \E t \in TTLs : r = [kind |-> "answer", zone |-> zone[Name(q)], ttl |-> t]
    BY <1>1 DEF ServerReply
  <2>2. zone[Name(q)] \in Zones
    BY <1>2 DEF DnsInv, DnsTypes
  <2>3. CASE r = [kind |-> "failure"] \/ r = [kind |-> "truncated"]
    <3>1. [kind |-> "failure"] \in [kind : {"failure", "truncated"}] /\ [kind |-> "truncated"] \in [kind : {"failure", "truncated"}]
      OBVIOUS
    <3>2. r \in ServerReplies
      BY <2>3, <3>1 DEF ServerReplies
    <3>3. r.kind # "answer"
      BY <2>3
    <3> QED  BY <2>1, <3>2, <3>3
  <2>4. CASE \E t \in TTLs : r = [kind |-> "answer", zone |-> zone[Name(q)], ttl |-> t]
    <3>1. PICK t \in TTLs : r = [kind |-> "answer", zone |-> zone[Name(q)], ttl |-> t]
      BY <2>4
    <3>2. [kind |-> "answer", zone |-> zone[Name(q)], ttl |-> t] \in [kind : {"answer"}, zone : Zones, ttl : TTLs]
      BY <2>2
    <3>3. r \in ServerReplies
      BY <3>1, <3>2 DEF ServerReplies
    <3>4. r.zone = zone[Name(q)]
      BY <3>1
    <3> QED  BY <2>1, <3>3, <3>4
  <2> QED  BY <2>1, <2>3, <2>4
<1> DEFINE l == [look[q] EXCEPT !.reply = {r}]
<1>4. look' = [look EXCEPT ![q] = l]
  BY <1>3 DEF DnsInv, DnsTypes
<1>5. /\ l \in LookRecs /\ l.at = look[q].at /\ l.cand = look[q].cand /\ l.cands = look[q].cands /\ l.sent = look[q].sent
      /\ l.got = look[q].got /\ l.reply = {r}
  BY <1>2, <1>3 DEF LookRecs
<1> HIDE DEF l
<1>6. r.kind = "answer" => lastHeld[l.cands[l.cand]][r.zone] >= l.sent
  <2>1. r.kind = "answer" => lastHeld[Name(q)][r.zone] = dnsNow
    BY <1>2, <1>3 DEF DnsInv
  <2>2. l.sent <= dnsNow /\ Name(q) = l.cands[l.cand] /\ dnsNow \in Nat
    BY <1>1, <1>2, <1>5 DEF LookGood, Name, DnsInv, DnsTypes
  <2> QED  BY <1>2, <1>5, <2>1, <2>2
<1>7. LookGood(l)
  BY <1>1, <1>2, <1>5, <1>6 DEF LookGood
<1> QED  BY <1>1, <1>4, <1>5, <1>7, LookChange, CacheKept

\* An entry that may be put: what is put is swept in beside what is left.
LEMMA PutThen ==
    ASSUME DnsInv, NEW k, NEW e, PutEntry(k, e), UNCHANGED lastHeld, e.expires \in Nat, e.negative \in BOOLEAN,
           ~e.negative => /\ k \in Families \X AllNames /\ e.ips \in IpSets
                          /\ TrueAt(k, e.ips, QueryTimeout + MaxTtl, e.expires)
    PROVE  CacheGood'
<1>1. Swept \subseteq DOMAIN dcache
  BY DEF Swept
<1>2. DOMAIN dcache' = Swept \union {k} /\ dcache'[k] = e /\ \A x \in Swept : x # k => dcache'[x] = dcache[x]
  BY DEF PutEntry
<1>3. ASSUME NEW x \in DOMAIN dcache'
      PROVE  /\ dcache'[x].expires \in Nat /\ dcache'[x].negative \in BOOLEAN
             /\ ~dcache'[x].negative =>
                   /\ x \in Families \X AllNames /\ dcache'[x].ips \in IpSets
                   /\ TrueAt(x, dcache'[x].ips, QueryTimeout + MaxTtl, dcache'[x].expires)
  <2>1. CASE x = k
    BY <1>2, <2>1
  <2>2. CASE x # k
    <3>1. x \in DOMAIN dcache /\ dcache'[x] = dcache[x]
      BY <1>1, <1>2, <2>2
    <3> QED  BY <3>1 DEF DnsInv, CacheGood
  <2> QED  BY <2>1, <2>2
<1> QED  BY <1>3 DEF CacheGood, TrueAt

LEMMA ReceiveStep == ASSUME DnsInv, NEW q \in Lookups, Receive(q) PROVE DnsInv'
<1>1. look[q].at \in {"wait", "waitTcp"} /\ UNCHANGED <<dnsNow, zone, lastHeld>>
  BY DEF Receive
<1>2. /\ look[q] \in LookRecs /\ LookGood(look[q]) /\ Name(q) \in AllNames /\ look[q].sent \in Nat
      /\ CacheKey(q) \in Families \X AllNames /\ CacheKey(q)[1] = look[q].fam /\ CacheKey(q)[2] = Name(q)
      /\ dnsNow \in Nat /\ look[q].got = {} /\ look[q].cand \in 1 .. Len(look[q].cands)
      /\ look[q].reply \subseteq ServerReplies
  BY <1>1, LookFacts DEF DnsInv, LookRecs
<1>3. ASSUME GoesOn(q), CacheGood' PROVE DnsInv'
  BY <1>1, <1>3, LookChange DEF GoesOn
<1>4. PICK r \in look[q].reply :
          \/ r.kind = "failure" /\ NextServer(q, "ServerFailure") /\ UNCHANGED dcache
          \/ /\ r.kind = "truncated" /\ UNCHANGED dcache
             /\ look' = [look EXCEPT ![q] = [look[q] EXCEPT !.at = "waitTcp", !.sent = dnsNow, !.reply = {}]]
          \/ /\ r.kind = "answer" /\ r.zone.nx
             /\ PutEntry(CacheKey(q), [ips |-> {}, negative |-> TRUE, expires |-> dnsNow + NegativeTtl])
             /\ NextCandidate(q, "NameNotFound")
          \/ /\ r.kind = "answer" /\ ~r.zone.nx /\ AddressesOf(q, r.zone) = {}
             /\ NextServer(q, "NoAddresses") /\ UNCHANGED dcache
          \/ /\ r.kind = "answer" /\ ~r.zone.nx /\ AddressesOf(q, r.zone) # {}
             /\ IF r.ttl = 0 THEN UNCHANGED dcache
                ELSE PutEntry(CacheKey(q), [ips |-> AddressesOf(q, r.zone), negative |-> FALSE, expires |-> dnsNow + Clamp(r.ttl)])
             /\ Found(q, [key |-> CacheKey(q), ips |-> AddressesOf(q, r.zone), cached |-> FALSE])
  BY DEF Receive
<1>5. UNCHANGED dcache => CacheGood'
  BY <1>1, CacheKept
<1>6. CASE \E err \in {"ServerFailure", "NoAddresses"} : NextServer(q, err) /\ UNCHANGED dcache
  <2>1. PICK err \in Errs : NextServer(q, err)
    BY <1>6 DEF Errs
  <2> QED  BY <1>1, <1>3, <1>5, <1>6, <2>1, NextServerThen
<1>7. CASE UNCHANGED dcache /\ look' = [look EXCEPT ![q] = [look[q] EXCEPT !.at = "waitTcp", !.sent = dnsNow, !.reply = {}]]
  <2> DEFINE l == [look[q] EXCEPT !.at = "waitTcp", !.sent = dnsNow, !.reply = {}]
  <2>1. /\ l \in LookRecs /\ l.at = "waitTcp" /\ l.sent = dnsNow /\ l.reply = {} /\ l.cands = look[q].cands
        /\ l.cand = look[q].cand /\ l.got = {}
    BY <1>2 DEF LookRecs
  <2>2. look' = [look EXCEPT ![q] = l]
    BY <1>7
  <2> HIDE DEF l
  <2>3. dnsNow <= dnsNow /\ dnsNow <= dnsNow + QueryTimeout
    BY <1>2, DnsNumbers
  <2>4. LookGood(l)
    BY <1>2, <2>1, <2>3 DEF LookGood
  <2> QED  BY <1>3, <1>5, <1>7, <2>1, <2>2, <2>4 DEF GoesOn
<1>8. CASE /\ PutEntry(CacheKey(q), [ips |-> {}, negative |-> TRUE, expires |-> dnsNow + NegativeTtl])
           /\ NextCandidate(q, "NameNotFound")
  <2> DEFINE e == [ips |-> {}, negative |-> TRUE, expires |-> dnsNow + NegativeTtl]
  <2>1. e.expires \in Nat /\ e.negative = TRUE
    BY <1>2, DnsNumbers
  <2>2. PutEntry(CacheKey(q), e)
    BY <1>8
  <2> HIDE DEF e
  <2>3. CacheGood'
    BY <1>1, <2>1, <2>2, PutThen
  <2>4. GoesOn(q)
    BY <1>1, <1>8, NextCandidateThen DEF Errs
  <2> QED  BY <1>3, <2>3, <2>4
<1>9. CASE /\ r.kind = "answer"
           /\ IF r.ttl = 0 THEN UNCHANGED dcache
              ELSE PutEntry(CacheKey(q), [ips |-> AddressesOf(q, r.zone), negative |-> FALSE, expires |-> dnsNow + Clamp(r.ttl)])
           /\ Found(q, [key |-> CacheKey(q), ips |-> AddressesOf(q, r.zone), cached |-> FALSE])
  <2> DEFINE k == CacheKey(q)  ips == AddressesOf(q, r.zone)
             g == [key |-> k, ips |-> ips, cached |-> FALSE]
             l == [look[q] EXCEPT !.at = "done", !.reply = {}, !.got = {g}]
             e == [ips |-> ips, negative |-> FALSE, expires |-> dnsNow + Clamp(r.ttl)]
  <2>1. r \in [kind : {"answer"}, zone : Zones, ttl : TTLs]
    BY <1>2, <1>9 DEF ServerReplies
  <2>2. r.zone \in Zones /\ r.ttl \in Nat
    BY <2>1, DnsAssumption
  <2>3. ips \in IpSets /\ ips = Given(k[1], r.zone)
    BY <1>2, <2>2 DEF AddressesOf, Given, IpSets
  <2>4. look[q].sent <= dnsNow /\ dnsNow <= look[q].sent + QueryTimeout /\ lastHeld[k[2]][r.zone] >= look[q].sent
    BY <1>1, <1>2, <1>9 DEF LookGood, Name
  <2>5. lastHeld[k[2]][r.zone] \in Nat
    BY <1>2, <2>2 DEF DnsInv, DnsTypes
  <2>6. PICK hd \in Nat : hd = lastHeld[k[2]][r.zone]
    BY <2>5
  <2>7. hd + QueryTimeout >= dnsNow
    <3>1. PICK se \in Nat : se = look[q].sent
      BY <1>2
    <3>2. se <= dnsNow /\ dnsNow <= se + QueryTimeout /\ hd >= se
      BY <2>4, <2>6, <3>1
    <3> HIDE DEF k, ips, g, l, e
    <3> QED  BY <1>2, <3>2, DnsNumbers
  <2>8. PICK cl \in Nat : cl = Clamp(r.ttl) /\ cl <= MaxTtl
    BY <2>2, DnsNumbers DEF Clamp
  <2>9. look' = [look EXCEPT ![q] = l]
    BY <1>9 DEF Found
  <2>10. k \in Families \X AllNames
    BY <1>2
  <2>11. UNCHANGED dcache \/ PutEntry(k, e)
    BY <1>9
  <2> HIDE DEF k, ips
  <2>12. g \in LookAnswers /\ g.key = k /\ g.ips = ips /\ g.cached = FALSE
    BY <2>3, <2>10 DEF LookAnswers
  <2>13. e.negative = FALSE /\ e.ips = ips /\ e.expires = dnsNow + cl
    BY <2>8
  <2> HIDE DEF g, e
  <2>14. l \in LookRecs /\ l.at = "done" /\ l.got = {g}
    <3>1. {g} \in SUBSET LookAnswers
      BY <2>12
    <3> QED  BY <1>2, <3>1 DEF LookRecs
  <2> HIDE DEF l
  <2>15. LookGood(l)
    <3>1. hd + (QueryTimeout + 0) >= dnsNow
      BY <2>7, DnsNumbers
    <3>2. TrueAt(k, ips, QueryTimeout + 0, dnsNow)
      BY <2>2, <2>3, <2>6, <3>1 DEF TrueAt
    <3> QED  BY <2>12, <2>14, <3>2 DEF LookGood
  <2>16. CacheGood'
    <3>1. CASE UNCHANGED dcache
      BY <1>5, <3>1
    <3>2. CASE PutEntry(k, e)
      <4>1. e.expires \in Nat
        BY <1>2, <2>13
      <4>2. hd + (QueryTimeout + MaxTtl) >= e.expires
        BY <1>2, <2>7, <2>8, <2>13, DnsNumbers
      <4>3. TrueAt(k, ips, QueryTimeout + MaxTtl, e.expires)
        BY <2>2, <2>3, <2>6, <4>2 DEF TrueAt
      <4> QED  BY <1>1, <2>3, <2>10, <2>13, <3>2, <4>1, <4>3, PutThen
    <3> QED  BY <2>11, <3>1, <3>2
  <2> QED  BY <1>3, <2>9, <2>14, <2>15, <2>16 DEF GoesOn
<1> QED  BY <1>4, <1>6, <1>7, <1>8, <1>9

LEMMA TimesOutStep == ASSUME DnsInv, NEW q \in Lookups, QueryTimesOut(q) PROVE DnsInv'
<1>1. look[q].at \in {"wait", "waitTcp"} /\ NextServer(q, "Io") /\ UNCHANGED <<dnsNow, zone, lastHeld, dcache>>
  BY DEF QueryTimesOut
<1>2. GoesOn(q)
  BY <1>1, NextServerThen DEF Errs
<1> QED  BY <1>1, <1>2, LookChange, CacheKept DEF GoesOn

LEMMA ReturnedStep == ASSUME DnsInv, NEW q \in Lookups, Returned(q) PROVE DnsInv'
<1>1. look' = [look EXCEPT ![q] = NotLooking] /\ UNCHANGED <<dnsNow, zone, lastHeld, dcache>>
  BY DEF Returned
<1>2. NotLooking \in LookRecs
  <2>1. <<>> \in Seq(AllNames)
    OBVIOUS
  <2> QED  BY <2>1 DEF NotLooking, LookRecs, Families
<1>3. LookGood(NotLooking)
  BY DEF LookGood, NotLooking
<1> QED  BY <1>1, <1>2, <1>3, LookChange, CacheKept

LEMMA ClearDnsStep == ASSUME DnsInv, ClearDns PROVE DnsInv'
<1>1. dcache' = <<>> /\ UNCHANGED <<dnsNow, zone, lastHeld, look>>
  BY DEF ClearDns
<1>2. DOMAIN <<>> = {}
  OBVIOUS
<1> QED  BY <1>1, <1>2 DEF DnsInv, DnsTypes, CacheGood, LookGood, TrueAt

\* What was true is still as long ago as it was.
LEMMA StillTrue ==
    ASSUME DnsInv, \A n \in AllNames, z \in Zones : lastHeld'[n][z] \in Nat /\ lastHeld'[n][z] >= lastHeld[n][z],
           NEW k \in Families \X AllNames, NEW ips, NEW d \in Nat, NEW t \in Nat, TrueAt(k, ips, d, t)
    PROVE  TrueAt(k, ips, d, t)'
<1>1. PICK z \in Zones : ips = Given(k[1], z) /\ lastHeld[k[2]][z] + d >= t
  BY DEF TrueAt
<1>2. lastHeld[k[2]][z] \in Nat /\ lastHeld'[k[2]][z] \in Nat /\ lastHeld'[k[2]][z] >= lastHeld[k[2]][z]
  BY DEF DnsInv, DnsTypes
<1>3. lastHeld'[k[2]][z] + d >= t
  BY <1>1, <1>2
<1> QED  BY <1>1, <1>3 DEF TrueAt

\* A step of the clock or of a zone.
LEMMA WorldStep ==
    ASSUME DnsInv, dnsNow' \in Nat, zone' \in [AllNames -> Zones], lastHeld' \in [AllNames -> [Zones -> Nat]],
           UNCHANGED <<look, dcache>>, \A n \in AllNames, z \in Zones : lastHeld'[n][z] >= lastHeld[n][z],
           \A n \in AllNames : lastHeld'[n][zone'[n]] = dnsNow',
           dnsNow' >= dnsNow, \A n \in AllNames, z \in Zones : lastHeld'[n][z] <= dnsNow',
           \A q \in Lookups : look[q].at \in {"wait", "waitTcp"} => dnsNow' <= look[q].sent + QueryTimeout,
           dnsNow' = dnsNow \/ \A q \in Lookups : look[q].at # "done"
    PROVE  DnsInv'
<1>1. DnsTypes'
  BY DEF DnsInv, DnsTypes
<1>2. \A n \in AllNames, z \in Zones : lastHeld[n][z] \in Nat /\ lastHeld'[n][z] \in Nat /\ lastHeld'[n][z] >= lastHeld[n][z]
  BY DEF DnsInv, DnsTypes
<1>3. CacheGood'
  <2>1. ASSUME NEW k \in DOMAIN dcache, ~dcache[k].negative PROVE TrueAt(k, dcache[k].ips, QueryTimeout + MaxTtl, dcache[k].expires)'
    <3>1. /\ k \in Families \X AllNames /\ dcache[k].expires \in Nat /\ QueryTimeout + MaxTtl \in Nat
          /\ TrueAt(k, dcache[k].ips, QueryTimeout + MaxTtl, dcache[k].expires)
      BY <2>1, DnsNumbers DEF DnsInv, CacheGood
    <3>2. PICK d \in Nat, t \in Nat : d = QueryTimeout + MaxTtl /\ t = dcache[k].expires
      BY <3>1
    <3>3. PICK a \in IpSets : a = dcache[k].ips
      BY <2>1 DEF DnsInv, CacheGood
    <3>4. TrueAt(k, a, d, t)
      BY <3>1, <3>2, <3>3
    <3>5. TrueAt(k, a, d, t)'
      BY <1>2, <3>1, <3>4, StillTrue
    <3>6. dcache' = dcache
      OBVIOUS
    <3> QED  BY <3>2, <3>3, <3>5, <3>6 DEF TrueAt
  <2> QED  BY <2>1 DEF DnsInv, CacheGood
<1>4. ASSUME NEW q \in Lookups PROVE LookGood(look[q])'
  <2> DEFINE l == look[q]
  <2>1. look'[q] = l /\ l \in LookRecs /\ LookGood(l) /\ dnsNow \in Nat
    BY DEF DnsInv, DnsTypes
  <2>2. CASE l.at = "done"
    <3>1. \A g \in l.got : "ips" \in DOMAIN g => g \in [key : Families \X AllNames, ips : IpSets, cached : BOOLEAN]
      BY <2>1 DEF LookRecs, LookAnswers
    <3>2. dnsNow' = dnsNow
      BY <2>2
    <3>3. ASSUME NEW g \in l.got, "ips" \in DOMAIN g
          PROVE  TrueAt(g.key, g.ips, QueryTimeout + (IF g.cached THEN MaxTtl ELSE 0), dnsNow)'
      <4>1. TrueAt(g.key, g.ips, QueryTimeout + (IF g.cached THEN MaxTtl ELSE 0), dnsNow) /\ g.key \in Families \X AllNames
        BY <2>1, <3>1, <3>3 DEF LookGood
      <4>2. PICK k \in Families \X AllNames, d \in Nat : k = g.key /\ d = QueryTimeout + (IF g.cached THEN MaxTtl ELSE 0)
        BY <4>1, DnsNumbers
      <4>3. TrueAt(k, g.ips, d, dnsNow)
        BY <4>1, <4>2
      <4>4. PICK t \in Nat : t = dnsNow
        BY <2>1
      <4>5. TrueAt(k, g.ips, d, t)'
        BY <1>2, <4>3, <4>4, StillTrue
      <4> QED  BY <3>2, <4>2, <4>4, <4>5 DEF TrueAt
    <3> QED  BY <2>1, <2>2, <3>3 DEF LookGood
  <2>3. CASE l.at # "done"
    <3>1. l.got = {} /\ (l.at \in {"consult", "wait", "waitTcp"} => l.cand \in 1 .. Len(l.cands))
      BY <2>1, <2>3 DEF LookGood
    <3>2. CASE l.at \in {"wait", "waitTcp"}
      <4>1. l.sent \in Nat /\ l.sent <= dnsNow /\ dnsNow' <= l.sent + QueryTimeout
        BY <2>1, <3>2 DEF LookGood, LookRecs
      <4>2. l.sent <= dnsNow'
        BY <2>1, <4>1
      <4>3. l.cands[l.cand] \in AllNames
        BY <2>1, <3>1, <3>2, ElementOfSeq DEF LookRecs
      <4>4. ASSUME NEW r \in l.reply, r.kind = "answer" PROVE lastHeld'[l.cands[l.cand]][r.zone] >= l.sent
        <5>1. r \in [kind : {"answer"}, zone : Zones, ttl : TTLs]
          BY <2>1, <4>4 DEF LookRecs, ServerReplies
        <5>2. r.zone \in Zones /\ lastHeld[l.cands[l.cand]][r.zone] >= l.sent
          BY <2>1, <3>2, <4>4, <5>1 DEF LookGood
        <5>3. PICK x \in Nat, y \in Nat : /\ x = lastHeld[l.cands[l.cand]][r.zone] /\ y = lastHeld'[l.cands[l.cand]][r.zone]
                                          /\ y >= x
          BY <1>2, <4>3, <5>2
        <5> QED  BY <4>1, <5>2, <5>3
      <4> QED  BY <2>1, <3>1, <3>2, <4>1, <4>2, <4>4 DEF LookGood
    <3>3. CASE l.at \notin {"wait", "waitTcp"}
      BY <2>1, <2>3, <3>1, <3>3 DEF LookGood
    <3> QED  BY <3>2, <3>3
  <2> QED  BY <2>2, <2>3
<1> QED  BY <1>1, <1>3, <1>4 DEF DnsInv

LEMMA DnsTickStep == ASSUME DnsInv, DnsTick PROVE DnsInv'
<1>1. /\ \A q \in Lookups : look[q].at \in {"wait", "waitTcp"} => dnsNow < look[q].sent + QueryTimeout
      /\ \A q \in Lookups : look[q].at # "done"
      /\ dnsNow' = dnsNow + 1 /\ UNCHANGED <<zone, dcache, look>>
      /\ lastHeld' = [n \in AllNames |-> [lastHeld[n] EXCEPT ![zone[n]] = dnsNow + 1]]
  BY DEF DnsTick
<1>2. /\ dnsNow \in Nat /\ zone \in [AllNames -> Zones] /\ lastHeld \in [AllNames -> [Zones -> Nat]]
      /\ \A n \in AllNames : lastHeld[n][zone[n]] = dnsNow
  BY DEF DnsInv, DnsTypes
<1>3. dnsNow' \in Nat /\ dnsNow' >= dnsNow /\ dnsNow + 1 >= dnsNow
  BY <1>1, <1>2
<1>4. lastHeld' \in [AllNames -> [Zones -> Nat]] /\ \A n \in AllNames : lastHeld'[n][zone'[n]] = dnsNow'
  BY <1>1, <1>2, <1>3
<1>5. ASSUME NEW n \in AllNames, NEW z \in Zones PROVE lastHeld'[n][z] >= lastHeld[n][z]
  <2>1. CASE z = zone[n]
    <3>1. lastHeld'[n][z] = dnsNow + 1 /\ lastHeld[n][z] = dnsNow
      BY <1>1, <1>2, <2>1
    <3> QED  BY <1>2, <3>1
  <2>2. CASE z # zone[n]
    <3>1. lastHeld'[n][z] = lastHeld[n][z] /\ lastHeld[n][z] \in Nat
      BY <1>1, <1>2, <2>2
    <3> QED  BY <3>1
  <2> QED  BY <2>1, <2>2
<1>6. ASSUME NEW q \in Lookups, look[q].at \in {"wait", "waitTcp"} PROVE dnsNow' <= look[q].sent + QueryTimeout
  <2>1. look[q].sent \in Nat /\ dnsNow < look[q].sent + QueryTimeout
    BY <1>1, <1>6 DEF DnsInv, DnsTypes, LookRecs
  <2> QED  BY <1>1, <1>2, <2>1, DnsNumbers
<1>7. ASSUME NEW n \in AllNames, NEW z \in Zones PROVE lastHeld'[n][z] <= dnsNow'
  <2>1. CASE z = zone[n]
    <3>1. lastHeld'[n][z] = dnsNow + 1
      BY <1>1, <1>2, <2>1
    <3> QED  BY <1>1, <1>2, <3>1
  <2>2. CASE z # zone[n]
    <3>1. lastHeld'[n][z] = lastHeld[n][z] /\ lastHeld[n][z] \in Nat /\ lastHeld[n][z] <= dnsNow
      BY <1>1, <1>2, <2>2 DEF DnsInv
    <3> QED  BY <1>1, <1>2, <3>1
  <2> QED  BY <2>1, <2>2
<1> QED  BY <1>1, <1>2, <1>3, <1>4, <1>5, <1>6, <1>7, WorldStep

LEMMA ZoneStep == ASSUME DnsInv, NEW n \in Changing, NEW z \in Zones, ZoneChanges(n, z) PROVE DnsInv'
<1>1. /\ zone' = [zone EXCEPT ![n] = z] /\ lastHeld' = [lastHeld EXCEPT ![n][z] = dnsNow] /\ UNCHANGED <<dnsNow, dcache, look>>
  BY DEF ZoneChanges
<1>2. /\ dnsNow \in Nat /\ zone \in [AllNames -> Zones] /\ lastHeld \in [AllNames -> [Zones -> Nat]]
      /\ (\A m \in AllNames : lastHeld[m][zone[m]] = dnsNow) /\ n \in AllNames
  BY DnsAssumption DEF DnsInv, DnsTypes
<1>3. /\ zone' \in [AllNames -> Zones] /\ lastHeld' \in [AllNames -> [Zones -> Nat]]
      /\ \A m \in AllNames : lastHeld'[m][zone'[m]] = dnsNow'
  BY <1>1, <1>2
<1>4. \A m \in AllNames, y \in Zones : lastHeld'[m][y] >= lastHeld[m][y] /\ lastHeld'[m][y] <= dnsNow'
  BY <1>1, <1>2 DEF DnsInv
<1>5. \A q \in Lookups : look[q].at \in {"wait", "waitTcp"} => dnsNow' <= look[q].sent + QueryTimeout
  BY <1>1 DEF DnsInv, LookGood
<1>6. dnsNow' \in Nat /\ dnsNow' >= dnsNow /\ dnsNow' = dnsNow
  BY <1>1, <1>2
<1> QED  BY <1>1, <1>3, <1>4, <1>5, <1>6, WorldStep

LEMMA DnsStep == DnsInv /\ [DnsNext]_dnsVars => DnsInv'
<1> SUFFICES ASSUME DnsInv, [DnsNext]_dnsVars PROVE DnsInv'
  OBVIOUS
<1>1. CASE UNCHANGED dnsVars
  <2>1. UNCHANGED <<dnsNow, zone, lastHeld, dcache, look>>
    BY <1>1 DEF dnsVars
  <2> QED  BY <2>1 DEF DnsInv, DnsTypes, CacheGood, LookGood, TrueAt
<1>2. CASE \E q \in Lookups : \/ \E h \in HostsOf[q] : StartLookup(q, h)
                              \/ Consult(q) \/ ServerReply(q) \/ Receive(q) \/ QueryTimesOut(q) \/ Returned(q)
  BY <1>2, StartLookupStep, ConsultStep, ServerReplyStep, ReceiveStep, TimesOutStep, ReturnedStep
<1>3. CASE ClearDns \/ DnsTick \/ \E n \in Changing, z \in Zones : ZoneChanges(n, z)
  BY <1>3, ClearDnsStep, DnsTickStep, ZoneStep
<1> QED  BY <1>1, <1>2, <1>3 DEF DnsNext

LEMMA DnsHoldsThen == DnsInv => AnswersAreRecent
<1> SUFFICES ASSUME DnsInv, NEW q \in Lookups, NEW g \in look[q].got, "ips" \in DOMAIN g
             PROVE  \E z \in Zones : /\ g.ips = IF g.key[1] = "A" THEN z.a ELSE z.aaaa
                                     /\ lastHeld[g.key[2]][z] + QueryTimeout + (IF g.cached THEN MaxTtl ELSE 0) >= dnsNow
  BY DEF AnswersAreRecent
<1>1. TrueAt(g.key, g.ips, QueryTimeout + (IF g.cached THEN MaxTtl ELSE 0), dnsNow)
  BY DEF DnsInv, LookGood
<1>2. PICK z \in Zones : /\ g.ips = Given(g.key[1], z)
                         /\ lastHeld[g.key[2]][z] + (QueryTimeout + (IF g.cached THEN MaxTtl ELSE 0)) >= dnsNow
  BY <1>1 DEF TrueAt
<1>3. g \in LookAnswers
  BY DEF DnsInv, DnsTypes, LookRecs
<1>4. g \in [key : Families \X AllNames, ips : IpSets, cached : BOOLEAN]
  BY <1>3 DEF LookAnswers
<1>5. lastHeld[g.key[2]][z] \in Nat /\ dnsNow \in Nat
  BY <1>4 DEF DnsInv, DnsTypes
<1>6. lastHeld[g.key[2]][z] + QueryTimeout + (IF g.cached THEN MaxTtl ELSE 0) >= dnsNow
  BY <1>2, <1>5, DnsNumbers
<1> QED  BY <1>2, <1>6 DEF Given

-----------------------------------------------------------------------------
(* Logging.  A thread's context and guards spell out the scopes of the task *)
(* it polls.                                                                *)
LogLines == [ctx : Contexts \union {NoContext}, own : Contexts \union {NoContext}, filter : {"unset", "default", "configured"}]

LogTypes ==
    /\ current \in [Threads -> Contexts \union {NoContext}]
    /\ polling \in [Threads -> LogTasks \union {"none"}]
    /\ frames \in [Threads -> Seq(Contexts \union {NoContext})]
    /\ scopes \in [LogTasks -> Seq(Contexts) \union {Dead}]
    /\ logger \in {"unset", "default", "configured"} /\ lines \in Seq(LogLines)

\* What the guard of a poll's i-th scope restores.
Below(s, i) == IF i = 1 THEN NoContext ELSE s[i - 1]
Inner(s) == IF s = <<>> THEN NoContext ELSE s[Len(s)]

\* The thread carries the innermost scope of the task it polls, and the guards of the poll
\* restore what is outside of each.
Carries(ctx, guards, s) ==
    /\ s \in Seq(Contexts) /\ ctx = Inner(s)
    /\ Len(guards) = Len(s) /\ \A i \in 1 .. Len(s) : guards[i] = Below(s, i)

Carried(th) ==
    IF polling[th] = "none" THEN current[th] = NoContext
    ELSE /\ ThreadOf[polling[th]] = th
         /\ Carries(current[th], frames[th], scopes[polling[th]])

\* Every line is its own task's, and was judged by the one logger.
LinesOwn ==
    /\ logger = "unset" => lines = <<>>
    /\ \A i \in 1 .. Len(lines) : lines[i].ctx = lines[i].own /\ lines[i].filter = logger

LogInv == LogTypes /\ (\A th \in Threads : Carried(th)) /\ LinesOwn

-----------------------------------------------------------------------------
LEMMA LogInitial == LogInit => LogInv
<1> SUFFICES ASSUME LogInit PROVE LogInv
  OBVIOUS
<1>1. LogTypes
  <2>1. <<>> \in Seq(Contexts \union {NoContext}) /\ <<>> \in Seq(Contexts) /\ <<>> \in Seq(LogLines)
    OBVIOUS
  <2> QED  BY <2>1 DEF LogInit, LogTypes
<1>2. \A th \in Threads : Carried(th)
  BY DEF LogInit, Carried
<1>3. LinesOwn
  BY DEF LogInit, LinesOwn
<1> QED  BY <1>1, <1>2, <1>3 DEF LogInv

\* What a polled task's thread holds.
LEMMA PollFacts ==
    ASSUME LogInv, NEW t \in LogTasks, Polled(t)
    PROVE  /\ ThreadOf[t] \in Threads /\ polling[ThreadOf[t]] = t
           /\ Carries(current[ThreadOf[t]], frames[ThreadOf[t]], scopes[t])
<1>1. ThreadOf[t] \in Threads
  BY DEF Threads
<1>2. polling[ThreadOf[t]] = t /\ t # "none"
  BY LogAssumption DEF Polled
<1> QED  BY <1>1, <1>2 DEF LogInv, Carried

\* A step of one thread and of the task it polls.
LEMMA ThreadStep ==
    ASSUME LogInv, NEW th \in Threads, LogTypes', Carried(th)',
           \A u \in Threads \ {th} : polling'[u] = polling[u] /\ current'[u] = current[u] /\ frames'[u] = frames[u],
           \A x \in LogTasks : ThreadOf[x] # th => scopes'[x] = scopes[x],
           UNCHANGED <<logger, lines>>
    PROVE  LogInv'
<1>1. ASSUME NEW u \in Threads \ {th} PROVE Carried(u)'
  <2>1. CASE polling[u] = "none"
    BY <2>1 DEF Carried, LogInv
  <2>2. CASE polling[u] # "none"
    <3>1. polling[u] \in LogTasks /\ ThreadOf[polling[u]] = u
      BY <2>2 DEF Carried, LogInv, LogTypes
    <3>2. scopes'[polling[u]] = scopes[polling[u]]
      BY <3>1
    <3> QED  BY <2>2, <3>1, <3>2 DEF Carried, LogInv
  <2> QED  BY <2>1, <2>2
<1>2. LinesOwn'
  BY DEF LinesOwn, LogInv
<1> QED  BY <1>1, <1>2 DEF LogInv

LEMMA PollTaskStep == ASSUME LogInv, NEW t \in LogTasks, PollTask(t) PROVE LogInv'
<1> DEFINE th == ThreadOf[t]  s == scopes[t]  g == SubSeq(<<current[th]>> \o s, 1, Len(s))
           ctx == IF s = <<>> THEN current[th] ELSE Last(s)
<1>1. /\ polling[th] = "none" /\ s # Dead /\ polling' = [polling EXCEPT ![th] = t]
      /\ frames' = [frames EXCEPT ![th] = g] /\ current' = [current EXCEPT ![th] = ctx]
      /\ UNCHANGED <<scopes, logger, lines>>
  BY DEF PollTask
<1>2. th \in Threads /\ current[th] = NoContext
  <2>1. th \in Threads
    BY DEF Threads
  <2> QED  BY <1>1, <2>1 DEF LogInv, Carried
<1>3. s \in Seq(Contexts)
  BY <1>1 DEF LogInv, LogTypes
<1>4. /\ g \in Seq(Contexts \union {NoContext}) /\ Len(g) = Len(s)
      /\ \A i \in 1 .. Len(s) : g[i] = Below(s, i)
  BY <1>2, <1>3 DEF Below
<1>5. ctx = Inner(s) /\ ctx \in Contexts \union {NoContext}
  BY <1>2, <1>3 DEF Inner, Last
<1> HIDE DEF g, ctx
<1>6. LogTypes'
  BY <1>1, <1>2, <1>4, <1>5 DEF LogInv, LogTypes
<1>7. t # "none"
  BY LogAssumption
<1>8. /\ polling'[th] = t /\ current'[th] = ctx /\ frames'[th] = g /\ scopes'[t] = s
      /\ \A u \in Threads \ {th} : polling'[u] = polling[u] /\ current'[u] = current[u] /\ frames'[u] = frames[u]
  BY <1>1, <1>2 DEF LogInv, LogTypes
<1>9. Carried(th)'
  BY <1>3, <1>4, <1>5, <1>7, <1>8 DEF Carried, Carries
<1> QED  BY <1>1, <1>2, <1>6, <1>8, <1>9, ThreadStep

LEMMA EnterScopeStep == ASSUME LogInv, NEW t \in LogTasks, NEW c \in Contexts, EnterScope(t, c) PROVE LogInv'
<1> DEFINE th == ThreadOf[t]  s == scopes[t]  f == frames[th]
<1>1. /\ Polled(t) /\ scopes' = [scopes EXCEPT ![t] = Append(s, c)]
      /\ frames' = [frames EXCEPT ![th] = Append(f, current[th])] /\ current' = [current EXCEPT ![th] = c]
      /\ UNCHANGED <<polling, logger, lines>>
  BY DEF EnterScope
<1>2. /\ th \in Threads /\ polling[th] = t /\ s \in Seq(Contexts) /\ current[th] = Inner(s)
      /\ Len(f) = Len(s) /\ \A i \in 1 .. Len(s) : f[i] = Below(s, i)
  BY <1>1, PollFacts DEF Carries
<1>3. f \in Seq(Contexts \union {NoContext}) /\ current[th] \in Contexts \union {NoContext}
  BY <1>2 DEF LogInv, LogTypes
<1>4. /\ Append(f, current[th]) \in Seq(Contexts \union {NoContext}) /\ Append(s, c) \in Seq(Contexts)
      /\ Len(Append(f, current[th])) = Len(Append(s, c)) /\ c = Inner(Append(s, c))
      /\ \A i \in 1 .. Len(Append(s, c)) : Append(f, current[th])[i] = Below(Append(s, c), i)
  <2>1. PICK m \in Nat : m = Len(s)
    BY <1>2
  <2>2. /\ Append(s, c) \in Seq(Contexts) /\ Len(Append(s, c)) = m + 1 /\ Append(s, c)[m + 1] = c
        /\ \A i \in 1 .. m : Append(s, c)[i] = s[i]
    BY <1>2, <2>1, AppendProperties
  <2>3. /\ Append(f, current[th]) \in Seq(Contexts \union {NoContext}) /\ Len(Append(f, current[th])) = m + 1
        /\ Append(f, current[th])[m + 1] = current[th] /\ \A i \in 1 .. m : Append(f, current[th])[i] = f[i]
    BY <1>2, <1>3, <2>1, AppendProperties
  <2>4. current[th] = Below(Append(s, c), m + 1)
    <3>1. m = 0 => s = <<>>
      <4>1. s \in Seq(Contexts)
        BY <1>2
      <4> QED  BY <4>1, <2>1, EmptySeq
    <3>2. m # 0 => s # <<>> /\ m \in 1 .. m
      BY <2>1
    <3> QED  BY <1>2, <2>1, <2>2, <3>1, <3>2 DEF Below, Inner
  <2>5. ASSUME NEW i \in 1 .. m PROVE f[i] = Below(Append(s, c), i)
    <3>1. f[i] = Below(s, i)
      BY <1>2, <2>1
    <3>2. i # 1 => i - 1 \in 1 .. m
      BY <2>1
    <3> QED  BY <2>2, <3>1, <3>2 DEF Below
  <2>6. c = Inner(Append(s, c))
    BY <2>1, <2>2 DEF Inner
  <2> QED  BY <2>1, <2>2, <2>3, <2>4, <2>5, <2>6
<1>5. /\ polling'[th] = t /\ current'[th] = c /\ frames'[th] = Append(f, current[th]) /\ scopes'[t] = Append(s, c)
      /\ \A u \in Threads \ {th} : polling'[u] = polling[u] /\ current'[u] = current[u] /\ frames'[u] = frames[u]
      /\ \A x \in LogTasks : x # t => scopes'[x] = scopes[x]
  BY <1>1, <1>2 DEF LogInv, LogTypes
<1>6. LogTypes'
  BY <1>1, <1>2, <1>4 DEF LogInv, LogTypes
<1>7. t # "none"
  BY LogAssumption
<1>8. Carried(th)'
  BY <1>4, <1>5, <1>7 DEF Carried, Carries
<1> QED  BY <1>1, <1>2, <1>5, <1>6, <1>8, ThreadStep

LEMMA LeaveScopeStep == ASSUME LogInv, NEW t \in LogTasks, LeaveScope(t) PROVE LogInv'
<1> DEFINE th == ThreadOf[t]  s == scopes[t]  f == frames[th]
<1>1. /\ Polled(t) /\ s # <<>> /\ scopes' = [scopes EXCEPT ![t] = Front(s)]
      /\ frames' = [frames EXCEPT ![th] = Front(f)] /\ current' = [current EXCEPT ![th] = Last(f)]
      /\ UNCHANGED <<polling, logger, lines>>
  BY DEF LeaveScope
<1>2. /\ th \in Threads /\ polling[th] = t /\ s \in Seq(Contexts) /\ current[th] = Inner(s)
      /\ Len(f) = Len(s) /\ \A i \in 1 .. Len(s) : f[i] = Below(s, i)
  BY <1>1, PollFacts DEF Carries
<1>3. f \in Seq(Contexts \union {NoContext})
  BY <1>2 DEF LogInv, LogTypes
<1>4. /\ Front(f) \in Seq(Contexts \union {NoContext}) /\ Front(s) \in Seq(Contexts)
      /\ Len(Front(f)) = Len(Front(s)) /\ Last(f) = Inner(Front(s)) /\ Last(f) \in Contexts \union {NoContext}
      /\ \A i \in 1 .. Len(Front(s)) : Front(f)[i] = Below(Front(s), i)
  <2>1. PICK m \in Nat : m + 1 = Len(s)
    <3>1. Len(s) \in Nat /\ Len(s) # 0
      BY <1>1, <1>2
    <3> QED  BY <3>1
  <2>2. /\ Front(s) \in Seq(Contexts) /\ Len(Front(s)) = m /\ \A i \in 1 .. m : Front(s)[i] = s[i]
    BY <1>2, <2>1 DEF Front
  <2>3. /\ Front(f) \in Seq(Contexts \union {NoContext}) /\ Len(Front(f)) = m /\ \A i \in 1 .. m : Front(f)[i] = f[i]
    BY <1>2, <1>3, <2>1 DEF Front
  <2>4. Last(f) = f[m + 1] /\ m + 1 \in 1 .. Len(f)
    BY <1>2, <2>1 DEF Last
  <2>5. f[m + 1] = Below(s, m + 1) /\ f[m + 1] \in Contexts \union {NoContext}
    BY <1>2, <1>3, <2>1, <2>4, ElementOfSeq
  <2>6. Below(s, m + 1) = Inner(Front(s))
    <3>1. m = 0 => Front(s) = <<>>
      BY <2>1, <2>2
    <3>2. m # 0 => Front(s) # <<>> /\ m \in 1 .. m /\ m + 1 # 1 /\ (m + 1) - 1 = m
      BY <2>1, <2>2
    <3> QED  BY <2>2, <3>1, <3>2 DEF Below, Inner
  <2>7. ASSUME NEW i \in 1 .. m PROVE Front(f)[i] = Below(Front(s), i)
    <3>1. f[i] = Below(s, i)
      BY <1>2, <2>1
    <3>2. i # 1 => i - 1 \in 1 .. m
      BY <2>1
    <3> QED  BY <2>2, <2>3, <3>1, <3>2 DEF Below
  <2> QED  BY <2>2, <2>3, <2>4, <2>5, <2>6, <2>7
<1>5. /\ polling'[th] = t /\ current'[th] = Last(f) /\ frames'[th] = Front(f) /\ scopes'[t] = Front(s)
      /\ \A u \in Threads \ {th} : polling'[u] = polling[u] /\ current'[u] = current[u] /\ frames'[u] = frames[u]
      /\ \A x \in LogTasks : x # t => scopes'[x] = scopes[x]
  BY <1>1, <1>2 DEF LogInv, LogTypes
<1>6. LogTypes'
  BY <1>1, <1>2, <1>4 DEF LogInv, LogTypes
<1>7. t # "none"
  BY LogAssumption
<1>8. Carried(th)'
  BY <1>4, <1>5, <1>7 DEF Carried, Carries
<1> QED  BY <1>1, <1>2, <1>5, <1>6, <1>8, ThreadStep

LEMMA EndPollStep == ASSUME LogInv, NEW t \in LogTasks, NEW panics \in BOOLEAN, EndPoll(t, panics) PROVE LogInv'
<1> DEFINE th == ThreadOf[t]  s == scopes[t]  f == frames[th]
<1>1. /\ Polled(t) /\ scopes' = (IF panics THEN [scopes EXCEPT ![t] = Dead] ELSE scopes)
      /\ frames' = [frames EXCEPT ![th] = <<>>] /\ current' = [current EXCEPT ![th] = Unwind(th)]
      /\ polling' = [polling EXCEPT ![th] = "none"] /\ UNCHANGED <<logger, lines>>
  BY DEF EndPoll
<1>2. /\ th \in Threads /\ polling[th] = t /\ s \in Seq(Contexts) /\ current[th] = Inner(s)
      /\ Len(f) = Len(s) /\ \A i \in 1 .. Len(s) : f[i] = Below(s, i)
  BY <1>1, PollFacts DEF Carries
<1>3. f \in Seq(Contexts \union {NoContext})
  BY <1>2 DEF LogInv, LogTypes
<1>4. Unwind(th) = NoContext
  <2>1. CASE f = <<>>
    <3>1. s = <<>>
      BY <1>2, <2>1
    <3> QED  BY <1>2, <2>1, <3>1 DEF Unwind, Inner
  <2>2. CASE f # <<>>
    <3>1. 1 \in 1 .. Len(s) /\ Head(f) = f[1]
      BY <1>2, <1>3, <2>2
    <3> QED  BY <1>2, <2>2, <3>1 DEF Unwind, Below
  <2> QED  BY <2>1, <2>2
<1>5. /\ polling'[th] = "none" /\ current'[th] = NoContext
      /\ \A u \in Threads \ {th} : polling'[u] = polling[u] /\ current'[u] = current[u] /\ frames'[u] = frames[u]
      /\ \A x \in LogTasks : x # t => scopes'[x] = scopes[x]
  BY <1>1, <1>2, <1>4 DEF LogInv, LogTypes
<1>6. LogTypes'
  BY <1>1, <1>2, <1>4 DEF LogInv, LogTypes
<1>7. Carried(th)'
  BY <1>5 DEF Carried
<1> QED  BY <1>1, <1>2, <1>5, <1>6, <1>7, ThreadStep

\* What threads and tasks hold is left alone.
LEMMA HoldingKept ==
    ASSUME LogInv, UNCHANGED <<current, polling, frames, scopes>>
    PROVE  \A th \in Threads : Carried(th)'
BY DEF LogInv, Carried

LEMMA EmitStep == ASSUME LogInv, NEW t \in LogTasks, Emit(t) PROVE LogInv'
<1> DEFINE line == [ctx |-> current[ThreadOf[t]], own |-> Own(t), filter |-> logger']
<1>1. /\ Polled(t) /\ logger' = (IF logger = "unset" THEN "default" ELSE logger) /\ lines' = Append(lines, line)
      /\ UNCHANGED <<current, polling, frames, scopes>>
  BY DEF Emit
<1>2. /\ ThreadOf[t] \in Threads /\ scopes[t] \in Seq(Contexts) /\ current[ThreadOf[t]] = Inner(scopes[t])
  BY <1>1, PollFacts DEF Carries
<1>3. Own(t) = Inner(scopes[t])
  BY DEF Own, Inner, Last
<1>4. logger' \in {"unset", "default", "configured"} /\ logger' # "unset" /\ (logger # "unset" => logger' = logger)
  BY <1>1 DEF LogInv, LogTypes
<1>5. current[ThreadOf[t]] \in Contexts \union {NoContext}
  BY <1>2 DEF LogInv, LogTypes
<1>6. line \in LogLines /\ line.ctx = line.own /\ line.filter = logger'
  BY <1>2, <1>3, <1>4, <1>5 DEF LogLines
<1> HIDE DEF line
<1>7. lines \in Seq(LogLines)
  BY DEF LogInv, LogTypes
<1>8. /\ lines' \in Seq(LogLines) /\ Len(lines') = Len(lines) + 1 /\ Len(lines) \in Nat
      /\ lines'[Len(lines) + 1] = line /\ \A i \in 1 .. Len(lines) : lines'[i] = lines[i]
  BY <1>1, <1>6, <1>7
<1>9. LogTypes'
  BY <1>1, <1>4, <1>8 DEF LogInv, LogTypes
<1>10. LinesOwn'
  <2>1. ASSUME NEW i \in 1 .. Len(lines') PROVE lines'[i].ctx = lines'[i].own /\ lines'[i].filter = logger'
    <3>1. CASE i = Len(lines) + 1
      BY <1>6, <1>8, <3>1
    <3>2. CASE i # Len(lines) + 1
      <4>1. i \in 1 .. Len(lines)
        BY <1>8, <3>2
      <4>2. lines # <<>>
        BY <4>1
      <4> QED  BY <1>4, <1>8, <4>1, <4>2 DEF LogInv, LinesOwn
    <3> QED  BY <3>1, <3>2
  <2> QED  BY <1>4, <2>1 DEF LinesOwn
<1> QED  BY <1>1, <1>9, <1>10, HoldingKept DEF LogInv

LEMMA InitLoggerStep == ASSUME LogInv, InitLogger PROVE LogInv'
<1>1. /\ logger' = (IF logger = "unset" THEN "configured" ELSE logger) /\ UNCHANGED <<current, polling, frames, scopes, lines>>
  BY DEF InitLogger
<1>2. LogTypes'
  BY <1>1 DEF LogInv, LogTypes
<1>3. LinesOwn'
  BY <1>1 DEF LogInv, LinesOwn
<1> QED  BY <1>1, <1>2, <1>3, HoldingKept DEF LogInv

LEMMA LogStep == LogInv /\ [LogNext]_logVars => LogInv'
<1> SUFFICES ASSUME LogInv, [LogNext]_logVars PROVE LogInv'
  OBVIOUS
<1>1. CASE UNCHANGED logVars
  BY <1>1, HoldingKept DEF logVars, LogInv, LogTypes, LinesOwn
<1>2. CASE LogNext
  BY <1>2, PollTaskStep, EnterScopeStep, LeaveScopeStep, EndPollStep, EmitStep, InitLoggerStep DEF LogNext
<1> QED  BY <1>1, <1>2

LEMMA LogHoldsThen == LogInv => LinesCarryOwnContext
<1> SUFFICES ASSUME LogInv PROVE LinesCarryOwnContext
  OBVIOUS
<1>1. lines \in Seq(LogLines) /\ DOMAIN lines = 1 .. Len(lines)
  BY DEF LogInv, LogTypes
<1> QED  BY <1>1 DEF LinesCarryOwnContext, LogInv, LinesOwn, Carried

-----------------------------------------------------------------------------
(* The registries together: they share no variable, so a step of one       *)
(* leaves the invariants of the others alone.                              *)
RegistriesInv == PresenceInv /\ CacheInv /\ SignInInv /\ JwksInv /\ ClientInv /\ DnsInv /\ LogInv

LEMMA RegistriesInitial == StoresInit => RegistriesInv
BY PresenceInitial, CacheInitial, SignInInitial, JwksInitial, ClientInitial, DnsInitial, LogInitial
   DEF StoresInit, RegistriesInv

LEMMA RegistriesStep == RegistriesInv /\ [StoresNext]_<<storesVars, part>> => RegistriesInv'
<1> SUFFICES ASSUME RegistriesInv, [StoresNext]_<<storesVars, part>> PROVE RegistriesInv'
  OBVIOUS
<1>1. /\ [PresenceNext]_presenceVars /\ [CacheNext]_cacheVars
      /\ [SignInNext]_signInVars /\ [JwksNext]_jwksVars
      /\ [ClientNext]_clientVars /\ [DnsNext]_dnsVars /\ [LogNext]_logVars
  BY DEF StoresNext, storesVars
<1> QED
  BY <1>1, PresenceStep, CacheStep, SignInStep, JwksStep, ClientStep, DnsStep, LogStep DEF RegistriesInv

(* Whoever beat within the window is listed and nobody else, whatever      *)
(* prunes, late clocks and half-written records cross; no evicted value    *)
(* comes back from the cache unless a load was crossed, and it keeps to    *)
(* its capacity; a browser is signed in only by a login of its own; a      *)
(* token is judged by keys the issuer published, across its rotations; a   *)
(* call of the HTTP client is given its own response on a connection of    *)
(* its shard and origin, with the credentials kept to the origin named; an *)
(* address handed over was true within a query's timeout and an entry's    *)
(* lifetime; and a log line carries the context of its own task - for any  *)
(* visitors, keys, browsers, callers, connections, zones, tasks and clocks.*)
THEOREM RegistriesAreKept == StoresSpec => []RegistriesHold
<1>1. StoresSpec => []RegistriesInv
  BY RegistriesInitial, RegistriesStep, PTL DEF StoresSpec
<1>2. RegistriesInv => RegistriesHold
  BY PresenceHoldsThen, CacheHoldsThen, SignInHoldsThen, JwksHoldsThen, ClientHoldsThen, DnsHoldsThen, LogHoldsThen
     DEF RegistriesInv, RegistriesHold
<1> QED  BY <1>1, <1>2, PTL
=============================================================================
