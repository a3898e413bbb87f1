------------------------- MODULE ZmqPublisher_proof -------------------------
(***************************************************************************)
(* What the channels of the zmq endpoint publish, and the demands they make*)
(* of the node, for any channels, prefixes, limits and modulus.            *)
(*                                                                         *)
(* NumberedInOrder is inductive with the order of the posts that are still *)
(* to be published (PublishInv), SequenceComplete with what of the events  *)
(* is posted (SequenceInv), and DemandBalance with the types of the        *)
(* subscriptions (DemandInv).                                              *)
(***************************************************************************)
EXTENDS ZmqPublisher, FiniteSetTheorems, TLAPS

-----------------------------------------------------------------------------
(* Publication: what is posted, and what is logged.                        *)

Event == {"C", "D", "A"}
Wire == {"wire_tx", "wire_block", "wire_reorganized"}
Post == [job : Event \union Wire, at : Nat]
Published == [topic : Topic, job : Event \union Wire, at : Nat, number : Nat]

\* Events are counted apart from broadcasts.
Alike(x, y) == x.job \in Event <=> y.job \in Event

PublishType ==
    /\ topics \in [Channel -> SUBSET Topic]
    /\ chase \in Seq(Event) /\ wires \in Nat
    /\ seen \in [Channel -> Nat] /\ since \in [Channel -> Nat]
    /\ posts \in [Channel -> Seq(Post)]
    /\ log \in [Channel -> Seq(Published)]
    /\ number \in [Channel -> [Topic -> Nat]]
    /\ DOMAIN dropped = Channel /\ DOMAIN state = Channel

\* Posts are in the order of what they announce, none of it later than the
\* events e or the broadcasts w.
PostsOrdered(s, e, w) ==
    /\ \A i \in 1..Len(s) : s[i].at <= IF s[i].job \in Event THEN e ELSE w
    /\ \A i, j \in 1..Len(s) : i < j /\ Alike(s[i], s[j]) => s[i].at < s[j].at

\* What is logged was posted before what is still to be published.
LogOrdered(l, s, e, w) ==
    /\ \A i \in 1..Len(l) : l[i].topic \in TopicsOf(l[i].job)
    /\ \A i \in 1..Len(l) : l[i].at <= IF l[i].job \in Event THEN e ELSE w
    /\ \A i \in 1..Len(l), j \in 1..Len(s) : Alike(l[i], s[j]) => l[i].at < s[j].at

\* The counter of a topic is one up from the number last published.
NextNumber(l, num) ==
    \A t \in Topic :
        /\ (\A i \in 1..Len(l) : l[i].topic # t) => num[t] = 0
        /\ \A j \in 1..Len(l) :
              l[j].topic = t /\ (\A k \in 1..Len(l) : l[k].topic = t => k <= j) =>
                 num[t] = (l[j].number + 1) % Modulus

PublishInv ==
    /\ PublishType
    /\ NumberedInOrder
    /\ \A c \in Channel :
          /\ PostsOrdered(posts[c], seen[c], wires)
          /\ LogOrdered(log[c], posts[c], seen[c], wires)
          /\ NextNumber(log[c], number[c])

\* A topic published for an event is not one of the raw ones.
LEMMA TopicsAlike ==
    ASSUME NEW x, NEW y, x.topic = y.topic,
           x.topic \in TopicsOf(x.job), y.topic \in TopicsOf(y.job)
    PROVE  Alike(x, y)
<1>1. \A j, t : t \in TopicsOf(j) => (j \in Event <=> t \in {"hashtx", "sequence", "hashblock"})
  <2> SUFFICES ASSUME NEW j, NEW t, t \in TopicsOf(j)
               PROVE  j \in Event <=> t \in {"hashtx", "sequence", "hashblock"}
    BY Zenon
  <2>1. CASE j \in Event  BY <2>1, Zenon DEF TopicsOf, Event
  <2>2. CASE j \notin Event  BY <2>2, Zenon DEF TopicsOf, Event
  <2> QED  BY <2>1, <2>2, Zenon
<1> QED  BY <1>1, Zenon DEF Alike

\* m holds one message of job p for each topic of S, numbered num.
Batch(m, p, S, num) ==
    /\ m \in Seq(Published)
    /\ \A i \in 1..Len(m) : /\ m[i].topic \in S /\ m[i].job = p.job /\ m[i].at = p.at
                            /\ m[i].number = num[m[i].topic]
    /\ \A i, j \in 1..Len(m) : m[i].topic = m[j].topic => i = j
    /\ \A t \in S : \E i \in 1..Len(m) : m[i].topic = t

\* Concatenation of a sequence of at most one element.
LEMMA ConcatFacts ==
    ASSUME NEW S, NEW s \in Seq(S), NEW x \in S
    PROVE  /\ s \o <<>> = s
           /\ s \o <<x>> \in Seq(S) /\ Len(s \o <<x>>) = Len(s) + 1 /\ Len(s) \in Nat
           /\ (s \o <<x>>)[Len(s) + 1] = x
           /\ \A i \in 1..Len(s) : (s \o <<x>>)[i] = s[i]
OBVIOUS

\* One more topic is published.
LEMMA BatchMessage ==
    ASSUME PublishType, NEW c \in Channel, NEW p \in Post, NEW S, NEW t \in Topic, t \notin S,
           NEW m, Batch(m, p, S, number[c])
    PROVE  Batch(m \o Message(c, p, t), p,
                 S \union ({t} \intersect (TopicsOf(p.job) \intersect topics[c])), number[c])
<1> DEFINE x == [topic |-> t, job |-> p.job, at |-> p.at, number |-> number[c][t]]
           q == m \o <<x>>
           n == Len(m)
<1>1. x \in Published  BY DEF Published, Post, PublishType
<1>2. x.topic = t /\ x.job = p.job /\ x.at = p.at /\ x.number = number[c][t]  BY Zenon
<1>3. m \in Seq(Published)  BY Zenon DEF Batch
<1>4. m \o <<>> = m  BY <1>1, <1>3, ConcatFacts
<1>5. CASE t \in TopicsOf(p.job) /\ t \in topics[c]
  <2>1. Message(c, p, t) = <<x>>  BY <1>5, Zenon DEF Message
  <2>2. {t} \intersect (TopicsOf(p.job) \intersect topics[c]) = {t}  BY <1>5, Zenon
  <2> HIDE DEF x
  <2>3. /\ q \in Seq(Published) /\ Len(q) = n + 1 /\ n \in Nat /\ q[n + 1] = x
        /\ \A i \in 1..n : q[i] = m[i]
    BY <1>1, <1>3, ConcatFacts, SMTT(30)
  <2> HIDE DEF q
  <2>4. \A i \in 1..(n + 1) : i \in 1..n \/ i = n + 1  BY <2>3
  <2>5. n + 1 \in 1..(n + 1) /\ \A i \in 1..n : i \in 1..(n + 1)  BY <2>3
  <2>6. Batch(q, p, S \union {t}, number[c])
    <3>1. \A i \in 1..Len(q) : /\ q[i].topic \in S \union {t} /\ q[i].job = p.job /\ q[i].at = p.at
                               /\ q[i].number = number[c][q[i].topic]
      BY <1>2, <2>3, <2>4, SMTT(30) DEF Batch
    <3>2. ASSUME NEW i \in 1..Len(q), NEW j \in 1..Len(q), q[i].topic = q[j].topic PROVE i = j
      <4>1. ASSUME NEW k \in 1..n PROVE q[k].topic = m[k].topic /\ q[k].topic # t
        <5>1. q[k] = m[k]  BY <2>3, Zenon
        <5>2. m[k].topic \in S  BY Zenon DEF Batch
        <5> QED  BY <5>1, <5>2, Zenon
      <4>2. q[n + 1].topic = t  BY <1>2, <2>3, Zenon
      <4>3. (i \in 1..n \/ i = n + 1) /\ (j \in 1..n \/ j = n + 1)  BY <2>3, <2>4, Zenon
      <4>4. CASE i \in 1..n /\ j \in 1..n  BY <3>2, <4>1, <4>4, Zenon DEF Batch
      <4> QED  BY <3>2, <4>1, <4>2, <4>3, <4>4, Zenon
    <3>3. ASSUME NEW u \in S \union {t} PROVE \E i \in 1..Len(q) : q[i].topic = u
      <4>1. CASE u = t  BY <1>2, <2>3, <2>5, <4>1, Zenon
      <4>2. CASE u \in S
        <5>1. PICK i \in 1..n : m[i].topic = u  BY <4>2, Zenon DEF Batch
        <5> QED  BY <2>3, <2>5, <5>1, Zenon
      <4> QED  BY <4>1, <4>2, Zenon
    <3> QED  BY <2>3, <3>1, <3>2, <3>3, Zenon DEF Batch
  <2> QED  BY <2>1, <2>2, <2>6, Zenon DEF q
<1>6. CASE ~(t \in TopicsOf(p.job) /\ t \in topics[c])
  <2>1. Message(c, p, t) = <<>>  BY <1>6, Zenon DEF Message
  <2>2. S \union ({t} \intersect (TopicsOf(p.job) \intersect topics[c])) = S  BY <1>6, Zenon
  <2> QED  BY <1>4, <2>1, <2>2, Zenon
<1> QED  BY <1>5, <1>6, Zenon

\* A job publishes one message on each of its topics that is subscribed.
LEMMA MessagesBatch ==
    ASSUME PublishType, NEW c \in Channel, NEW p \in Post
    PROVE  Batch(Messages(c, p), p, TopicsOf(p.job) \intersect topics[c], number[c])
<1> DEFINE W == TopicsOf(p.job) \intersect topics[c]
           m0 == <<>>
           m1 == m0 \o Message(c, p, "hashtx")
           m2 == m1 \o Message(c, p, "hashblock")
           m3 == m2 \o Message(c, p, "sequence")
           m4 == m3 \o Message(c, p, "rawtx")
           m5 == m4 \o Message(c, p, "rawblock")
           S1 == {} \union ({"hashtx"} \intersect W)
           S2 == S1 \union ({"hashblock"} \intersect W)
           S3 == S2 \union ({"sequence"} \intersect W)
           S4 == S3 \union ({"rawtx"} \intersect W)
           S5 == S4 \union ({"rawblock"} \intersect W)
<1>0. Batch(m0, p, {}, number[c])  BY DEF Batch
<1>1. Topic = {"hashblock", "rawblock", "hashtx", "rawtx", "sequence"}  BY Zenon DEF Topic
<1>2. "hashblock" \notin S1 /\ "sequence" \notin S2 /\ "rawtx" \notin S3 /\ "rawblock" \notin S4
  BY Zenon
<1>3. S5 = W
  <2>1. W \subseteq Topic  BY Zenon DEF PublishType
  <2> QED  BY <1>1, <2>1, Zenon
<1>4. m1 = Message(c, p, "hashtx")
  <2>1. [topic |-> "hashtx", job |-> p.job, at |-> p.at, number |-> number[c]["hashtx"]] \in Published
    BY <1>1 DEF Published, Post, PublishType
  <2> QED  BY <2>1 DEF Message
<1>5. m5 = Messages(c, p)  BY <1>4, Zenon DEF Messages
<1> HIDE DEF m0, m1, m2, m3, m4, m5, S1, S2, S3, S4, S5, W
<1>6. Batch(m1, p, S1, number[c])  BY <1>0, <1>1, BatchMessage, Zenon DEF m1, S1, W
<1>7. Batch(m2, p, S2, number[c])  BY <1>1, <1>2, <1>6, BatchMessage, Zenon DEF m2, S2, W
<1>8. Batch(m3, p, S3, number[c])  BY <1>1, <1>2, <1>7, BatchMessage, Zenon DEF m3, S3, W
<1>9. Batch(m4, p, S4, number[c])  BY <1>1, <1>2, <1>8, BatchMessage, Zenon DEF m4, S4, W
<1>10. Batch(m5, p, S5, number[c])  BY <1>1, <1>2, <1>9, BatchMessage, Zenon DEF m5, S5, W
<1> QED  BY <1>3, <1>5, <1>10, Zenon DEF W

\* Concatenation of two sequences, by index.
LEMMA ConcatSeq ==
    ASSUME NEW S, NEW s \in Seq(S), NEW m \in Seq(S)
    PROVE  /\ s \o m \in Seq(S) /\ Len(s \o m) = Len(s) + Len(m)
           /\ Len(s) \in Nat /\ Len(m) \in Nat
           /\ \A i \in 1..Len(s) : (s \o m)[i] = s[i]
           /\ \A k \in 1..Len(m) : (s \o m)[Len(s) + k] = m[k]
OBVIOUS

\* NumberedInOrder of one log.
EarlierIn(l, i) == {j \in 1..(i - 1) : l[j].topic = l[i].topic}
LogNumbered(l) ==
    \A i \in 1..Len(l) :
        /\ EarlierIn(l, i) = {} => l[i].number = 0
        /\ \A j \in EarlierIn(l, i) :
              /\ l[j].at < l[i].at
              /\ (\A k \in EarlierIn(l, i) : k <= j) =>
                    l[i].number = (l[j].number + 1) % Modulus

\* NumberedInOrder speaks of each log.
LEMMA NumberedEach == NumberedInOrder <=> \A c \in Channel : LogNumbered(log[c])
BY Zenon DEF NumberedInOrder, LogNumbered, Earlier, EarlierIn

Advances(num, num2, m) ==
    \A t \in Topic : num2[t] = IF \E i \in 1..Len(m) : m[i].topic = t
                               THEN (num[t] + 1) % Modulus ELSE num[t]
OnTopic(l) == \A i \in 1..Len(l) : l[i].topic \in TopicsOf(l[i].job)
Precedes(l, p) == \A i \in 1..Len(l) : Alike(l[i], p) => l[i].at < p.at

\* A batch of messages, each later than what is logged of its topic, extends
\* a numbered log, and the counters advance with it.
LEMMA BatchNumbered ==
    ASSUME NEW l \in Seq(Published), NEW p \in Post, NEW S, NEW num, NEW m, Batch(m, p, S, num),
           S \subseteq TopicsOf(p.job) \intersect Topic,
           LogNumbered(l), NextNumber(l, num), OnTopic(l), Precedes(l, p),
           NEW num2, Advances(num, num2, m)
    PROVE  LogNumbered(l \o m) /\ NextNumber(l \o m, num2)
<1> DEFINE q == l \o m
           n == Len(l)
           k == Len(m)
<1>1. m \in Seq(Published)  BY Zenon DEF Batch
<1>2. /\ q \in Seq(Published) /\ Len(q) = n + k /\ n \in Nat /\ k \in Nat
      /\ \A i \in 1..n : q[i] = l[i]
      /\ \A i \in 1..k : q[n + i] = m[i]
  BY <1>1, ConcatSeq
<1> HIDE DEF q, n, k
<1>3. \A i \in 1..(n + k) : i \in 1..n \/ (i - n \in 1..k /\ i = n + (i - n) /\ i > n)  BY <1>2
<1>4. /\ \A i \in 1..n : i \in 1..(n + k)
      /\ \A i \in 1..k : n + i \in 1..(n + k)
  BY <1>2
<1>5. \A i \in 1..k : /\ m[i].topic \in S /\ m[i].job = p.job /\ m[i].at = p.at
                      /\ m[i].number = num[m[i].topic]
  BY Zenon DEF Batch, k
<1>6. \A i, j \in 1..k : m[i].topic = m[j].topic => i = j  BY Zenon DEF Batch, k
<1>7. \A i \in 1..n, j \in 1..k : l[i].topic = m[j].topic => l[i].at < p.at
  <2> SUFFICES ASSUME NEW i \in 1..n, NEW j \in 1..k, l[i].topic = m[j].topic PROVE l[i].at < p.at
    BY Zenon
  <2>1. m[j].topic \in TopicsOf(m[j].job) /\ m[j].job = p.job  BY <1>5, Zenon
  <2>2. Alike(l[i], m[j])  BY <2>1, TopicsAlike, Zenon DEF OnTopic, n
  <2>3. Alike(l[i], p)  BY <2>1, <2>2, Zenon DEF Alike
  <2> QED  BY <2>3, Zenon DEF Precedes, n
<1>8. LogNumbered(q)
  <2> SUFFICES ASSUME NEW i \in 1..(n + k)
               PROVE  /\ EarlierIn(q, i) = {} => q[i].number = 0
                      /\ \A j \in EarlierIn(q, i) :
                            /\ q[j].at < q[i].at
                            /\ (\A x \in EarlierIn(q, i) : x <= j) =>
                                  q[i].number = (q[j].number + 1) % Modulus
    BY <1>2, Zenon DEF LogNumbered
  <2>1. CASE i \in 1..n
    <3>1. \A j \in 1..(i - 1) : j \in 1..n  BY <1>2, <2>1
    <3>2. EarlierIn(q, i) = EarlierIn(l, i) /\ q[i] = l[i]
      BY <1>2, <2>1, <3>1, Zenon DEF EarlierIn
    <3>3. \A j \in EarlierIn(l, i) : q[j] = l[j]  BY <1>2, <3>1, Zenon DEF EarlierIn
    <3>4. i \in 1..Len(l)  BY <2>1, Zenon DEF n
    <3> QED  BY <3>2, <3>3, <3>4, SMTT(30) DEF LogNumbered
  <2>2. CASE i \notin 1..n
    <3> DEFINE u == i - n
               t == m[u].topic
    <3>1. u \in 1..k /\ i = n + u  BY <1>3, <2>2, Zenon
    <3>2. q[i] = m[u]  BY <1>2, <3>1, Zenon
    <3>3. q[i].topic = t /\ q[i].at = p.at /\ q[i].number = num[t] /\ t \in Topic
      BY <1>5, <3>1, <3>2, Zenon
    <3>4. \A j \in 1..(i - 1) : j \in 1..(n + k)  BY <1>2
    <3>5. \A j \in EarlierIn(q, i) : j \in 1..n /\ q[j] = l[j] /\ l[j].topic = t
      <4> SUFFICES ASSUME NEW j \in 1..(i - 1), q[j].topic = t
                   PROVE  j \in 1..n /\ q[j] = l[j] /\ l[j].topic = t
        BY <3>3, Zenon DEF EarlierIn
      <4>1. CASE j \in 1..n  BY <1>2, <4>1, Zenon
      <4>2. CASE j \notin 1..n
        <5>1. j - n \in 1..k /\ j = n + (j - n)  BY <1>3, <3>4, <4>2, Zenon
        <5>2. q[j] = m[j - n]  BY <1>2, <5>1, Zenon
        <5>3. j - n = u  BY <1>6, <3>1, <5>1, <5>2, Zenon
        <5> QED  BY <1>2, <5>3, SMTT(30)
      <4> QED  BY <4>1, <4>2, Zenon
    <3>6. \A j \in 1..n : l[j].topic = t => j \in EarlierIn(q, i)
      <4> SUFFICES ASSUME NEW j \in 1..n, l[j].topic = t PROVE j \in EarlierIn(q, i)  BY Zenon
      <4>1. j \in 1..(i - 1)  BY <1>2, <3>1, SMTT(30)
      <4> QED  BY <1>2, <3>3, <4>1, Zenon DEF EarlierIn
    <3> HIDE DEF u, t
    <3>7. EarlierIn(q, i) = {} => q[i].number = 0
      <4> SUFFICES ASSUME EarlierIn(q, i) = {} PROVE num[t] = 0  BY <3>3, Zenon
      <4>1. \A j \in 1..Len(l) : l[j].topic # t  BY <3>6, Zenon DEF n
      <4> QED  BY <3>3, <4>1, Zenon DEF NextNumber
    <3>8. ASSUME NEW j \in EarlierIn(q, i) PROVE q[j].at < q[i].at
      <4>1. j \in 1..n /\ q[j] = l[j] /\ l[j].topic = m[u].topic  BY <3>5, <3>8, Zenon DEF t
      <4>2. l[j].at < p.at  BY <1>7, <3>1, <4>1, Zenon
      <4> QED  BY <3>3, <4>1, <4>2, Zenon
    <3>9. ASSUME NEW j \in EarlierIn(q, i), \A x \in EarlierIn(q, i) : x <= j
          PROVE  q[i].number = (q[j].number + 1) % Modulus
      <4>1. j \in 1..Len(l) /\ l[j].topic = t /\ q[j] = l[j]  BY <3>5, <3>9, Zenon DEF n
      <4>2. \A x \in 1..Len(l) : l[x].topic = t => x <= j  BY <3>6, <3>9, Zenon DEF n
      <4>3. num[t] = (l[j].number + 1) % Modulus  BY <3>3, <4>1, <4>2, Zenon DEF NextNumber
      <4> QED  BY <3>3, <4>1, <4>3, Zenon
    <3> QED  BY <3>7, <3>8, <3>9, Zenon
  <2> QED  BY <2>1, <2>2, Zenon
<1>9. NextNumber(q, num2)
  <2> SUFFICES ASSUME NEW t \in Topic
               PROVE  /\ (\A i \in 1..(n + k) : q[i].topic # t) => num2[t] = 0
                      /\ \A j \in 1..(n + k) :
                            q[j].topic = t /\ (\A x \in 1..(n + k) : q[x].topic = t => x <= j) =>
                               num2[t] = (q[j].number + 1) % Modulus
    BY <1>2 DEF NextNumber
  <2>1. CASE \E i \in 1..k : m[i].topic = t
    <3>1. PICK u \in 1..k : m[u].topic = t  BY <2>1, Zenon
    <3>2. num2[t] = (num[t] + 1) % Modulus  BY <2>1, Zenon DEF Advances, k
    <3>3. q[n + u] = m[u] /\ n + u \in 1..(n + k) /\ m[u].number = num[t]
      BY <1>2, <1>4, <1>5, <3>1, Zenon
    <3>4. ASSUME NEW j \in 1..(n + k), q[j].topic = t, \A x \in 1..(n + k) : q[x].topic = t => x <= j
          PROVE  num2[t] = (q[j].number + 1) % Modulus
      <4>1. n + u <= j  BY <3>1, <3>3, <3>4, Zenon
      <4>2. j \notin 1..n  BY <1>2, <4>1
      <4>3. j - n \in 1..k /\ j = n + (j - n)  BY <1>3, <4>2, Zenon
      <4>4. q[j] = m[j - n]  BY <1>2, <4>3, Zenon
      <4>5. j - n = u  BY <1>6, <3>1, <3>4, <4>3, <4>4, ZenonT(30)
      <4> QED  BY <3>2, <3>3, <4>4, <4>5, Zenon
    <3>5. ~(\A i \in 1..(n + k) : q[i].topic # t)  BY <3>1, <3>3, Zenon
    <3> QED  BY <3>4, <3>5, Zenon
  <2>2. CASE ~(\E i \in 1..k : m[i].topic = t)
    <3>1. num2[t] = num[t]  BY <2>2, Zenon DEF Advances, k
    <3>2. \A i \in 1..(n + k) : q[i].topic = t => i \in 1..n /\ q[i] = l[i]
      <4> SUFFICES ASSUME NEW i \in 1..(n + k), q[i].topic = t PROVE i \in 1..n
        BY <1>2, Zenon
      <4>1. ASSUME i - n \in 1..k, i = n + (i - n) PROVE FALSE
        <5>1. q[n + (i - n)] = m[i - n]  BY <1>2, <4>1, Zenon
        <5>2. q[i] = m[i - n]  BY <4>1, <5>1, Zenon
        <5> QED  BY <2>2, <4>1, <5>2, Zenon
      <4> QED  BY <1>3, <4>1, Zenon
    <3>3. \A i \in 1..n : q[i] = l[i] /\ i \in 1..(n + k)  BY <1>2, <1>4, Zenon
    <3>4. ASSUME \A i \in 1..(n + k) : q[i].topic # t PROVE num[t] = 0
      <4>1. \A i \in 1..Len(l) : l[i].topic # t  BY <3>3, <3>4, Zenon DEF n
      <4> QED  BY <4>1, Zenon DEF NextNumber
    <3>5. ASSUME NEW j \in 1..(n + k), q[j].topic = t, \A x \in 1..(n + k) : q[x].topic = t => x <= j
          PROVE  num[t] = (q[j].number + 1) % Modulus
      <4>1. j \in 1..Len(l) /\ l[j].topic = t /\ q[j] = l[j]  BY <3>2, <3>5, Zenon DEF n
      <4>2. \A x \in 1..Len(l) : l[x].topic = t => x <= j  BY <3>3, <3>5, Zenon DEF n
      <4> QED  BY <4>1, <4>2, SMTT(30) DEF NextNumber
    <3> QED  BY <3>1, <3>4, <3>5, Zenon
  <2> QED  BY <2>1, <2>2, Zenon
<1> QED  BY <1>8, <1>9, Zenon DEF q

\* Events are handled, or broadcasts made, that this channel is not posted.
LEMMA PostsRise ==
    ASSUME NEW s \in Seq(Post), NEW l \in Seq(Published),
           NEW e \in Nat, NEW w \in Nat, NEW e2 \in Nat, NEW w2 \in Nat, e <= e2, w <= w2,
           PostsOrdered(s, e, w), LogOrdered(l, s, e, w)
    PROVE  PostsOrdered(s, e2, w2) /\ LogOrdered(l, s, e2, w2)
<1>1. \A i \in 1..Len(s) : s[i].at \in Nat
  <2>1. \A i \in 1..Len(s) : s[i] \in Post  OBVIOUS
  <2> QED  BY <2>1, Zenon DEF Post
<1>2. \A i \in 1..Len(l) : l[i].at \in Nat
  <2>1. \A i \in 1..Len(l) : l[i] \in Published  OBVIOUS
  <2> QED  BY <2>1, Zenon DEF Published
<1>3. PostsOrdered(s, e2, w2)  BY <1>1, SMTT(30) DEF PostsOrdered
<1>4. LogOrdered(l, s, e2, w2)  BY <1>2, SMTT(30) DEF LogOrdered
<1> QED  BY <1>3, <1>4, Zenon

\* An event or broadcast that is new is posted.
LEMMA PostsGain ==
    ASSUME NEW s \in Seq(Post), NEW l \in Seq(Published), NEW x \in Post,
           NEW e \in Nat, NEW w \in Nat, NEW e2 \in Nat, NEW w2 \in Nat, e <= e2, w <= w2,
           IF x.job \in Event THEN e < x.at /\ x.at <= e2 ELSE w < x.at /\ x.at <= w2,
           PostsOrdered(s, e, w), LogOrdered(l, s, e, w)
    PROVE  PostsOrdered(Append(s, x), e2, w2) /\ LogOrdered(l, Append(s, x), e2, w2)
<1> DEFINE t == Append(s, x)
           n == Len(s)
<1>1. /\ t \in Seq(Post) /\ Len(t) = n + 1 /\ n \in Nat /\ t[n + 1] = x
      /\ \A i \in 1..n : t[i] = s[i]
  OBVIOUS
<1> HIDE DEF t, n
<1>2. \A i \in 1..(n + 1) : i \in 1..n \/ i = n + 1  BY <1>1, SMTT(30)
<1>3. \A i \in 1..n : s[i].at \in Nat /\ s[i].at <= IF s[i].job \in Event THEN e ELSE w
  <2>1. \A i \in 1..n : s[i] \in Post  BY DEF n
  <2> QED  BY <2>1, Zenon DEF Post, PostsOrdered, n
<1>4. \A i \in 1..Len(l) : l[i].at \in Nat /\ l[i].at <= IF l[i].job \in Event THEN e ELSE w
  <2>1. \A i \in 1..Len(l) : l[i] \in Published  OBVIOUS
  <2> QED  BY <2>1, Zenon DEF Published, LogOrdered
<1>5. x.at \in Nat  BY Zenon DEF Post
<1>6. PostsOrdered(t, e2, w2)
  <2>1. ASSUME NEW i \in 1..(n + 1) PROVE t[i].at <= IF t[i].job \in Event THEN e2 ELSE w2
    <3>1. CASE i \in 1..n
      <4>1. t[i] = s[i] /\ s[i].at \in Nat /\ s[i].at <= IF s[i].job \in Event THEN e ELSE w
        BY <1>1, <1>3, <3>1, Zenon
      <4> QED  BY <4>1, SMTT(30)
    <3>2. CASE i = n + 1  BY <1>1, <1>5, <3>2, Zenon
    <3> QED  BY <1>2, <3>1, <3>2, Zenon
  <2>2. ASSUME NEW i \in 1..(n + 1), NEW j \in 1..(n + 1), i < j, Alike(t[i], t[j])
        PROVE  t[i].at < t[j].at
    <3>1. i \in 1..n  BY <1>1, <2>2
    <3>2. CASE j \in 1..n  BY <1>1, <2>2, <3>1, <3>2, Zenon DEF PostsOrdered, n
    <3>3. CASE j = n + 1
      <4>1. Alike(s[i], x) /\ t[i] = s[i] /\ t[j] = x  BY <1>1, <2>2, <3>1, <3>3, Zenon
      <4>2. s[i].at \in Nat /\ s[i].at <= IF s[i].job \in Event THEN e ELSE w
        BY <1>3, <3>1, Zenon
      <4>3. PICK b \in Nat : s[i].at <= b /\ b < x.at  BY <4>1, <4>2, Zenon DEF Alike
      <4>4. s[i].at < x.at  BY <1>5, <4>2, <4>3, SMTT(30)
      <4> QED  BY <4>1, <4>4, Zenon
    <3> QED  BY <1>2, <3>2, <3>3, Zenon
  <2> QED  BY <1>1, <2>1, <2>2, Zenon DEF PostsOrdered
<1>7. LogOrdered(l, t, e2, w2)
  <2>1. \A i \in 1..Len(l) : l[i].at <= IF l[i].job \in Event THEN e2 ELSE w2  BY <1>4, SMTT(30)
  <2>2. ASSUME NEW i \in 1..Len(l), NEW j \in 1..(n + 1), Alike(l[i], t[j])
        PROVE  l[i].at < t[j].at
    <3>2. CASE j \in 1..n  BY <1>1, <2>2, <3>2, Zenon DEF LogOrdered, n
    <3>3. CASE j = n + 1
      <4>1. Alike(l[i], x) /\ t[j] = x  BY <1>1, <2>2, <3>3, Zenon
      <4>2. l[i].at \in Nat /\ l[i].at <= IF l[i].job \in Event THEN e ELSE w  BY <1>4, Zenon
      <4>3. PICK b \in Nat : l[i].at <= b /\ b < x.at  BY <4>1, <4>2, Zenon DEF Alike
      <4>4. l[i].at < x.at  BY <1>5, <4>2, <4>3, SMTT(30)
      <4> QED  BY <4>1, <4>4, Zenon
    <3> QED  BY <1>2, <3>2, <3>3, Zenon
  <2> QED  BY <1>1, <2>1, <2>2, Zenon DEF LogOrdered
<1> QED  BY <1>6, <1>7, Zenon DEF t

\* A post is taken, and its messages, if any, are logged.
LEMMA PostsTake ==
    ASSUME NEW s \in Seq(Post), s # <<>>, NEW l \in Seq(Published), NEW e \in Nat, NEW w \in Nat,
           PostsOrdered(s, e, w), LogOrdered(l, s, e, w),
           NEW m, NEW S, NEW num, Batch(m, Head(s), S, num), S \subseteq TopicsOf(Head(s).job)
    PROVE  /\ PostsOrdered(Tail(s), e, w)
           /\ LogOrdered(l, Tail(s), e, w) /\ LogOrdered(l \o m, Tail(s), e, w)
           /\ Precedes(l, Head(s))
<1> DEFINE t == Tail(s)
           n == Len(s)
           p == Head(s)
<1>1. /\ p = s[1] /\ n \in Nat /\ n >= 1 /\ Len(t) = n - 1
      /\ \A i \in 1..(n - 1) : t[i] = s[i + 1]
  OBVIOUS
<1> HIDE DEF t, n, p
<1>2. 1 \in 1..n /\ \A i \in 1..(n - 1) : i + 1 \in 1..n /\ 1 < i + 1 /\ i \in Nat  BY <1>1
<1>3. PostsOrdered(t, e, w)
  <2>1. \A i \in 1..(n - 1) : t[i].at <= IF t[i].job \in Event THEN e ELSE w
    BY <1>1, <1>2, Zenon DEF PostsOrdered, n
  <2>2. ASSUME NEW i \in 1..(n - 1), NEW j \in 1..(n - 1), i < j, Alike(t[i], t[j])
        PROVE  t[i].at < t[j].at
    <3>1. i + 1 \in 1..n /\ j + 1 \in 1..n /\ i + 1 < j + 1  BY <1>2, <2>2
    <3>2. t[i] = s[i + 1] /\ t[j] = s[j + 1]  BY <1>1, Zenon
    <3> QED  BY <2>2, <3>1, <3>2, Zenon DEF PostsOrdered, n
  <2> QED  BY <1>1, <2>1, <2>2, Zenon DEF PostsOrdered
<1>4. LogOrdered(l, t, e, w)  BY <1>1, <1>2, Zenon DEF LogOrdered, n
<1>5. Precedes(l, p)  BY <1>1, <1>2, Zenon DEF LogOrdered, Precedes, n
<1>6. LogOrdered(l \o m, t, e, w)
  <2> DEFINE q == l \o m
             a == Len(l)
             k == Len(m)
  <2>1. m \in Seq(Published)  BY Zenon DEF Batch
  <2>2. /\ Len(q) = a + k /\ a \in Nat /\ k \in Nat
        /\ \A i \in 1..a : q[i] = l[i]
        /\ \A i \in 1..k : q[a + i] = m[i]
    BY <2>1, ConcatSeq
  <2> HIDE DEF q, a, k
  <2>3. \A i \in 1..k : m[i].topic \in TopicsOf(m[i].job) /\ m[i].job = p.job /\ m[i].at = p.at
    BY Zenon DEF Batch, k, p
  <2>4. ASSUME NEW i \in 1..(a + k)
        PROVE  /\ q[i].topic \in TopicsOf(q[i].job)
               /\ q[i].at <= IF q[i].job \in Event THEN e ELSE w
               /\ \A j \in 1..(n - 1) : Alike(q[i], t[j]) => q[i].at < t[j].at
    <3>1. CASE i \in 1..a
      BY <1>1, <1>4, <2>2, <3>1, Zenon DEF LogOrdered, a
    <3>2. CASE i \notin 1..a
      <4>1. i - a \in 1..k /\ i = a + (i - a)  BY <2>2, <3>2
      <4>2. q[i] = m[i - a]  BY <2>2, <4>1, Zenon
      <4>3. q[i].topic \in TopicsOf(q[i].job) /\ q[i].job = p.job /\ q[i].at = p.at
        BY <2>3, <4>1, <4>2, Zenon
      <4>4. p.at <= IF p.job \in Event THEN e ELSE w  BY <1>1, <1>2, Zenon DEF PostsOrdered, n
      <4>5. ASSUME NEW j \in 1..(n - 1), Alike(q[i], t[j]) PROVE q[i].at < t[j].at
        <5>1. t[j] = s[j + 1] /\ j + 1 \in 1..n /\ 1 < j + 1  BY <1>1, <1>2, Zenon
        <5>2. Alike(s[1], s[j + 1])  BY <1>1, <4>3, <4>5, <5>1, Zenon DEF Alike
        <5>3. s[1].at < s[j + 1].at  BY <1>2, <5>1, <5>2, Zenon DEF PostsOrdered, n
        <5> QED  BY <1>1, <4>3, <5>1, <5>3, Zenon
      <4> QED  BY <4>3, <4>4, <4>5, Zenon
    <3> QED  BY <3>1, <3>2, Zenon
  <2> QED  BY <1>1, <2>2, <2>4, Zenon DEF LogOrdered, q
<1> QED  BY <1>3, <1>4, <1>5, <1>6, Zenon DEF t, p

\* Nothing is published at the start.
LEMMA InitPublish == Init => PublishInv
<1> SUFFICES ASSUME Init PROVE PublishInv  BY Zenon
<1>1. PublishType  BY DEF Init, PublishType
<1>2. \A c \in Channel : posts[c] = <<>> /\ log[c] = <<>> /\ number[c] = [t \in Topic |-> 0]
  BY Zenon DEF Init
<1>3. \A c \in Channel : LogNumbered(log[c])  BY <1>2, SMTT(30) DEF LogNumbered
<1>4. \A c \in Channel : PostsOrdered(posts[c], seen[c], wires) /\ LogOrdered(log[c], posts[c], seen[c], wires)
  BY <1>2, SMTT(30) DEF PostsOrdered, LogOrdered
<1>5. \A c \in Channel : NextNumber(log[c], number[c])  BY <1>2 DEF NextNumber
<1> QED  BY <1>1, <1>3, <1>4, <1>5, NumberedEach, ZenonT(30) DEF PublishInv

\* What PublishInv says of each channel.
Ordered(c) ==
    /\ LogNumbered(log[c])
    /\ PostsOrdered(posts[c], seen[c], wires)
    /\ LogOrdered(log[c], posts[c], seen[c], wires)
    /\ NextNumber(log[c], number[c])

\* PublishInv by channel.
LEMMA PublishEach == PublishInv <=> PublishType /\ \A c \in Channel : Ordered(c)
BY NumberedEach, Zenon DEF PublishInv, Ordered

\* PublishInv of the next state, by channel.
LEMMA PublishNext ==
    ASSUME PublishType', \A c \in Channel : Ordered(c)' PROVE PublishInv'
BY Zenon DEF PublishInv, Ordered, NumberedInOrder, LogNumbered, Earlier, EarlierIn

\* Running a post logs the messages of the topics subscribed, and nothing on a
\* channel that is not open.
LEMMA RunPublish == ASSUME PublishInv, NEW c \in Channel, run_post(c) PROVE PublishInv'
<1> USE PublishEach
<1> DEFINE p == Head(posts[c])
           m == Messages(c, p)
           S == TopicsOf(p.job) \intersect topics[c]
<1>1. PublishType /\ \A d \in Channel : Ordered(d)  BY ZenonT(30)
<1>2. posts[c] \in Seq(Post) /\ posts[c] # <<>> /\ p \in Post /\ Tail(posts[c]) \in Seq(Post)
  BY <1>1 DEF run_post, PublishType
<1>3. Batch(m, p, S, number[c])  BY <1>1, <1>2, MessagesBatch, Zenon
<1>4. log[c] \in Seq(Published) /\ m \in Seq(Published) /\ log[c] \o m \in Seq(Published)
  <2>1. m \in Seq(Published)  BY <1>3, Zenon DEF Batch
  <2> HIDE DEF m
  <2> QED  BY <1>1, <2>1, ConcatSeq, Zenon DEF PublishType
<1>5. UNCHANGED <<topics, chase, wires, seen, since, dropped, state>>
  BY Zenon DEF run_post, subVars, nodeVars
<1>6. posts' = [posts EXCEPT ![c] = Tail(posts[c])]  BY Zenon DEF run_post
<1>7. S \subseteq TopicsOf(p.job) \intersect Topic  BY <1>1, Zenon DEF PublishType
<1> DEFINE num2 == [t \in Topic |-> IF \E i \in 1..Len(m) : m[i].topic = t
                                    THEN (number[c][t] + 1) % Modulus ELSE number[c][t]]
<1>8. CASE state[c] = "open"
  <2>1. log' = [log EXCEPT ![c] = log[c] \o m] /\ number' = [number EXCEPT ![c] = num2]
    BY <1>8, Zenon DEF run_post, Numbered
  <2>2. num2 \in [Topic -> Nat]
    <3>1. \A x \in Nat : (x + 1) % Modulus \in Nat  BY ModulusAssumption
    <3>2. \A t \in Topic : number[c][t] \in Nat  BY <1>1, Zenon DEF PublishType
    <3> QED  BY <3>1, <3>2, Zenon
  <2>3. Advances(number[c], num2, m)  BY Zenon DEF Advances
  <2> HIDE DEF m, p, S, num2
  <2>4. /\ PostsOrdered(Tail(posts[c]), seen[c], wires)
        /\ LogOrdered(log[c] \o m, Tail(posts[c]), seen[c], wires)
        /\ Precedes(log[c], p)
    <3>1. seen[c] \in Nat /\ wires \in Nat  BY <1>1, Zenon DEF PublishType
    <3>2. PostsOrdered(posts[c], seen[c], wires) /\ LogOrdered(log[c], posts[c], seen[c], wires)
      BY <1>1, Zenon DEF Ordered
    <3>3. Batch(m, Head(posts[c]), S, number[c]) /\ S \subseteq TopicsOf(Head(posts[c]).job)
      BY <1>3, <1>7, Zenon DEF p
    <3> QED  BY <1>2, <1>4, <3>1, <3>2, <3>3, PostsTake, ZenonT(30) DEF p
  <2>5. LogNumbered(log[c] \o m) /\ NextNumber(log[c] \o m, num2)
    <3>1. LogNumbered(log[c]) /\ NextNumber(log[c], number[c]) /\ OnTopic(log[c])
      BY <1>1, Zenon DEF Ordered, LogOrdered, OnTopic
    <3> QED  BY <1>2, <1>3, <1>4, <1>7, <2>3, <2>4, <3>1, BatchNumbered, Zenon
  <2>6. PublishType'
    BY <1>1, <1>2, <1>4, <1>5, <1>6, <2>1, <2>2, ZenonT(30) DEF PublishType
  <2>7. Ordered(c)'
    <3>1. posts'[c] = Tail(posts[c]) /\ log'[c] = log[c] \o m /\ number'[c] = num2
      BY <1>1, <1>6, <2>1, Zenon DEF PublishType
    <3> QED  BY <1>5, <2>4, <2>5, <3>1, Zenon DEF Ordered
  <2>8. \A d \in Channel : d # c => Ordered(d)'
    BY <1>1, <1>5, <1>6, <2>1, ZenonT(30) DEF Ordered, PublishType
  <2> QED  BY <2>6, <2>7, <2>8, PublishNext, Zenon
<1>9. CASE state[c] # "open"
  <2>1. log' = log /\ number' = number  BY <1>9, Zenon DEF run_post
  <2> HIDE DEF m, p, S, num2
  <2>2. PostsOrdered(Tail(posts[c]), seen[c], wires) /\ LogOrdered(log[c], Tail(posts[c]), seen[c], wires)
    <3>1. seen[c] \in Nat /\ wires \in Nat  BY <1>1, Zenon DEF PublishType
    <3>2. PostsOrdered(posts[c], seen[c], wires) /\ LogOrdered(log[c], posts[c], seen[c], wires)
      BY <1>1, Zenon DEF Ordered
    <3>3. Batch(m, Head(posts[c]), S, number[c]) /\ S \subseteq TopicsOf(Head(posts[c]).job)
      BY <1>3, <1>7, Zenon DEF p
    <3> QED  BY <1>2, <1>4, <3>1, <3>2, <3>3, PostsTake, ZenonT(30)
  <2>3. PublishType'  BY <1>1, <1>2, <1>5, <1>6, <2>1, ZenonT(30) DEF PublishType
  <2>4. Ordered(c)'
    <3>1. posts'[c] = Tail(posts[c])  BY <1>1, <1>6, Zenon DEF PublishType
    <3> QED  BY <1>1, <1>5, <2>1, <2>2, <3>1, ZenonT(30) DEF Ordered
  <2>5. \A d \in Channel : d # c => Ordered(d)'
    BY <1>1, <1>5, <1>6, <2>1, Zenon DEF Ordered, PublishType
  <2> QED  BY <2>3, <2>4, <2>5, PublishNext, Zenon
<1> QED  BY <1>8, <1>9, Zenon

\* A step of the event thread posts an event in order, or does not post it.
LEMMA ChasePublish == ASSUME PublishInv, NEW c \in Channel, handle_chase(c) PROVE PublishInv'
<1> DEFINE i == seen[c] + 1
           x == [job |-> chase[i], at |-> i]
<1>1. PublishType /\ \A d \in Channel : Ordered(d)  BY PublishEach, Zenon
<1>2. UNCHANGED <<topics, chase, wires, number, log, since, state>> /\ seen' = [seen EXCEPT ![c] = i]
  BY Zenon DEF handle_chase, subVars, nodeVars
<1>3. seen[c] \in Nat /\ i \in Nat /\ seen[c] < i /\ wires \in Nat  BY <1>1, SMTT(30) DEF PublishType
<1>4. chase[i] \in Event
  <2>1. i \in 1..Len(chase)  BY <1>1, <1>3 DEF handle_chase, PublishType
  <2> QED  BY <1>1, <2>1, SMTT(30) DEF PublishType
<1>5. x \in Post /\ x.job \in Event /\ x.at = i  BY <1>3, <1>4, Zenon DEF Post
<1>6. posts[c] \in Seq(Post) /\ log[c] \in Seq(Published)  BY <1>1, Zenon DEF PublishType
<1>7. DOMAIN dropped' = Channel  BY <1>1, Zenon DEF handle_chase, PublishType
<1>8. posts' = posts \/ posts' = [posts EXCEPT ![c] = Append(posts[c], x)]
  BY Zenon DEF handle_chase
<1> HIDE DEF x, i
<1>9. PostsOrdered(posts[c], seen[c], wires) /\ LogOrdered(log[c], posts[c], seen[c], wires)
  BY <1>1, Zenon DEF Ordered
<1>10. CASE posts' = posts
  <2>1. PostsOrdered(posts[c], i, wires) /\ LogOrdered(log[c], posts[c], i, wires)
    BY <1>3, <1>6, <1>9, PostsRise, SMTT(30)
  <2>2. PublishType'  BY <1>1, <1>2, <1>3, <1>7, <1>10, Zenon DEF PublishType
  <2>3. seen'[c] = i  BY <1>1, <1>2, Zenon DEF PublishType
  <2>4. Ordered(c)'  BY <1>1, <1>2, <1>10, <2>1, <2>3, ZenonT(30) DEF Ordered
  <2>5. \A d \in Channel : d # c => Ordered(d)'
    BY <1>1, <1>2, <1>10, ZenonT(30) DEF Ordered, PublishType
  <2> QED  BY <2>2, <2>4, <2>5, PublishNext, ZenonT(30)
<1>11. CASE posts' = [posts EXCEPT ![c] = Append(posts[c], x)]
  <2> DEFINE t == Append(posts[c], x)
  <2>1. PostsOrdered(t, i, wires) /\ LogOrdered(log[c], t, i, wires)
    <3>1. IF x.job \in Event THEN seen[c] < x.at /\ x.at <= i ELSE wires < x.at /\ x.at <= wires
      BY <1>3, <1>5, SMTT(30)
    <3>2. x \in Post /\ seen[c] <= i /\ wires <= wires  BY <1>3, <1>5, SMTT(30)
    <3> QED  BY <1>3, <1>6, <1>9, <3>1, <3>2, PostsGain, ZenonT(30)
  <2>2. t \in Seq(Post)  BY <1>5, <1>6, SMTT(30)
  <2>3. posts' = [posts EXCEPT ![c] = t]  BY <1>11, Zenon
  <2> HIDE DEF t
  <2>4. PublishType'  BY <1>1, <1>2, <1>3, <1>7, <2>2, <2>3, ZenonT(30) DEF PublishType
  <2>5. seen'[c] = i /\ posts'[c] = t  BY <1>1, <1>2, <2>3, Zenon DEF PublishType
  <2>6. Ordered(c)'  BY <1>1, <1>2, <2>1, <2>5, Zenon DEF Ordered
  <2>7. \A d \in Channel : d # c => Ordered(d)'
    BY <1>1, <1>2, <2>3, Zenon DEF Ordered, PublishType
  <2> QED  BY <2>4, <2>6, <2>7, PublishNext, Zenon
<1> QED  BY <1>8, <1>10, <1>11, ZenonT(30)

\* A broadcast is posted to the channels that are open.
LEMMA BroadcastPublish == ASSUME PublishInv, NEW b \in Wire, Broadcast(b) PROVE PublishInv'
<1> DEFINE x == [job |-> b, at |-> wires + 1]
           w == wires + 1
<1>1. PublishType /\ \A d \in Channel : Ordered(d)  BY PublishEach, Zenon
<1>2. UNCHANGED <<topics, chase, seen, number, log, since, state, dropped>> /\ wires' = w
  BY Zenon DEF Broadcast, subVars
<1>3. wires \in Nat /\ w \in Nat /\ wires < w  BY <1>1 DEF PublishType
<1>4. x \in Post /\ x.job \notin Event /\ x.at = w  BY <1>3, Zenon DEF Post, Wire, Event
<1>5. posts' = [d \in Channel |-> IF state[d] = "open" THEN Append(posts[d], x) ELSE posts[d]]
  BY Zenon DEF Broadcast
<1> HIDE DEF x, w
<1>6. ASSUME NEW d \in Channel
      PROVE  posts'[d] \in Seq(Post) /\ PostsOrdered(posts'[d], seen[d], w) /\ LogOrdered(log[d], posts'[d], seen[d], w)
  <2>1. posts[d] \in Seq(Post) /\ log[d] \in Seq(Published) /\ seen[d] \in Nat
    BY <1>1, Zenon DEF PublishType
  <2>2. PostsOrdered(posts[d], seen[d], wires) /\ LogOrdered(log[d], posts[d], seen[d], wires)
    BY <1>1, Zenon DEF Ordered
  <2>3. CASE posts'[d] = posts[d]
    BY <1>3, <2>1, <2>2, <2>3, PostsRise, SMTT(30)
  <2>4. PostsOrdered(Append(posts[d], x), seen[d], w) /\ LogOrdered(log[d], Append(posts[d], x), seen[d], w)
    <3>1. /\ seen[d] <= seen[d] /\ wires <= w
          /\ IF x.job \in Event THEN seen[d] < x.at /\ x.at <= seen[d] ELSE wires < x.at /\ x.at <= w
      BY <1>3, <1>4, <2>1, SMTT(30)
    <3> QED  BY <1>3, <1>4, <2>1, <2>2, <3>1, PostsGain, ZenonT(30)
  <2>5. Append(posts[d], x) \in Seq(Post)  BY <1>4, <2>1
  <2>6. posts'[d] = posts[d] \/ posts'[d] = Append(posts[d], x)  BY <1>5, Zenon
  <2> QED  BY <2>1, <2>3, <2>4, <2>5, <2>6, ZenonT(30)
<1>7. posts' \in [Channel -> Seq(Post)]  BY <1>5, <1>6, Zenon
<1>8. PublishType'  BY <1>1, <1>2, <1>3, <1>7, Zenon DEF PublishType
<1>9. \A d \in Channel : Ordered(d)'  BY <1>1, <1>2, <1>6, ZenonT(30) DEF Ordered
<1> QED  BY <1>8, <1>9, PublishNext, Zenon

\* A step that leaves the posts, the log and the counts alone.
LEMMA OtherPublish ==
    ASSUME PublishInv, PublishType', UNCHANGED <<posts, log, number, seen, wires>>
    PROVE  PublishInv'
<1>1. \A c \in Channel : Ordered(c)'  BY PublishEach, Zenon DEF Ordered
<1> QED  BY <1>1, PublishNext, Zenon

\* Every step keeps what is posted and logged in order.
LEMMA NextPublish == ASSUME PublishInv, [Next]_vars PROVE PublishInv'
<1>0. PublishType  BY Zenon DEF PublishInv
<1>1. CASE UNCHANGED vars
  BY <1>0, <1>1, OtherPublish, Zenon DEF vars, nodeVars, PublishType
<1>2. ASSUME NEW e \in Event, RaiseChase(e) PROVE PublishInv'
  <2>1. PublishType'  BY <1>0, <1>2 DEF RaiseChase, subVars, PublishType
  <2> QED  BY <1>2, <2>1, OtherPublish, ZenonT(30) DEF RaiseChase
<1>3. ASSUME NEW w \in Wire, Broadcast(w) PROVE PublishInv'
  BY <1>3, BroadcastPublish, Zenon
<1>4. CASE CurrencyChanges
  BY <1>0, <1>4, OtherPublish, Zenon DEF CurrencyChanges, subVars, PublishType
<1>5. ASSUME NEW c \in Channel, NEW p \in Prefix, NEW cancel \in BOOLEAN, handle_subscribe(c, p, cancel)
      PROVE  PublishInv'
  <2>1. topics' \in [Channel -> SUBSET Topic]
    <3>1. Match[p] \subseteq Topic  BY MatchAssumption, Zenon
    <3> QED  BY <1>0, <1>5, <3>1, SMTT(30) DEF handle_subscribe, Flip, PublishType
  <2>2. since' \in [Channel -> Nat] /\ DOMAIN state' = Channel
    BY <1>0, <1>5, ZenonT(30) DEF handle_subscribe, PublishType
  <2>3. PublishType'
    BY <1>0, <1>5, <2>1, <2>2, Zenon DEF handle_subscribe, nodeVars, PublishType
  <2> QED  BY <1>5, <2>3, OtherPublish, ZenonT(30) DEF handle_subscribe, nodeVars
<1>6. ASSUME NEW c \in Channel, Close(c) \/ stopping(c) PROVE PublishInv'
  <2>1. topics' = topics \/ topics' = [topics EXCEPT ![c] = @ \ {"rawtx", "rawblock"}]
    BY <1>6, Zenon DEF Close, stopping, subVars
  <2>2. topics' \in [Channel -> SUBSET Topic]
    <3>1. topics \in [Channel -> SUBSET Topic]  BY <1>0, Zenon DEF PublishType
    <3>2. CASE topics' = topics  BY <3>1, <3>2, Zenon
    <3>3. CASE topics' = [topics EXCEPT ![c] = @ \ {"rawtx", "rawblock"}]
      <4>1. topics[c] \ {"rawtx", "rawblock"} \in SUBSET Topic  BY <3>1, Zenon
      <4> QED  BY <3>1, <3>3, <4>1, Zenon
    <3> QED  BY <2>1, <3>2, <3>3, ZenonT(30)
  <2>3. DOMAIN state' = Channel  BY <1>0, <1>6, Zenon DEF Close, stopping, PublishType
  <2>4. PublishType'
    BY <1>0, <1>6, <2>2, <2>3, ZenonT(30) DEF Close, stopping, nodeVars, PublishType
  <2> QED  BY <1>6, <2>4, OtherPublish, Zenon DEF Close, stopping, nodeVars
<1> QED
  BY <1>1, <1>2, <1>3, <1>4, <1>5, <1>6, ChasePublish, RunPublish, ZenonT(30)
     DEF Next, NodeStep, ChannelStep, Event, Wire

\* For any channels, prefixes, subscription limit and width of the numbers:
\* the messages of each topic are numbered without a gap from zero, and follow
\* the order of what they announce, whatever is subscribed or cancelled between
\* the post and the publication (publish, do_organized, do_transaction).
THEOREM NumberedInOrderTheorem == Spec => []NumberedInOrder
<1>1. PublishInv => NumberedInOrder  BY Zenon DEF PublishInv
<1> QED  BY InitPublish, NextPublish, <1>1, PTL DEF Spec

-----------------------------------------------------------------------------
(* The sequence topic.                                                     *)

Logged(c, i) ==
    \E m \in 1..Len(log[c]) :
        log[c][m].topic = "sequence" /\ log[c][m].at = i /\ log[c][m].job = chase[i]
Queued(c, i) ==
    \E j \in 1..Len(posts[c]) : posts[c][j].at = i /\ posts[c][j].job = chase[i]

\* A queue that gains a post keeps the others.
LEMMA AppendKeeps ==
    ASSUME NEW S, NEW s \in Seq(S), NEW x \in S
    PROVE  /\ \A j \in 1..Len(s) : j \in 1..Len(Append(s, x)) /\ Append(s, x)[j] = s[j]
           /\ Len(s) + 1 \in 1..Len(Append(s, x)) /\ Append(s, x)[Len(s) + 1] = x
OBVIOUS

\* A log that is extended keeps its messages and holds the new ones.
LEMMA ConcatKeeps ==
    ASSUME NEW S, NEW s \in Seq(S), NEW m \in Seq(S)
    PROVE  /\ \A j \in 1..Len(s) : j \in 1..Len(s \o m) /\ (s \o m)[j] = s[j]
           /\ \A u \in 1..Len(m) : Len(s) + u \in 1..Len(s \o m) /\ (s \o m)[Len(s) + u] = m[u]
<1>1. /\ Len(s \o m) = Len(s) + Len(m) /\ Len(s) \in Nat /\ Len(m) \in Nat
      /\ \A i \in 1..Len(s) : (s \o m)[i] = s[i]
      /\ \A k \in 1..Len(m) : (s \o m)[Len(s) + k] = m[k]
  BY ConcatSeq, SMTT(30)
<1>2. /\ \A j \in 1..Len(s) : j \in 1..Len(s \o m)
      /\ \A u \in 1..Len(m) : Len(s) + u \in 1..Len(s \o m)
  BY <1>1, SMTT(30)
<1> QED  BY <1>1, <1>2, Zenon

\* Each event since the subscription is published, or posted to be.
SequenceInv ==
    \A c \in Channel :
        /\ seen[c] <= Len(chase)
        /\ state[c] = "open" /\ sequences(c) =>
              \A i \in (since[c] + 1)..seen[c] : i \notin dropped[c] => Logged(c, i) \/ Queued(c, i)

\* Nothing is seen at the start.
LEMMA InitSequence == Init => SequenceInv
BY SMTT(30) DEF Init, SequenceInv, sequences

\* A step that posts or logs nothing, and starts no subscription to the topic.
LEMMA OtherSequence ==
    ASSUME PublishType, SequenceInv, UNCHANGED <<posts, log, seen, chase>>, NEW c \in Channel,
           state'[c] = "open" /\ sequences(c)' =>
              /\ state[c] = "open" /\ sequences(c)
              /\ since'[c] = since[c] /\ dropped'[c] = dropped[c]
    PROVE  /\ seen'[c] <= Len(chase')
           /\ state'[c] = "open" /\ sequences(c)' =>
                 \A i \in (since'[c] + 1)..seen'[c] : i \notin dropped'[c] => Logged(c, i)' \/ Queued(c, i)'
BY SMTT(30) DEF SequenceInv, Logged, Queued

\* Every step keeps each event of the sequence topic published or posted.
LEMMA NextSequence == ASSUME PublishInv, SequenceInv, [Next]_vars PROVE SequenceInv'
<1>0. PublishType  BY ZenonT(30) DEF PublishInv
<1>1. CASE UNCHANGED vars \/ CurrencyChanges
  <2>1. UNCHANGED <<posts, log, seen, chase, state, topics, since, dropped>>
    BY <1>1, Zenon DEF vars, nodeVars, CurrencyChanges, subVars
  <2> QED  BY <2>1, SMTT(30) DEF SequenceInv, Logged, Queued, sequences
<1>2. ASSUME NEW e \in Event, RaiseChase(e) PROVE SequenceInv'
  <2>1. UNCHANGED <<posts, log, seen, state, topics, since, dropped>> /\ chase' = Append(chase, e)
    BY <1>2, Zenon DEF RaiseChase, subVars
  <2>2. Len(chase) \in Nat /\ Len(chase') = Len(chase) + 1 /\ \A i \in 1..Len(chase) : chase'[i] = chase[i]
    BY <1>0, <2>1 DEF PublishType
  <2>3. ASSUME NEW c \in Channel
        PROVE  /\ seen'[c] <= Len(chase')
               /\ state'[c] = "open" /\ sequences(c)' =>
                     \A i \in (since'[c] + 1)..seen'[c] : i \notin dropped'[c] => Logged(c, i)' \/ Queued(c, i)'
    <3>1. seen[c] \in Nat /\ since[c] \in Nat /\ seen[c] <= Len(chase)
      BY <1>0, Zenon DEF PublishType, SequenceInv
    <3>2. \A i \in (since[c] + 1)..seen[c] : chase'[i] = chase[i]  BY <2>2, <3>1, SMTT(30)
    <3>3. \A i \in (since[c] + 1)..seen[c] : (Logged(c, i) => Logged(c, i)') /\ (Queued(c, i) => Queued(c, i)')
      BY <2>1, <3>2, Zenon DEF Logged, Queued
    <3>4. seen'[c] <= Len(chase')  BY <2>1, <2>2, <3>1, SMTT(30)
    <3> QED  BY <2>1, <3>3, <3>4, Zenon DEF SequenceInv, sequences
  <2> QED  BY <2>3, Zenon DEF SequenceInv
<1>3. ASSUME NEW w \in Wire, Broadcast(w) PROVE SequenceInv'
  <2> DEFINE x == [job |-> w, at |-> wires + 1]
  <2>1. UNCHANGED <<log, seen, chase, state, topics, since, dropped>>
        /\ posts' = [c \in Channel |-> IF state[c] = "open" THEN Append(posts[c], x) ELSE posts[c]]
    BY <1>3, Zenon DEF Broadcast, subVars
  <2> HIDE DEF x
  <2>2. ASSUME NEW c \in Channel, NEW i, Queued(c, i) PROVE Queued(c, i)'
    <3>1. posts[c] \in Seq(Post)  BY <1>0, Zenon DEF PublishType
    <3>2. PICK j \in 1..Len(posts[c]) : posts[c][j].at = i /\ posts[c][j].job = chase[i]
      BY <2>2, Zenon DEF Queued
    <3>3. posts'[c] = posts[c] \/ posts'[c] = Append(posts[c], x)  BY <2>1, Zenon
    <3>4. j \in 1..Len(posts'[c]) /\ posts'[c][j] = posts[c][j]
      BY <3>1, <3>2, <3>3, AppendKeeps, SMTT(30)
    <3> QED  BY <2>1, <3>2, <3>4, Zenon DEF Queued
  <2>3. \A c \in Channel : \A i : Logged(c, i) => Logged(c, i)'  BY <2>1, Zenon DEF Logged
  <2> QED  BY <2>1, <2>2, <2>3, Zenon DEF SequenceInv, sequences
<1>4. ASSUME NEW c \in Channel, NEW p \in Prefix, NEW cancel \in BOOLEAN, handle_subscribe(c, p, cancel)
      PROVE  SequenceInv'
  <2>1. UNCHANGED <<posts, log, seen, chase, dropped>>
    BY <1>4, Zenon DEF handle_subscribe, nodeVars
  <2>2. ASSUME NEW d \in Channel, d # c
        PROVE  state'[d] = state[d] /\ topics'[d] = topics[d] /\ since'[d] = since[d]
    BY <1>0, <1>4, <2>2, ZenonT(30) DEF handle_subscribe, Flip, PublishType
  <2>3. CASE since'[c] = seen[c]
    <3>1. (since'[c] + 1)..seen'[c] = {}  BY <1>0, <2>1, <2>3, SMTT(30) DEF PublishType
    <3>2. seen'[c] <= Len(chase')  BY <2>1, ZenonT(30) DEF SequenceInv
    <3> QED  BY <1>0, <2>1, <2>2, <3>1, <3>2, OtherSequence, Zenon DEF SequenceInv, sequences
  <2>4. CASE since'[c] # seen[c]
    <3>1. since'[c] = since[c] /\ (state'[c] = "open" /\ "sequence" \in topics'[c] => state[c] = "open" /\ "sequence" \in topics[c])
      BY <1>0, <1>4, <2>4, SMTT(30) DEF handle_subscribe, Flip, Changes, PublishType
    <3> QED  BY <1>0, <2>1, <2>2, <3>1, OtherSequence, Zenon DEF SequenceInv, sequences
  <2> QED  BY <2>3, <2>4, Zenon
<1>5. ASSUME NEW c \in Channel, Close(c) \/ stopping(c) PROVE SequenceInv'
  <2>1. UNCHANGED <<posts, log, seen, chase, since, dropped>>
    BY <1>5, Zenon DEF Close, stopping, subVars, nodeVars
  <2>2. \A d \in Channel : state'[d] = "open" /\ "sequence" \in topics'[d] => state[d] = "open" /\ "sequence" \in topics[d]
    BY <1>0, <1>5, Zenon DEF Close, stopping, subVars, PublishType
  <2> QED  BY <1>0, <2>1, <2>2, OtherSequence, Zenon DEF SequenceInv, sequences
<1>6. ASSUME NEW c \in Channel, handle_chase(c) PROVE SequenceInv'
  <2> DEFINE n == seen[c] + 1
             x == [job |-> chase[n], at |-> n]
  <2>1. UNCHANGED <<log, chase, state, topics, since>> /\ seen' = [seen EXCEPT ![c] = n] /\ seen[c] < Len(chase)
    BY <1>6, Zenon DEF handle_chase, subVars, nodeVars
  <2>2. posts[c] \in Seq(Post) /\ seen[c] \in Nat /\ since[c] \in Nat /\ Len(chase) \in Nat
    BY <1>0 DEF PublishType
  <2>3. \A d \in Channel : d # c => posts'[d] = posts[d] /\ seen'[d] = seen[d] /\ dropped'[d] = dropped[d]
    BY <1>0, <1>6, ZenonT(30) DEF handle_chase, PublishType
  <2>4. chase[n] \in Event
    <3>1. n \in 1..Len(chase)  BY <2>1, <2>2, SMTT(30)
    <3> QED  BY <1>0, <3>1, SMTT(30) DEF PublishType
  <2>5. dropped[c] \subseteq dropped'[c]  BY <1>0, <1>6, ZenonT(30) DEF handle_chase, PublishType
  <2>6. ASSUME state[c] = "open", sequences(c), n \notin dropped'[c] PROVE posts'[c] = Append(posts[c], x)
    <3>1. blocks(c)  BY <2>6, Zenon DEF blocks, sequences
    <3>2. Wanted(c, chase[n]) \/ (chase[n] # "A" /\ ~current)
      BY <2>4, <2>6, <3>1, ZenonT(30) DEF Wanted, Event
    <3>3. CASE Wanted(c, chase[n])
      BY <1>0, <1>6, <2>6, <3>3, Zenon DEF handle_chase, PublishType
    <3>4. CASE ~Wanted(c, chase[n])
      <4>1. dropped' = [dropped EXCEPT ![c] = @ \union {n}]
        BY <1>6, <2>6, <3>2, <3>4, Zenon DEF handle_chase
      <4> QED  BY <1>0, <2>6, <4>1, Zenon DEF PublishType
    <3> QED  BY <3>3, <3>4, Zenon
  <2>7. posts'[c] = posts[c] \/ posts'[c] = Append(posts[c], x)
    BY <1>0, <1>6, ZenonT(30) DEF handle_chase, PublishType
  <2>8. x.at = n /\ x.job = chase[n] /\ x \in Post  BY <2>2, <2>4, SMTT(30) DEF Post
  <2>9. seen'[c] = n  BY <1>0, <2>1, Zenon DEF PublishType
  <2> HIDE DEF x, n
  <2>10. ASSUME NEW i, Queued(c, i) PROVE Queued(c, i)'
    <3>1. PICK j \in 1..Len(posts[c]) : posts[c][j].at = i /\ posts[c][j].job = chase[i]
      BY <2>10, ZenonT(30) DEF Queued
    <3>2. j \in 1..Len(posts'[c]) /\ posts'[c][j] = posts[c][j]
      BY <2>2, <2>7, <3>1, AppendKeeps, SMTT(30)
    <3> QED  BY <2>1, <3>1, <3>2, Zenon DEF Queued
  <2>11. ASSUME state[c] = "open", sequences(c), n \notin dropped'[c], NEW i, i = n PROVE Queued(c, i)'
    <3>1. posts'[c] = Append(posts[c], x)  BY <2>6, <2>11, Zenon
    <3>2. Len(posts[c]) + 1 \in 1..Len(posts'[c]) /\ posts'[c][Len(posts[c]) + 1] = x
      BY <2>2, <2>8, <3>1, AppendKeeps, SMTT(30)
    <3>3. x.at = i /\ x.job = chase'[i]  BY <2>1, <2>8, <2>11, Zenon
    <3>4. \E j \in 1..Len(posts'[c]) : posts'[c][j].at = i /\ posts'[c][j].job = chase'[i]
      BY <3>2, <3>3, Zenon
    <3> QED  BY <3>4, Zenon DEF Queued
  <2>12. \A d \in Channel : \A i : Logged(d, i) => Logged(d, i)'  BY <2>1, Zenon DEF Logged
  <2>13. \A d \in Channel : \A i : d # c /\ Queued(d, i) => Queued(d, i)'
    BY <2>1, <2>3, Zenon DEF Queued
  <2>14. \A i \in (since[c] + 1)..n : i \in (since[c] + 1)..seen[c] \/ i = n  BY <2>2, SMTT(30) DEF n
  <2>15. n <= Len(chase)  BY <2>1, <2>2, SMTT(30) DEF n
  <2>16. ASSUME NEW d \in Channel
         PROVE  /\ seen'[d] <= Len(chase')
                /\ state'[d] = "open" /\ sequences(d)' =>
                      \A i \in (since'[d] + 1)..seen'[d] : i \notin dropped'[d] => Logged(d, i)' \/ Queued(d, i)'
    <3>1. CASE d = c
      <4>1. ASSUME state[c] = "open", sequences(c), NEW i \in (since[c] + 1)..n, i \notin dropped'[c]
            PROVE  Logged(c, i)' \/ Queued(c, i)'
        <5>1. CASE i = n  BY <2>11, <4>1, <5>1, Zenon
        <5>2. CASE i \in (since[c] + 1)..seen[c]
          <6>1. Logged(c, i) \/ Queued(c, i)  BY <2>5, <4>1, <5>2, Zenon DEF SequenceInv
          <6> QED  BY <2>10, <2>12, <6>1, Zenon
        <5> QED  BY <2>14, <4>1, <5>1, <5>2, Zenon
      <4> QED  BY <2>1, <2>9, <2>15, <3>1, <4>1, Zenon DEF sequences
    <3>2. CASE d # c
      BY <2>1, <2>3, <2>12, <2>13, <3>2, Zenon DEF SequenceInv, sequences
    <3> QED  BY <3>1, <3>2, Zenon
  <2> QED  BY <2>16, Zenon DEF SequenceInv
<1>7. ASSUME NEW c \in Channel, run_post(c) PROVE SequenceInv'
  <2> DEFINE p == Head(posts[c])
             m == Messages(c, p)
  <2>1. UNCHANGED <<chase, state, topics, since, seen, dropped>> /\ posts' = [posts EXCEPT ![c] = Tail(posts[c])]
    BY <1>7, ZenonT(30) DEF run_post, subVars, nodeVars
  <2>2. posts[c] \in Seq(Post) /\ posts[c] # <<>> /\ p \in Post
    BY <1>0, <1>7 DEF run_post, PublishType
  <2>3. Batch(m, p, TopicsOf(p.job) \intersect topics[c], number[c])
    BY <1>0, <2>2, MessagesBatch, Zenon
  <2>4. \A d \in Channel : d # c => posts'[d] = posts[d] /\ log'[d] = log[d]
    BY <1>0, <1>7, Zenon DEF run_post, PublishType
  <2>5. state[c] = "open" => log'[c] = log[c] \o m
    BY <1>0, <1>7, Zenon DEF run_post, PublishType
  <2>6. posts'[c] = Tail(posts[c])  BY <1>0, <2>1, Zenon DEF PublishType
  <2>7. log[c] \in Seq(Published) /\ seen[c] \in Nat /\ since[c] \in Nat /\ Len(chase) \in Nat
    BY <1>0, SMTT(30) DEF PublishType
  <2> DEFINE k == Len(posts[c])
  <2>8. /\ p = posts[c][1] /\ k \in Nat /\ k >= 1 /\ Len(posts'[c]) = k - 1
        /\ \A i \in 1..(k - 1) : posts'[c][i] = posts[c][i + 1]
    BY <2>2, <2>6
  <2> HIDE DEF m, p, k
  <2>9. ASSUME state[c] = "open", NEW i, Logged(c, i) PROVE Logged(c, i)'
    <3>1. PICK j \in 1..Len(log[c]) :
             log[c][j].topic = "sequence" /\ log[c][j].at = i /\ log[c][j].job = chase[i]
      BY <2>9, Zenon DEF Logged
    <3>2. m \in Seq(Published)  BY <2>3, Zenon DEF Batch
    <3>3. j \in 1..Len(log[c] \o m) /\ (log[c] \o m)[j] = log[c][j]
      BY <2>7, <3>1, <3>2, ConcatKeeps, SMTT(30)
    <3>4. j \in 1..Len(log'[c]) /\ log'[c][j] = log[c][j]  BY <2>5, <2>9, <3>3, Zenon
    <3> QED  BY <2>1, <3>1, <3>4, Zenon DEF Logged
  <2>10. ASSUME state[c] = "open", sequences(c), NEW i \in (since[c] + 1)..seen[c], Queued(c, i)
         PROVE  Logged(c, i)' \/ Queued(c, i)'
    <3>1. PICK j \in 1..k : posts[c][j].at = i /\ posts[c][j].job = chase[i]
      BY <2>10, Zenon DEF Queued, k
    <3>2. CASE j = 1
      <4>1. p.at = i /\ p.job = chase[i]  BY <2>8, <3>1, <3>2, ZenonT(30)
      <4>2. chase[i] \in Event
        <5>1. seen[c] <= Len(chase)  BY Zenon DEF SequenceInv
        <5>2. i \in 1..Len(chase)  BY <2>7, <5>1, SMTT(30)
        <5> QED  BY <1>0, <5>2, SMTT(30) DEF PublishType
      <4>3. "sequence" \in TopicsOf(p.job) \intersect topics[c]
        BY <2>10, <4>1, <4>2, Zenon DEF TopicsOf, Event, sequences
      <4>4. PICK u \in 1..Len(m) : m[u].topic = "sequence"  BY <2>3, <4>3, Zenon DEF Batch
      <4>5. m[u].at = i /\ m[u].job = chase[i]  BY <2>3, <4>1, <4>4, Zenon DEF Batch
      <4>6. m \in Seq(Published)  BY <2>3, Zenon DEF Batch
      <4>7. Len(log[c]) + u \in 1..Len(log'[c]) /\ log'[c][Len(log[c]) + u] = m[u]
        <5>1. Len(log[c]) + u \in 1..Len(log[c] \o m) /\ (log[c] \o m)[Len(log[c]) + u] = m[u]
          BY <2>7, <4>4, <4>6, ConcatKeeps, SMTT(30)
        <5> QED  BY <2>5, <2>10, <5>1, ZenonT(30)
      <4> QED  BY <2>1, <4>4, <4>5, <4>7, ZenonT(30) DEF Logged
    <3>3. CASE j # 1
      <4>1. j - 1 \in 1..(k - 1) /\ (j - 1) + 1 = j  BY <2>8, <3>1, <3>3, SMTT(30)
      <4>2. posts'[c][j - 1] = posts[c][j] /\ j - 1 \in 1..Len(posts'[c])  BY <2>8, <4>1, ZenonT(30)
      <4> QED  BY <2>1, <3>1, <4>2, Zenon DEF Queued
    <3> QED  BY <3>2, <3>3, Zenon
  <2>11. ASSUME NEW d \in Channel
         PROVE  /\ seen'[d] <= Len(chase')
                /\ state'[d] = "open" /\ sequences(d)' =>
                      \A i \in (since'[d] + 1)..seen'[d] : i \notin dropped'[d] => Logged(d, i)' \/ Queued(d, i)'
    <3>1. CASE d = c
      BY <2>1, <2>9, <2>10, <3>1, Zenon DEF SequenceInv, sequences
    <3>2. CASE d # c
      <4>1. \A i : (Logged(d, i) => Logged(d, i)') /\ (Queued(d, i) => Queued(d, i)')
        BY <2>1, <2>4, <3>2, Zenon DEF Logged, Queued
      <4> QED  BY <2>1, <4>1, Zenon DEF SequenceInv, sequences
    <3> QED  BY <3>1, <3>2, Zenon
  <2> QED  BY <2>11, Zenon DEF SequenceInv
<1> QED
  BY <1>1, <1>2, <1>3, <1>4, <1>5, <1>6, <1>7, ZenonT(30) DEF Next, NodeStep, ChannelStep, Event,
     Wire

\* For any channels, prefixes and limit: once its posts are run, an open channel
\* subscribed to "sequence" has been sent every event since it subscribed, but
\* for blocks raised while the chain was not current (handle_chase).
THEOREM SequenceCompleteTheorem == Spec => []SequenceComplete
<1>1. Init => PublishInv /\ SequenceInv  BY InitPublish, InitSequence, Zenon
<1>2. PublishInv /\ SequenceInv /\ [Next]_vars => (PublishInv /\ SequenceInv)'
  BY NextPublish, NextSequence, ZenonT(30)
<1>3. SequenceInv => SequenceComplete
  BY SMTT(30) DEF SequenceInv, SequenceComplete, Logged, Queued
<1> QED  BY <1>1, <1>2, <1>3, PTL DEF Spec

-----------------------------------------------------------------------------
(* Demands: the wire demand counts balance the raw subscriptions.          *)

TopicsType ==
    /\ topics \in [Channel -> SUBSET Topic]
    /\ state \in [Channel -> {"open", "stopping", "stopped"}]

DemandInv == TopicsType /\ DemandBalance

Sign(cancel) == IF cancel THEN -1 ELSE 1

\* The subscribers of a topic are counted by a natural number.
LEMMA SubscribersFinite ==
    ASSUME NEW t
    PROVE  IsFiniteSet(Subscribers(t)) /\ Cardinality(Subscribers(t)) \in Nat
<1>1. IsFiniteSet(Subscribers(t))
  <2>1. Subscribers(t) \subseteq Channel  BY Zenon DEF Subscribers
  <2> QED  BY <2>1, ChannelAssumption, FS_Subset, Zenon
<1> QED  BY <1>1, FS_CardinalityType, Zenon

\* Initially nothing is subscribed and nothing is demanded.
LEMMA InitDemand == Init => DemandInv
<1> SUFFICES ASSUME Init PROVE DemandInv  BY Zenon
<1>1. TopicsType  BY Zenon DEF Init, TopicsType
<1>2. Subscribers("rawtx") = {} /\ Subscribers("rawblock") = {}
  BY Zenon DEF Init, Subscribers
<1>3. Cardinality({}) = 0  BY FS_EmptySet, Zenon
<1>4. txDemand = 0 /\ blockDemand = 0  BY Zenon DEF Init
<1>5. \A c \in Channel : "rawtx" \notin topics[c] /\ "rawblock" \notin topics[c]
  BY Zenon DEF Init
<1>6. DemandBalance  BY <1>2, <1>3, <1>4, <1>5, SMTT(30) DEF DemandBalance
<1> QED  BY <1>1, <1>6, Zenon DEF DemandInv

\* set_subscription moves the subscribers of a topic by one channel exactly
\* when it reports a change.
LEMMA FlipCount ==
    ASSUME TopicsType, NEW c \in Channel, NEW p \in Prefix,
           NEW cancel \in BOOLEAN, NEW t \in Topic, Flip(c, p, cancel)
    PROVE  Cardinality(Subscribers(t)') =
           Cardinality(Subscribers(t)) + Sign(cancel) * One(Changes(c, t, p, cancel))
<1>1. Match[p] \subseteq Topic  BY MatchAssumption, Zenon
<1>2. ASSUME ~Changes(c, t, p, cancel)
      PROVE  Subscribers(t)' = Subscribers(t)
  BY <1>2, Zenon DEF Changes, Flip, Subscribers, TopicsType
<1>3. ASSUME Changes(c, t, p, cancel), cancel
      PROVE  Subscribers(t)' = Subscribers(t) \ {c} /\ c \in Subscribers(t)
  BY <1>3, Zenon DEF Changes, Flip, Subscribers, TopicsType
<1>4. ASSUME Changes(c, t, p, cancel), ~cancel
      PROVE  Subscribers(t)' = Subscribers(t) \union {c} /\ c \notin Subscribers(t)
  BY <1>4, Zenon DEF Changes, Flip, Subscribers, TopicsType
<1>5. IsFiniteSet(Subscribers(t)) /\ Cardinality(Subscribers(t)) \in Nat
  BY SubscribersFinite, Zenon
<1>6. CASE ~Changes(c, t, p, cancel)
  <2>1. One(Changes(c, t, p, cancel)) = 0  BY <1>6, Zenon DEF One
  <2>2. Sign(cancel) \in Int  BY SMTT(30) DEF Sign
  <2> QED  BY <2>1, <2>2, <1>2, <1>5, <1>6, SMTT(30)
<1>7. CASE Changes(c, t, p, cancel) /\ cancel
  <2>1. Cardinality(Subscribers(t) \ {c}) = Cardinality(Subscribers(t)) - 1
    BY <1>3, <1>5, <1>7, FS_RemoveElement, Zenon
  <2>2. One(Changes(c, t, p, cancel)) = 1 /\ Sign(cancel) = -1
    BY <1>7, Zenon DEF One, Sign
  <2>3. Cardinality(Subscribers(t)') = Cardinality(Subscribers(t)) - 1
    BY <2>1, <1>3, <1>7, Zenon
  <2> QED  BY <2>2, <2>3, <1>5, SMTT(30)
<1>8. CASE Changes(c, t, p, cancel) /\ ~cancel
  <2>1. Cardinality(Subscribers(t) \union {c}) = Cardinality(Subscribers(t)) + 1
    BY <1>4, <1>5, <1>8, FS_AddElement, Zenon
  <2>2. One(Changes(c, t, p, cancel)) = 1 /\ Sign(cancel) = 1
    BY <1>8, Zenon DEF One, Sign
  <2>3. Cardinality(Subscribers(t)') = Cardinality(Subscribers(t)) + 1
    BY <2>1, <1>4, <1>8, Zenon
  <2> QED  BY <2>2, <2>3, <1>5, SMTT(30)
<1> QED  BY <1>6, <1>7, <1>8, Zenon

\* Tearing a channel down removes it from the subscribers of a raw topic, if
\* it was one.
LEMMA StopCount ==
    ASSUME TopicsType, NEW c \in Channel, NEW t \in {"rawtx", "rawblock"},
           topics' = [topics EXCEPT ![c] = @ \ {"rawtx", "rawblock"}]
    PROVE  Cardinality(Subscribers(t)') =
           Cardinality(Subscribers(t)) - One(t \in topics[c])
<1>1. Subscribers(t)' = Subscribers(t) \ {c}  BY Zenon DEF Subscribers, TopicsType
<1>2. IsFiniteSet(Subscribers(t)) /\ Cardinality(Subscribers(t)) \in Nat
  BY SubscribersFinite, Zenon
<1>3. CASE t \in topics[c]
  <2>1. c \in Subscribers(t)  BY <1>3, Zenon DEF Subscribers
  <2>2. Cardinality(Subscribers(t) \ {c}) = Cardinality(Subscribers(t)) - 1
    BY <2>1, <1>2, FS_RemoveElement, Zenon
  <2> QED  BY <2>2, <1>1, <1>3, Zenon DEF One
<1>4. CASE t \notin topics[c]
  <2>1. Subscribers(t) \ {c} = Subscribers(t)  BY <1>4, Zenon DEF Subscribers
  <2>2. One(t \in topics[c]) = 0  BY <1>4, Zenon DEF One
  <2>3. Cardinality(Subscribers(t)') = Cardinality(Subscribers(t))  BY <2>1, <1>1, Zenon
  <2> QED  BY <2>2, <2>3, <1>2, SMTT(30)
<1> QED  BY <1>3, <1>4, Zenon

\* A subscribe or cancel that passes the limit keeps the balance.
LEMMA SubscribeDemand ==
    ASSUME DemandInv, NEW c \in Channel, NEW p \in Prefix, NEW cancel \in BOOLEAN,
           state[c] = "open", state' = state,
           Flip(c, p, cancel), Demand(c, p, cancel)
    PROVE  DemandInv'
<1> USE DEF DemandInv
<1>1. TopicsType'
  <2>1. Match[p] \subseteq Topic  BY MatchAssumption, Zenon
  <2> QED  BY <2>1, Zenon DEF TopicsType, Flip
<1>2. Cardinality(Subscribers("rawtx")') = Cardinality(Subscribers("rawtx"))
        + Sign(cancel) * One(Changes(c, "rawtx", p, cancel))
  BY FlipCount, Zenon DEF Topic
<1>3. Cardinality(Subscribers("rawblock")') = Cardinality(Subscribers("rawblock"))
        + Sign(cancel) * One(Changes(c, "rawblock", p, cancel))
  BY FlipCount, Zenon DEF Topic
<1>4. /\ txDemand' = txDemand + Sign(cancel) * One(Changes(c, "rawtx", p, cancel))
      /\ blockDemand' = blockDemand + Sign(cancel) *
            (One(Changes(c, "rawblock", p, cancel)) + One(Changes(c, "rawtx", p, cancel)))
  BY Zenon DEF Demand, Sign
<1>5. /\ Sign(cancel) \in {-1, 1}
      /\ One(Changes(c, "rawtx", p, cancel)) \in {0, 1}
      /\ One(Changes(c, "rawblock", p, cancel)) \in {0, 1}
  BY Zenon DEF Sign, One
<1>6. /\ Cardinality(Subscribers("rawtx")) \in Nat
      /\ Cardinality(Subscribers("rawblock")) \in Nat
  BY SubscribersFinite, Zenon
<1>7. \A d \in Channel : state'[d] = "stopped" =>
         "rawtx" \notin topics'[d] /\ "rawblock" \notin topics'[d]
  BY ZenonT(30) DEF TopicsType, Flip, DemandBalance
<1>8. /\ txDemand' = Cardinality(Subscribers("rawtx")')
      /\ blockDemand' = Cardinality(Subscribers("rawtx")')
                      + Cardinality(Subscribers("rawblock")')
  BY <1>2, <1>3, <1>4, <1>5, <1>6, SMTT(30) DEF DemandBalance
<1> QED  BY <1>1, <1>7, <1>8, Zenon DEF DemandBalance

\* A step that leaves the raw subscriptions, the counts and the torn down
\* channels alone keeps the balance.
LEMMA OtherDemand ==
    ASSUME DemandInv, TopicsType', UNCHANGED <<topics, txDemand, blockDemand>>,
           \A c \in Channel : state'[c] = "stopped" => state[c] = "stopped"
    PROVE  DemandInv'
BY Zenon DEF DemandInv, DemandBalance, Subscribers

\* Every step keeps the balance.
LEMMA NextDemand == DemandInv /\ [Next]_vars => DemandInv'
<1> SUFFICES ASSUME DemandInv, [Next]_vars PROVE DemandInv'  BY Zenon
<1>1. CASE UNCHANGED vars
  BY <1>1, OtherDemand, Zenon DEF vars, demand, DemandInv, TopicsType
<1>2. CASE NodeStep
  BY <1>2, OtherDemand, Zenon DEF NodeStep, RaiseChase, Broadcast, CurrencyChanges,
     subVars, demand, DemandInv, TopicsType
<1>3. ASSUME NEW c \in Channel, NEW p \in Prefix, NEW cancel \in BOOLEAN,
             handle_subscribe(c, p, cancel)
      PROVE  DemandInv'
  <2>1. CASE Flip(c, p, cancel) /\ Demand(c, p, cancel) /\ state' = state
    BY <2>1, <1>3, SubscribeDemand, Zenon DEF handle_subscribe
  <2>2. CASE /\ state' = [state EXCEPT ![c] = "stopping"]
             /\ UNCHANGED <<topics, demand>>
    BY <2>2, <1>3, OtherDemand, Zenon DEF demand, DemandInv, TopicsType
  <2> QED  BY <2>1, <2>2, <1>3, Zenon DEF handle_subscribe, demand
<1>4. ASSUME NEW c \in Channel, stopping(c) PROVE DemandInv'
  <2>1. topics' = [topics EXCEPT ![c] = @ \ {"rawtx", "rawblock"}]
    BY <1>4, Zenon DEF stopping
  <2>2. Cardinality(Subscribers("rawtx")') =
          Cardinality(Subscribers("rawtx")) - One("rawtx" \in topics[c])
    BY <2>1, StopCount, Zenon DEF DemandInv
  <2>3. Cardinality(Subscribers("rawblock")') =
          Cardinality(Subscribers("rawblock")) - One("rawblock" \in topics[c])
    BY <2>1, StopCount, Zenon DEF DemandInv
  <2>4. /\ Cardinality(Subscribers("rawtx")) \in Nat
        /\ Cardinality(Subscribers("rawblock")) \in Nat
    BY SubscribersFinite, Zenon
  <2>5. One("rawtx" \in topics[c]) \in Nat /\ One("rawblock" \in topics[c]) \in Nat
    BY Zenon DEF One
  <2>6. /\ txDemand' = Cardinality(Subscribers("rawtx")')
        /\ blockDemand' = Cardinality(Subscribers("rawtx")')
                        + Cardinality(Subscribers("rawblock")')
    BY <1>4, <2>2, <2>3, <2>4, <2>5, SMTT(30) DEF stopping, DemandInv, DemandBalance
  <2>7. \A d \in Channel : state'[d] = "stopped" =>
           "rawtx" \notin topics'[d] /\ "rawblock" \notin topics'[d]
    BY <1>4, Zenon DEF stopping, DemandInv, TopicsType, DemandBalance
  <2>8. TopicsType'  BY <1>4, Zenon DEF stopping, DemandInv, TopicsType
  <2> QED  BY <2>6, <2>7, <2>8, Zenon DEF DemandInv, DemandBalance
<1>5. ASSUME NEW c \in Channel, Close(c) \/ handle_chase(c) \/ run_post(c)
      PROVE  DemandInv'
  BY <1>5, OtherDemand, Zenon DEF Close, handle_chase, run_post, subVars, demand,
     DemandInv, TopicsType
<1> QED  BY <1>1, <1>2, <1>3, <1>4, <1>5, Zenon DEF Next, ChannelStep

\* For any number of channels, the demands the node counts for wire_tx and
\* wire_block broadcasts are always exactly those of the raw subscriptions of
\* channels that are not torn down (handle_subscribe, stopping).
THEOREM DemandBalanceTheorem == Spec => []DemandBalance
<1>1. DemandInv => DemandBalance  BY Zenon DEF DemandInv
<1> QED  BY InitDemand, NextDemand, <1>1, PTL DEF Spec
=============================================================================
