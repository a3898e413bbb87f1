----------------------- MODULE ElectrumSubscribe_proof -----------------------
(***************************************************************************)
(* FlagMatchesHeld, OneContinuation and NotifyOnlySubscribed, for every    *)
(* set of keys, chain and configured limit.                                *)
(*                                                                         *)
(* The first is made inductive by the types of what a job of the           *)
(* notification strand reads (StrandInv).  GateInv follows the one request *)
(* that is outstanding from the channel strand to the notification strand  *)
(* and back.  NotifyInv reads the queue of posts in order: a notification  *)
(* is behind the answer to the subscribe and ahead of that to the          *)
(* unsubscribe.                                                            *)
(***************************************************************************)
EXTENDS ElectrumSubscribe, FiniteSetTheorems, TLAPS

Job == [op : {"subscribe", "unsubscribe"}, key : Key]
          \union [op : {"scripthash", "reorganized"}]

StrandInv ==
    /\ jobs \in Seq(Job)
    /\ held \subseteq Key
    /\ arming \in Key \union {NoKey}
    /\ scanning \subseteq Key
    /\ flag \in BOOLEAN
    /\ FlagMatchesHeld

\* Initially nothing is subscribed, so that the invariant holds.
LEMMA InitStrandInv == Init => StrandInv
<1> SUFFICES ASSUME Init PROVE StrandInv
  BY Zenon
<1>1. Cardinality({}) = 0
  BY FS_EmptySet, Zenon
<1>2. jobs \in Seq(Job)
  BY DEF Init
<1>3. arming = NoKey /\ held = {} /\ scanning = {} /\ flag = FALSE
  BY Zenon DEF Init
<1>4. Cardinality(held) <= MaxSubs
  BY <1>1, <1>3, LimitAssumption
<1>5. QED
  BY <1>2, <1>3, <1>4, Zenon DEF StrandInv, FlagMatchesHeld

\* A job taken from the queue of the notification strand is a job.
LEMMA StartJob ==
    ASSUME StrandInv, NEW op, Start(op)
    PROVE  /\ Head(jobs) \in Job /\ Head(jobs).op = op
           /\ jobs' \in Seq(Job)
           /\ arming = NoKey /\ scanning = {}
BY DEF StrandInv, Start

\* A change of the held set other than by an insertion keeps the limit.
LEMMA SubsetLimit ==
    ASSUME held \subseteq Key, Cardinality(held) <= MaxSubs, NEW k
    PROVE  Cardinality(held \ {k}) <= MaxSubs
<1>1. IsFiniteSet(held)
  BY FS_Subset, KeyAssumption, Zenon
<1>2. Cardinality(held) \in Nat /\ Cardinality(held \ {k}) \in Nat
  BY <1>1, FS_CardinalityType, FS_Subset, Zenon
<1>3. Cardinality(held \ {k}) <= Cardinality(held)
  BY <1>1, FS_Subset, Zenon
<1>4. QED
  BY <1>2, <1>3, LimitAssumption

\* Insertion of one key below the limit (the size test of
\* do_scripthash_subscribe) keeps the limit.
LEMMA InsertLimit ==
    ASSUME held \subseteq Key, NEW k, ~(Cardinality(held) >= MaxSubs)
    PROVE  Cardinality(held \union {k}) <= MaxSubs
<1>1. IsFiniteSet(held)
  BY FS_Subset, KeyAssumption, Zenon
<1>2. Cardinality(held) \in Nat
  BY <1>1, FS_CardinalityType, Zenon
<1>3. Cardinality(held \union {k}) = Cardinality(held)
        \/ Cardinality(held \union {k}) = Cardinality(held) + 1
  BY <1>1, FS_AddElement, Zenon
<1>4. QED
  BY <1>2, <1>3, LimitAssumption

\* Every step preserves the invariant: only the notification strand touches
\* what it speaks of, apart from the jobs others append.
LEMMA NextStrandInv == StrandInv /\ [Next]_vars => StrandInv'
<1> SUFFICES ASSUME StrandInv, [Next]_vars PROVE StrandInv'
  BY Zenon
<1> USE DEF StrandInv
<1>1. CASE NodeStep
  BY <1>1 DEF NodeStep, AcceptTx, Organize, Disconnect, strand, FlagMatchesHeld
<1>2. CASE handle_chase
  <2>1. [op |-> "reorganized"] \in Job /\ [op |-> "scripthash"] \in Job
    BY Zenon DEF Job
  <2>2. jobs' \in {jobs, Append(jobs, [op |-> "reorganized"]),
                         Append(jobs, [op |-> "scripthash"])}
    BY <1>2, Zenon DEF handle_chase
  <2>3. jobs' \in Seq(Job)
    <3> DEFINE r == [op |-> "reorganized"]
               t == [op |-> "scripthash"]
    <3>1. r \in Job /\ t \in Job /\ jobs' \in {jobs, Append(jobs, r), Append(jobs, t)}
      BY <2>1, <2>2, Zenon
    <3> HIDE DEF r, t
    <3>2. Append(jobs, r) \in Seq(Job) /\ Append(jobs, t) \in Seq(Job)
      BY <3>1
    <3>3. QED
      BY <3>1, <3>2, Zenon
  <2>4. QED
    BY <1>2, <2>3, Zenon DEF handle_chase, strand, FlagMatchesHeld
<1>3. CASE ClientStep
  <2>1. ASSUME NEW k \in Key, NEW op \in {"subscribe", "unsubscribe"}, Request(op, k)
        PROVE  StrandInv'
    <3>1. [op |-> op, key |-> k] \in Job
      BY Zenon DEF Job
    <3>2. jobs' = Append(jobs, [op |-> op, key |-> k]) /\ UNCHANGED strand
      BY <2>1, Zenon DEF Request
    <3>3. jobs' \in Seq(Job)
      BY <3>1, <3>2
    <3>4. QED
      BY <3>2, <3>3, Zenon DEF strand, FlagMatchesHeld
  <2>2. CASE Upgrade
    BY <2>2, Zenon DEF Upgrade, strand, FlagMatchesHeld
  <2>3. QED
    BY <1>3, <2>1, <2>2, Zenon DEF ClientStep, scripthash_subscribe, scripthash_unsubscribe
<1>4. CASE ChannelStep
  BY <1>4 DEF ChannelStep, complete_scripthash_subscribe,
       complete_scripthash_unsubscribe, scripthash_notify, strand, FlagMatchesHeld
<1>5. CASE NotificationStep
  <2>1. CASE do_scripthash_subscribe
    <3>1. Head(jobs) \in Job /\ Head(jobs).op = "subscribe" /\ jobs' \in Seq(Job)
            /\ arming = NoKey /\ scanning = {}
      BY <2>1, StartJob, Zenon DEF do_scripthash_subscribe
    <3>2. Head(jobs).key \in Key
      BY <3>1, Zenon DEF Job
    <3> DEFINE k == Head(jobs).key
    <3>3. CASE UNCHANGED strand
      BY <3>1, <3>3, Zenon DEF strand, FlagMatchesHeld
    <3>4. CASE /\ ~(Cardinality(held) >= MaxSubs)
               /\ held' = held \union {k} /\ arming' = k
               /\ UNCHANGED <<flag, scanning>>
      <4>1. Cardinality(held') <= MaxSubs
        BY <3>4, InsertLimit, Zenon
      <4>2. k # NoKey
        BY <3>2, KeyAssumption, Zenon
      <4>3. QED
        BY <3>1, <3>2, <3>4, <4>1, <4>2, Zenon DEF FlagMatchesHeld
    <3>5. QED
      BY <2>1, <3>3, <3>4, Zenon DEF do_scripthash_subscribe
  <2>2. CASE store_subscribed
    BY <2>2, Zenon DEF store_subscribed, FlagMatchesHeld
  <2>3. CASE do_scripthash_unsubscribe
    <3>1. jobs' \in Seq(Job) /\ arming = NoKey /\ scanning = {}
      BY <2>3, StartJob, Zenon DEF do_scripthash_unsubscribe
    <3>2. held' = held \ {Head(jobs).key} /\ flag' = (flag /\ held' # {})
            /\ UNCHANGED <<arming, scanning>>
      BY <2>3, Zenon DEF do_scripthash_unsubscribe
    <3>3. Cardinality(held') <= MaxSubs
      BY <3>2, SubsetLimit, Zenon DEF FlagMatchesHeld
    <3>4. QED
      BY <3>1, <3>2, <3>3, Zenon DEF FlagMatchesHeld
  <2>4. CASE do_scripthash
    <3>1. jobs' \in Seq(Job) /\ arming = NoKey
      BY <2>4, StartJob, Zenon DEF do_scripthash
    <3>2. QED
      BY <2>4, <3>1, Zenon DEF do_scripthash, FlagMatchesHeld
  <2>5. ASSUME NEW k \in Key, do_scripthash_next(k)
        PROVE  StrandInv'
    BY <2>5, Zenon DEF do_scripthash_next, FlagMatchesHeld
  <2>6. CASE do_reorganized
    <3>1. jobs' \in Seq(Job)
      BY <2>6, StartJob, Zenon DEF do_reorganized
    <3>2. QED
      BY <2>6, <3>1, Zenon DEF do_reorganized, FlagMatchesHeld
  <2>7. QED
    BY <1>5, <2>1, <2>2, <2>3, <2>4, <2>5, <2>6, Zenon DEF NotificationStep
<1>6. CASE stopping
  BY <1>6, Zenon DEF stopping, strand, FlagMatchesHeld
<1>7. CASE UNCHANGED vars
  BY <1>7, Zenon DEF vars, strand, FlagMatchesHeld
<1>8. QED
  BY <1>1, <1>2, <1>3, <1>4, <1>5, <1>6, <1>7, Zenon DEF Next

\* For any keys, transactions and limits: between jobs of the notification
\* strand subscribed_address_ is set exactly when a subscription is held, the
\* limit of subscriptions is kept, and no loop runs over an erased subscription.
THEOREM FlagMatchesHeldTheorem == Spec => []FlagMatchesHeld
<1>1. StrandInv => FlagMatchesHeld
  BY Zenon DEF StrandInv
<1>2. QED
  BY <1>1, InitStrandInv, NextStrandInv, PTL DEF Spec

-----------------------------------------------------------------------------
(* Queues.                                                                 *)

IsSeq(s) == \E S : s \in Seq(S)
Gains(s, t, e) == t = Append(s, e)
Takes(s, t) == s # <<>> /\ t = Tail(s)

\* An entry is appended to a queue.
LEMMA GainsFacts ==
    ASSUME NEW s, IsSeq(s), NEW e, NEW t, Gains(s, t, e)
    PROVE  /\ IsSeq(t) /\ Len(t) = Len(s) + 1 /\ Len(s) \in Nat
           /\ t[Len(s) + 1] = e
           /\ \A i \in 1..Len(s) : t[i] = s[i]
<1>1. PICK S : s \in Seq(S)  BY Zenon DEF IsSeq
<1>2. s \in Seq(S \union {e})  BY <1>1
<1>3. t \in Seq(S \union {e})  BY <1>2 DEF Gains
<1>4. /\ Len(t) = Len(s) + 1 /\ Len(s) \in Nat
      /\ t[Len(s) + 1] = e
      /\ \A i \in 1..Len(s) : t[i] = s[i]
  BY <1>2 DEF Gains
<1> QED  BY <1>3, <1>4, Zenon DEF IsSeq

\* The first entry is taken from a queue.
LEMMA TakesFacts ==
    ASSUME NEW s, IsSeq(s), NEW t, Takes(s, t)
    PROVE  /\ IsSeq(t) /\ Len(s) \in Nat /\ Len(s) >= 1 /\ Len(t) = Len(s) - 1
           /\ Head(s) = s[1]
           /\ \A i \in 1..(Len(s) - 1) : t[i] = s[i + 1]
<1>1. PICK S : s \in Seq(S)  BY Zenon DEF IsSeq
<1>2. t \in Seq(S)  BY <1>1 DEF Takes
<1>3. /\ Len(s) \in Nat /\ Len(s) >= 1 /\ Len(t) = Len(s) - 1
      /\ Head(s) = s[1]
      /\ \A i \in 1..(Len(s) - 1) : t[i] = s[i + 1]
  BY <1>1 DEF Takes
<1> QED  BY <1>2, <1>3, Zenon DEF IsSeq

-----------------------------------------------------------------------------
(* The gate.                                                               *)

Asks == {"subscribe", "unsubscribe"}
Answers == {"subscribed", "unsubscribed"}
NoneOf(ops, s) == \A i \in 1..Len(s) : s[i].op \notin ops
OneOf(ops, s) == \A i, j \in 1..Len(s) : s[i].op \in ops /\ s[j].op \in ops => i = j

\* The request that is outstanding is carried on in one place.
GateInv ==
    /\ IsSeq(posts) /\ IsSeq(jobs)
    /\ OneOf(Asks, jobs) /\ OneOf(Answers, posts)
    /\ NoneOf(Asks, jobs) \/ (arming = NoKey /\ NoneOf(Answers, posts))
    /\ arming = NoKey \/ NoneOf(Answers, posts)
    /\ req = Idle <=> NoneOf(Asks, jobs) /\ arming = NoKey /\ NoneOf(Answers, posts)

\* A queue that gains an entry.
LEMMA GainsOne ==
    ASSUME NEW s, IsSeq(s), NEW e, NEW t, Gains(s, t, e), NEW ops
    PROVE  /\ IsSeq(t)
           /\ NoneOf(ops, s) => OneOf(ops, t)
           /\ e.op \in ops => ~NoneOf(ops, t)
           /\ e.op \notin ops => (NoneOf(ops, s) <=> NoneOf(ops, t)) /\ (OneOf(ops, s) => OneOf(ops, t))
<1> DEFINE n == Len(s)
<1>1. /\ IsSeq(t) /\ Len(t) = n + 1 /\ n \in Nat /\ t[n + 1] = e
      /\ \A i \in 1..n : t[i] = s[i]
  BY GainsFacts
<1>2. \A i \in 1..(n + 1) : i \in 1..n \/ i = n + 1  BY <1>1
<1>3. n + 1 \in 1..(n + 1) /\ \A i \in 1..n : i \in 1..(n + 1)  BY <1>1
<1>4. NoneOf(ops, s) => OneOf(ops, t)  BY <1>1, <1>2, Zenon DEF NoneOf, OneOf
<1>5. e.op \in ops => ~NoneOf(ops, t)  BY <1>1, <1>3, Zenon DEF NoneOf
<1>6. e.op \notin ops => (NoneOf(ops, s) <=> NoneOf(ops, t))
  BY <1>1, <1>2, <1>3, Zenon DEF NoneOf
<1>7. e.op \notin ops /\ OneOf(ops, s) => OneOf(ops, t)  BY <1>1, <1>2, Zenon DEF OneOf
<1> QED  BY <1>1, <1>4, <1>5, <1>6, <1>7, Zenon

\* A queue whose first entry is taken.
LEMMA TakesOne ==
    ASSUME NEW s, IsSeq(s), NEW t, Takes(s, t), NEW ops, OneOf(ops, s)
    PROVE  /\ IsSeq(t) /\ OneOf(ops, t)
           /\ Head(s).op \notin ops => (NoneOf(ops, s) <=> NoneOf(ops, t))
           /\ Head(s).op \in ops => NoneOf(ops, t) /\ ~NoneOf(ops, s)
<1> DEFINE n == Len(s)
<1>1. /\ IsSeq(t) /\ Head(s) = s[1] /\ n \in Nat /\ n >= 1 /\ Len(t) = n - 1
      /\ \A i \in 1..(n - 1) : t[i] = s[i + 1]
  BY TakesFacts, Zenon
<1>2. \A i \in 1..(n - 1) : i + 1 \in 1..n /\ i \in Nat /\ i + 1 # 1  BY <1>1
<1>3. 1 \in 1..n  BY <1>1
<1>4. \A i \in 1..n : i = 1 \/ (i - 1 \in 1..(n - 1) /\ s[i] = t[i - 1])
  <2> SUFFICES ASSUME NEW i \in 1..n, i # 1 PROVE i - 1 \in 1..(n - 1) /\ s[i] = t[i - 1]
    BY Zenon
  <2>1. i - 1 \in 1..(n - 1) /\ (i - 1) + 1 = i  BY <1>1
  <2> QED  BY <1>1, <2>1, Zenon
<1>5. OneOf(ops, t)
  <2> SUFFICES ASSUME NEW i \in 1..(n - 1), NEW j \in 1..(n - 1), t[i].op \in ops, t[j].op \in ops
               PROVE  i = j
    BY <1>1, Zenon DEF OneOf
  <2>1. i + 1 = j + 1  BY <1>1, <1>2, Zenon DEF OneOf
  <2> QED  BY <1>2, <2>1
<1>6. Head(s).op \notin ops => (NoneOf(ops, s) <=> NoneOf(ops, t))
  BY <1>1, <1>2, <1>3, <1>4, Zenon DEF NoneOf
<1>7. Head(s).op \in ops => NoneOf(ops, t) /\ ~NoneOf(ops, s)
  BY <1>1, <1>2, <1>3 DEF OneOf, NoneOf
<1> QED  BY <1>1, <1>5, <1>6, <1>7, Zenon

\* Nothing is outstanding at the start.
LEMMA InitGate == Init => GateInv
<1> SUFFICES ASSUME Init PROVE GateInv  BY Zenon
<1>1. posts = <<>> /\ jobs = <<>> /\ arming = NoKey /\ req = Idle  BY Zenon DEF Init
<1>2. IsSeq(<<>>)
  <2>1. <<>> \in Seq({})  OBVIOUS
  <2> QED  BY <2>1, Zenon DEF IsSeq
<1> QED  BY <1>1, <1>2 DEF GateInv, NoneOf, OneOf

\* Every step keeps the continuation in one place.
LEMMA NextGate == ASSUME StrandInv, GateInv, [Next]_vars PROVE GateInv'
<1>1. CASE UNCHANGED <<posts, jobs, arming, req>>
  BY <1>1, Zenon DEF GateInv
<1>2. CASE handle_chase
  <2>1. UNCHANGED <<posts, arming, req>>  BY <1>2, Zenon DEF handle_chase, client, strand
  <2>2. jobs' = jobs \/ \E x : x.op \notin Asks /\ Gains(jobs, jobs', x)
    BY <1>2, Zenon DEF handle_chase, Gains, Asks
  <2>3. IsSeq(jobs') /\ (NoneOf(Asks, jobs) <=> NoneOf(Asks, jobs')) /\ (OneOf(Asks, jobs) => OneOf(Asks, jobs'))
    BY <2>2, GainsOne, Zenon DEF GateInv
  <2> QED  BY <2>1, <2>3, Zenon DEF GateInv
<1>3. ASSUME NEW k \in Key, NEW op \in {"subscribe", "unsubscribe"}, Request(op, k)
      PROVE  GateInv'
  <2>1. UNCHANGED <<posts, arming>> /\ req = Idle /\ req' # Idle
    BY <1>3, Zenon DEF Request, strand, Idle
  <2>2. [op |-> op, key |-> k].op \in Asks /\ Gains(jobs, jobs', [op |-> op, key |-> k])
    BY <1>3, Zenon DEF Request, Gains, Asks
  <2>3. IsSeq(jobs') /\ (NoneOf(Asks, jobs) => OneOf(Asks, jobs')) /\ ~NoneOf(Asks, jobs')
    BY <2>2, GainsOne DEF GateInv
  <2> QED  BY <2>1, <2>3, Zenon DEF GateInv
<1>4. CASE complete_scripthash_subscribe \/ complete_scripthash_unsubscribe
  <2>1. UNCHANGED <<jobs, arming>> /\ req' = Idle
    BY <1>4, Zenon DEF complete_scripthash_subscribe, complete_scripthash_unsubscribe, strand
  <2>2. Takes(posts, posts') /\ Head(posts).op \in Answers
    BY <1>4, Zenon DEF complete_scripthash_subscribe, complete_scripthash_unsubscribe, Posted,
       Takes, Answers
  <2>3. IsSeq(posts') /\ OneOf(Answers, posts') /\ NoneOf(Answers, posts') /\ ~NoneOf(Answers, posts)
    BY <2>2, TakesOne, Zenon DEF GateInv
  <2> QED  BY <2>1, <2>3, Zenon DEF GateInv
<1>5. CASE scripthash_notify
  <2>1. UNCHANGED <<jobs, arming, req>>  BY <1>5, Zenon DEF scripthash_notify, strand
  <2>2. Takes(posts, posts') /\ Head(posts).op \notin Answers
    BY <1>5, Zenon DEF scripthash_notify, Posted, Takes, Answers
  <2>3. IsSeq(posts') /\ OneOf(Answers, posts') /\ (NoneOf(Answers, posts) <=> NoneOf(Answers, posts'))
    BY <2>2, TakesOne, Zenon DEF GateInv
  <2> QED  BY <2>1, <2>3, Zenon DEF GateInv
<1>6. CASE do_scripthash_subscribe
  <2>1. req' = req /\ arming = NoKey  BY <1>6, Zenon DEF do_scripthash_subscribe, Start, client
  <2>2. Takes(jobs, jobs') /\ Head(jobs).op \in Asks
    BY <1>6, Zenon DEF do_scripthash_subscribe, Start, Takes, Asks
  <2>3. IsSeq(jobs') /\ OneOf(Asks, jobs') /\ NoneOf(Asks, jobs') /\ ~NoneOf(Asks, jobs)
    BY <2>2, TakesOne, Zenon DEF GateInv
  <2>4. Head(jobs).key \in Key
    <3>1. Head(jobs) \in Job /\ Head(jobs).op = "subscribe"
      BY <1>6, StartJob, Zenon DEF do_scripthash_subscribe
    <3> QED  BY <3>1, Zenon DEF Job
  <2>5. CASE posts' = posts /\ arming' = Head(jobs).key
    BY <2>1, <2>3, <2>4, <2>5, KeyAssumption, Zenon DEF GateInv
  <2>6. CASE arming' = arming /\ \E p : p.op \in Answers /\ Gains(posts, posts', p)
    <3>1. IsSeq(posts') /\ (NoneOf(Answers, posts) => OneOf(Answers, posts')) /\ ~NoneOf(Answers, posts')
      BY <2>6, GainsOne, Zenon DEF GateInv
    <3> QED  BY <2>1, <2>3, <2>6, <3>1, Zenon DEF GateInv
  <2> QED  BY <1>6, <2>5, <2>6 DEF do_scripthash_subscribe, Gains, Answers, strand
<1>7. CASE store_subscribed
  <2>1. UNCHANGED <<jobs, req>> /\ arming # NoKey /\ arming' = NoKey
    BY <1>7, Zenon DEF store_subscribed, client
  <2>2. \E p : p.op \in Answers /\ Gains(posts, posts', p)
    BY <1>7 DEF store_subscribed, Gains, Answers
  <2>3. IsSeq(posts') /\ (NoneOf(Answers, posts) => OneOf(Answers, posts')) /\ ~NoneOf(Answers, posts')
    BY <2>2, GainsOne, Zenon DEF GateInv
  <2> QED  BY <2>1, <2>3, Zenon DEF GateInv
<1>8. CASE do_scripthash_unsubscribe
  <2>1. UNCHANGED <<req, arming>> /\ arming = NoKey
    BY <1>8, Zenon DEF do_scripthash_unsubscribe, Start, client
  <2>2. Takes(jobs, jobs') /\ Head(jobs).op \in Asks
    BY <1>8, Zenon DEF do_scripthash_unsubscribe, Start, Takes, Asks
  <2>3. IsSeq(jobs') /\ OneOf(Asks, jobs') /\ NoneOf(Asks, jobs') /\ ~NoneOf(Asks, jobs)
    BY <2>2, TakesOne, Zenon DEF GateInv
  <2>4. \E p : p.op \in Answers /\ Gains(posts, posts', p)
    BY <1>8 DEF do_scripthash_unsubscribe, Gains, Answers
  <2>5. IsSeq(posts') /\ (NoneOf(Answers, posts) => OneOf(Answers, posts')) /\ ~NoneOf(Answers, posts')
    BY <2>4, GainsOne, Zenon DEF GateInv
  <2> QED  BY <2>1, <2>3, <2>5, Zenon DEF GateInv
<1>9. CASE do_scripthash \/ do_reorganized
  <2>1. UNCHANGED <<req, arming, posts>>
    BY <1>9, Zenon DEF do_scripthash, do_reorganized, client
  <2>2. Takes(jobs, jobs') /\ Head(jobs).op \notin Asks
    BY <1>9, Zenon DEF do_scripthash, do_reorganized, Start, Takes, Asks
  <2>3. IsSeq(jobs') /\ OneOf(Asks, jobs') /\ (NoneOf(Asks, jobs) <=> NoneOf(Asks, jobs'))
    BY <2>2, TakesOne, Zenon DEF GateInv
  <2> QED  BY <2>1, <2>3, Zenon DEF GateInv
<1>10. ASSUME NEW k \in Key, do_scripthash_next(k) PROVE GateInv'
  <2>1. UNCHANGED <<req, arming, jobs>>  BY <1>10, Zenon DEF do_scripthash_next, client
  <2>2. posts' = posts \/ \E p : p.op \notin Answers /\ Gains(posts, posts', p)
    BY <1>10, Zenon DEF do_scripthash_next, Gains, Answers
  <2>3. IsSeq(posts') /\ (NoneOf(Answers, posts) <=> NoneOf(Answers, posts')) /\ (OneOf(Answers, posts) => OneOf(Answers, posts'))
    BY <2>2, GainsOne, Zenon DEF GateInv
  <2> QED  BY <2>1, <2>3, Zenon DEF GateInv
<1> QED
  BY <1>1, <1>2, <1>3, <1>4, <1>5, <1>6, <1>7, <1>8, <1>9, <1>10
     DEF Next, NodeStep, AcceptTx, Organize, Disconnect, ClientStep, scripthash_subscribe,
         scripthash_unsubscribe, Upgrade, ChannelStep, NotificationStep, stopping, vars,
            client, strand

\* The entries that continue a request are counted.
LEMMA CountOne ==
    ASSUME NEW s, NEW ops, OneOf(ops, s)
    PROVE  Cardinality({i \in 1..Len(s) : s[i].op \in ops}) = IF NoneOf(ops, s) THEN 0 ELSE 1
<1> DEFINE C == {i \in 1..Len(s) : s[i].op \in ops}
<1>1. CASE NoneOf(ops, s)
  <2>1. C = {}  BY <1>1, Zenon DEF NoneOf
  <2> QED  BY <1>1, <2>1, FS_EmptySet, Zenon
<1>2. CASE ~NoneOf(ops, s)
  <2>1. PICK i : i \in C  BY <1>2, Zenon DEF NoneOf
  <2>2. C = {i}  BY <2>1, Zenon DEF OneOf
  <2> HIDE DEF C
  <2>3. Cardinality(C) = 1  BY <2>2, FS_Singleton, Zenon
  <2> QED  BY <1>2, <2>3, Zenon DEF C
<1> QED  BY <1>1, <1>2, Zenon

\* For any keys, and any interleaving of the two strands: while a subscribe or
\* unsubscribe request is outstanding its continuation is in exactly one place,
\* and there is none once the gate is released.
THEOREM OneContinuationTheorem == Spec => []OneContinuation
<1>1. Init => StrandInv /\ GateInv  BY InitStrandInv, InitGate, Zenon
<1>2. StrandInv /\ GateInv /\ [Next]_vars => (StrandInv /\ GateInv)'
  BY NextStrandInv, NextGate, Zenon
<1>3. StrandInv /\ GateInv => OneContinuation
  <2> SUFFICES ASSUME StrandInv, GateInv PROVE OneContinuation  BY Zenon
  <2> DEFINE J == {i \in 1..Len(jobs) : jobs[i].op \in Asks}
             P == {i \in 1..Len(posts) : posts[i].op \in Answers}
  <2>3. Cardinality(J) = IF NoneOf(Asks, jobs) THEN 0 ELSE 1  BY CountOne, Zenon DEF GateInv
  <2>4. Cardinality(P) = IF NoneOf(Answers, posts) THEN 0 ELSE 1  BY CountOne, Zenon DEF GateInv
  <2>5. Tokens = Cardinality(J) + Cardinality(P) + (IF arming = NoKey THEN 0 ELSE 1)
    BY Zenon DEF Tokens, Asks, Answers
  <2> HIDE DEF J, P
  <2> QED  BY <2>3, <2>4, <2>5 DEF GateInv, OneContinuation
<1> QED  BY <1>1, <1>2, <1>3, PTL DEF Spec

-----------------------------------------------------------------------------
(* Notifications and answers.                                              *)

\* What is posted is of a key, and a status that is sent is not the mark of a
\* key that the client does not subscribe.
Sends(p) ==
    /\ p.key \in Key
    /\ p.op = "notify" \/ (p.op = "subscribed" /\ p.ok) => p.status # Unsub

\* Statuses speak of transactions of the pool.
StatusInv ==
    /\ chain \in Seq(Tx \union {NoTx}) /\ pool \subseteq Tx
    /\ DOMAIN sub = Key /\ \A k \in Key : sub[k].status.unconf \subseteq Tx
    /\ DOMAIN view = Key
    /\ \A i \in 1..Len(posts) : Sends(posts[i])

Subscribes(p, k) == p.op = "subscribed" /\ p.ok /\ p.key = k
Unsubscribes(p, k) == p.op = "unsubscribed" /\ p.key = k

\* The client subscribes k, from view v, once the first n posts of s are sent.
SubscribesAfter(v, s, k, n) ==
    \/ v[k] # Unsub /\ \A j \in 1..n : ~Unsubscribes(s[j], k)
    \/ \E j \in 1..n : Subscribes(s[j], k)

\* A notification follows the answer to the subscribe and precedes the answer
\* to the unsubscribe.
Ordered(v, s) ==
    \A i \in 1..Len(s) : s[i].op = "notify" => SubscribesAfter(v, s, s[i].key, i - 1)

\* The client of a key that is held subscribes it once all posts are sent.
NotifyInv ==
    ~stopped =>
       /\ Ordered(view, posts)
       /\ \A k \in held : arming = k \/ SubscribesAfter(view, posts, k, Len(posts))

\* A status of transactions is not the mark.
LEMMA StatusNotUnsub == ASSUME NEW s, s.unconf \subseteq Tx PROVE s # Unsub
BY TxAssumption DEF Unsub

\* get_scripthash_history yields a status of transactions.
LEMMA HistoryStatus ==
    ASSUME StatusInv, NEW s, s.status.unconf \subseteq Tx, NEW k
    PROVE  get_scripthash_history(s, k).status.unconf \subseteq Tx
<1>1. Unconfirmed(k) \subseteq Tx  BY Zenon DEF StatusInv, Unconfirmed
<1> QED  BY <1>1, Zenon DEF get_scripthash_history

\* A post is appended.
LEMMA OrderedGains ==
    ASSUME NEW s, IsSeq(s), NEW p, NEW t, Gains(s, t, p), NEW v
    PROVE  /\ \A k : SubscribesAfter(v, s, k, Len(s)) /\ ~Unsubscribes(p, k) =>
                        SubscribesAfter(v, t, k, Len(t))
           /\ \A k : Subscribes(p, k) => SubscribesAfter(v, t, k, Len(t))
           /\ Ordered(v, s) /\ (p.op = "notify" => SubscribesAfter(v, s, p.key, Len(s))) =>
                 Ordered(v, t)
           /\ (\A i \in 1..Len(s) : Sends(s[i])) /\ Sends(p) => \A i \in 1..Len(t) : Sends(t[i])
<1> DEFINE n == Len(s)
<1>1. /\ Len(t) = n + 1 /\ n \in Nat /\ t[n + 1] = p
      /\ \A i \in 1..n : t[i] = s[i]
  BY GainsFacts
<1>2. \A i \in 1..(n + 1) : i \in 1..n \/ i = n + 1  BY <1>1
<1>3. \A i \in 1..n : i \in 1..(n + 1)  BY <1>1
<1>4. n + 1 \in 1..(n + 1)  BY <1>1
<1>5. ASSUME NEW k, SubscribesAfter(v, s, k, n), ~Unsubscribes(p, k)
      PROVE  SubscribesAfter(v, t, k, n + 1)
  BY <1>1, <1>2, <1>3, <1>5, Zenon DEF SubscribesAfter
<1>6. \A k : Subscribes(p, k) => SubscribesAfter(v, t, k, n + 1)
  BY <1>1, <1>4, Zenon DEF SubscribesAfter
<1>7. ASSUME Ordered(v, s), p.op = "notify" => SubscribesAfter(v, s, p.key, n)
      PROVE  Ordered(v, t)
  <2> SUFFICES ASSUME NEW i \in 1..(n + 1), t[i].op = "notify"
               PROVE  SubscribesAfter(v, t, t[i].key, i - 1)
    BY <1>1, Zenon DEF Ordered
  <2>1. SubscribesAfter(v, s, t[i].key, i - 1)
    <3>1. CASE i = n + 1
      <4>1. i - 1 = n  BY <1>1, <3>1
      <4> QED  BY <1>1, <1>7, <3>1, <4>1, Zenon
    <3>2. CASE i \in 1..n
      BY <1>1, <1>7, <3>2, Zenon DEF Ordered
    <3> QED  BY <1>2, <3>1, <3>2, Zenon
  <2>2. \A j \in 1..(i - 1) : j \in 1..n  BY <1>1
  <2> QED  BY <1>1, <2>1, <2>2, Zenon DEF SubscribesAfter
<1>8. ASSUME \A i \in 1..n : Sends(s[i]), Sends(p), NEW i \in 1..(n + 1) PROVE Sends(t[i])
  BY <1>1, <1>2, <1>8, Zenon
<1> QED  BY <1>1, <1>5, <1>6, <1>7, <1>8, Zenon

\* The first post is sent, and changes the view from v to w.
LEMMA OrderedTakes ==
    ASSUME NEW s, IsSeq(s), NEW t, Takes(s, t), OneOf(Answers, s), NEW v, NEW w,
           \A i \in 1..Len(s) : Sends(s[i]),
           \A k \in Key :
              (v[k] # Unsub /\ ~Unsubscribes(Head(s), k)) \/ Subscribes(Head(s), k) => w[k] # Unsub
    PROVE  /\ \A k \in Key : SubscribesAfter(v, s, k, Len(s)) => SubscribesAfter(w, t, k, Len(t))
           /\ Ordered(v, s) => Ordered(w, t)
<1> DEFINE n == Len(s)
<1>1. /\ Head(s) = s[1] /\ n \in Nat /\ n >= 1 /\ Len(t) = n - 1
      /\ \A i \in 1..(n - 1) : t[i] = s[i + 1]
  BY TakesFacts
<1>2. ASSUME NEW k \in Key, NEW m \in 1..n, SubscribesAfter(v, s, k, m)
      PROVE  SubscribesAfter(w, t, k, m - 1)
  <2>0. 1 \in 1..m /\ m \in Nat /\ \A j \in 1..m : j \in 1..n  BY <1>1
  <2>1. \A j \in 1..(m - 1) : j + 1 \in 1..m /\ j + 1 # 1 /\ t[j] = s[j + 1]  BY <1>1
  <2>2. CASE v[k] # Unsub /\ \A j \in 1..m : ~Unsubscribes(s[j], k)
    <3>1. w[k] # Unsub  BY <1>1, <2>0, <2>2, Zenon
    <3> QED  BY <2>1, <2>2, <3>1, Zenon DEF SubscribesAfter
  <2>3. CASE Subscribes(s[1], k)
    <3>1. w[k] # Unsub  BY <1>1, <2>3, Zenon
    <3>2. \A j \in 1..m : j # 1 => ~Unsubscribes(s[j], k)
      BY <2>0, <2>3, Zenon DEF OneOf, Answers, Subscribes, Unsubscribes
    <3>3. \A j \in 1..(m - 1) : ~Unsubscribes(t[j], k)  BY <2>1, <3>2, Zenon
    <3> QED  BY <3>1, <3>3, Zenon DEF SubscribesAfter
  <2>4. ASSUME NEW j \in 1..m, j # 1, Subscribes(s[j], k) PROVE SubscribesAfter(w, t, k, m - 1)
    <3>1. j - 1 \in 1..(m - 1) /\ (j - 1) + 1 = j  BY <1>1, <2>4
    <3>2. Subscribes(t[j - 1], k)  BY <2>1, <2>4, <3>1, Zenon
    <3> QED  BY <3>1, <3>2, Zenon DEF SubscribesAfter
  <2> QED  BY <1>2, <2>2, <2>3, <2>4, Zenon DEF SubscribesAfter
<1>3. n \in 1..n  BY <1>1
<1>4. ASSUME Ordered(v, s) PROVE Ordered(w, t)
  <2> SUFFICES ASSUME NEW i \in 1..(n - 1), t[i].op = "notify"
               PROVE  SubscribesAfter(w, t, t[i].key, i - 1)
    BY <1>1, Zenon DEF Ordered
  <2>1. i \in 1..n /\ i + 1 \in 1..n /\ (i + 1) - 1 = i /\ t[i] = s[i + 1]  BY <1>1
  <2>2. SubscribesAfter(v, s, t[i].key, i)
    BY <1>4, <2>1, Zenon DEF Ordered
  <2>3. t[i].key \in Key  BY <2>1, Zenon DEF Sends
  <2> QED  BY <1>2, <2>1, <2>2, <2>3, Zenon
<1> QED  BY <1>1, <1>2, <1>3, <1>4, Zenon

\* Nothing is subscribed at the start.
LEMMA InitNotify == Init => StatusInv /\ NotifyInv
BY DEF Init, StatusInv, NotifyInv, Ordered, NewSub, Null

\* Every step keeps statuses of transactions.
LEMMA NextStatus == ASSUME StrandInv, GateInv, StatusInv, [Next]_vars PROVE StatusInv'
<1>1. CASE UNCHANGED <<chain, pool, sub, view, posts>>
  BY <1>1, Zenon DEF StatusInv
<1>2. ASSUME NEW t \in Tx, AcceptTx(t) PROVE StatusInv'
  BY <1>2, Zenon DEF AcceptTx, client, strand, StatusInv
<1>3. ASSUME NEW b \in Tx \union {NoTx}, Organize(b) PROVE StatusInv'
  BY <1>3 DEF Organize, client, strand, StatusInv
<1>4. CASE Disconnect
  <2>1. chain[Len(chain)] \in Tx \union {NoTx} /\ chain' \in Seq(Tx \union {NoTx})
    BY <1>4 DEF Disconnect, StatusInv
  <2> QED  BY <1>4, <2>1, Zenon DEF Disconnect, client, strand, StatusInv
<1>5. CASE ChannelStep
  <2>1. UNCHANGED <<chain, pool, sub>> /\ DOMAIN view' = DOMAIN view
    BY <1>5, Zenon DEF ChannelStep, complete_scripthash_subscribe,
       complete_scripthash_unsubscribe,
         scripthash_notify, node, strand
  <2>2. Takes(posts, posts')
    BY <1>5, Zenon DEF ChannelStep, complete_scripthash_subscribe,
       complete_scripthash_unsubscribe,
         scripthash_notify, Posted, Takes
  <2>3. \A i \in 1..Len(posts') : i + 1 \in 1..Len(posts) /\ posts'[i] = posts[i + 1]
    BY <2>2, TakesFacts DEF GateInv
  <2> QED  BY <2>1, <2>3, Zenon DEF StatusInv
<1>6. CASE do_scripthash_subscribe
  <2> DEFINE k == Head(jobs).key
             s == IF k \notin held THEN NewSub ELSE sub[k]
  <2>1. UNCHANGED <<chain, pool, view>>
    BY <1>6, Zenon DEF do_scripthash_subscribe, node, client
  <2>2. k \in Key
    <3>1. Head(jobs) \in Job /\ Head(jobs).op = "subscribe"
      BY <1>6, StartJob, Zenon DEF do_scripthash_subscribe
    <3> QED  BY <3>1, Zenon DEF Job
  <2>3. s.status.unconf \subseteq Tx  BY <2>2, Zenon DEF StatusInv, NewSub, Null
  <2> HIDE DEF s
  <2>4. get_scripthash_history(s, k).status.unconf \subseteq Tx  BY <2>3, HistoryStatus, Zenon
  <2>5. CASE posts' = posts /\ sub' = [sub EXCEPT ![k] = get_scripthash_history(s, k)]
    BY <2>1, <2>4, <2>5, Zenon DEF StatusInv
  <2>6. CASE sub' = sub /\ \E p : Sends(p) /\ Gains(posts, posts', p)
    BY <2>1, <2>6, OrderedGains, Zenon DEF StatusInv, GateInv
  <2>7. Sends([op |-> "subscribed", key |-> k, ok |-> FALSE])  BY <2>2, Zenon DEF Sends
  <2> QED  BY <1>6, <2>5, <2>6, <2>7, Zenon DEF do_scripthash_subscribe, Gains, strand, s
<1>7. CASE store_subscribed
  <2>1. UNCHANGED <<chain, pool, view, sub>>  BY <1>7, Zenon DEF store_subscribed, node, client
  <2>2. arming \in Key  BY <1>7, Zenon DEF store_subscribed, StrandInv
  <2>3. sub[arming].status # Unsub  BY <2>2, StatusNotUnsub, Zenon DEF StatusInv
  <2>4. \E p : Sends(p) /\ Gains(posts, posts', p)
    BY <1>7, <2>2, <2>3, Zenon DEF store_subscribed, Sends, Gains
  <2> QED  BY <2>1, <2>4, OrderedGains, Zenon DEF StatusInv, GateInv
<1>8. CASE do_scripthash_unsubscribe
  <2> DEFINE k == Head(jobs).key
  <2>1. UNCHANGED <<chain, pool, view>> /\ sub' = [sub EXCEPT ![k] = NewSub]
    BY <1>8, Zenon DEF do_scripthash_unsubscribe, node, client
  <2>2. k \in Key
    <3>1. Head(jobs) \in Job /\ Head(jobs).op = "unsubscribe"
      BY <1>8, StartJob, Zenon DEF do_scripthash_unsubscribe
    <3> QED  BY <3>1, Zenon DEF Job
  <2>3. \E p : Sends(p) /\ Gains(posts, posts', p)
    BY <1>8, <2>2, Zenon DEF do_scripthash_unsubscribe, Sends, Gains
  <2>4. \A i \in 1..Len(posts') : Sends(posts'[i])
    BY <2>3, OrderedGains, Zenon DEF StatusInv, GateInv
  <2>5. \A j \in Key : sub'[j].status.unconf \subseteq Tx
    BY <2>1, Zenon DEF StatusInv, NewSub, Null
  <2> QED  BY <2>1, <2>4, <2>5, Zenon DEF StatusInv
<1>9. CASE do_reorganized
  BY <1>9, Zenon DEF do_reorganized, node, client, StatusInv, NewSub, Null
<1>10. ASSUME NEW k \in Key, do_scripthash_next(k), ~stopped PROVE StatusInv'
  <2> DEFINE s == get_scripthash_history(sub[k], k)
  <2>1. s.status.unconf \subseteq Tx  BY HistoryStatus, Zenon DEF StatusInv
  <2> HIDE DEF s
  <2>2. UNCHANGED <<chain, pool, view>> /\ sub' = [sub EXCEPT ![k] = s]
    BY <1>10, Zenon DEF do_scripthash_next, node, client, s
  <2>3. s.status # Unsub  BY <2>1, StatusNotUnsub, Zenon
  <2>4. Sends([op |-> "notify", key |-> k, status |-> s.status])  BY <2>3, Zenon DEF Sends
  <2>5. posts' = posts \/ \E p : Sends(p) /\ Gains(posts, posts', p)
    BY <1>10, <2>4, Zenon DEF do_scripthash_next, Gains, s
  <2>6. \A i \in 1..Len(posts') : Sends(posts'[i])
    BY <2>5, OrderedGains, Zenon DEF StatusInv, GateInv
  <2>7. \A j \in Key : sub'[j].status.unconf \subseteq Tx  BY <2>1, <2>2, Zenon DEF StatusInv
  <2> QED  BY <2>2, <2>6, <2>7, Zenon DEF StatusInv
<1>11. ASSUME NEW k \in Key, do_scripthash_next(k), stopped PROVE StatusInv'
  BY <1>11, Zenon DEF do_scripthash_next, node, client, StatusInv
<1>12. CASE handle_chase  BY <1>1, <1>12, Zenon DEF handle_chase, client, strand
<1>13. ASSUME NEW k \in Key, NEW op, Request(op, k) PROVE StatusInv'
  BY <1>1, <1>13, Zenon DEF Request, node, strand
<1>14. CASE do_scripthash \/ Upgrade \/ stopping \/ UNCHANGED vars
  BY <1>1, <1>14, Zenon DEF do_scripthash, Upgrade, stopping, vars, node, client, strand
<1> QED
  BY <1>2, <1>3, <1>4, <1>5, <1>6, <1>7, <1>8, <1>9, <1>10, <1>11, <1>12, <1>13, <1>14
     DEF Next, NodeStep, ClientStep, scripthash_subscribe, scripthash_unsubscribe,
        NotificationStep

\* Every step keeps notifications behind the answer to the subscribe.
LEMMA NextNotify == ASSUME StrandInv, GateInv, StatusInv, NotifyInv, [Next]_vars PROVE NotifyInv'
<1> SUFFICES ASSUME ~stopped' PROVE NotifyInv'  BY Zenon DEF NotifyInv
<1>1. ~stopped
  BY Zenon DEF Next, NodeStep, AcceptTx, Organize, Disconnect, handle_chase, ClientStep,
     Request,
         scripthash_subscribe, scripthash_unsubscribe, Upgrade, ChannelStep,
         complete_scripthash_subscribe, complete_scripthash_unsubscribe, scripthash_notify,
         NotificationStep, do_scripthash_subscribe, store_subscribed, do_scripthash_unsubscribe,
         do_scripthash, do_scripthash_next, do_reorganized, stopping, vars, channel
<1>2. CASE UNCHANGED <<view, posts, held, arming>>
  BY <1>1, <1>2, Zenon DEF NotifyInv
<1>3. CASE ChannelStep
  <2>1. UNCHANGED <<held, arming>>
    BY <1>3, Zenon DEF ChannelStep, complete_scripthash_subscribe,
       complete_scripthash_unsubscribe,
         scripthash_notify, strand
  <2>2. Takes(posts, posts')
    BY <1>3, Zenon DEF ChannelStep, complete_scripthash_subscribe,
       complete_scripthash_unsubscribe,
         scripthash_notify, Posted, Takes
  <2>3. Sends(Head(posts))  BY <2>2, TakesFacts DEF StatusInv, GateInv
  <2>4. \A k \in Key : (view[k] # Unsub /\ ~Unsubscribes(Head(posts), k)) \/ Subscribes(Head(posts), k) =>
                          view'[k] # Unsub
    <3>1. CASE complete_scripthash_subscribe
      BY <1>1, <2>3, <3>1, Zenon DEF complete_scripthash_subscribe, Posted, Subscribes,
         Unsubscribes, Sends, StatusInv
    <3>2. CASE complete_scripthash_unsubscribe
      BY <1>1, <2>3, <3>2, Zenon DEF complete_scripthash_unsubscribe, Posted, Subscribes,
         Unsubscribes, Sends, StatusInv
    <3>3. CASE scripthash_notify
      BY <1>1, <2>3, <3>3, Zenon DEF scripthash_notify, Posted, Subscribes, Unsubscribes,
         Sends, StatusInv
    <3> QED  BY <1>3, <3>1, <3>2, <3>3, Zenon DEF ChannelStep
  <2>5. /\ \A k \in Key : SubscribesAfter(view, posts, k, Len(posts)) => SubscribesAfter(view', posts', k, Len(posts'))
        /\ Ordered(view, posts) => Ordered(view', posts')
    BY <2>2, <2>4, OrderedTakes, Zenon DEF StatusInv, GateInv
  <2> QED  BY <1>1, <2>1, <2>5, Zenon DEF NotifyInv, StrandInv
<1>4. CASE do_scripthash_subscribe
  <2>1. view' = view /\ arming = NoKey /\ held \subseteq Key
    BY <1>4, Zenon DEF do_scripthash_subscribe, Start, client, StrandInv
  <2>2. CASE posts' = posts /\ held' = held \union {Head(jobs).key} /\ arming' = Head(jobs).key
    BY <1>1, <2>1, <2>2, KeyAssumption, Zenon DEF NotifyInv
  <2>3. CASE UNCHANGED <<held, arming>> /\ Gains(posts, posts', [op |-> "subscribed", key |-> Head(jobs).key, ok |-> FALSE])
    <3> DEFINE p == [op |-> "subscribed", key |-> Head(jobs).key, ok |-> FALSE]
    <3>1. p.op # "notify" /\ \A k : ~Unsubscribes(p, k)  BY Zenon DEF Unsubscribes
    <3>2. Gains(posts, posts', p)  BY <2>3, Zenon
    <3> HIDE DEF p
    <3>3. /\ \A k : SubscribesAfter(view, posts, k, Len(posts)) => SubscribesAfter(view, posts', k, Len(posts'))
          /\ Ordered(view, posts) => Ordered(view, posts')
      BY <3>1, <3>2, OrderedGains, Zenon DEF GateInv
    <3> QED  BY <1>1, <2>1, <2>3, <3>3, Zenon DEF NotifyInv
  <2> QED  BY <1>4, <2>2, <2>3, Zenon DEF do_scripthash_subscribe, Gains, strand
<1>5. CASE store_subscribed
  <2> DEFINE p == [op |-> "subscribed", key |-> arming, ok |-> TRUE, status |-> sub[arming].status]
  <2>1. UNCHANGED <<view, held>> /\ arming' = NoKey  BY <1>5, Zenon DEF store_subscribed, client
  <2>2. p.op # "notify" /\ Subscribes(p, arming) /\ \A k : ~Unsubscribes(p, k)
    BY Zenon DEF Subscribes, Unsubscribes
  <2>3. Gains(posts, posts', p)  BY <1>5, Zenon DEF store_subscribed, Gains
  <2> HIDE DEF p
  <2>4. /\ \A k : SubscribesAfter(view, posts, k, Len(posts)) => SubscribesAfter(view, posts', k, Len(posts'))
        /\ SubscribesAfter(view, posts', arming, Len(posts'))
        /\ Ordered(view, posts) => Ordered(view, posts')
    BY <2>2, <2>3, OrderedGains, Zenon DEF GateInv
  <2> QED  BY <1>1, <2>1, <2>4, Zenon DEF NotifyInv
<1>6. CASE do_scripthash_unsubscribe
  <2> DEFINE k == Head(jobs).key
             p == [op |-> "unsubscribed", key |-> k]
  <2>1. UNCHANGED <<view, arming>> /\ held' = held \ {k} /\ arming = NoKey
    BY <1>6, Zenon DEF do_scripthash_unsubscribe, Start, client
  <2>2. p.op # "notify" /\ \A j : j # k => ~Unsubscribes(p, j)  BY Zenon DEF Unsubscribes
  <2>3. Gains(posts, posts', p)  BY <1>6, Zenon DEF do_scripthash_unsubscribe, Gains
  <2> HIDE DEF p, k
  <2>4. /\ \A j : j # k /\ SubscribesAfter(view, posts, j, Len(posts)) => SubscribesAfter(view, posts', j, Len(posts'))
        /\ Ordered(view, posts) => Ordered(view, posts')
    BY <2>2, <2>3, OrderedGains, Zenon DEF GateInv
  <2> QED  BY <1>1, <2>1, <2>4, Zenon DEF NotifyInv
<1>7. ASSUME NEW k \in Key, do_scripthash_next(k) PROVE NotifyInv'
  <2> DEFINE p == [op |-> "notify", key |-> k, status |-> get_scripthash_history(sub[k], k).status]
  <2>1. UNCHANGED <<view, held, arming>>  BY <1>7, Zenon DEF do_scripthash_next, client
  <2>2. p.op = "notify" /\ p.key = k /\ \A j : ~Unsubscribes(p, j)  BY Zenon DEF Unsubscribes
  <2>3. posts' = posts \/ Gains(posts, posts', p)  BY <1>7, Zenon DEF do_scripthash_next, Gains
  <2> HIDE DEF p
  <2>4. k \in held /\ arming # k
    BY <1>7, KeyAssumption, Zenon DEF do_scripthash_next, StrandInv, FlagMatchesHeld
  <2>5. SubscribesAfter(view, posts, k, Len(posts)) /\ Ordered(view, posts)
    BY <1>1, <2>4, Zenon DEF NotifyInv
  <2>6. /\ \A j : SubscribesAfter(view, posts, j, Len(posts)) => SubscribesAfter(view, posts', j, Len(posts'))
        /\ Ordered(view, posts')
    <3>1. CASE Gains(posts, posts', p)
      BY <2>2, <2>5, <3>1, OrderedGains, Zenon DEF GateInv
    <3> QED  BY <2>3, <2>5, <3>1, Zenon
  <2> QED  BY <1>1, <2>1, <2>6, Zenon DEF NotifyInv
<1>8. CASE handle_chase  BY <1>2, <1>8, Zenon DEF handle_chase, client, strand
<1>9. ASSUME NEW k \in Key, NEW op, Request(op, k) PROVE NotifyInv'
  BY <1>2, <1>9, Zenon DEF Request, strand
<1>10. CASE NodeStep \/ do_scripthash \/ do_reorganized \/ Upgrade \/ UNCHANGED vars
  BY <1>2, <1>10, Zenon DEF NodeStep, AcceptTx, Organize, Disconnect, do_scripthash,
     do_reorganized,
       Upgrade, vars, client, strand
<1>11. ~stopping  BY Zenon DEF stopping
<1> QED
  BY <1>3, <1>4, <1>5, <1>6, <1>7, <1>8, <1>9, <1>10, <1>11
     DEF Next, ClientStep, scripthash_subscribe, scripthash_unsubscribe, NotificationStep

\* For any keys, transactions and limits, and any interleaving of the strands,
\* reorganizations and requests: on a live channel a notification is sent only
\* for a key that the client was told it holds.
THEOREM NotifyOnlySubscribedTheorem == Spec => []NotifyOnlySubscribed
<1> DEFINE Inv == StrandInv /\ GateInv /\ StatusInv /\ NotifyInv
<1>1. Init => Inv  BY InitStrandInv, InitGate, InitNotify, Zenon
<1>2. Inv /\ [Next]_vars => Inv'
  BY NextStrandInv, NextGate, NextStatus, NextNotify, Zenon
<1>3. Inv => NotifyOnlySubscribed
  <2> SUFFICES ASSUME Inv, ~stopped, posts # <<>>, Head(posts).op = "notify"
               PROVE  view[Head(posts).key] # Unsub
    BY Zenon DEF NotifyOnlySubscribed
  <2>1. Takes(posts, Tail(posts))  BY Zenon DEF Takes
  <2>2. Head(posts) = posts[1] /\ 1 \in 1..Len(posts)  BY <2>1, TakesFacts DEF GateInv
  <2>3. SubscribesAfter(view, posts, posts[1].key, 1 - 1)  BY <2>2, Zenon DEF NotifyInv, Ordered
  <2> QED  BY <2>2, <2>3 DEF SubscribesAfter
<1> QED  BY <1>1, <1>2, <1>3, PTL DEF Spec
=============================================================================
