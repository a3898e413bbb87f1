------------------------- MODULE SparrowSilent_proof -------------------------
(***************************************************************************)
(* QueuedScan of SparrowSilent for any addresses, cuts, limits and number  *)
(* of rows and requests.  The flag trails a subscription only between its  *)
(* two stores, and the queued mark has its one scan among the jobs.        *)
(***************************************************************************)
EXTENDS SparrowSilent, FiniteSetTheorems, TLAPS

\* Scan(s, i): the i-th of the jobs s is a scan.
Scan(s, i) == i \in 1..Len(s) /\ s[i].op = "scan"

Jobs == [op : {"scan"}]
        \union [op : {"subscribe"}, address : Address, cut : Cut]
        \union [op : {"unsubscribe"}, address : Address]

TypeInv ==
    /\ jobs \in Seq(Jobs)
    /\ busy.op \in {"free", "flag", "scan"}
    /\ flag \in BOOLEAN /\ queued \in BOOLEAN
    /\ maximum \in Nat

\* The flag is stored after the subscription.
FlagInv ==
    /\ busy.op # "flag" => (flag <=> held # {})
    /\ busy.op = "flag" => held # {}

LimitInv == held \subseteq Address /\ Cardinality(held) <= maximum

ScanInv ==
    /\ queued <=> \E i \in Nat : Scan(jobs, i)
    /\ \A i, j \in Nat : Scan(jobs, i) /\ Scan(jobs, j) => i = j

IInv == TypeInv /\ FlagInv /\ LimitInv /\ ScanInv
-----------------------------------------------------------------------------
\* Appending a job adds a scan only if it is one, at the end.
LEMMA AppendScan ==
  ASSUME NEW s \in Seq(Jobs), NEW e \in Jobs
  PROVE  /\ Append(s, e) \in Seq(Jobs) /\ Len(s) \in Nat
         /\ \A i \in Nat : Scan(Append(s, e), i) <=>
              Scan(s, i) \/ (i = Len(s) + 1 /\ e.op = "scan")
  <1> DEFINE q == Append(s, e)
  <1>1. q \in Seq(Jobs) /\ Len(s) \in Nat /\ Len(q) = Len(s) + 1 /\ q[Len(s) + 1] = e
    OBVIOUS
  <1>2. \A i \in 1..Len(s) : q[i] = s[i]
    OBVIOUS
  <1> HIDE DEF q
  <1>3. \A i \in Nat : Scan(q, i) <=> Scan(s, i) \/ (i = Len(s) + 1 /\ e.op = "scan")
    <2> TAKE i \in Nat
    <2>1. CASE i \in 1..Len(s)
      BY <1>1, <1>2, <2>1 DEF Scan
    <2>2. CASE i = Len(s) + 1
      BY <1>1, <2>2 DEF Scan
    <2>3. CASE i \notin 1..Len(s) /\ i # Len(s) + 1
      BY <1>1, <2>3 DEF Scan
    <2> QED
      BY <2>1, <2>2, <2>3
  <1> QED
    BY <1>1, <1>3 DEF q

\* Starting a job removes the first and moves the others.
LEMMA TailScan ==
  ASSUME NEW s \in Seq(Jobs), s # <<>>
  PROVE  /\ Tail(s) \in Seq(Jobs) /\ Head(s) \in Jobs
         /\ Head(s).op = "scan" <=> Scan(s, 1)
         /\ \A i \in Nat : Scan(Tail(s), i) <=> i # 0 /\ Scan(s, i + 1)
  <1> DEFINE q == Tail(s)
  <1>1. /\ q \in Seq(Jobs) /\ Head(s) \in Jobs /\ Head(s) = s[1]
        /\ Len(s) \in Nat /\ Len(s) > 0 /\ Len(q) = Len(s) - 1
    OBVIOUS
  <1>2. \A i \in 1..(Len(s) - 1) : q[i] = s[i + 1]
    OBVIOUS
  <1> HIDE DEF q
  <1>3. \A i \in Nat : Scan(q, i) <=> i # 0 /\ Scan(s, i + 1)
    <2> TAKE i \in Nat
    <2>1. CASE i \in 1..(Len(s) - 1)
      BY <1>1, <1>2, <2>1 DEF Scan
    <2>2. CASE i \notin 1..(Len(s) - 1)
      BY <1>1, <2>2 DEF Scan
    <2> QED
      BY <2>1, <2>2
  <1> QED
    BY <1>1, <1>3 DEF q, Scan

\* Steps that start no job and add none that is a scan.
LEMMA KeepScan ==
  ASSUME TypeInv, ScanInv, queued' = queued,
         \/ jobs' = jobs
         \/ \E job \in Jobs : job.op # "scan" /\ jobs' = Append(jobs, job)
  PROVE  jobs' \in Seq(Jobs) /\ ScanInv'
  <1>1. jobs \in Seq(Jobs)
    BY DEF TypeInv
  <1>2. jobs' \in Seq(Jobs) /\ \A i \in Nat : Scan(jobs', i) <=> Scan(jobs, i)
    <2>1. CASE jobs' = jobs
      BY <1>1, <2>1
    <2>2. ASSUME NEW job \in Jobs, job.op # "scan", jobs' = Append(jobs, job)
          PROVE  jobs' \in Seq(Jobs) /\ \A i \in Nat : Scan(jobs', i) <=> Scan(jobs, i)
      BY <1>1, <2>2, AppendScan
    <2> QED
      BY <2>1, <2>2
  <1>3. ScanInv'
    BY <1>2 DEF ScanInv
  <1> QED
    BY <1>2, <1>3

\* Jobs that are not scans leave the queued scan where it is.
LEMMA StartOther ==
  ASSUME TypeInv, ScanInv, NEW op \in {"subscribe", "unsubscribe"}, Start(op),
         queued' = queued
  PROVE  /\ jobs' \in Seq(Jobs) /\ ScanInv'
         /\ busy.op = "free" /\ Head(jobs) \in Jobs /\ Head(jobs).op = op
  <1>1. jobs \in Seq(Jobs) /\ jobs # <<>> /\ jobs' = Tail(jobs) /\ Head(jobs).op = op
    BY DEF TypeInv, Start
  <1>2. ~Scan(jobs, 1) /\ jobs' \in Seq(Jobs) /\ Head(jobs) \in Jobs
    BY <1>1, TailScan
  <1>3. \A i \in Nat : Scan(jobs', i) <=> i # 0 /\ Scan(jobs, i + 1)
    BY <1>1, TailScan, SMTT(30)
  <1>4. (\E i \in Nat : Scan(jobs, i)) <=> \E i \in Nat : Scan(jobs', i)
    <2>1. ASSUME NEW i \in Nat, Scan(jobs, i) PROVE \E j \in Nat : Scan(jobs', j)
      <3>1. i - 1 \in Nat /\ i - 1 # 0 /\ (i - 1) + 1 = i
        BY <1>2, <2>1 DEF Scan
      <3> QED
        BY <1>3, <2>1, <3>1, SMTT(30)
    <2> QED
      BY <1>3, <2>1
  <1>5. \A i, j \in Nat : Scan(jobs', i) /\ Scan(jobs', j) => i = j
    <2> TAKE i, j \in Nat
    <2> HAVE Scan(jobs', i) /\ Scan(jobs', j)
    <2>1. Scan(jobs, i + 1) /\ Scan(jobs, j + 1) /\ i + 1 \in Nat /\ j + 1 \in Nat
      BY <1>3
    <2>2. i + 1 = j + 1
      BY <2>1 DEF ScanInv
    <2> QED
      BY <2>2
  <1>6. ScanInv'
    BY <1>4, <1>5 DEF ScanInv
  <1>7. busy.op = "free"
    BY DEF Start, Free
  <1> QED
    BY <1>1, <1>2, <1>6, <1>7

\* The one scan clears the mark.
LEMMA StartScan ==
  ASSUME TypeInv, ScanInv, do_silent
  PROVE  jobs' \in Seq(Jobs) /\ ScanInv'
  <1>1. jobs \in Seq(Jobs) /\ jobs # <<>> /\ jobs' = Tail(jobs) /\ Head(jobs).op = "scan"
        /\ queued' = FALSE
    BY DEF TypeInv, do_silent, Start
  <1>2. Scan(jobs, 1) /\ jobs' \in Seq(Jobs)
    BY <1>1, TailScan
  <1>3. \A i \in Nat : Scan(jobs', i) => i # 0 /\ Scan(jobs, i + 1)
    BY <1>1, TailScan
  <1>4. \A i \in Nat : ~Scan(jobs', i)
    <2> SUFFICES ASSUME NEW i \in Nat, Scan(jobs', i) PROVE FALSE
      OBVIOUS
    <2>1. i # 0 /\ Scan(jobs, i + 1) /\ i + 1 \in Nat
      BY <1>3
    <2>2. i + 1 = 1
      BY <1>2, <2>1 DEF ScanInv
    <2> QED
      BY <2>1, <2>2
  <1>5. ScanInv'
    BY <1>1, <1>4 DEF ScanInv
  <1> QED
    BY <1>2, <1>5, SMTT(30)

\* An event queues a scan only if none is queued.
LEMMA ChaseScan ==
  ASSUME TypeInv, ScanInv, handle_chase
  PROVE  jobs' \in Seq(Jobs) /\ queued' \in BOOLEAN /\ ScanInv'
  <1>1. CASE queued' = TRUE /\ ~queued /\ jobs' = Append(jobs, [op |-> "scan"])
    <2>1. [op |-> "scan"] \in Jobs /\ [op |-> "scan"].op = "scan"
      BY DEF Jobs
    <2>2. jobs \in Seq(Jobs) /\ Len(jobs) \in Nat
      BY DEF TypeInv
    <2>3. jobs' \in Seq(Jobs)
      BY <1>1, <2>1, <2>2, AppendScan
    <2>4. \A i \in Nat : Scan(jobs', i) <=> Scan(jobs, i) \/ i = Len(jobs) + 1
      BY <1>1, <2>1, <2>2, AppendScan
    <2>5. \A i \in Nat : Scan(jobs', i) <=> i = Len(jobs) + 1
      BY <1>1, <2>4 DEF ScanInv
    <2>6. ScanInv'
      BY <1>1, <2>2, <2>5 DEF ScanInv
    <2> QED
      BY <1>1, <2>3, <2>6
  <1>2. CASE queued' = queued /\ jobs' = jobs
    BY <1>2, KeepScan DEF TypeInv
  <1> QED
    BY <1>1, <1>2, ZenonT(30) DEF handle_chase

\* Initially nothing is held and nothing queued.
LEMMA InitInv == Init => IInv
  <1> SUFFICES ASSUME Init PROVE IInv
    OBVIOUS
  <1>1. TypeInv
    <2>1. jobs \in Seq(Jobs) /\ maximum \in Nat
      BY PageAssumption DEF Init
    <2>2. busy.op = "free"
      BY DEF Init, Free
    <2> QED
      BY <2>1, <2>2, ZenonT(30) DEF Init, TypeInv
  <1>2. FlagInv
    BY DEF Init, FlagInv, Free
  <1>3. LimitInv
    BY <1>1, FS_EmptySet DEF Init, LimitInv, TypeInv
  <1>4. ScanInv
    BY DEF Init, ScanInv, Scan
  <1> QED
    BY <1>1, <1>2, <1>3, <1>4 DEF IInv

\* The event thread, the client and the channel strand leave the
\* subscriptions alone.
LEMMA ClientInv ==
  ASSUME IInv,
         \/ \E a \in Address : Archive(a)
         \/ handle_chase \/ ClientStep \/ ChannelStep \/ stopping \/ UNCHANGED vars
  PROVE  IInv'
  <1> USE DEF IInv
  <1>1. UNCHANGED <<busy, flag, held, maximum>>
    BY ZenonT(30) DEF Archive, handle_chase, ClientStep, silent_payments_subscribe,
       silent_payments_unsubscribe, Request, Upgrade, ChannelStep,
       complete_silent_subscribe, complete_silent_unsubscribe, silent_notify,
       stopping, vars, channel, subs
  <1>2. jobs' \in Seq(Jobs) /\ queued' \in BOOLEAN /\ ScanInv'
    <2>1. CASE handle_chase
      BY <2>1, ChaseScan
    <2>2. ASSUME NEW a \in Address, NEW c \in Cut, silent_payments_subscribe(a, c)
          PROVE  jobs' \in Seq(Jobs) /\ queued' \in BOOLEAN /\ ScanInv'
      <3> DEFINE job == [op |-> "subscribe", address |-> a, cut |-> c]
      <3>1. job \in Jobs /\ job.op # "scan"
        BY DEF Jobs
      <3>2. jobs' = Append(jobs, job) /\ queued' = queued
        BY <2>2 DEF silent_payments_subscribe, Request
      <3> HIDE DEF job
      <3> QED
        BY <3>1, <3>2, KeepScan DEF TypeInv
    <2>3. ASSUME NEW a \in Address, silent_payments_unsubscribe(a)
          PROVE  jobs' \in Seq(Jobs) /\ queued' \in BOOLEAN /\ ScanInv'
      <3> DEFINE job == [op |-> "unsubscribe", address |-> a]
      <3>1. job \in Jobs /\ job.op # "scan"
        BY DEF Jobs
      <3>2. jobs' = Append(jobs, job) /\ queued' = queued
        BY <2>3 DEF silent_payments_unsubscribe, Request
      <3> HIDE DEF job
      <3> QED
        BY <3>1, <3>2, KeepScan, SMTT(30) DEF TypeInv
    <2>4. CASE jobs' = jobs /\ queued' = queued
      BY <2>4, KeepScan DEF TypeInv
    <2> QED
      BY <2>1, <2>2, <2>3, <2>4, ZenonT(30) DEF Archive, ClientStep, Upgrade, ChannelStep,
         complete_silent_subscribe, complete_silent_unsubscribe, silent_notify,
         stopping, vars
  <1>3. TypeInv'
    BY <1>1, <1>2 DEF TypeInv
  <1>4. FlagInv'
    BY <1>1 DEF FlagInv
  <1>5. LimitInv'
    BY <1>1 DEF LimitInv
  <1> QED
    BY <1>2, <1>3, <1>4, <1>5

\* A subscription within the limit; do_silent_subscribe and its flag.
LEMMA SubscribeInv ==
  ASSUME IInv, do_silent_subscribe \/ store_subscribed
  PROVE  IInv'
  <1> USE DEF IInv
  <1>1. CASE do_silent_subscribe
    <2>1. /\ jobs' \in Seq(Jobs) /\ ScanInv' /\ busy.op = "free"
          /\ Head(jobs) \in Jobs /\ Head(jobs).op = "subscribe"
      BY <1>1, StartOther, SMTT(30) DEF do_silent_subscribe
    <2>2. UNCHANGED <<flag, queued, maximum>>
      BY <1>1 DEF do_silent_subscribe, channel
    <2>3. Head(jobs).address \in Address
      BY <2>1 DEF Jobs
    <2> DEFINE a == Head(jobs).address
    <2>4. CASE UNCHANGED <<held, busy>>
      BY <2>1, <2>2, <2>4 DEF TypeInv, FlagInv, LimitInv
    <2>5. CASE /\ a \in held \/ Cardinality(held) < maximum
               /\ held' = held \union {a} /\ busy' = [op |-> "flag", address |-> a]
      <3>1. busy'.op = "flag"
        BY <2>5
      <3>2. IsFiniteSet(held) /\ Cardinality(held) \in Nat
        BY AddressAssumption, FS_Subset, FS_CardinalityType DEF LimitInv
      <3>3. Cardinality(held') <= maximum
        <4>1. CASE a \in held
          <5>1. held' = held
            BY <2>5, <4>1, SMTT(30)
          <5> QED
            BY <5>1 DEF LimitInv
        <4>2. CASE a \notin held
          <5>1. Cardinality(held') = Cardinality(held) + 1
            BY <2>5, <3>2, <4>2, FS_AddElement, ZenonT(30)
          <5> QED
            BY <2>5, <3>2, <4>2, <5>1, SMTT(30) DEF TypeInv
        <4> QED
          BY <4>1, <4>2
      <3>4. LimitInv'
        BY <2>2, <2>3, <2>5, <3>3 DEF LimitInv
      <3>5. FlagInv'
        BY <2>5, <3>1 DEF FlagInv
      <3>6. TypeInv'
        BY <2>1, <2>2, <3>1 DEF TypeInv
      <3> QED
        BY <2>1, <3>4, <3>5, <3>6, SMTT(30)
    <2> QED
      BY <1>1, <2>4, <2>5, SMTT(30) DEF do_silent_subscribe, subs
  <1>2. CASE store_subscribed
    <2>1. busy.op = "flag" /\ flag' = TRUE /\ busy'.op = "scan"
      BY <1>2 DEF store_subscribed
    <2>2. UNCHANGED <<jobs, held, queued, maximum>>
      BY <1>2 DEF store_subscribed, subs, channel
    <2>3. jobs' \in Seq(Jobs) /\ ScanInv'
      BY <2>2, KeepScan
    <2>4. TypeInv' /\ FlagInv' /\ LimitInv'
      BY <2>1, <2>2, <2>3 DEF TypeInv, FlagInv, LimitInv
    <2> QED
      BY <2>3, <2>4
  <1> QED
    BY <1>1, <1>2, SMTT(30)

\* The flag is cleared with the last subscription.
LEMMA UnsubscribeInv ==
  ASSUME IInv, do_silent_unsubscribe
  PROVE  IInv'
  <1> USE DEF IInv
  <1>1. jobs' \in Seq(Jobs) /\ ScanInv' /\ busy.op = "free"
    BY StartOther DEF do_silent_unsubscribe
  <1>2. UNCHANGED <<busy, queued, maximum>> /\ held' \subseteq held
        /\ flag' = (flag /\ held' # {})
    BY DEF do_silent_unsubscribe, channel
  <1>3. IsFiniteSet(held) /\ Cardinality(held) \in Nat
    BY AddressAssumption, FS_Subset, FS_CardinalityType, SMTT(30) DEF LimitInv
  <1>4. Cardinality(held') <= Cardinality(held) /\ Cardinality(held') \in Nat
    BY <1>2, <1>3, FS_Subset, FS_CardinalityType, SMTT(30)
  <1>5. LimitInv'
    BY <1>2, <1>3, <1>4 DEF LimitInv, TypeInv
  <1>6. FlagInv'
    BY <1>1, <1>2, ZenonT(30) DEF FlagInv
  <1>7. TypeInv'
    BY <1>1, <1>2 DEF TypeInv
  <1> QED
    BY <1>1, <1>5, <1>6, <1>7, SMTT(30)

\* A scan changes neither the subscriptions nor the flag.
LEMMA ScanStep ==
  ASSUME IInv, do_silent \/ \E a \in Address : scan_silent(a)
  PROVE  IInv'
  <1> USE DEF IInv
  <1>1. UNCHANGED <<held, flag, maximum>>
    BY DEF do_silent, scan_silent, subs, channel
  <1>2. CASE do_silent
    <2>1. busy.op = "free" /\ queued' = FALSE
      BY <1>2, SMTT(30) DEF do_silent, Start, Free
    <2>2. busy'.op \in {"free", "scan"}
      BY <1>2 DEF do_silent, Free
    <2>3. jobs' \in Seq(Jobs) /\ ScanInv'
      BY <1>2, StartScan
    <2>4. TypeInv' /\ FlagInv' /\ LimitInv'
      BY <1>1, <2>1, <2>2, <2>3, ZenonT(30) DEF TypeInv, FlagInv, LimitInv
    <2> QED
      BY <2>3, <2>4, SMTT(30)
  <1>3. ASSUME NEW a \in Address, scan_silent(a) PROVE IInv'
    <2>1. busy.op = "scan" /\ jobs' = jobs /\ queued' = queued
      BY <1>3, ZenonT(30) DEF scan_silent
    <2>2. busy'.op \in {"free", "scan"}
      BY <1>3, ZenonT(30) DEF scan_silent, Free
    <2>3. jobs' \in Seq(Jobs) /\ ScanInv'
      BY <2>1, KeepScan, SMTT(30)
    <2>4. TypeInv' /\ FlagInv' /\ LimitInv'
      BY <1>1, <2>1, <2>2, <2>3 DEF TypeInv, FlagInv, LimitInv
    <2> QED
      BY <2>3, <2>4
  <1> QED
    BY <1>2, <1>3

\* IInv holds throughout.
LEMMA Invariance == Spec => []IInv
  <1>1. ASSUME IInv, [Next]_vars PROVE IInv'
    BY <1>1, ClientInv, SubscribeInv, UnsubscribeInv, ScanStep DEF Next, NotificationStep
  <1> QED
    BY InitInv, <1>1, PTL DEF Spec

-----------------------------------------------------------------------------
\* For any addresses, limit, rows and requests: queued_silent_ is set exactly
\* while its one scan is to come, subscribed_silent_ between jobs exactly while
\* a subscription is held, and no more are held than configured.
THEOREM QueuedScanTheorem == Spec => []QueuedScan
  <1>1. ASSUME IInv PROVE QueuedScan
    <2>1. busy = Free => (flag <=> held # {})
      BY <1>1 DEF IInv, FlagInv, Free
    <2>2. queued <=> \E i \in 1..Len(jobs) : jobs[i].op = "scan"
      <3>1. Len(jobs) \in Nat
        BY <1>1 DEF IInv, TypeInv
      <3> QED
        BY <1>1, <3>1 DEF IInv, ScanInv, Scan
    <2>3. Cardinality({i \in 1..Len(jobs) : jobs[i].op = "scan"}) <= 1
      <3> DEFINE scans == {i \in 1..Len(jobs) : jobs[i].op = "scan"}
      <3>1. Len(jobs) \in Nat
        BY <1>1 DEF IInv, TypeInv
      <3>2. \A i, j \in scans : i = j
        BY <1>1, <3>1 DEF IInv, ScanInv, Scan
      <3> HIDE DEF scans
      <3>3. Cardinality(scans) <= 1
        <4>1. CASE scans = {}
          BY <4>1, FS_EmptySet
        <4>2. ASSUME NEW i \in scans PROVE Cardinality(scans) = 1
          <5>1. scans = {i}
            BY <3>2, <4>2
          <5> QED
            BY <5>1, FS_Singleton
        <4> QED
          BY <4>1, <4>2
      <3> QED
        BY <3>3, SMTT(30) DEF scans
    <2>4. Cardinality(held) <= maximum
      BY <1>1 DEF IInv, LimitInv
    <2> QED
      BY <2>1, <2>2, <2>3, <2>4 DEF QueuedScan
  <1> QED
    BY Invariance, <1>1, PTL
==============================================================================
