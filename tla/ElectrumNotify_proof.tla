------------------------ MODULE ElectrumNotify_proof ------------------------
(***************************************************************************)
(* The outpoint subscriptions of an electrum channel: what the client is   *)
(* notified of, the entries that the notification strand holds, and that   *)
(* the client has the status of its outpoint when nothing is on its way.   *)
(***************************************************************************)
EXTENDS ElectrumOutpoint_proof

-----------------------------------------------------------------------------
(* Outpoint notifications.                                                 *)

Continues(x) == x.op \in {"subscribe", "unsubscribe", "store", "subscribed", "unsubscribed"}
NoneOf(s) == \A i \in 1..Len(s) : ~Continues(s[i])
OneOf(s) == \A i, j \in 1..Len(s) : Continues(s[i]) /\ Continues(s[j]) => i = j

\* An outpoint request is carried on in one place, and in none once it is
\* complete.
OneInv ==
    /\ OneOf(jobs) /\ OneOf(posts)
    /\ NoneOf(jobs) \/ (~Continues(job) /\ NoneOf(posts))
    /\ ~Continues(job) \/ NoneOf(posts)
    /\ req = "none" => NoneOf(jobs) /\ ~Continues(job) /\ NoneOf(posts)

\* A queue that gains an entry.
LEMMA AppendOne ==
    ASSUME NEW S, NEW s \in Seq(S), NEW e \in S
    PROVE  /\ NoneOf(s) => OneOf(Append(s, e))
           /\ ~Continues(e) => /\ NoneOf(s) => NoneOf(Append(s, e))
                               /\ OneOf(s) => OneOf(Append(s, e))
<1> DEFINE t == Append(s, e)
           n == Len(s)
<1>1. /\ Len(t) = n + 1 /\ n \in Nat /\ t[n + 1] = e
      /\ \A i \in 1..n : t[i] = s[i]
  BY AppendFacts
<1> HIDE DEF t
<1>2. \A i \in 1..(n + 1) : i \in 1..n \/ i = n + 1  BY <1>1
<1>3. NoneOf(s) => OneOf(t)  BY <1>1, <1>2, Zenon DEF NoneOf, OneOf
<1>4. ASSUME ~Continues(e) PROVE (NoneOf(s) => NoneOf(t)) /\ (OneOf(s) => OneOf(t))
  BY <1>1, <1>2, <1>4, Zenon DEF NoneOf, OneOf
<1> QED  BY <1>3, <1>4, Zenon DEF t

\* A queue whose first entry is taken.
LEMMA TailOne ==
    ASSUME NEW S, NEW s \in Seq(S), s # <<>>
    PROVE  /\ OneOf(s) => OneOf(Tail(s))
           /\ NoneOf(s) => NoneOf(Tail(s)) /\ ~Continues(Head(s))
           /\ OneOf(s) /\ Continues(Head(s)) => NoneOf(Tail(s))
<1> DEFINE t == Tail(s)
           n == Len(s)
<1>1. /\ Head(s) = s[1] /\ n \in Nat /\ n >= 1 /\ Len(t) = n - 1
      /\ \A i \in 1..(n - 1) : t[i] = s[i + 1]
  BY TailFacts, Zenon
<1> HIDE DEF t
<1>2. \A i \in 1..(n - 1) : i + 1 \in 1..n /\ i \in Nat /\ i + 1 # 1  BY <1>1
<1>3. 1 \in 1..n  BY <1>1
<1>4. ASSUME OneOf(s) PROVE OneOf(t)
  <2> SUFFICES ASSUME NEW i \in 1..(n - 1), NEW j \in 1..(n - 1), Continues(t[i]), Continues(t[j])
               PROVE  i = j
    BY <1>1, Zenon DEF OneOf
  <2>1. i + 1 = j + 1  BY <1>1, <1>2, <1>4, Zenon DEF OneOf
  <2> QED  BY <1>2, <2>1
<1>5. NoneOf(s) => NoneOf(t) /\ ~Continues(Head(s))  BY <1>1, <1>2, <1>3, Zenon DEF NoneOf
<1>6. OneOf(s) /\ Continues(Head(s)) => NoneOf(t)  BY <1>1, <1>2, <1>3, Zenon DEF OneOf, NoneOf
<1> QED  BY <1>4, <1>5, <1>6, Zenon DEF t

\* Nothing is asked at the start.
LEMMA InitOne == InitAll => OneInv
BY DEF InitAll, Idle, OneInv, OneOf, NoneOf, Continues, NoJob

\* Every step keeps the one continuation.
LEMMA NextOne == ASSUME TypeInv, OneInv, [NextAll]_all PROVE OneInv'
<1>1. /\ posts \in Seq(Message) /\ jobs \in Seq(Task)
      /\ posts # <<>> => Head(posts) \in Message
      /\ jobs # <<>> => Head(jobs) \in Task
  BY TailFacts, Zenon DEF TypeInv, StrandType
<1>2. CASE \/ UNCHANGED <<node, protocol>> \/ Upgrade
           \/ Disconnect \/ (\E t \in Tx : AcceptTx(t)) \/ (\E txs \in SUBSET Tx : Organize(txs))
           \/ handle_blockchain_headers_subscribe \/ handle_blockchain_number_of_blocks_subscribe
           \/ store_header \/ send_height
  BY <1>2, Zenon DEF protocol, client, strand, Disconnect, AcceptTx, Organize,
     handle_blockchain_headers_subscribe, handle_blockchain_number_of_blocks_subscribe,
     store_header, send_height, Upgrade, OneInv
<1>3. CASE handle_chase
  <2>1. PICK mid \in Seq(Message) :
          /\ mid = posts \/ \E a \in Message : ~Continues(a) /\ mid = Append(posts, a)
          /\ posts' = mid \/ \E b \in Message : ~Continues(b) /\ posts' = Append(mid, b)
    BY <1>3, ChasePosts, Zenon DEF Continues, Gains
  <2>2. (NoneOf(posts) => NoneOf(mid)) /\ (OneOf(posts) => OneOf(mid))
    BY <1>1, <2>1, AppendOne, Zenon
  <2>3. (NoneOf(mid) => NoneOf(posts')) /\ (OneOf(mid) => OneOf(posts'))
    BY <2>1, AppendOne, Zenon
  <2>4. jobs' = jobs \/ \E x \in Task : ~Continues(x) /\ jobs' = Append(jobs, x)
    <3>1. [op |-> "outpoint"] \in Task /\ ~Continues([op |-> "outpoint"])
      BY Zenon DEF Task, Continues
    <3> QED  BY <1>3, <3>1, ChaseCases, Zenon
  <2>5. (NoneOf(jobs) => NoneOf(jobs')) /\ (OneOf(jobs) => OneOf(jobs'))
    BY <1>1, <2>4, AppendOne, Zenon
  <2>6. job' = job /\ req' = req  BY <1>3, Zenon DEF handle_chase, client
  <2> QED  BY <2>2, <2>3, <2>5, <2>6, Zenon DEF OneInv
<1>4. ASSUME NEW o \in Outpoint,
             handle_blockchain_outpoint_subscribe(o) \/ handle_blockchain_outpoint_unsubscribe(o)
      PROVE  OneInv'
  <2>1. req = "none" /\ req' = "open" /\ posts' = posts /\ job' = job
    BY <1>4, Zenon DEF handle_blockchain_outpoint_subscribe,
       handle_blockchain_outpoint_unsubscribe, Ask, Ready
  <2>2. \A op \in {"subscribe", "unsubscribe"} : [op |-> op, point |-> o] \in Task
    BY Zenon DEF Task
  <2>3. \E x \in Task : jobs' = Append(jobs, x)
    BY <1>4, <2>2, Zenon DEF handle_blockchain_outpoint_subscribe,
       handle_blockchain_outpoint_unsubscribe
  <2>4. NoneOf(jobs) => OneOf(jobs')  BY <1>1, <2>3, AppendOne, Zenon
  <2> QED  BY <2>1, <2>4, Zenon DEF OneInv
<1>5. CASE do_height \/ do_header \/ outpoint_notify
  <2>1. posts # <<>> /\ posts' = Tail(posts) /\ job' = job /\ jobs' = jobs /\ req' = req
    BY <1>5, Zenon DEF do_height, do_header, outpoint_notify, Posted, Sent, strand
  <2>2. (NoneOf(posts) => NoneOf(posts')) /\ (OneOf(posts) => OneOf(posts'))
    BY <1>1, <2>1, TailOne, Zenon
  <2> QED  BY <2>1, <2>2, Zenon DEF OneInv
<1>6. CASE complete_outpoint_subscribe \/ complete_outpoint_unsubscribe
  <2>1. posts # <<>> /\ posts' = Tail(posts) /\ job' = job /\ jobs' = jobs /\ Continues(Head(posts))
    BY <1>6, Zenon DEF complete_outpoint_subscribe, complete_outpoint_unsubscribe, Posted,
       Sent, strand, Continues
  <2>2. ~NoneOf(posts) /\ (OneOf(posts) => NoneOf(posts')) /\ (OneOf(posts) => OneOf(posts'))
    BY <1>1, <2>1, TailOne, Zenon
  <2> QED  BY <2>1, <2>2, Zenon DEF OneInv
<1>7. CASE refuse_outpoint_subscribe \/ do_outpoint_subscribe \/ do_outpoint_unsubscribe
  <2>1. jobs # <<>> /\ jobs' = Tail(jobs) /\ Continues(Head(jobs)) /\ req' = req
    BY <1>7, Zenon DEF refuse_outpoint_subscribe, do_outpoint_subscribe,
       do_outpoint_unsubscribe, Job, Done,
       client, Continues
  <2>2. ~NoneOf(jobs) /\ (OneOf(jobs) => NoneOf(jobs')) /\ (OneOf(jobs) => OneOf(jobs'))
    BY <1>1, <2>1, TailOne, Zenon
  <2>3. OneOf(posts') /\ (NoneOf(posts') \/ ~Continues(job'))
    <3>1. CASE do_outpoint_subscribe
      BY <2>2, <3>1, Zenon DEF OneInv, do_outpoint_subscribe
    <3>2. CASE refuse_outpoint_subscribe \/ do_outpoint_unsubscribe
      <4>1. posts' = posts \/ \E p \in Message : posts' = Append(posts, p)
        BY <3>2, AnswerPosts, Zenon
      <4>2. NoneOf(posts) => OneOf(posts')
        BY <1>1, <4>1, AppendOne, Zenon DEF OneOf, NoneOf
      <4>3. job' = job  BY <3>2, Zenon DEF refuse_outpoint_subscribe, do_outpoint_unsubscribe
      <4> QED  BY <2>2, <4>2, <4>3, Zenon DEF OneInv
    <3> QED  BY <1>7, <3>1, <3>2, Zenon
  <2> QED  BY <2>1, <2>2, <2>3, Zenon DEF OneInv
<1>8. CASE emplace_outpoint
  <2>1. Continues(job) /\ posts' = posts /\ jobs' = jobs /\ req' = req
    BY <1>8, Zenon DEF emplace_outpoint, client, Continues
  <2> QED  BY <2>1, Zenon DEF OneInv
<1>9. CASE store_outpoint
  <2>1. Continues(job) /\ ~Continues(job') /\ jobs' = jobs /\ req' = req
    BY <1>9, Zenon DEF store_outpoint, client, Continues, NoJob
  <2>2. posts' = posts \/ \E p \in Message : posts' = Append(posts, p)
    BY <1>9, AnswerPosts, Zenon
  <2>3. NoneOf(posts) => OneOf(posts')  BY <1>1, <2>2, AppendOne, Zenon DEF OneOf, NoneOf
  <2> QED  BY <2>1, <2>3, Zenon DEF OneInv
<1>10. CASE do_outpoint \/ read_funder \/ notify_outpoint
  <2>1. /\ req' = req /\ ~Continues(job)
        /\ jobs' = jobs \/ (jobs # <<>> /\ jobs' = Tail(jobs))
    BY <1>10 DEF do_outpoint, read_funder, notify_outpoint, Job, Done, client, Continues, NoJob
  <2>2. ~Continues(job')
    <3>1. CASE do_outpoint
      BY <3>1, ScanType, Zenon DEF do_outpoint, TypeInv, StrandType, Continues
    <3>2. CASE read_funder
      BY <3>2, Zenon DEF read_funder, Continues
    <3>3. CASE notify_outpoint
      <4>1. job.todo \in SUBSET Outpoint
        BY <3>3, JobFields, Zenon DEF notify_outpoint
      <4> QED  BY <3>3, <4>1, ScanType DEF notify_outpoint, Continues
    <3> QED  BY <1>10, <3>1, <3>2, <3>3, Zenon
  <2>3. (NoneOf(jobs) => NoneOf(jobs')) /\ (OneOf(jobs) => OneOf(jobs'))
    BY <1>1, <2>1, TailOne, Zenon
  <2>4. posts' = posts \/ \E p \in Message : ~Continues(p) /\ posts' = Append(posts, p)
    <3>1. CASE notify_outpoint
      BY <3>1, NotifyPost, Zenon DEF Continues
    <3> QED  BY <1>10, <3>1, Zenon DEF do_outpoint, read_funder
  <2>5. (NoneOf(posts) => NoneOf(posts')) /\ (OneOf(posts) => OneOf(posts'))
    BY <1>1, <2>4, AppendOne, Zenon
  <2> QED  BY <2>1, <2>2, <2>3, <2>5, ZenonT(30) DEF OneInv
<1> QED  BY <1>2, <1>3, <1>4, <1>5, <1>6, <1>7, <1>8, <1>9, <1>10, StepCases, Zenon

Subscribes(p, o) == p.op = "subscribed" /\ p.ok /\ p.point = o
Unsubscribes(p, o) == p.op = "unsubscribed" /\ p.point = o

\* The client subscribes o, from view v, once the first n posts of s are sent.
SubscribesAfter(v, s, o, n) ==
    \/ v[o] # Unsub /\ \A j \in 1..n : ~Unsubscribes(s[j], o)
    \/ \E j \in 1..n : Subscribes(s[j], o)

\* A notification follows the answer to the subscribe and precedes the answer
\* to the unsubscribe.
Ordered(v, s) ==
    \A i \in 1..Len(s) : s[i].op = "notify" => SubscribesAfter(v, s, s[i].point, i - 1)

\* A scan visits outpoints that are held, and the client of an outpoint that is
\* held subscribes it once all posts are sent.
NotifyInv ==
    /\ Ordered(view, posts)
    /\ \A o \in held : (job.op = "store" /\ job.point = o) \/ SubscribesAfter(view, posts, o, Len(posts))
    /\ job.op \in {"outpoint", "spenders"} => job.point \in held /\ job.todo \subseteq held

\* A post is appended.
LEMMA OrderedAppend ==
    ASSUME NEW s \in Seq(Message), NEW p \in Message, NEW t, Gains(s, t, p), NEW v
    PROVE  /\ \A o : SubscribesAfter(v, s, o, Len(s)) /\ ~Unsubscribes(p, o) =>
                        SubscribesAfter(v, t, o, Len(t))
           /\ \A o : Subscribes(p, o) => SubscribesAfter(v, t, o, Len(t))
           /\ Ordered(v, s) /\ (p.op = "notify" => SubscribesAfter(v, s, p.point, Len(s))) =>
                 Ordered(v, t)
<1> DEFINE n == Len(s)
<1>1. /\ Len(t) = n + 1 /\ n \in Nat /\ t[n + 1] = p
      /\ \A i \in 1..n : t[i] = s[i]
  BY AppendFacts DEF Gains
<1>2. \A i \in 1..(n + 1) : i \in 1..n \/ i = n + 1  BY <1>1
<1>3. \A i \in 1..n : i \in 1..(n + 1)  BY <1>1
<1>4. n + 1 \in 1..(n + 1)  BY <1>1
<1>5. ASSUME NEW o, SubscribesAfter(v, s, o, n), ~Unsubscribes(p, o)
      PROVE  SubscribesAfter(v, t, o, n + 1)
  BY <1>1, <1>2, <1>3, <1>5, Zenon DEF SubscribesAfter
<1>6. \A o : Subscribes(p, o) => SubscribesAfter(v, t, o, n + 1)
  BY <1>1, <1>4, Zenon DEF SubscribesAfter
<1>7. ASSUME Ordered(v, s), p.op = "notify" => SubscribesAfter(v, s, p.point, n)
      PROVE  Ordered(v, t)
  <2> SUFFICES ASSUME NEW i \in 1..(n + 1), t[i].op = "notify"
               PROVE  SubscribesAfter(v, t, t[i].point, i - 1)
    BY <1>1, Zenon DEF Ordered
  <2>1. SubscribesAfter(v, s, t[i].point, i - 1)
    <3>1. CASE i = n + 1
      <4>1. i - 1 = n  BY <1>1, <3>1
      <4> QED  BY <1>1, <1>7, <3>1, <4>1, Zenon
    <3>2. CASE i \in 1..n
      BY <1>1, <1>7, <3>2, Zenon DEF Ordered
    <3> QED  BY <1>2, <3>1, <3>2, Zenon
  <2>2. \A j \in 1..(i - 1) : j \in 1..n  BY <1>1
  <2> QED  BY <1>1, <2>1, <2>2, Zenon DEF SubscribesAfter
<1> QED  BY <1>1, <1>5, <1>6, <1>7, Zenon

\* The first post is sent, and changes the view from v to w.
LEMMA OrderedTail ==
    ASSUME NEW s \in Seq(Message), s # <<>>, OneOf(s), NEW v, NEW w,
           \A o \in Outpoint :
              (v[o] # Unsub /\ ~Unsubscribes(Head(s), o)) \/ Subscribes(Head(s), o) => w[o] # Unsub
    PROVE  /\ \A o \in Outpoint : SubscribesAfter(v, s, o, Len(s)) =>
                                     SubscribesAfter(w, Tail(s), o, Len(Tail(s)))
           /\ Ordered(v, s) => Ordered(w, Tail(s))
<1> DEFINE t == Tail(s)
           n == Len(s)
<1>1. /\ Head(s) = s[1] /\ n \in Nat /\ n >= 1 /\ Len(t) = n - 1 /\ t \in Seq(Message)
      /\ \A i \in 1..(n - 1) : t[i] = s[i + 1]
  BY TailFacts, Zenon
<1> HIDE DEF t
<1>2. ASSUME NEW o \in Outpoint, NEW m \in 1..n, SubscribesAfter(v, s, o, m)
      PROVE  SubscribesAfter(w, t, o, m - 1)
  <2>0. 1 \in 1..m /\ m \in Nat /\ \A j \in 1..m : j \in 1..n  BY <1>1
  <2>1. \A j \in 1..(m - 1) : j + 1 \in 1..m /\ j + 1 # 1 /\ t[j] = s[j + 1]  BY <1>1, SMTT(30)
  <2>2. CASE v[o] # Unsub /\ \A j \in 1..m : ~Unsubscribes(s[j], o)
    <3>1. w[o] # Unsub  BY <1>1, <2>0, <2>2, Zenon
    <3> QED  BY <2>1, <2>2, <3>1, Zenon DEF SubscribesAfter
  <2>3. CASE Subscribes(s[1], o)
    <3>1. w[o] # Unsub  BY <1>1, <2>3, Zenon
    <3>2. \A j \in 1..m : j # 1 => ~Unsubscribes(s[j], o)
      BY <2>0, <2>3, Zenon DEF OneOf, Continues, Subscribes, Unsubscribes
    <3>3. \A j \in 1..(m - 1) : ~Unsubscribes(t[j], o)  BY <2>1, <3>2, Zenon
    <3> QED  BY <3>1, <3>3, Zenon DEF SubscribesAfter
  <2>4. ASSUME NEW j \in 1..m, j # 1, Subscribes(s[j], o) PROVE SubscribesAfter(w, t, o, m - 1)
    <3>1. j - 1 \in 1..(m - 1) /\ (j - 1) + 1 = j  BY <1>1, <2>4
    <3>2. Subscribes(t[j - 1], o)  BY <2>1, <2>4, <3>1, Zenon
    <3> QED  BY <3>1, <3>2, Zenon DEF SubscribesAfter
  <2> QED  BY <1>2, <2>2, <2>3, <2>4, Zenon DEF SubscribesAfter
<1>3. n \in 1..n  BY <1>1
<1>4. ASSUME Ordered(v, s) PROVE Ordered(w, t)
  <2> SUFFICES ASSUME NEW i \in 1..(n - 1), t[i].op = "notify"
               PROVE  SubscribesAfter(w, t, t[i].point, i - 1)
    BY <1>1, Zenon DEF Ordered
  <2>1. i \in 1..n /\ i + 1 \in 1..n /\ (i + 1) - 1 = i /\ t[i] = s[i + 1]  BY <1>1
  <2>2. SubscribesAfter(v, s, t[i].point, i)
    BY <1>4, <2>1, Zenon DEF Ordered
  <2>3. t[i] \in Message  BY <1>1
  <2>4. t[i].point \in Outpoint  BY <2>3, Zenon DEF Message
  <2> QED  BY <1>2, <2>1, <2>2, <2>4, Zenon
<1> QED  BY <1>1, <1>2, <1>3, <1>4, Zenon DEF t

\* A history is not the mark of an outpoint that is not subscribed.
LEMMA NotUnsub ==
    /\ \A e \in Entry : e # Unsub
    /\ \A h, s : [valid |-> TRUE, height |-> h, spenders |-> s] # Unsub
<1>1. "none" \in DOMAIN Unsub /\ "valid" \notin DOMAIN Unsub  BY Zenon DEF Unsub
<1>2. \A e \in Entry : "valid" \in DOMAIN e  BY Zenon DEF Entry
<1>3. \A h, s : "valid" \in DOMAIN [valid |-> TRUE, height |-> h, spenders |-> s]  BY Zenon
<1> QED  BY <1>1, <1>2, <1>3, Zenon

\* The client receives an entry, with one of its spenders unless full duplex.
LEMMA ReceivedType == ASSUME NEW e \in Entry, NEW out \in Received(e) PROVE out \in Entry
<1>1. CASE duplex \/ e.spenders = {}
  BY <1>1, Zenon DEF Received
<1>2. CASE ~(duplex \/ e.spenders = {})
  <2>1. PICK first \in e.spenders : out = [e EXCEPT !.spenders = {first}]
    BY <1>2, Zenon DEF Received
  <2> QED  BY <2>1, SMTT(30) DEF Entry
<1> QED  BY <1>1, <1>2, Zenon

\* The first post decides whether the client subscribes its outpoint.
LEMMA SentView ==
    ASSUME TypeInv,
           \/ do_height \/ do_header
           \/ complete_outpoint_subscribe \/ complete_outpoint_unsubscribe \/ outpoint_notify
    PROVE  /\ posts # <<>> /\ posts' = Tail(posts) /\ UNCHANGED strand
           /\ \A o \in Outpoint :
                 (view[o] # Unsub /\ ~Unsubscribes(Head(posts), o)) \/ Subscribes(Head(posts), o) =>
                    view'[o] # Unsub
<1> DEFINE p == Head(posts)
<1>1. posts # <<>> /\ posts' = Tail(posts) /\ UNCHANGED strand
  BY Zenon DEF do_height, do_header, complete_outpoint_subscribe, complete_outpoint_unsubscribe,
     outpoint_notify, Posted, Sent
<1>2. p \in Message /\ view = [o \in Outpoint |-> view[o]]
  BY <1>1, TailFacts, Zenon DEF TypeInv, StrandType, ChannelType
<1> SUFFICES ASSUME NEW o \in Outpoint,
                    (view[o] # Unsub /\ ~Unsubscribes(p, o)) \/ Subscribes(p, o)
             PROVE  view'[o] # Unsub
  BY <1>1, Zenon
<1>3. CASE do_height \/ do_header
  BY <1>3, Zenon DEF do_height, do_header, Posted, Subscribes
<1>4. CASE complete_outpoint_subscribe
  <2>1. p.op = "subscribed" /\ ~Unsubscribes(p, o)
    BY <1>4, Zenon DEF complete_outpoint_subscribe, Posted, Unsubscribes
  <2>2. p.ok => p.sub \in Entry /\ p.point \in Outpoint  BY <1>2, <2>1, Zenon DEF Message
  <2>3. CASE p.ok /\ p.point = o
    <3>1. PICK out \in Received(p.sub) : view' = [view EXCEPT ![p.point] = out]
      BY <1>4, <2>3, Zenon DEF complete_outpoint_subscribe
    <3>2. view'[o] = out  BY <1>2, <2>3, <3>1, Zenon
    <3> QED  BY <2>2, <2>3, <3>2, NotUnsub, ReceivedType, Zenon
  <2>4. CASE ~(p.ok /\ p.point = o)
    <3>1. view'[o] = view[o]  BY <1>2, <1>4, <2>4, Zenon DEF complete_outpoint_subscribe
    <3> QED  BY <2>4, <3>1, Zenon DEF Subscribes
  <2> QED  BY <2>3, <2>4, Zenon
<1>5. CASE complete_outpoint_unsubscribe
  <2>1. p.op = "unsubscribed" /\ ~Subscribes(p, o)
    BY <1>5, Zenon DEF complete_outpoint_unsubscribe, Posted, Subscribes
  <2>2. p.point # o  BY <2>1, Zenon DEF Unsubscribes
  <2>3. view'[o] = view[o]  BY <1>2, <1>5, <2>2, Zenon DEF complete_outpoint_unsubscribe
  <2> QED  BY <2>1, <2>3, Zenon
<1>6. CASE outpoint_notify
  <2>1. ~Subscribes(p, o)  BY <1>6, Zenon DEF outpoint_notify, Posted, Subscribes
  <2>2. CASE p.point = o
    <3>1. view' = view \/ \E h, s : view'[o] = [valid |-> TRUE, height |-> h, spenders |-> s]
      BY <1>2, <1>6, <2>2, Zenon DEF outpoint_notify
    <3> QED  BY <2>1, <3>1, NotUnsub, Zenon
  <2>3. CASE p.point # o
    <3>1. view'[o] = view[o]  BY <1>2, <1>6, <2>3, Zenon DEF outpoint_notify
    <3> QED  BY <2>1, <3>1, Zenon
  <2> QED  BY <2>2, <2>3, Zenon
<1> QED  BY <1>3, <1>4, <1>5, <1>6, Zenon

\* Nothing is held at the start.
LEMMA InitNotify == InitAll => NotifyInv
BY DEF InitAll, Idle, NotifyInv, Ordered, NoJob

\* Every step keeps the notifications between the answers.
LEMMA NextNotify == ASSUME TypeInv, OneInv, NotifyInv, [NextAll]_all PROVE NotifyInv'
<1>1. /\ posts \in Seq(Message) /\ jobs \in Seq(Task) /\ held \subseteq Outpoint
      /\ jobs # <<>> => Head(jobs) \in Task
  BY TailFacts, Zenon DEF TypeInv, StrandType
<1>2. CASE \/ UNCHANGED <<node, protocol>> \/ Upgrade
           \/ Disconnect \/ (\E t \in Tx : AcceptTx(t)) \/ (\E txs \in SUBSET Tx : Organize(txs))
           \/ (\E o \in Outpoint : handle_blockchain_outpoint_subscribe(o))
           \/ (\E o \in Outpoint : handle_blockchain_outpoint_unsubscribe(o))
           \/ handle_blockchain_headers_subscribe \/ handle_blockchain_number_of_blocks_subscribe
           \/ store_header \/ send_height
  BY <1>2, Zenon DEF protocol, client, strand, Disconnect, AcceptTx, Organize,
     handle_blockchain_outpoint_subscribe, handle_blockchain_outpoint_unsubscribe,
     handle_blockchain_headers_subscribe, handle_blockchain_number_of_blocks_subscribe,
     store_header, send_height, Upgrade, NotifyInv
<1>3. CASE handle_chase
  <2>1. PICK mid \in Seq(Message) :
          /\ mid = posts \/ \E a \in Message : a.op \in {"height", "header"} /\ Gains(posts, mid, a)
          /\ posts' = mid \/ \E b \in Message : b.op \in {"height", "header"} /\ Gains(mid, posts', b)
    BY <1>3, ChasePosts, Zenon
  <2>2. \A a \in Message : a.op \in {"height", "header"} => a.op # "notify" /\ \A o : ~Unsubscribes(a, o)
    BY Zenon DEF Unsubscribes
  <2>3. /\ Ordered(view, posts) => Ordered(view, mid)
        /\ \A o : SubscribesAfter(view, posts, o, Len(posts)) => SubscribesAfter(view, mid, o, Len(mid))
    <3>1. ASSUME NEW a \in Message, a.op \in {"height", "header"}, Gains(posts, mid, a)
          PROVE  /\ Ordered(view, posts) => Ordered(view, mid)
                 /\ \A o : SubscribesAfter(view, posts, o, Len(posts)) =>
                              SubscribesAfter(view, mid, o, Len(mid))
      BY <1>1, <2>2, <3>1, OrderedAppend, Zenon
    <3> QED  BY <2>1, <3>1, Zenon
  <2>4. /\ Ordered(view, mid) => Ordered(view, posts')
        /\ \A o : SubscribesAfter(view, mid, o, Len(mid)) => SubscribesAfter(view, posts', o, Len(posts'))
    BY <2>1, <2>2, OrderedAppend, Zenon
  <2>5. job' = job /\ held' = held /\ view' = view  BY <1>3, Zenon DEF handle_chase, client
  <2> QED  BY <2>3, <2>4, <2>5, Zenon DEF NotifyInv
<1>4. CASE \/ do_height \/ do_header
           \/ complete_outpoint_subscribe \/ complete_outpoint_unsubscribe \/ outpoint_notify
  <2>1. /\ posts # <<>> /\ posts' = Tail(posts) /\ job' = job /\ held' = held
        /\ \A o \in Outpoint :
              (view[o] # Unsub /\ ~Unsubscribes(Head(posts), o)) \/ Subscribes(Head(posts), o) =>
                 view'[o] # Unsub
    BY <1>4, SentView, Zenon DEF strand
  <2>2. /\ \A o \in Outpoint : SubscribesAfter(view, posts, o, Len(posts)) =>
                                 SubscribesAfter(view', Tail(posts), o, Len(Tail(posts)))
        /\ Ordered(view, posts) => Ordered(view', Tail(posts))
    BY <1>1, <2>1, OrderedTail, Zenon DEF OneInv
  <2> QED  BY <1>1, <2>1, <2>2, Zenon DEF NotifyInv
<1>5. CASE refuse_outpoint_subscribe
  <2>1. PICK p : p = [op |-> "subscribed", ok |-> FALSE] /\ Gains(posts, posts', p)
    BY <1>5, Zenon DEF refuse_outpoint_subscribe, Gains
  <2>2. p \in Message /\ p.op # "notify" /\ \A o : ~Unsubscribes(p, o)
    BY <2>1, Zenon DEF Message, Unsubscribes
  <2>3. /\ Ordered(view, posts) => Ordered(view, posts')
        /\ \A o : SubscribesAfter(view, posts, o, Len(posts)) => SubscribesAfter(view, posts', o, Len(posts'))
    BY <1>1, <2>1, <2>2, OrderedAppend, Zenon
  <2> QED  BY <1>5, <2>3, Zenon DEF refuse_outpoint_subscribe, client, NotifyInv
<1>6. CASE do_outpoint_subscribe
  BY <1>6, Zenon DEF do_outpoint_subscribe, Job, NoJob, client, NotifyInv
<1>7. CASE emplace_outpoint
  BY <1>7, Zenon DEF emplace_outpoint, client, NotifyInv
<1>8. CASE store_outpoint
  <2> DEFINE p == [op |-> "subscribed", ok |-> TRUE, point |-> job.point, sub |-> job.sub]
  <2>1. job.point \in Outpoint /\ job.sub \in Entry
    BY <1>8, JobFields, Zenon DEF store_outpoint
  <2>2. /\ p \in Message /\ p.op # "notify" /\ Subscribes(p, job.point)
        /\ \A o : ~Unsubscribes(p, o)
    BY <2>1, Zenon DEF Message, Unsubscribes, Subscribes
  <2>3. Gains(posts, posts', p)  BY <1>8, Zenon DEF store_outpoint, Gains
  <2> HIDE DEF p
  <2>4. /\ Ordered(view, posts) => Ordered(view, posts')
        /\ \A o : SubscribesAfter(view, posts, o, Len(posts)) => SubscribesAfter(view, posts', o, Len(posts'))
        /\ SubscribesAfter(view, posts', job.point, Len(posts'))
    BY <1>1, <2>2, <2>3, OrderedAppend, Zenon
  <2>5. view' = view /\ held' = held /\ job' = NoJob  BY <1>8, Zenon DEF store_outpoint, client
  <2> QED  BY <2>4, <2>5, Zenon DEF NotifyInv, NoJob
<1>9. CASE do_outpoint_unsubscribe
  <2> DEFINE k == Head(jobs).point
             p == [op |-> "unsubscribed", point |-> k]
  <2>1. k \in Outpoint  BY <1>1, <1>9, Zenon DEF do_outpoint_unsubscribe, Job, Task
  <2>2. /\ p \in Message /\ p.op # "notify"
        /\ \A o : o # k => ~Unsubscribes(p, o)
    BY <2>1, Zenon DEF Message, Unsubscribes
  <2>3. Gains(posts, posts', p)  BY <1>9, Zenon DEF do_outpoint_unsubscribe, Gains
  <2>4. view' = view /\ held' = held \ {k} /\ job' = job /\ job = NoJob
    BY <1>9, Zenon DEF do_outpoint_unsubscribe, client, Job
  <2> HIDE DEF p, k
  <2>5. /\ Ordered(view, posts) => Ordered(view, posts')
        /\ \A o : o # k /\ SubscribesAfter(view, posts, o, Len(posts)) =>
                     SubscribesAfter(view, posts', o, Len(posts'))
    BY <1>1, <2>2, <2>3, OrderedAppend, Zenon
  <2> QED  BY <2>4, <2>5, Zenon DEF NotifyInv, NoJob
<1>10. CASE do_outpoint
  <2>1. view' = view /\ held' = held /\ posts' = posts /\ job = NoJob /\ job' = Scan(held)
    BY <1>10, Zenon DEF do_outpoint, client, Job
  <2>2. /\ Scan(held).op \in {"none", "outpoint"}
        /\ Scan(held).op = "outpoint" => held = Scan(held).todo \union {Scan(held).point}
    BY <1>1, ScanType, Zenon
  <2> QED  BY <2>1, <2>2, Zenon DEF NotifyInv, NoJob
<1>11. CASE read_funder
  BY <1>11, Zenon DEF read_funder, client, NotifyInv
<1>12. CASE notify_outpoint
  <2>1. view' = view /\ held' = held /\ job.op = "spenders" /\ job' = Scan(job.todo)
    BY <1>12, Zenon DEF notify_outpoint, client
  <2>2. job.point \in held /\ job.todo \subseteq held /\ job.todo \in SUBSET Outpoint
    BY <1>1, <2>1, Zenon DEF NotifyInv
  <2>3. /\ Scan(job.todo).op \in {"none", "outpoint"}
        /\ Scan(job.todo).op = "outpoint" => job.todo = Scan(job.todo).todo \union {Scan(job.todo).point}
    BY <2>2, ScanType, Zenon
  <2>4. SubscribesAfter(view, posts, job.point, Len(posts))  BY <2>1, <2>2, Zenon DEF NotifyInv
  <2>5. posts' = posts \/ \E p \in Message : p.op = "notify" /\ p.point = job.point /\ Gains(posts, posts', p)
    BY <1>12, NotifyPost, Zenon DEF Gains
  <2>6. /\ Ordered(view, posts) => Ordered(view, posts')
        /\ \A o : SubscribesAfter(view, posts, o, Len(posts)) => SubscribesAfter(view, posts', o, Len(posts'))
    <3>1. \A p : p.op = "notify" => \A o : ~Unsubscribes(p, o)  BY Zenon DEF Unsubscribes
    <3> QED  BY <1>1, <2>4, <2>5, <3>1, OrderedAppend, Zenon
  <2> QED  BY <2>1, <2>2, <2>3, <2>6, Zenon DEF NotifyInv
<1> QED
  BY <1>2, <1>3, <1>4, <1>5, <1>6, <1>7, <1>8, <1>9, <1>10, <1>11, <1>12, StepCases, ZenonT(30)

\* A notification reaches the client only between the answers to the subscribe
\* and to the unsubscribe of its outpoint, for any outpoints and any order of
\* the steps of the strands.
THEOREM OutpointNotifiedWhileSubscribedTheorem == SpecAll => []OutpointNotifiedWhileSubscribed
<1> DEFINE I == TypeInv /\ OneInv /\ NotifyInv
<1>1. InitAll => I  BY InitTypes, InitOne, InitNotify, Zenon
<1>2. I /\ [NextAll]_all => I'  BY NextTypes, NextOne, NextNotify, Zenon
<1>3. I => OutpointNotifiedWhileSubscribed
  <2> SUFFICES ASSUME TypeInv, NotifyInv, posts # <<>>, Head(posts).op = "notify"
               PROVE  view[Head(posts).point] # Unsub
    BY Zenon DEF OutpointNotifiedWhileSubscribed, Posted
  <2>1. Head(posts) = posts[1] /\ 1 \in 1..Len(posts)  BY TailFacts DEF TypeInv, StrandType
  <2>2. SubscribesAfter(view, posts, posts[1].point, 0)  BY <2>1 DEF NotifyInv, Ordered
  <2> QED  BY <2>1, <2>2 DEF SubscribesAfter
<1> QED  BY <1>1, <1>2, <1>3, PTL DEF SpecAll

-----------------------------------------------------------------------------
(* The histories that the strand holds.                                    *)

\* An entry is a history of the output: transactions stay archived, so its
\* spenders are among the present ones.
HistoryOf(o, e) ==
    /\ ~e.valid => e = NotFound
    /\ e.valid => Archived(Funder[o])
    /\ \A s \in e.spenders : Archived(s.tx) /\ Spends[s.tx] = o
    /\ \A s, t \in e.spenders : s.tx = t.tx => s = t
HistoryInv ==
    /\ \A o \in Outpoint : HistoryOf(o, sub[o])
    /\ job.op \in {"subscribe", "spenders"} /\ job.funder.valid => Archived(Funder[job.point])

\* A transaction stays archived: a block that is disconnected returns its
\* transactions to the pool.
LEMMA ArchivedStays ==
    ASSUME TypeInv, [NextAll]_all, NEW t, Archived(t) PROVE Archived(t)'
<1>1. chain \in Seq(Block) /\ Len(chain) \in Nat  BY DEF TypeInv, NodeType
<1>2. CASE UNCHANGED <<chain, pool>>
  BY <1>2, Zenon DEF Archived, Confirms
<1>3. CASE Disconnect
  <2> DEFINE n == Len(chain)
  <2>1. n >= 1 /\ chain' = SubSeq(chain, 1, n - 1) /\ pool' = pool \union chain[n].txs
    BY <1>1, <1>3 DEF Disconnect
  <2>2. Len(chain') = n - 1 /\ \A h \in 1..(n - 1) : chain'[h] = chain[h]
    <3> HIDE DEF n
    <3>0. n \in Nat /\ n >= 1  BY <1>1, <2>1, Zenon DEF n
    <3>1. Len(SubSeq(chain, 1, n - 1)) = n - 1  BY <3>0
    <3>2. \A h \in 1..(n - 1) : SubSeq(chain, 1, n - 1)[h] = chain[h]  BY <3>0
    <3> QED  BY <2>1, <3>1, <3>2, Zenon
  <2>3. ASSUME NEW h \in 1..n, t \in chain[h].txs PROVE Archived(t)'
    <3>1. CASE h = n
      BY <2>1, <2>3, <3>1, Zenon DEF Archived
    <3>2. CASE h # n
      <4>1. h \in 1..(n - 1)  BY <1>1, <3>2, SMTT(30)
      <4> QED  BY <2>2, <2>3, <4>1, Zenon DEF Archived, Confirms
    <3> QED  BY <3>1, <3>2, Zenon
  <2> QED  BY <2>1, <2>3, Zenon DEF Archived, Confirms
<1>4. ASSUME NEW u \in Tx, AcceptTx(u) PROVE Archived(t)'
  BY <1>4, Zenon DEF AcceptTx, Archived, Confirms
<1>5. ASSUME NEW txs \in SUBSET Tx, Organize(txs) PROVE Archived(t)'
  <2> DEFINE n == Len(chain)
             block == [txs |-> txs, hash |-> serial + 1]
  <2>1. block \in Block /\ block.txs = txs  BY DEF Block, TypeInv, NodeType
  <2>2. chain' = Append(chain, block) /\ pool' = pool \ txs  BY <1>5, Zenon DEF Organize
  <2> HIDE DEF block
  <2>3. /\ Len(chain') = n + 1 /\ chain'[n + 1] = block
        /\ \A h \in 1..n : chain'[h] = chain[h]
    BY <1>1, <2>1, <2>2, AppendFacts, SMTT(30)
  <2>4. n + 1 \in 1..(n + 1) /\ \A h \in 1..n : h \in 1..(n + 1)  BY <1>1
  <2>5. CASE t \in txs
    BY <2>1, <2>3, <2>4, <2>5, Zenon DEF Archived, Confirms
  <2>6. CASE t \in pool \ txs
    BY <2>2, <2>6, Zenon DEF Archived
  <2>7. ASSUME NEW h \in 1..n, t \in chain[h].txs PROVE Archived(t)'
    BY <2>3, <2>4, <2>7, Zenon DEF Archived, Confirms
  <2> QED  BY <2>5, <2>6, <2>7, ZenonT(30) DEF Archived, Confirms
<1> QED
  <2>1. \/ UNCHANGED <<chain, pool>> \/ Disconnect
        \/ (\E u \in Tx : AcceptTx(u)) \/ (\E txs \in SUBSET Tx : Organize(txs))
    BY StepCases, Zenon DEF node, Upgrade, handle_chase, handle_blockchain_outpoint_subscribe,
       handle_blockchain_outpoint_unsubscribe, handle_blockchain_headers_subscribe,
       handle_blockchain_number_of_blocks_subscribe, store_header, send_height, do_height,
       do_header, complete_outpoint_subscribe, complete_outpoint_unsubscribe, outpoint_notify,
       refuse_outpoint_subscribe, do_outpoint_subscribe, emplace_outpoint, store_outpoint,
       do_outpoint_unsubscribe, do_outpoint, read_funder, notify_outpoint
  <2> QED  BY <1>2, <1>3, <1>4, <1>5, <2>1, Zenon

\* What get_outpoint_history returns is a history of the output.
LEMMA ReadHistory ==
    ASSUME NEW o, NEW f, f.valid => Archived(Funder[o])
    PROVE  HistoryOf(o, get_outpoint_history(o, f))
<1>1. CASE ~f.valid
  <2>1. get_outpoint_history(o, f) = NotFound  BY <1>1, Zenon DEF get_outpoint_history
  <2>2. ~NotFound.valid /\ NotFound.spenders = {}  BY Zenon DEF NotFound
  <2> QED  BY <2>1, <2>2, Zenon DEF HistoryOf
<1>2. CASE f.valid
  <2> DEFINE e == get_outpoint_history(o, f)
  <2>1. e.valid /\ e.spenders = SpendersOf(o)  BY <1>2, Zenon DEF get_outpoint_history
  <2>2. \A s \in SpendersOf(o) : Archived(s.tx) /\ Spends[s.tx] = o /\ s = [tx |-> s.tx, height |-> TxHeight(s.tx)]
    BY DEF SpendersOf
  <2> HIDE DEF e
  <2> QED  BY <1>2, <2>1, <2>2 DEF HistoryOf, e
<1> QED  BY <1>1, <1>2, Zenon

\* A history of the output stays one.
LEMMA HistoryStays ==
    ASSUME TypeInv, [NextAll]_all, NEW o, NEW e, HistoryOf(o, e)
    PROVE  HistoryOf(o, e)'
BY ArchivedStays, ZenonT(30) DEF HistoryOf

\* No entry and nothing read at the start.
LEMMA InitHistory == InitAll => HistoryInv
<1>1. ~NotFound.valid /\ NotFound.spenders = {}  BY Zenon DEF NotFound
<1> QED  BY <1>1 DEF InitAll, Idle, HistoryInv, HistoryOf, NoJob

\* Every step keeps the histories.
LEMMA NextHistory == ASSUME TypeInv, HistoryInv, [NextAll]_all PROVE HistoryInv'
<1>1. /\ sub \in [Outpoint -> Entry] /\ held \subseteq Outpoint /\ job \in Running
      /\ jobs # <<>> => Head(jobs) \in Task
  BY TailFacts, Zenon DEF TypeInv, StrandType
<1>2. CASE UNCHANGED <<job, sub>>
  BY <1>2, ArchivedStays, HistoryStays, Zenon DEF HistoryInv
<1>3. CASE do_outpoint_subscribe
  <2>1. /\ sub' = sub /\ chain' = chain /\ pool' = pool
        /\ job'.funder = FunderOf(job'.point)
    BY <1>3, Zenon DEF do_outpoint_subscribe, node
  <2>2. job'.funder.valid => Archived(Funder[job'.point])  BY <2>1 DEF FunderOf
  <2> QED  BY <2>1, <2>2, ArchivedStays, HistoryStays, Zenon DEF HistoryInv
<1>4. CASE emplace_outpoint
  <2> DEFINE o == job.point
             out == get_outpoint_history(o, job.funder)
  <2>1. o \in Outpoint  BY <1>4, JobFields, Zenon DEF emplace_outpoint
  <2>2. HistoryOf(o, out)  BY <1>4, ReadHistory, Zenon DEF emplace_outpoint, HistoryInv
  <2>3. /\ job'.op = "store"
        /\ sub' = sub \/ sub' = [sub EXCEPT ![o] = out]
    BY <1>4, Zenon DEF emplace_outpoint
  <2> HIDE DEF out, o
  <2>4. \A k \in Outpoint : HistoryOf(k, sub'[k])
    BY <1>1, <2>1, <2>2, <2>3, Zenon DEF HistoryInv
  <2> QED  BY <2>3, <2>4, HistoryStays, Zenon DEF HistoryInv
<1>5. CASE store_outpoint
  BY <1>5, HistoryStays, Zenon DEF store_outpoint, HistoryInv, NoJob
<1>6. CASE do_outpoint
  BY <1>1, <1>6, ScanType, HistoryStays, Zenon DEF do_outpoint, HistoryInv
<1>7. CASE read_funder
  <2>1. /\ sub' = sub /\ chain' = chain /\ pool' = pool /\ job'.point = job.point
        /\ job'.funder = FunderOf(job.point)
    BY <1>7, Zenon DEF read_funder, node
  <2>2. job'.funder.valid => Archived(Funder[job'.point])  BY <2>1 DEF FunderOf
  <2> QED  BY <2>1, <2>2, ArchivedStays, HistoryStays, Zenon DEF HistoryInv
<1>8. CASE notify_outpoint
  <2> DEFINE o == job.point
             out == get_outpoint_history(o, job.funder)
  <2>1. o \in Outpoint /\ job.todo \in SUBSET Outpoint
    BY <1>8, JobFields, Zenon DEF notify_outpoint
  <2>2. HistoryOf(o, out)  BY <1>8, ReadHistory, Zenon DEF notify_outpoint, HistoryInv
  <2>3. /\ job' = Scan(job.todo)
        /\ sub' = sub \/ sub' = [sub EXCEPT ![o] = out]
    BY <1>8, Zenon DEF notify_outpoint
  <2> HIDE DEF out, o
  <2>4. \A k \in Outpoint : HistoryOf(k, sub'[k])
    BY <1>1, <2>1, <2>2, <2>3, Zenon DEF HistoryInv
  <2>5. job'.op \in {"none", "outpoint"}  BY <2>1, <2>3, ScanType, Zenon
  <2> QED  BY <2>4, <2>5, HistoryStays, Zenon DEF HistoryInv
<1> QED
  <2>1. \/ UNCHANGED <<job, sub>>
        \/ do_outpoint_subscribe \/ emplace_outpoint \/ store_outpoint
        \/ do_outpoint \/ read_funder \/ notify_outpoint
    BY StepCases, Zenon DEF protocol, strand, Upgrade, Disconnect, AcceptTx, Organize, handle_chase,
       handle_blockchain_outpoint_subscribe,
       handle_blockchain_outpoint_unsubscribe, handle_blockchain_headers_subscribe,
       handle_blockchain_number_of_blocks_subscribe, store_header, send_height, do_height,
       do_header, complete_outpoint_subscribe, complete_outpoint_unsubscribe, outpoint_notify,
       refuse_outpoint_subscribe, do_outpoint_unsubscribe
  <2> QED  BY <1>2, <1>3, <1>4, <1>5, <1>6, <1>7, <1>8, <2>1, ZenonT(30)

-----------------------------------------------------------------------------
(* The client's view follows the entries of the strand.                    *)

\* The client's view of o after post p.
Told(p, o, v) ==
    IF Subscribes(p, o) THEN p.sub
    ELSE IF Unsubscribes(p, o) THEN Unsub
    ELSE IF p.op = "notify" /\ p.point = o
         THEN [valid |-> TRUE, height |-> p.height,
               spenders |-> {s \in v.spenders : \A n \in p.spenders : n.tx # s.tx} \union p.spenders]
    ELSE v

\* v lists the views of o that a client has, from x, as the posts of s are sent.
Trail(x, s, o, v) ==
    /\ v = [i \in 0..Len(s) |-> v[i]]
    /\ v[0] = x
    /\ \A i \in 1..Len(s) : v[i] = Told(s[i], o, v[i - 1])

\* The posts bring the client to the entry of the strand, unless the answer was
\* another (a repeated subscription, or several spenders over http) or is yet to
\* be posted.
Follows(o) == o \in held \ diverged /\ ~(job.op = "store" /\ job.point = o)
ViewInv ==
    /\ \A o \in Outpoint : \E v : Trail(view[o], posts, o, v) /\ (Follows(o) => v[Len(posts)] = sub[o])
    /\ job.op = "store" /\ job.point \notin diverged => sub[job.point] = job.sub

\* The difference that notify_outpoint sends brings the client to the history
\* that was read.
LEMMA DifferenceTold ==
    ASSUME NEW o, NEW f, NEW e, HistoryOf(o, e), e.spenders \subseteq Spender,
           NEW out, out = get_outpoint_history(o, f), out.valid,
           NEW p, p.op = "notify", p.point = o, p.height = out.height,
           p.spenders = Changed(e, out)
    PROVE  Told(p, o, e) = out
<1> DEFINE old == {s \in e.spenders : \A n \in p.spenders : n.tx # s.tx}
<1>1. f.valid /\ out = [valid |-> TRUE, height |-> f.height, spenders |-> SpendersOf(o)]
  BY Zenon DEF get_outpoint_history, NotFound
<1>2. out.spenders = SpendersOf(o)  BY <1>1
<1>3. \A s \in e.spenders : \E n \in SpendersOf(o) : n.tx = s.tx
  <2> SUFFICES ASSUME NEW s \in e.spenders PROVE \E n \in SpendersOf(o) : n.tx = s.tx  BY Zenon
  <2>1. s.tx \in Tx /\ Archived(s.tx) /\ Spends[s.tx] = o  BY Zenon DEF HistoryOf, Spender
  <2>2. [tx |-> s.tx, height |-> TxHeight(s.tx)] \in SpendersOf(o)
    BY <2>1, Zenon DEF SpendersOf
  <2> QED  BY <2>2, Zenon
<1>4. \A m, n \in SpendersOf(o) : m.tx = n.tx => m = n  BY DEF SpendersOf
<1>5. old \union p.spenders = SpendersOf(o)
  <2>1. CASE ~e.valid
    <3>1. e.spenders = {}  BY <2>1 DEF HistoryOf, NotFound
    <3>2. p.spenders = SpendersOf(o)  BY <1>2, <2>1, Zenon DEF Changed
    <3> QED  BY <3>1, <3>2, ZenonT(30)
  <2>2. CASE e.valid /\ e.height # out.height
    <3>1. p.spenders = SpendersOf(o)  BY <1>2, <2>2, Zenon DEF Changed
    <3>2. old = {}  BY <1>3, <3>1, Zenon
    <3> QED  BY <3>1, <3>2, Zenon
  <2>3. CASE e.valid /\ e.height = out.height
    <3>1. p.spenders = SpendersOf(o) \ e.spenders  BY <1>2, <2>3, Zenon DEF Changed
    <3>2. \A s, t \in e.spenders : s.tx = t.tx => s = t  BY Zenon DEF HistoryOf
    <3>3. old \subseteq SpendersOf(o)  BY <1>3, <3>1, <3>2, Zenon
    <3>4. \A n \in SpendersOf(o) : n \in e.spenders => n \in old  BY <1>4, <3>1, Zenon
    <3> QED  BY <3>1, <3>3, <3>4, Zenon
  <2> QED  BY <2>1, <2>2, <2>3, Zenon
<1>6. ~Subscribes(p, o) /\ ~Unsubscribes(p, o)  BY Zenon DEF Subscribes, Unsubscribes
<1>7. Told(p, o, e) = [valid |-> TRUE, height |-> p.height, spenders |-> old \union p.spenders]
  BY <1>6, ZenonT(30) DEF Told
<1>8. p.height = f.height  BY <1>1
<1> HIDE DEF old
<1> QED  BY ONLY <1>1, <1>5, <1>7, <1>8, Zenon

\* A post is appended to the trail.
LEMMA TrailAppend ==
    ASSUME NEW s \in Seq(Message), NEW p \in Message, NEW t, Gains(s, t, p),
           NEW x, NEW o, NEW v, Trail(x, s, o, v)
    PROVE  \E u : Trail(x, t, o, u) /\ u[Len(t)] = Told(p, o, v[Len(s)])
<1> DEFINE n == Len(s)
           u == [i \in 0..(n + 1) |-> IF i = n + 1 THEN Told(p, o, v[n]) ELSE v[i]]
<1>1. /\ Len(t) = n + 1 /\ n \in Nat /\ t[n + 1] = p
      /\ \A i \in 1..n : t[i] = s[i]
  BY AppendFacts, SMTT(30) DEF Gains
<1>2. u[n + 1] = Told(p, o, v[n]) /\ \A i \in 0..n : u[i] = v[i]  BY <1>1
<1>3. u = [i \in 0..(n + 1) |-> u[i]]  BY <1>1, Zenon
<1> HIDE DEF u
<1>4. u[0] = x  BY <1>1, <1>2, SMTT(30) DEF Trail
<1>5. \A i \in 1..(n + 1) : u[i] = Told(t[i], o, u[i - 1])
  <2> SUFFICES ASSUME NEW i \in 1..(n + 1) PROVE u[i] = Told(t[i], o, u[i - 1])  BY Zenon
  <2>1. i - 1 \in 0..n /\ u[i - 1] = v[i - 1]  BY <1>1, <1>2, SMTT(30)
  <2>2. CASE i = n + 1
    <3>1. i - 1 = n  BY <1>1, <2>2, SMTT(30)
    <3> QED  BY <1>1, <1>2, <2>1, <2>2, <3>1, ZenonT(30)
  <2>3. CASE i # n + 1
    <3>1. i \in 1..n /\ i \in 0..n  BY <1>1, <2>3
    <3> QED  BY <1>1, <1>2, <2>1, <3>1, ZenonT(30) DEF Trail
  <2> QED  BY <2>2, <2>3, Zenon
<1> QED  BY <1>1, <1>2, <1>3, <1>4, <1>5, ZenonT(30) DEF Trail

\* The first post of the trail is sent.
LEMMA TrailTail ==
    ASSUME NEW s \in Seq(Message), s # <<>>, NEW x, NEW o, NEW v, Trail(x, s, o, v)
    PROVE  \E u : Trail(Told(Head(s), o, x), Tail(s), o, u) /\ u[Len(Tail(s))] = v[Len(s)]
<1> DEFINE t == Tail(s)
           n == Len(s)
           u == [i \in 0..(n - 1) |-> v[i + 1]]
<1>1. /\ Head(s) = s[1] /\ n \in Nat /\ n >= 1 /\ Len(t) = n - 1
      /\ \A i \in 1..(n - 1) : t[i] = s[i + 1]
  BY TailFacts, Zenon
<1> HIDE DEF t
<1>2. \A i \in 0..(n - 1) : u[i] = v[i + 1]  BY Zenon
<1>3. u = [i \in 0..(n - 1) |-> u[i]]  BY Zenon
<1> HIDE DEF u
<1>4. u[0] = Told(Head(s), o, x)
  <2>1. 0 \in 0..(n - 1) /\ 1 \in 1..n /\ 0 + 1 = 1 /\ 1 - 1 = 0  BY <1>1
  <2>2. v[1] = Told(s[1], o, v[0])  BY <2>1, Zenon DEF Trail
  <2> QED  BY <1>1, <1>2, <2>1, <2>2, Zenon DEF Trail
<1>5. u[n - 1] = v[n]
  <2>1. n - 1 \in 0..(n - 1) /\ (n - 1) + 1 = n  BY <1>1
  <2> QED  BY <1>2, <2>1, Zenon
<1>6. \A i \in 1..(n - 1) : u[i] = Told(t[i], o, u[i - 1])
  <2> SUFFICES ASSUME NEW i \in 1..(n - 1) PROVE u[i] = Told(t[i], o, u[i - 1])  BY Zenon
  <2>1. i \in 0..(n - 1) /\ i - 1 \in 0..(n - 1) /\ (i - 1) + 1 = i /\ i + 1 \in 1..n /\ (i + 1) - 1 = i
    BY <1>1
  <2>2. u[i] = v[i + 1] /\ u[i - 1] = v[i]  BY <1>2, <2>1, Zenon
  <2>3. v[i + 1] = Told(s[i + 1], o, v[i])  BY <2>1, Zenon DEF Trail
  <2> QED  BY <1>1, <2>2, <2>3, Zenon
<1> QED  BY <1>1, <1>3, <1>4, <1>5, <1>6, Zenon DEF Trail, t

\* The client takes the first post, but for an answer over http of which it
\* receives a part.
LEMMA SentTold ==
    ASSUME TypeInv, HalfInv,
           \/ do_height \/ do_header
           \/ complete_outpoint_subscribe \/ complete_outpoint_unsubscribe \/ outpoint_notify,
           NEW o \in Outpoint
    PROVE  /\ diverged \subseteq diverged'
           /\ \/ view'[o] = Told(Head(posts), o, view[o])
              \/ ~duplex /\ o \in diverged' /\ Continues(Head(posts))
<1> DEFINE p == Head(posts)
<1>1. posts # <<>>
  BY Zenon DEF do_height, do_header, complete_outpoint_subscribe, complete_outpoint_unsubscribe,
     outpoint_notify, Posted
<1>2. p \in Message /\ view = [k \in Outpoint |-> view[k]]
  BY <1>1, TailFacts, Zenon DEF TypeInv, StrandType, ChannelType
<1>3. CASE do_height \/ do_header
  <2>1. view' = view /\ diverged' = diverged /\ p.op \in {"height", "header"}
    BY <1>3, Zenon DEF do_height, do_header, Posted
  <2> QED  BY <2>1, Zenon DEF Told, Subscribes, Unsubscribes
<1>4. CASE complete_outpoint_subscribe
  <2>1. p.op = "subscribed"  BY <1>4, Zenon DEF complete_outpoint_subscribe, Posted
  <2>2. CASE ~p.ok
    <3>1. view' = view /\ diverged' = diverged
      BY <1>4, <2>2, Zenon DEF complete_outpoint_subscribe
    <3> QED  BY <2>1, <2>2, <3>1, Zenon DEF Told, Subscribes, Unsubscribes
  <2>3. CASE p.ok
    <3>1. PICK out \in Received(p.sub) :
            /\ view' = [view EXCEPT ![p.point] = out]
            /\ diverged' = diverged \union IF out = p.sub THEN {} ELSE {p.point}
      BY <1>4, <2>3, Zenon DEF complete_outpoint_subscribe
    <3>2. diverged \subseteq diverged'  BY <3>1, Zenon
    <3>3. CASE p.point # o
      <4>1. view'[o] = view[o]  BY <1>2, <3>1, <3>3, Zenon
      <4> QED  BY <2>1, <3>2, <3>3, <4>1, Zenon DEF Told, Subscribes, Unsubscribes
    <3>4. CASE p.point = o /\ out = p.sub
      <4>1. view'[o] = p.sub  BY <1>2, <3>1, <3>4, Zenon
      <4> QED  BY <2>1, <2>3, <3>2, <3>4, <4>1, Zenon DEF Told, Subscribes
    <3>5. CASE p.point = o /\ out # p.sub
      <4>1. ~duplex  BY <3>1, <3>5, Zenon DEF Received
      <4>2. o \in diverged'  BY <3>1, <3>5, Zenon
      <4> QED  BY <2>1, <3>2, <4>1, <4>2, Zenon DEF Continues
    <3> QED  BY <3>3, <3>4, <3>5, Zenon
  <2> QED  BY <2>2, <2>3, Zenon
<1>5. CASE complete_outpoint_unsubscribe
  <2>1. p.op = "unsubscribed" /\ diverged' = diverged
    BY <1>5, Zenon DEF complete_outpoint_unsubscribe, Posted, histories
  <2>2. CASE p.point = o
    <3>1. view'[o] = Unsub  BY <1>2, <1>5, <2>2, Zenon DEF complete_outpoint_unsubscribe
    <3> QED  BY <2>1, <2>2, <3>1, Zenon DEF Told, Subscribes, Unsubscribes
  <2>3. CASE p.point # o
    <3>1. view'[o] = view[o]  BY <1>2, <1>5, <2>3, Zenon DEF complete_outpoint_unsubscribe
    <3> QED  BY <2>1, <2>3, <3>1, Zenon DEF Told, Subscribes, Unsubscribes
  <2> QED  BY <2>2, <2>3, Zenon
<1>6. CASE outpoint_notify
  <2>1. p.op = "notify" /\ diverged' = diverged
    BY <1>6, Zenon DEF outpoint_notify, Posted, histories
  <2>0. duplex
    <3>1. p = posts[1] /\ 1 \in 1..Len(posts)  BY <1>1 DEF TypeInv, StrandType
    <3> QED  BY <2>1, <3>1, Zenon DEF HalfInv, None
  <2>2. CASE p.point = o
    <3>1. view'[o] = [valid |-> TRUE, height |-> p.height,
                      spenders |-> {s \in view[o].spenders : \A n \in p.spenders : n.tx # s.tx}
                                     \union p.spenders]
      BY <1>2, <1>6, <2>0, <2>2, Zenon DEF outpoint_notify
    <3> QED  BY <2>1, <2>2, <3>1, Zenon DEF Told, Subscribes, Unsubscribes
  <2>3. CASE p.point # o
    <3>1. view'[o] = view[o]  BY <1>2, <1>6, <2>3, Zenon DEF outpoint_notify
    <3> QED  BY <2>1, <2>3, <3>1, Zenon DEF Told, Subscribes, Unsubscribes
  <2> QED  BY <2>2, <2>3, Zenon
<1> QED  BY <1>3, <1>4, <1>5, <1>6, Zenon

\* The answer to a request over http is the only post.
LEMMA LastPost ==
    ASSUME TypeInv, HalfInv, OneInv, ~duplex, posts # <<>>, Continues(Head(posts))
    PROVE  Tail(posts) = <<>>
<1> SUFFICES ASSUME Tail(posts) # <<>> PROVE FALSE  BY Zenon
<1>1. posts \in Seq(Message) /\ Tail(posts) \in Seq(Message)
  BY TailFacts, Zenon DEF TypeInv, StrandType
<1>2. NoneOf(Tail(posts))  BY <1>1, TailOne, Zenon DEF OneInv
<1>3. /\ 1 \in 1..Len(Tail(posts)) /\ Tail(posts)[1] \in Message
      /\ 2 \in 1..Len(posts) /\ Tail(posts)[1] = posts[2]
  BY <1>1
<1>4. ~Continues(posts[2]) /\ posts[2] \in Message  BY <1>2, <1>3, Zenon DEF NoneOf
<1>5. posts[2].op \in {"height", "header", "notify"}  BY <1>4, Zenon DEF Continues, Message
<1> QED  BY <1>3, <1>5, Zenon DEF HalfInv, None

\* With no post the client keeps its view.
LEMMA TrailEmpty == ASSUME NEW x, NEW o PROVE \E v : Trail(x, <<>>, o, v)
<1> DEFINE v == [i \in 0..0 |-> x]
<1>1. v = [i \in 0..0 |-> v[i]] /\ v[0] = x  BY SMTT(30)
<1> HIDE DEF v
<1>2. Trail(x, <<>>, o, v)  BY <1>1, SMTT(30) DEF Trail
<1> QED  BY <1>2, Zenon

\* No post and no view at the start.
LEMMA InitView == InitAll => ViewInv
<1> SUFFICES ASSUME InitAll PROVE ViewInv  BY Zenon
<1>1. posts = <<>> /\ held = {} /\ job.op = "none"  BY Zenon DEF InitAll, Idle, NoJob
<1>2. \A o \in Outpoint : \E v : Trail(view[o], posts, o, v) /\ ~Follows(o)
  BY <1>1, TrailEmpty, Zenon DEF Follows
<1> QED  BY <1>1, <1>2, Zenon DEF ViewInv

\* Every step keeps the posts leading to the entries of the strand.
LEMMA NextView ==
    ASSUME TypeInv, HalfInv, OneInv, HistoryInv, NotifyInv, ViewInv, [NextAll]_all
    PROVE  ViewInv'
<1>1. /\ posts \in Seq(Message) /\ held \subseteq Outpoint /\ sub \in [Outpoint -> Entry]
      /\ jobs # <<>> => Head(jobs) \in Task
  BY TailFacts, Zenon DEF TypeInv, StrandType
<1>2. CASE UNCHANGED <<view, posts, held, sub, job, diverged>>
  BY <1>2, Zenon DEF ViewInv, Follows
<1>3. CASE handle_chase
  <2>1. PICK mid \in Seq(Message) :
          /\ mid = posts \/ \E a \in Message : a.op \in {"height", "header"} /\ Gains(posts, mid, a)
          /\ posts' = mid \/ \E b \in Message : b.op \in {"height", "header"} /\ Gains(mid, posts', b)
    BY <1>3, ChasePosts, Zenon
  <2>2. UNCHANGED <<view, held, sub, job, diverged>>  BY <1>3, Zenon DEF handle_chase, client
  <2>3. \A a \in Message : a.op \in {"height", "header"} => \A o, v : Told(a, o, v) = v
    BY ZenonT(30) DEF Told, Subscribes, Unsubscribes
  <2>4. ASSUME NEW o \in Outpoint
        PROVE  \E v : Trail(view[o], posts', o, v) /\ (Follows(o) => v[Len(posts')] = sub[o])
    <3>1. PICK v : Trail(view[o], posts, o, v) /\ (Follows(o) => v[Len(posts)] = sub[o])
      BY ZenonT(30) DEF ViewInv
    <3>2. \E u : Trail(view[o], mid, o, u) /\ u[Len(mid)] = v[Len(posts)]
      BY <1>1, <2>1, <2>3, <3>1, TrailAppend, SMTT(30)
    <3>3. \E u : Trail(view[o], posts', o, u) /\ u[Len(posts')] = v[Len(posts)]
      BY <2>1, <2>3, <3>2, TrailAppend, SMTT(30)
    <3> QED  BY <3>1, <3>3, Zenon
  <2> QED  BY <2>2, <2>4, Zenon DEF ViewInv, Follows
<1>4. CASE \/ do_height \/ do_header
           \/ complete_outpoint_subscribe \/ complete_outpoint_unsubscribe \/ outpoint_notify
  <2>1. posts # <<>> /\ posts' = Tail(posts) /\ UNCHANGED <<held, sub, job>>
    BY <1>4, SentView, Zenon DEF strand
  <2>2. \A o \in Outpoint : Follows(o)' => Follows(o) /\ o \notin diverged'
    BY <1>4, <2>1, SentTold, Zenon DEF Follows
  <2>3. ASSUME NEW o \in Outpoint
        PROVE  \E v : Trail(view'[o], Tail(posts), o, v) /\ (Follows(o)' => v[Len(Tail(posts))] = sub[o])
    <3>1. PICK v : Trail(view[o], posts, o, v) /\ (Follows(o) => v[Len(posts)] = sub[o])
      BY Zenon DEF ViewInv
    <3>2. CASE view'[o] = Told(Head(posts), o, view[o])
      <4>1. posts # <<>>  BY <2>1, Zenon
      <4>2. \E u : /\ Trail(Told(Head(posts), o, view[o]), Tail(posts), o, u)
                  /\ u[Len(Tail(posts))] = v[Len(posts)]
        BY <1>1, <3>1, <4>1, TrailTail, SMTT(30)
      <4> QED  BY <2>2, <3>1, <3>2, <4>2, Zenon
    <3>3. CASE ~duplex /\ o \in diverged' /\ Continues(Head(posts))
      <4>1. Tail(posts) = <<>>  BY <2>1, <3>3, LastPost, Zenon
      <4> QED  BY <2>2, <3>3, <4>1, TrailEmpty, Zenon
    <3> QED  BY <1>4, <3>2, <3>3, SentTold, Zenon
  <2>4. job.op = "store" /\ job.point \notin diverged' => sub[job.point] = job.sub
    <3>1. job.op = "store" => job.point \in Outpoint  BY JobFields, Zenon
    <3> QED  BY <1>4, <3>1, SentTold, Zenon DEF ViewInv
  <2> QED  BY <2>1, <2>3, <2>4, Zenon DEF ViewInv
<1>5. ASSUME NEW p \in Message, Gains(posts, posts', p), view' = view,
             \A o \in Outpoint : Follows(o)' =>
                \/ Follows(o) /\ Told(p, o, sub[o]) = sub'[o]
                \/ Subscribes(p, o) /\ p.sub = sub'[o],
             job'.op # "store"
      PROVE  ViewInv'
  <2>1. ASSUME NEW o \in Outpoint
        PROVE  \E u : Trail(view[o], posts', o, u) /\ (Follows(o)' => u[Len(posts')] = sub'[o])
    <3>1. PICK v : Trail(view[o], posts, o, v) /\ (Follows(o) => v[Len(posts)] = sub[o])
      BY ZenonT(30) DEF ViewInv
    <3>2. PICK u : Trail(view[o], posts', o, u) /\ u[Len(posts')] = Told(p, o, v[Len(posts)])
      BY <1>1, <1>5, <3>1, TrailAppend, SMTT(30)
    <3>3. Subscribes(p, o) => u[Len(posts')] = p.sub  BY <3>2, Zenon DEF Told
    <3> QED  BY <1>5, <3>1, <3>2, <3>3, Zenon
  <2> QED  BY <1>5, <2>1, Zenon DEF ViewInv
<1>6. CASE refuse_outpoint_subscribe
  <2> DEFINE p == [op |-> "subscribed", ok |-> FALSE]
  <2>1. p \in Message /\ \A o, v : Told(p, o, v) = v
    BY Zenon DEF Message, Told, Subscribes, Unsubscribes
  <2>2. Gains(posts, posts', p) /\ UNCHANGED <<view, held, sub, job, diverged>> /\ job.op = "none"
    BY <1>6, Zenon DEF refuse_outpoint_subscribe, Gains, client, histories, Job, NoJob
  <2> HIDE DEF p
  <2>3. \A o \in Outpoint : Follows(o)' => Follows(o) /\ Told(p, o, sub[o]) = sub'[o]
    BY <2>1, <2>2, Zenon DEF Follows
  <2> QED  BY <1>5, <2>1, <2>2, <2>3, Zenon
<1>7. CASE do_outpoint_subscribe \/ do_outpoint \/ read_funder
  <2>1. UNCHANGED <<view, posts, held, sub, diverged>>
    BY <1>7, Zenon DEF do_outpoint_subscribe, do_outpoint, read_funder, client, histories
  <2>2. job.op # "store"
    <3>1. job = NoJob \/ job.op = "outpoint"
      BY <1>7, Zenon DEF do_outpoint_subscribe, do_outpoint, read_funder, Job
    <3> QED  BY <3>1, SMTT(30) DEF NoJob
  <2>3. job'.op # "store"
    <3>1. CASE do_outpoint_subscribe  BY <3>1, Zenon DEF do_outpoint_subscribe
    <3>2. CASE do_outpoint
      <4>1. Scan(held).op \in {"none", "outpoint"}  BY <1>1, ScanType, Zenon
      <4> QED  BY <3>2, <4>1, Zenon DEF do_outpoint
    <3>3. CASE read_funder  BY <3>3, Zenon DEF read_funder
    <3> QED  BY <1>7, <3>1, <3>2, <3>3, Zenon
  <2> QED  BY <2>1, <2>2, <2>3, ZenonT(30) DEF ViewInv, Follows
<1>8. CASE emplace_outpoint
  <2> DEFINE o == job.point
             out == get_outpoint_history(o, job.funder)
  <2>1. UNCHANGED <<view, posts>> /\ job.op = "subscribe" /\ job'.op = "store" /\ job'.point = o /\ job'.sub = out
    BY <1>8, Zenon DEF emplace_outpoint, client
  <2>2. o \in Outpoint  BY <2>1, JobFields, Zenon
  <2>3. /\ held' = held \union {o}
        /\ sub' = IF o \in held THEN sub ELSE [sub EXCEPT ![o] = out]
        /\ diverged' = IF o \in held /\ sub[o] # out THEN diverged \union {o} ELSE diverged
    BY <1>8, Zenon DEF emplace_outpoint
  <2> HIDE DEF out, o
  <2>4. o \notin diverged' => sub'[o] = out  BY <1>1, <2>2, <2>3, Zenon
  <2>5. \A k \in Outpoint : Follows(k)' => Follows(k) /\ sub'[k] = sub[k]
    BY <1>1, <2>1, <2>3, Zenon DEF Follows
  <2> QED  BY <2>1, <2>4, <2>5, Zenon DEF ViewInv
<1>9. CASE store_outpoint
  <2> DEFINE p == [op |-> "subscribed", ok |-> TRUE, point |-> job.point, sub |-> job.sub]
  <2>1. job.point \in Outpoint /\ job.sub \in Entry
    BY <1>9, JobFields, Zenon DEF store_outpoint
  <2>2. /\ p \in Message /\ Subscribes(p, job.point) /\ p.sub = job.sub
        /\ \A o, v : o # job.point => Told(p, o, v) = v
    BY <2>1, Zenon DEF Message, Told, Unsubscribes, Subscribes
  <2>3. /\ Gains(posts, posts', p) /\ UNCHANGED <<view, held, sub, diverged>>
        /\ job' = NoJob /\ job.op = "store"
    BY <1>9, Zenon DEF store_outpoint, Gains, client, histories
  <2> HIDE DEF p
  <2>4. ASSUME NEW o \in Outpoint, Follows(o)'
        PROVE  \/ Follows(o) /\ Told(p, o, sub[o]) = sub'[o]
               \/ Subscribes(p, o) /\ p.sub = sub'[o]
    BY <2>2, <2>3, <2>4, Zenon DEF Follows, ViewInv
  <2> QED  BY <1>5, <2>2, <2>3, <2>4, Zenon DEF NoJob
<1>10. CASE do_outpoint_unsubscribe
  <2> DEFINE k == Head(jobs).point
             p == [op |-> "unsubscribed", point |-> k]
  <2>1. k \in Outpoint  BY <1>1, <1>10, Zenon DEF do_outpoint_unsubscribe, Job, Task
  <2>2. p \in Message /\ \A o, v : o # k => Told(p, o, v) = v
    BY <2>1, Zenon DEF Message, Told, Subscribes, Unsubscribes
  <2>3. /\ Gains(posts, posts', p) /\ UNCHANGED <<view, sub, job>> /\ job.op = "none"
        /\ held' = held \ {k} /\ diverged' = diverged \ {k}
    BY <1>10, Zenon DEF do_outpoint_unsubscribe, Gains, client, Job, NoJob
  <2> HIDE DEF p, k
  <2>4. \A o \in Outpoint : Follows(o)' => Follows(o) /\ Told(p, o, sub[o]) = sub'[o]
    BY <2>2, <2>3, Zenon DEF Follows
  <2> QED  BY <1>5, <2>2, <2>3, <2>4, Zenon
<1>11. CASE notify_outpoint
  <2> DEFINE o == job.point
             out == get_outpoint_history(o, job.funder)
             p == [op |-> "notify", point |-> o, height |-> out.height, spenders |-> Changed(sub[o], out)]
  <2>1. UNCHANGED <<view, held, diverged>> /\ job.op = "spenders" /\ job' = Scan(job.todo)
    BY <1>11, Zenon DEF notify_outpoint, client, histories
  <2>2. o \in Outpoint /\ job.todo \in SUBSET Outpoint /\ job.funder \in FunderRead
    BY <2>1, JobFields, Zenon
  <2>3. job'.op # "store"  BY <2>1, <2>2, ScanType, Zenon
  <2>4. CASE UNCHANGED <<posts, sub>>
    BY <2>1, <2>3, <2>4, Zenon DEF ViewInv, Follows
  <2>5. CASE ~UNCHANGED <<posts, sub>>
    <3>1. out.valid /\ posts' = Append(posts, p) /\ sub' = [sub EXCEPT ![o] = out]
      BY <1>11, <2>5, Zenon DEF notify_outpoint
    <3>2. out \in Entry  BY <2>2, ReadTypes, Zenon DEF TypeInv
    <3>3. p \in Message  BY <2>2, <3>2, Zenon DEF Message, Entry, Changed
    <3>4. HistoryOf(o, sub[o]) /\ sub[o].spenders \subseteq Spender
      BY <1>1, <2>2, ZenonT(30) DEF HistoryInv, Entry
    <3>5. Told(p, o, sub[o]) = out  BY <3>1, <3>4, DifferenceTold, SMTT(30)
    <3>6. Gains(posts, posts', p)  BY <3>1, Zenon DEF Gains
    <3>7. \A k, v : k # o => Told(p, k, v) = v  BY Zenon DEF Told, Subscribes, Unsubscribes
    <3> HIDE DEF p, out, o
    <3>8. \A k \in Outpoint : Follows(k)' => Follows(k) /\ Told(p, k, sub[k]) = sub'[k]
      BY <1>1, <2>1, <2>2, <3>1, <3>5, <3>7, ZenonT(30) DEF Follows
    <3> QED  BY <1>5, <2>1, <2>3, <3>3, <3>6, <3>8, Zenon
  <2> QED  BY <2>4, <2>5, Zenon
<1> QED
  <2>1. \/ UNCHANGED <<view, posts, held, sub, job, diverged>>
        \/ handle_chase
        \/ do_height \/ do_header
        \/ complete_outpoint_subscribe \/ complete_outpoint_unsubscribe \/ outpoint_notify
        \/ refuse_outpoint_subscribe \/ do_outpoint_subscribe
        \/ emplace_outpoint \/ store_outpoint \/ do_outpoint_unsubscribe
        \/ do_outpoint \/ read_funder \/ notify_outpoint
    BY StepCases, Zenon DEF protocol, client, strand, histories, Disconnect, AcceptTx, Organize,
       handle_blockchain_outpoint_subscribe, handle_blockchain_outpoint_unsubscribe,
       handle_blockchain_headers_subscribe, handle_blockchain_number_of_blocks_subscribe,
       store_header, send_height, Upgrade
  <2> QED  BY <1>2, <1>3, <1>4, <1>6, <1>7, <1>8, <1>9, <1>10, <1>11, <2>1, ZenonT(30)

-----------------------------------------------------------------------------
(* The entries of the strand are current.                                  *)

\* No change of the archive is yet to reach the strand.
Quiet ==
    /\ owed = 0 /\ None(events, "transaction") /\ None(events, "organized")
    /\ None(jobs, "outpoint")

\* Then a history that was read is the present one, unless it is still to be
\* read by the scan or an event was withheld from it.
Covered(o) ==
    \/ job.op \in {"outpoint", "spenders"} /\ (o = job.point \/ o \in job.todo)
    \/ job.op = "subscribe" /\ o = job.point
CurrentInv ==
    Quiet =>
      /\ job.op \in {"subscribe", "spenders"} /\ job.point \notin lost =>
            job.funder = FunderOf(job.point)
      /\ \A o \in held \ (lost \union diverged) : Covered(o) \/ sub[o] = Actual(o)

\* Nothing is held at the start.
LEMMA InitCurrent == InitAll => CurrentInv
BY DEF InitAll, Idle, CurrentInv, NoJob

\* What is read of the archive depends on the chain and the pool alone.
LEMMA ArchiveSame ==
    ASSUME chain' = chain, pool' = pool
    PROVE  \A o : FunderOf(o)' = FunderOf(o) /\ Actual(o)' = Actual(o)
<1>1. \A t : Confirms(t)' = Confirms(t)  BY Zenon DEF Confirms
<1>2. \A t : TxHeight(t)' = TxHeight(t)  BY SMTT(30) DEF TxHeight, Confirms
<1>3. \A t : Archived(t)' = Archived(t)  BY <1>1, Zenon DEF Archived
<1>4. \A o : SpendersOf(o)' = SpendersOf(o)  BY <1>2, <1>3, Zenon DEF SpendersOf
<1>5. \A o : FunderOf(o)' = FunderOf(o)  BY <1>2, <1>3, Zenon DEF FunderOf
<1>6. \A o : Actual(o)' = Actual(o)  BY <1>4, <1>5, Zenon DEF Actual, get_outpoint_history
<1> QED  BY <1>5, <1>6, Zenon

\* The archive and the queues that tell the strand of it are as they were.
LEMMA QuietSame ==
    ASSUME TypeInv, UNCHANGED <<chain, pool, owed, events>>,
           Keeps(Task, jobs, jobs', "outpoint")
    PROVE  /\ Quiet' <=> Quiet
           /\ \A o : FunderOf(o)' = FunderOf(o)
           /\ \A o : Actual(o)' = Actual(o)
<1>1. jobs \in Seq(Task)  BY Zenon DEF TypeInv, StrandType
<1>2. None(jobs', "outpoint") <=> None(jobs, "outpoint")  BY <1>1, KeepsLast, Zenon
<1>3. Quiet' <=> Quiet  BY <1>2, ZenonT(30) DEF Quiet
<1>4. \A o : FunderOf(o)' = FunderOf(o) /\ Actual(o)' = Actual(o)
  BY ArchiveSame, Zenon
<1> QED  BY <1>3, <1>4, Zenon

\* A step of the node is not quiet.
LEMMA NodeCurrent ==
    ASSUME TypeInv,
           Disconnect \/ (\E t \in Tx : AcceptTx(t)) \/ (\E txs \in SUBSET Tx : Organize(txs))
    PROVE  ~Quiet'
<1>1. events \in Seq(Event) /\ owed \in Nat  BY ZenonT(30) DEF TypeInv, NodeType
<1>2. CASE Disconnect
  <2>1. owed' = owed + 1  BY <1>2, Zenon DEF Disconnect
  <2>2. owed' # 0  BY <1>1, <2>1, SMTT(30)
  <2> QED  BY <2>2, Zenon DEF Quiet
<1>3. ASSUME NEW t \in Tx, AcceptTx(t) PROVE ~Quiet'
  <2> DEFINE e == [op |-> "transaction"]
  <2>1. e \in Event /\ e.op = "transaction" /\ Gains(events, events', e)
    BY <1>3, Zenon DEF AcceptTx, Raise, Event, Gains
  <2> HIDE DEF e
  <2> QED  BY <1>1, <2>1, GrowsLast, SMTT(30) DEF Quiet
<1>4. ASSUME NEW txs \in SUBSET Tx, Organize(txs) PROVE ~Quiet'
  <2> DEFINE e == [op |-> "organized", link |-> [height |-> Len(chain) + 1, hash |-> serial + 1]]
  <2>1. e \in Event /\ e.op = "organized"  BY DEF TypeInv, NodeType, Event, Link
  <2>2. Gains(events, events', e)  BY <1>4, Zenon DEF Organize, Raise, Gains
  <2> HIDE DEF e
  <2> QED  BY <1>1, <2>1, <2>2, GrowsLast, SMTT(30) DEF Quiet
<1> QED  BY <1>2, <1>3, <1>4, Zenon

\* An event that is handled queues a scan, or is withheld from all that was read.
LEMMA ChaseCurrent ==
    ASSUME TypeInv, NotifyInv, CurrentInv, handle_chase PROVE CurrentInv'
<1> DEFINE e == Head(events)
<1>1. /\ UNCHANGED <<chain, pool, owed, held, sub, job, diverged>>
      /\ lost' = IF e.op \in {"transaction", "organized"} /\ ~(duplex /\ outpoint_on)
                 THEN lost \union Reading ELSE lost
      /\ events # <<>> /\ events' = Tail(events)
  BY Zenon DEF handle_chase
<1>2. events \in Seq(Event) /\ jobs \in Seq(Task)  BY Zenon DEF TypeInv, NodeType, StrandType
<1>3. jobs' = IF duplex /\ e.op \in {"transaction", "organized"} /\ outpoint_on
              THEN Append(jobs, [op |-> "outpoint"]) ELSE jobs
  BY ChaseCases, Zenon
<1>4. CASE duplex /\ e.op \in {"transaction", "organized"} /\ outpoint_on
  <2> DEFINE x == [op |-> "outpoint"]
  <2>1. x \in Task /\ x.op = "outpoint" /\ Gains(jobs, jobs', x)
    BY <1>3, <1>4, Zenon DEF Task, Gains
  <2> HIDE DEF x
  <2>2. ~None(jobs', "outpoint")  BY <1>2, <2>1, GrowsLast, SMTT(30)
  <2> QED  BY <2>2, Zenon DEF CurrentInv, Quiet
<1>5. CASE e.op \in {"transaction", "organized"} /\ ~(duplex /\ outpoint_on)
  <2>1. held \subseteq lost' /\ (job.op = "subscribe" => job.point \in lost')
    BY <1>1, <1>5, Zenon DEF Reading
  <2>2. job.op = "spenders" => job.point \in lost'  BY <2>1, Zenon DEF NotifyInv
  <2> QED  BY <1>1, <2>1, <2>2, Zenon DEF CurrentInv
<1>6. CASE e.op \notin {"transaction", "organized"}
  <2>1. jobs' = jobs /\ lost' = lost  BY <1>1, <1>3, <1>6, Zenon
  <2>2. Keeps(Event, events, events', "transaction") /\ Keeps(Event, events, events', "organized")
    BY <1>1, <1>6, Zenon DEF Keeps, Drops
  <2>3. /\ None(events', "transaction") <=> None(events, "transaction")
        /\ None(events', "organized") <=> None(events, "organized")
    BY <1>2, <2>2, KeepsLast, Zenon
  <2>4. Quiet' <=> Quiet  BY <1>1, <2>1, <2>3, ZenonT(30) DEF Quiet
  <2>5. \A o : FunderOf(o)' = FunderOf(o) /\ Actual(o)' = Actual(o)
    BY <1>1, ArchiveSame, Zenon
  <2> QED  BY <1>1, <2>1, <2>4, <2>5, Zenon DEF CurrentInv, Covered
<1> QED  BY <1>4, <1>5, <1>6, Zenon

\* Every step keeps what was read current.
LEMMA NextCurrent ==
    ASSUME TypeInv, NotifyInv, HistoryInv, CurrentInv, [NextAll]_all PROVE CurrentInv'
<1>1. /\ jobs \in Seq(Task) /\ held \subseteq Outpoint /\ sub \in [Outpoint -> Entry]
      /\ jobs # <<>> => Head(jobs) \in Task
  BY TailFacts, Zenon DEF TypeInv, StrandType
<1>2. CASE Disconnect \/ (\E t \in Tx : AcceptTx(t)) \/ (\E txs \in SUBSET Tx : Organize(txs))
  BY <1>2, NodeCurrent, Zenon DEF CurrentInv
<1>3. CASE handle_chase
  BY <1>3, ChaseCurrent, Zenon
<1>4. ASSUME UNCHANGED <<chain, pool, owed, events, held, sub, job, lost>>, diverged \subseteq diverged',
             Keeps(Task, jobs, jobs', "outpoint")
      PROVE  CurrentInv'
  BY <1>4, QuietSame, Zenon DEF CurrentInv, Covered
<1>5. CASE \/ UNCHANGED <<node, protocol>> \/ Upgrade
           \/ handle_blockchain_headers_subscribe \/ handle_blockchain_number_of_blocks_subscribe
           \/ store_header \/ send_height \/ do_height \/ do_header
           \/ complete_outpoint_subscribe \/ complete_outpoint_unsubscribe \/ outpoint_notify
  <2>1. UNCHANGED <<chain, pool, owed, events, held, sub, job, lost>> /\ jobs' = jobs
    BY <1>5, ZenonT(30) DEF node, protocol, Upgrade, strand, histories, handle_blockchain_headers_subscribe,
       handle_blockchain_number_of_blocks_subscribe, store_header, send_height, do_height,
       do_header, complete_outpoint_subscribe, complete_outpoint_unsubscribe, outpoint_notify
  <2>2. Keeps(Task, jobs, jobs', "outpoint")  BY <2>1, Zenon DEF Keeps
  <2>3. diverged \subseteq diverged'
    <3>1. CASE complete_outpoint_subscribe
      BY <3>1, Zenon DEF complete_outpoint_subscribe
    <3>2. CASE ~complete_outpoint_subscribe
      <4>1. diverged' = diverged
        BY <1>5, <3>2, ZenonT(30) DEF protocol, histories, Upgrade,
           handle_blockchain_headers_subscribe, handle_blockchain_number_of_blocks_subscribe,
           store_header, send_height, do_height, do_header, complete_outpoint_unsubscribe,
           outpoint_notify
      <4> QED  BY <4>1, Zenon
    <3> QED  BY <3>1, <3>2, Zenon
  <2> QED  BY <1>4, <2>1, <2>2, <2>3, ZenonT(30)
<1>6. ASSUME NEW o \in Outpoint,
             handle_blockchain_outpoint_subscribe(o) \/ handle_blockchain_outpoint_unsubscribe(o)
      PROVE  CurrentInv'
  <2>1. UNCHANGED <<chain, pool, owed, events, held, sub, job, diverged, lost>>
    BY <1>6, Zenon DEF handle_blockchain_outpoint_subscribe,
       handle_blockchain_outpoint_unsubscribe, node,
       histories
  <2>2. \A op \in {"subscribe", "unsubscribe"} :
           LET x == [op |-> op, point |-> o] IN x \in Task /\ x.op # "outpoint"
    BY Zenon DEF Task
  <2>3. Keeps(Task, jobs, jobs', "outpoint")
    BY <1>6, <2>2, Zenon DEF handle_blockchain_outpoint_subscribe,
       handle_blockchain_outpoint_unsubscribe, Keeps, Gains
  <2> QED  BY <1>4, <2>1, <2>3, Zenon
<1>7. CASE refuse_outpoint_subscribe
  <2>1. UNCHANGED <<chain, pool, owed, events, held, sub, job, diverged, lost>>
    BY <1>7, Zenon DEF refuse_outpoint_subscribe, node, histories
  <2>2. Keeps(Task, jobs, jobs', "outpoint")
    BY <1>7, Zenon DEF refuse_outpoint_subscribe, Job, Done, Keeps, Drops
  <2> QED  BY <1>4, <2>1, <2>2, Zenon
<1>8. CASE do_outpoint_subscribe
  <2>1. /\ UNCHANGED <<chain, pool, owed, events, held, sub, diverged>> /\ job.op = "none"
        /\ job'.op = "subscribe" /\ job'.funder = FunderOf(job'.point) /\ lost' = lost \ {job'.point}
    BY <1>8, Zenon DEF do_outpoint_subscribe, node, Job, NoJob
  <2>2. Keeps(Task, jobs, jobs', "outpoint")
    BY <1>8, Zenon DEF do_outpoint_subscribe, Job, Done, Keeps, Drops
  <2>3. /\ Quiet' <=> Quiet
        /\ \A o : FunderOf(o)' = FunderOf(o) /\ Actual(o)' = Actual(o)
    BY <2>1, <2>2, QuietSame, Zenon
  <2>4. FunderOf(job.point)' = job'.funder
    <3>1. chain' = chain /\ pool' = pool  BY <2>1, Zenon
    <3> QED  BY <2>1, <3>1, Zenon DEF FunderOf, TxHeight, Archived, Confirms
  <2> QED  BY <2>1, <2>3, <2>4, Zenon DEF CurrentInv, Covered
<1>9. CASE emplace_outpoint
  <2> DEFINE o == job.point
             out == get_outpoint_history(o, job.funder)
  <2>1. /\ UNCHANGED <<chain, pool, owed, events, lost, jobs>> /\ job.op = "subscribe"
        /\ job'.op = "store" /\ held' = held \union {o}
        /\ sub' = IF o \in held THEN sub ELSE [sub EXCEPT ![o] = out]
        /\ diverged' = IF o \in held /\ sub[o] # out THEN diverged \union {o} ELSE diverged
    BY <1>9, Zenon DEF emplace_outpoint, node
  <2>2. o \in Outpoint  BY <2>1, JobFields, Zenon
  <2>3. Keeps(Task, jobs, jobs', "outpoint")  BY <2>1, Zenon DEF Keeps
  <2>4. (Quiet' <=> Quiet) /\ \A k : Actual(k)' = Actual(k)  BY <2>1, <2>3, QuietSame, Zenon
  <2>5. Quiet /\ o \notin lost => out = Actual(o)  BY <2>1, Zenon DEF CurrentInv, Actual
  <2> HIDE DEF out, o
  <2>6. o \notin diverged' => sub'[o] = out  BY <1>1, <2>1, <2>2, ZenonT(30)
  <2>7. \A k : k # o => sub'[k] = sub[k] /\ ~Covered(k)  BY <1>1, <2>1, SMTT(30) DEF Covered, o
  <2>8. diverged \subseteq diverged'  BY <2>1, Zenon
  <2> QED  BY <2>1, <2>4, <2>5, <2>6, <2>7, <2>8, ZenonT(30) DEF CurrentInv
<1>10. CASE store_outpoint
  <2>1. UNCHANGED <<chain, pool, owed, events, lost, jobs, held, sub, diverged>> /\ job.op = "store" /\ job'.op = "none"
    BY <1>10, Zenon DEF store_outpoint, node, histories, NoJob
  <2>2. Keeps(Task, jobs, jobs', "outpoint")  BY <2>1, Zenon DEF Keeps
  <2>3. (Quiet' <=> Quiet) /\ \A k : Actual(k)' = Actual(k)  BY <2>1, <2>2, QuietSame, Zenon
  <2> QED  BY <2>1, <2>3, Zenon DEF CurrentInv, Covered
<1>11. CASE do_outpoint_unsubscribe
  <2> DEFINE k == Head(jobs).point
  <2>1. /\ UNCHANGED <<chain, pool, owed, events, sub, job>> /\ job.op = "none"
        /\ held' = held \ {k} /\ lost' = lost \ {k} /\ diverged' = diverged \ {k}
    BY <1>11, Zenon DEF do_outpoint_unsubscribe, node, Job, NoJob
  <2>2. Keeps(Task, jobs, jobs', "outpoint")
    BY <1>11, Zenon DEF do_outpoint_unsubscribe, Job, Done, Keeps, Drops
  <2>3. (Quiet' <=> Quiet) /\ \A o : Actual(o)' = Actual(o)  BY <2>1, <2>2, QuietSame, Zenon
  <2> HIDE DEF k
  <2> QED  BY <2>1, <2>3, Zenon DEF CurrentInv, Covered
<1>12. CASE do_outpoint
  <2>1. held' = held /\ job' = Scan(held)  BY <1>12, Zenon DEF do_outpoint
  <2>2. /\ job'.op \in {"none", "outpoint"}
        /\ job'.op = "outpoint" => held = job'.todo \union {job'.point}
        /\ job'.op = "none" => held = {}
    BY <1>1, <2>1, ScanType, Zenon
  <2> QED  BY <2>1, <2>2, Zenon DEF CurrentInv, Covered
<1>13. CASE read_funder
  <2>1. /\ UNCHANGED <<chain, pool, owed, events, held, sub, diverged, jobs>> /\ job.op = "outpoint"
        /\ job'.op = "spenders" /\ job'.point = job.point /\ job'.todo = job.todo
        /\ job'.funder = FunderOf(job.point) /\ lost' = lost \ {job.point}
    BY <1>13, Zenon DEF read_funder, node
  <2>2. Keeps(Task, jobs, jobs', "outpoint")  BY <2>1, Zenon DEF Keeps
  <2>3. (Quiet' <=> Quiet) /\ \A o : FunderOf(o)' = FunderOf(o) /\ Actual(o)' = Actual(o)
    BY <2>1, <2>2, QuietSame, Zenon
  <2>4. FunderOf(job.point)' = job'.funder
    <3>1. chain' = chain /\ pool' = pool  BY <2>1, Zenon
    <3> QED  BY <2>1, <3>1, Zenon DEF FunderOf, TxHeight, Archived, Confirms
  <2> QED  BY <2>1, <2>3, <2>4, Zenon DEF CurrentInv, Covered
<1>14. CASE notify_outpoint
  <2> DEFINE o == job.point
             out == get_outpoint_history(o, job.funder)
  <2>1. /\ UNCHANGED <<chain, pool, owed, events, held, diverged, jobs, lost>> /\ job.op = "spenders"
        /\ job' = Scan(job.todo)
        /\ IF ~out.valid \/ out = sub[o] THEN sub' = sub ELSE sub' = [sub EXCEPT ![o] = out]
    BY <1>14, Zenon DEF notify_outpoint, node, histories
  <2>2. o \in Outpoint /\ job.todo \in SUBSET Outpoint
    BY <2>1, JobFields, Zenon
  <2>3. Keeps(Task, jobs, jobs', "outpoint")  BY <2>1, Zenon DEF Keeps
  <2>4. (Quiet' <=> Quiet) /\ \A k : Actual(k)' = Actual(k)  BY <2>1, <2>3, QuietSame, Zenon
  <2>5. Quiet /\ o \notin lost => out = Actual(o)  BY <2>1, Zenon DEF CurrentInv, Actual
  <2>6. ~Actual(o).valid => sub[o] = Actual(o)
    <3> SUFFICES ASSUME ~Actual(o).valid PROVE sub[o] = NotFound /\ Actual(o) = NotFound
      BY Zenon
    <3>1. ~FunderOf(o).valid /\ Actual(o) = NotFound  BY Zenon DEF Actual, get_outpoint_history
    <3>2. ~Archived(Funder[o])  BY <3>1, Zenon DEF FunderOf
    <3> QED  BY <2>2, <3>1, <3>2, Zenon DEF HistoryInv, HistoryOf
  <2>7. /\ job'.op \in {"none", "outpoint"}
        /\ job'.op = "outpoint" => job.todo = job'.todo \union {job'.point}
        /\ job'.op = "none" => job.todo = {}
    BY <2>1, <2>2, ScanType, Zenon
  <2> HIDE DEF out, o
  <2>8. Quiet /\ o \notin lost => sub'[o] = Actual(o)  BY <1>1, <2>1, <2>2, <2>5, <2>6, Zenon
  <2>9. \A k \in Outpoint : k # o => sub'[k] = sub[k]  BY <1>1, <2>1, Zenon
  <2>10. \A k : Covered(k) => k = o \/ Covered(k)'  BY <2>1, <2>7, Zenon DEF Covered, o
  <2> QED  BY <1>1, <2>1, <2>4, <2>7, <2>8, <2>9, <2>10, ZenonT(30) DEF CurrentInv
<1> QED
  BY <1>2, <1>3, <1>5, <1>6, <1>7, <1>8, <1>9, <1>10, <1>11, <1>12, <1>13, <1>14, StepCases, ZenonT(30)

\* Once all strands have drained the client knows the present history of each
\* outpoint it subscribes, for any transactions, chain and reorganizations:
\* although it is sent differences only, and although the two reads of a scan may
\* straddle a reorganization.  Not so for an outpoint whose event was withheld,
\* or whose answer was not the entry that is kept.
THEOREM OutpointCurrentAtRestTheorem == SpecAll => []OutpointCurrentAtRest
<1> DEFINE I == TypeInv /\ HalfInv /\ OneInv /\ NotifyInv /\ HistoryInv /\ ViewInv /\ CurrentInv
<1>1. InitAll => I
  BY InitTypes, InitHalf, InitOne, InitNotify, InitHistory, InitView, InitCurrent, ZenonT(30)
<1>2. I /\ [NextAll]_all => I'
  BY NextTypes, NextHalf, NextOne, NextNotify, NextHistory, NextView, NextCurrent, Zenon
<1>3. I => OutpointCurrentAtRest
  <2> SUFFICES ASSUME TypeInv, ViewInv, CurrentInv, Rest, NEW o \in held \ (lost \union diverged)
               PROVE  view[o] = Actual(o)
    BY Zenon DEF OutpointCurrentAtRest
  <2>1. posts = <<>> /\ job.op = "none" /\ Quiet  BY DEF Rest, Quiet, None, NoJob
  <2>2. sub[o] = Actual(o)  BY <2>1, Zenon DEF CurrentInv, Covered
  <2>3. o \in Outpoint /\ Follows(o)  BY <2>1, Zenon DEF TypeInv, StrandType, Follows
  <2>4. PICK v : Trail(view[o], posts, o, v) /\ v[Len(posts)] = sub[o]
    BY <2>3, Zenon DEF ViewInv
  <2>5. v[0] = view[o] /\ Len(posts) = 0  BY <2>1, <2>4, Zenon DEF Trail
  <2> QED  BY <2>2, <2>4, <2>5, Zenon
<1> QED  BY <1>1, <1>2, <1>3, PTL DEF SpecAll

=============================================================================
