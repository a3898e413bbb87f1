-------------------------- MODULE BtcdFilter_proof --------------------------
(***************************************************************************)
(* WithinMaximum and LegacyWatched of BtcdFilter for any addresses,        *)
(* transactions, limits and number of blocks and requests.                 *)
(*                                                                         *)
(* Each step of the notification strand adds at most one key to one of the *)
(* four maps, and only below the limit.  The outputs that are still to be  *)
(* armed for a match are those of receive watches, which cannot go before. *)
(***************************************************************************)
EXTENDS BtcdFilter, FiniteSetTheorems, TLAPS

MapInv ==
    /\ DOMAIN address_watches \subseteq Address
    /\ DOMAIN receive_watches \subseteq Address
    /\ DOMAIN outpoint_watches \subseteq Point
    /\ DOMAIN spent_watches \subseteq Point

\* Legacy watches, and those to come, have the flag set.
LegacyInv ==
    /\ watching_legacy \in BOOLEAN
    /\ LegacyWatched
    /\ work.op = "arm" /\ work.arming # {} => watching_legacy

\* Keys leave the maps, or one is added below the limit.
Shrinks ==
    /\ DOMAIN address_watches' \subseteq DOMAIN address_watches
    /\ DOMAIN receive_watches' \subseteq DOMAIN receive_watches
    /\ DOMAIN outpoint_watches' \subseteq DOMAIN outpoint_watches
    /\ DOMAIN spent_watches' \subseteq DOMAIN spent_watches

Adds(k) ==
    /\ watch_count < MaxFilters
    /\ \/ /\ k \in Address /\ UNCHANGED <<receive_watches, outpoint_watches, spent_watches>>
          /\ DOMAIN address_watches' \subseteq DOMAIN address_watches \union {k}
       \/ /\ k \in Address /\ UNCHANGED <<address_watches, outpoint_watches, spent_watches>>
          /\ DOMAIN receive_watches' \subseteq DOMAIN receive_watches \union {k}
       \/ /\ k \in Point /\ UNCHANGED <<address_watches, receive_watches, spent_watches>>
          /\ DOMAIN outpoint_watches' \subseteq DOMAIN outpoint_watches \union {k}
       \/ /\ k \in Point /\ UNCHANGED <<address_watches, receive_watches, outpoint_watches>>
          /\ DOMAIN spent_watches' \subseteq DOMAIN spent_watches \union {k}
-----------------------------------------------------------------------------
\* There are finitely many outputs.
LEMMA PointFinite == IsFiniteSet(Point)
  <1>1. IsFiniteSet(Tx \X Address)
    BY SetAssumption, FS_Product
  <1>2. Point \subseteq Tx \X Address
    BY DEF Point
  <1> QED
    BY <1>1, <1>2, FS_Subset, SMTT(30)

\* What an operation leaves of an empty map.
LEMMA MapEmpty ==
  ASSUME NEW S
  PROVE  /\ Without(Empty, S) = Empty
         /\ Without(Reread(Empty), S) = Empty
         /\ Advanced(Empty) = Empty
         /\ Reset(Empty) = Empty
  BY DEF Without, Reread, Advanced, Reset, Empty

\* The size of a finite set, of its subsets, and with one more element.
LEMMA Size ==
  ASSUME NEW S, NEW T, NEW U, NEW k, IsFiniteSet(U), S \subseteq U
  PROVE  /\ Cardinality(S) \in Nat
         /\ T \subseteq S => Cardinality(T) \in Nat /\ Cardinality(T) <= Cardinality(S)
         /\ T \subseteq S \union {k} =>
                Cardinality(T) \in Nat /\ Cardinality(T) <= Cardinality(S) + 1
  <1>1. IsFiniteSet(S) /\ Cardinality(S) \in Nat
    BY FS_Subset, FS_CardinalityType
  <1>2. T \subseteq S => Cardinality(T) \in Nat /\ Cardinality(T) <= Cardinality(S)
    BY <1>1, FS_Subset, FS_CardinalityType
  <1>3. T \subseteq S \union {k} =>
            Cardinality(T) \in Nat /\ Cardinality(T) <= Cardinality(S) + 1
    <2>1. /\ IsFiniteSet(S \union {k}) /\ Cardinality(S \union {k}) \in Nat
          /\ Cardinality(S \union {k}) <= Cardinality(S) + 1
      <3>1. IsFiniteSet(S \union {k})
        BY <1>1, FS_AddElement, SMTT(30)
      <3>2. Cardinality(S \union {k}) = IF k \in S THEN Cardinality(S) ELSE Cardinality(S) + 1
        BY <1>1, FS_AddElement
      <3> QED
        BY <1>1, <3>1, <3>2, FS_CardinalityType
    <2> SUFFICES ASSUME T \subseteq S \union {k}
                 PROVE  Cardinality(T) \in Nat /\ Cardinality(T) <= Cardinality(S) + 1
      OBVIOUS
    <2>2. Cardinality(T) \in Nat /\ Cardinality(T) <= Cardinality(S \union {k})
      BY <2>1, FS_Subset, FS_CardinalityType
    <2> QED
      BY <1>1, <2>1, <2>2
  <1> QED
    BY <1>1, <1>2, <1>3

\* A sum of lesser terms is lesser.
LEMMA SumMonotone ==
  ASSUME NEW a \in Nat, NEW b \in Nat, NEW c \in Nat, NEW d \in Nat, NEW m \in Nat,
         NEW w \in Nat, NEW x \in Nat, NEW y \in Nat, NEW z \in Nat,
         w <= a, x <= b, y <= c, z <= d, a + b + c + d <= m
  PROVE  w + x + y + z <= m
  OBVIOUS

\* Such a step keeps the keys typed and within the limit.
LEMMA CountStep ==
  ASSUME MapInv, WithinMaximum, NEW k, Shrinks \/ Adds(k)
  PROVE  MapInv' /\ WithinMaximum'
  <1> USE SetAssumption, PointFinite, LimitAssumption
  <1> DEFINE a == Cardinality(DOMAIN address_watches)
             r == Cardinality(DOMAIN receive_watches)
             o == Cardinality(DOMAIN outpoint_watches)
             s == Cardinality(DOMAIN spent_watches)
  <1>1. MapInv'
    BY DEF MapInv, Shrinks, Adds
  <1>2. a \in Nat /\ r \in Nat /\ o \in Nat /\ s \in Nat
    BY Size, ZenonT(30) DEF MapInv
  <1>3. watch_count = a + o + r + s /\ watch_count' = a' + o' + r' + s'
    BY DEF watch_count
  <1>4. CASE Shrinks
    <2>1. a' \in Nat /\ a' <= a
      BY <1>4, Size, ZenonT(30) DEF MapInv, Shrinks
    <2>2. r' \in Nat /\ r' <= r
      BY <1>4, Size, ZenonT(30) DEF MapInv, Shrinks
    <2>3. o' \in Nat /\ o' <= o
      BY <1>4, Size, SMTT(30) DEF MapInv, Shrinks
    <2>4. s' \in Nat /\ s' <= s
      BY <1>4, Size, ZenonT(30) DEF MapInv, Shrinks
    <2>5. a + o + r + s <= MaxFilters
      BY <1>3 DEF WithinMaximum
    <2>6. a' + o' + r' + s' <= MaxFilters
      BY <1>2, <2>1, <2>2, <2>3, <2>4, <2>5, SumMonotone
    <2> QED
      BY <1>1, <1>3, <2>6 DEF WithinMaximum
  <1>5. CASE Adds(k)
    <2>1. \/ a' \in Nat /\ a' <= a + 1 /\ r' = r /\ o' = o /\ s' = s
          \/ r' \in Nat /\ r' <= r + 1 /\ a' = a /\ o' = o /\ s' = s
          \/ o' \in Nat /\ o' <= o + 1 /\ a' = a /\ r' = r /\ s' = s
          \/ s' \in Nat /\ s' <= s + 1 /\ a' = a /\ r' = r /\ o' = o
      BY <1>5, Size, ZenonT(30) DEF MapInv, Adds
    <2>2. watch_count < MaxFilters
      BY <1>5 DEF Adds
    <2> HIDE DEF a, r, o, s
    <2> QED
      BY <1>1, <1>2, <1>3, <2>1, <2>2 DEF WithinMaximum
  <1> QED
    BY <1>4, <1>5, SMTT(30)

\* Only receive_key, spent_point, load_key, load_point and arm_spent_watches add
\* to a map, each behind a test of the count.
LEMMA KeysStep ==
  ASSUME [Next]_vars
  PROVE  Shrinks \/ \E k \in Address \union Point : Adds(k)
  <1>1. CASE UNCHANGED watches
    BY <1>1 DEF watches, filters, Shrinks
  <1>2. ASSUME NEW k \in Address, load_key(k) \/ receive_key(k) PROVE Adds(k)
    <2>1. CASE load_key(k)
      <3>1. DOMAIN address_watches' \subseteq DOMAIN address_watches \union {k}
        BY <2>1 DEF load_key, With
      <3> QED
        BY <2>1, <3>1, SMTT(30) DEF load_key, Key, Adds
    <2>2. CASE receive_key(k)
      <3>1. DOMAIN receive_watches' \subseteq DOMAIN receive_watches \union {k}
        BY <2>2, SMTT(30) DEF receive_key, With
      <3> QED
        BY <2>2, <3>1, SMTT(30) DEF receive_key, Key, Adds, filters
    <2> QED
      BY <1>2, <2>1, <2>2
  <1>3. ASSUME NEW p \in Point, load_point(p) \/ spent_point(p) PROVE Adds(p)
    <2>1. CASE load_point(p)
      <3>1. DOMAIN outpoint_watches' \subseteq DOMAIN outpoint_watches \union {p}
        BY <2>1, SMTT(30) DEF load_point, With
      <3> QED
        BY <2>1, <3>1 DEF load_point, Output, Adds
    <2>2. CASE spent_point(p)
      <3>1. DOMAIN spent_watches' \subseteq DOMAIN spent_watches \union {p}
        BY <2>2 DEF spent_point, With
      <3> QED
        BY <2>2, <3>1 DEF spent_point, Output, Adds, filters
    <2> QED
      BY <1>3, <2>1, <2>2, SMTT(30)
  <1>4. ASSUME NEW p \in Point, arm_spent_watches(p) PROVE Shrinks \/ Adds(p)
    <2>1. UNCHANGED <<address_watches, outpoint_watches, receive_watches>>
      BY <1>4 DEF arm_spent_watches, filters
    <2>2. \/ spent_watches' = spent_watches
          \/ watch_count < MaxFilters /\ spent_watches' = With(spent_watches, p, Unread)
      BY <1>4 DEF arm_spent_watches
    <2>3. CASE spent_watches' = spent_watches
      BY <2>1, <2>3, SMTT(30) DEF Shrinks
    <2>4. CASE watch_count < MaxFilters /\ spent_watches' = With(spent_watches, p, Unread)
      <3>1. DOMAIN spent_watches' \subseteq DOMAIN spent_watches \union {p}
        BY <2>4 DEF With
      <3> QED
        BY <2>1, <2>4, <3>1 DEF Adds
    <2> QED
      BY <2>2, <2>3, <2>4
  <1>5. CASE do_load_tx_filter
    BY <1>5 DEF do_load_tx_filter, Shrinks, filters, Empty
  <1>6. CASE do_stop_notify_received \/ do_stop_notify_spent
    BY <1>6 DEF do_stop_notify_received, do_stop_notify_spent, Shrinks, filters, Without
  <1>7. CASE match_filters \/ match_receives \/ do_disconnected
    BY <1>7 DEF match_filters, match_receives, do_disconnected, Shrinks, filters, Advanced,
       Reread, Reset
  <1>8. CASE match_spends
    <2>1. DOMAIN spent_watches' \subseteq DOMAIN spent_watches
      BY <1>8, SMTT(30) DEF match_spends, Without, Reread
    <2> QED
      BY <1>8, <2>1, SMTT(30) DEF match_spends, Shrinks, filters
  <1>9. CASE NodeStep \/ handle_chase \/ ClientStep \/ ChannelStep \/ stopping
    BY <1>1, <1>9, ZenonT(30) DEF NodeStep, Organize, Disconnect, handle_chase, ClientStep,
       handle_load_tx_filter, handle_notify_received, handle_notify_spent,
       handle_stop_notify_received, handle_stop_notify_spent, handle_notify_blocks,
       Request, ChannelStep, complete, send, complete_overflow, stopping
  <1>10. CASE refuse \/ abandon \/ finish \/ do_connected \/ cancel
              \/ do_notify("receive") \/ do_notify("spent")
    BY <1>1, <1>10, ZenonT(30) DEF refuse, abandon, finish, do_connected, cancel, do_notify
  <1>11. CASE UNCHANGED vars
    BY <1>1, <1>11 DEF vars
  <1> QED
    BY <1>2, <1>3, <1>4, <1>5, <1>6, <1>7, <1>8, <1>9, <1>10, <1>11
    DEF Next, NotificationStep, RequestJob, BlockJob

\* Steps that keep the legacy maps empty if they are, the flag, and what is armed.
LEMMA LegacyKept ==
  ASSUME LegacyInv, watching_legacy' = watching_legacy,
         receive_watches = Empty => receive_watches' = Empty,
         spent_watches = Empty => spent_watches' = Empty,
         work' = work \/ work'.op # "arm"
  PROVE  LegacyInv'
  BY DEF LegacyInv, LegacyWatched

\* The flag is set before a watch is used, and cleared with the last.
LEMMA LegacyStep ==
  ASSUME LegacyInv, [Next]_vars
  PROVE  LegacyInv'
  <1> USE MapEmpty
  <1>1. ASSUME NEW k \in Address, load_key(k) PROVE LegacyInv'
    <2>1. work'.op = "load"
      BY <1>1 DEF load_key, Key
    <2> QED
      BY <1>1, <2>1, LegacyKept DEF load_key, flags
  <1>2. ASSUME NEW p \in Point, load_point(p) PROVE LegacyInv'
    <2>1. work'.op = "load"
      BY <1>2 DEF load_point, Output
    <2> QED
      BY <1>2, <2>1, LegacyKept DEF load_point, flags
  <1>3. ASSUME NEW k \in Address, receive_key(k) PROVE LegacyInv'
    <2>1. work'.op # "arm" /\ spent_watches' = spent_watches
      BY <1>3, SMTT(30) DEF receive_key, Key
    <2>2. CASE k \in DOMAIN receive_watches
      BY <1>3, <2>1, <2>2, SMTT(30) DEF receive_key, LegacyInv, LegacyWatched
    <2>3. CASE k \notin DOMAIN receive_watches
      <3>1. watching_legacy' = TRUE
        BY <1>3, <2>3, ZenonT(30) DEF receive_key
      <3> QED
        BY <3>1 DEF LegacyInv, LegacyWatched
    <2> QED
      BY <2>2, <2>3
  <1>4. ASSUME NEW p \in Point, spent_point(p) PROVE LegacyInv'
    <2>1. work'.op # "arm" /\ receive_watches' = receive_watches
      BY <1>4 DEF spent_point, Output
    <2>2. CASE p \in DOMAIN spent_watches
      BY <1>4, <2>1, <2>2 DEF spent_point, LegacyInv, LegacyWatched
    <2>3. CASE p \notin DOMAIN spent_watches
      <3>1. watching_legacy' = TRUE
        BY <1>4, <2>3, ZenonT(30) DEF spent_point
      <3> QED
        BY <3>1 DEF LegacyInv, LegacyWatched
    <2> QED
      BY <2>2, <2>3
  <1>5. ASSUME NEW p \in Point, arm_spent_watches(p) PROVE LegacyInv'
    BY <1>5 DEF arm_spent_watches, flags, Free, LegacyInv, LegacyWatched
  <1>6. CASE do_load_tx_filter
    BY <1>6, LegacyKept DEF do_load_tx_filter, Start, Begin, flags
  <1>7. CASE do_stop_notify_received
    BY <1>7 DEF do_stop_notify_received, Start, LegacyInv, LegacyWatched, Free
  <1>8. CASE do_stop_notify_spent
    BY <1>8, SMTT(30) DEF do_stop_notify_spent, Start, LegacyInv, LegacyWatched, Free
  <1>9. CASE match_filters
    BY <1>9, LegacyKept, SMTT(30) DEF match_filters, flags
  <1>10. CASE match_receives
    BY <1>10, SMTT(30) DEF match_receives, flags, LegacyInv, LegacyWatched, Empty
  <1>11. CASE do_disconnected
    BY <1>11, LegacyKept, SMTT(30) DEF do_disconnected, flags
  <1>12. CASE match_spends
    BY <1>12, LegacyKept, SMTT(30) DEF match_spends, flags, Free
  <1>13. CASE NodeStep \/ handle_chase \/ ClientStep \/ ChannelStep \/ stopping
    BY <1>13, LegacyKept, ZenonT(30) DEF NodeStep, Organize, Disconnect, handle_chase, ClientStep,
       handle_load_tx_filter, handle_notify_received, handle_notify_spent,
       handle_stop_notify_received, handle_stop_notify_spent, handle_notify_blocks,
       Request, ChannelStep, complete, send, complete_overflow, stopping, flags, watches
  <1>14. CASE refuse \/ abandon \/ finish \/ cancel
    <2>1. work' = Free /\ UNCHANGED <<watching_legacy, receive_watches, spent_watches>>
      BY <1>14, ZenonT(30) DEF refuse, abandon, finish, cancel, flags, watches
    <2>2. work'.op # "arm"
      BY <2>1 DEF Free
    <2> QED
      BY <2>1, <2>2, LegacyKept, SMTT(30)
  <1>15. CASE do_connected
    BY <1>15, LegacyKept DEF do_connected, flags, watches
  <1>16. CASE do_notify("receive") \/ do_notify("spent")
    BY <1>16, LegacyKept DEF do_notify, Start, Begin, flags, watches
  <1>17. CASE UNCHANGED vars
    BY <1>17, LegacyKept DEF vars, flags, watches
  <1> QED
    BY <1>1, <1>2, <1>3, <1>4, <1>5, <1>6, <1>7, <1>8, <1>9, <1>10, <1>11, <1>12, <1>13,
       <1>14, <1>15, <1>16, <1>17
    DEF Next, NotificationStep, RequestJob, BlockJob

-----------------------------------------------------------------------------
\* For any configured maximum, addresses and blocks, the four maps share one
\* budget that neither requests nor arm_spent_watches exceed.
THEOREM WithinMaximumTheorem == Spec => []WithinMaximum
  <1>1. Init => MapInv /\ WithinMaximum
    <2> SUFFICES ASSUME Init PROVE MapInv /\ WithinMaximum
      OBVIOUS
    <2>1. /\ DOMAIN address_watches = {} /\ DOMAIN receive_watches = {}
          /\ DOMAIN outpoint_watches = {} /\ DOMAIN spent_watches = {}
      BY DEF Init, Empty
    <2>2. Cardinality({}) = 0
      BY FS_EmptySet
    <2>3. watch_count = 0
      BY <2>1, <2>2 DEF watch_count
    <2> QED
      BY <2>1, <2>3, LimitAssumption DEF MapInv, WithinMaximum
  <1>2. MapInv /\ WithinMaximum /\ [Next]_vars => MapInv' /\ WithinMaximum'
    BY KeysStep, CountStep
  <1> QED
    BY <1>1, <1>2, PTL DEF Spec

\* For any interleaving of stopnotify requests with blocks being matched, a
\* legacy watch is never held without watching_legacy_.
THEOREM LegacyWatchedTheorem == Spec => []LegacyWatched
  <1>1. Init => LegacyInv
    <2> SUFFICES ASSUME Init PROVE LegacyInv
      OBVIOUS
    <2>1. work.op = "free"
      BY DEF Init, Free
    <2> QED
      BY <2>1, ZenonT(30) DEF Init, LegacyInv, LegacyWatched
  <1>2. LegacyInv /\ [Next]_vars => LegacyInv'
    BY LegacyStep
  <1>3. LegacyInv => LegacyWatched
    BY DEF LegacyInv
  <1> QED
    BY <1>1, <1>2, <1>3, PTL DEF Spec
=============================================================================
