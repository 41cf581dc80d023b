--------------------------- MODULE DeliveryProofs ---------------------------
(***************************************************************************)
(* No subscription skips an event, whatever its goroutine, the loop of the *)
(* bus and the other subscriptions do.                                     *)
(***************************************************************************)
EXTENDS EventProofs

-----------------------------------------------------------------------------
(* Sequences that grow: what matches a query, and what is on the way.      *)

(* Two loops over the same entries build the same queue.                   *)
LEMMA SameRounds ==
  ASSUME NEW p, NEW q, NEW S, NEW T, NEW l \in Nat, NEW m \in Nat, NEW n \in Nat, n <= l, n <= m,
         NEW g, Rounds(g, p, S, l), NEW h, Rounds(h, q, T, m),
         \A i \in 1..n : p[i] = q[i] /\ (i \in S <=> i \in T)
  PROVE  g[n] = h[n]
<1> DEFINE F == {k \in 0..n : g[k] # h[k]}
<1>1. /\ \A k \in 0..n : g[k] = Round(g, p, S, k)
      /\ \A k \in 0..n : h[k] = Round(h, q, T, k)
  <2>1. \A k \in 0..n : k \in 0..l /\ k \in 0..m
    OBVIOUS
  <2>2. QED
    BY <2>1, Zenon DEF Rounds
<1>2. ASSUME F # {} PROVE FALSE
  <2>1. PICK k \in F : \A j \in F : ~(j < k)
    <3>1. F \subseteq Nat
      OBVIOUS
    <3> HIDE DEF F
    <3>2. QED
      BY <1>2, <3>1, LeastNumber, Zenon
  <2>2. k \in 0..n /\ g[k] # h[k] /\ g[k] = Round(g, p, S, k) /\ h[k] = Round(h, q, T, k)
    BY <1>1, <2>1
  <2>3. CASE k = 0
    BY <2>2, <2>3 DEF Round
  <2>4. CASE k # 0
    <3>1. k - 1 \in 0..n /\ k - 1 < k /\ k \in 1..n
      BY <2>2, <2>4
    <3>2. g[k - 1] = h[k - 1]
      BY <2>1, <3>1
    <3>3. p[k] = q[k] /\ (k \in S <=> k \in T)
      BY <3>1, Zenon
    <3>4. QED
      BY <2>2, <2>4, <3>2, <3>3, Zenon DEF Round
  <2>5. QED
    BY <2>3, <2>4, Zenon
<1>3. n \in 0..n
  OBVIOUS
<1>4. QED
  BY <1>2, <1>3

(* One more entry: it is kept or not.                                      *)
LEMMA KeptAppend ==
  ASSUME NEW A, NEW q \in Seq(A), NEW x \in A, NEW S, NEW T,
         \A i \in 1..Len(q) : i \in S <=> i \in T
  PROVE  Kept(Append(q, x), T) = IF Len(q) + 1 \in T THEN Append(Kept(q, S), x) ELSE Kept(q, S)
<1> DEFINE p == Append(q, x)
           n == Len(q)
<1>1. n \in Nat /\ Len(p) = n + 1 /\ n + 1 \in Nat /\ p[n + 1] = x /\ \A i \in 1..n : p[i] = q[i]
  BY AppendProperties
<1> HIDE DEF p, n
<1>2. PICK g : Rounds(g, p, T, n + 1) /\ Kept(p, T) = g[n + 1]
  BY <1>1, KeptIsLastRound
<1>3. PICK h : Rounds(h, q, S, n) /\ Kept(q, S) = h[n]
  BY <1>1, KeptIsLastRound DEF n
<1>4. g[n] = h[n]
  <2>1. n <= n + 1 /\ n <= n
    BY <1>1
  <2>2. \A i \in 1..n : p[i] = q[i] /\ (i \in T <=> i \in S)
    BY <1>1, Zenon DEF n
  <2>3. QED
    BY <1>1, <1>2, <1>3, <2>1, <2>2, SameRounds
<1>5. g[n + 1] = Round(g, p, T, n + 1)
  <2>1. n + 1 \in 0..(n + 1)
    BY <1>1
  <2>2. QED
    BY <1>2, <2>1, Zenon DEF Rounds
<1>6. (n + 1) - 1 = n /\ n + 1 # 0
  BY <1>1
<1>7. QED
  BY <1>1, <1>2, <1>3, <1>4, <1>5, <1>6, Zenon DEF Round, p, n

(* Nothing is kept of no entries.                                          *)
LEMMA NothingKept ==
  ASSUME NEW A, NEW q \in Seq(A), NEW S, \A i \in 1..Len(q) : i \notin S
  PROVE  Kept(q, S) = <<>>
<1>1. Kept(q, S) \in Seq({})
  <2>1. \A i \in DOMAIN q : i \in S => q[i] \in {}
    OBVIOUS
  <2>2. QED
    BY <2>1, KeptType, Zenon
<1>2. QED
  BY <1>1

(* Beginnings of sequences.                                                *)
Beginning(s, t) == \E k \in 0..Len(t) : s = SubSeq(t, 1, k)

(* A sequence begins with itself.                                          *)
LEMMA BeginsWithItself ==
  ASSUME NEW A, NEW s \in Seq(A)
  PROVE  Beginning(s, s)
<1>1. Len(s) \in 0..Len(s) /\ s = SubSeq(s, 1, Len(s))
  BY SubSeqFull
<1>2. QED
  BY <1>1, Zenon DEF Beginning

(* It still begins so when it grows,                                       *)
LEMMA BeginsWhenAppended ==
  ASSUME NEW A, NEW s, NEW t \in Seq(A), NEW x \in A, Beginning(s, t)
  PROVE  Beginning(s, Append(t, x))
<1>1. PICK k \in 0..Len(t) : s = SubSeq(t, 1, k)
  BY Zenon DEF Beginning
<1>2. Len(Append(t, x)) = Len(t) + 1 /\ Len(t) \in Nat /\ \A i \in 1..Len(t) : Append(t, x)[i] = t[i]
  BY AppendProperties
<1>3. k \in 0..Len(Append(t, x))
  BY <1>2
<1>4. SubSeq(Append(t, x), 1, k) = SubSeq(t, 1, k)
  BY <1>2
<1>5. QED
  BY <1>1, <1>3, <1>4, Zenon DEF Beginning

(* and so does a beginning of its beginning.                               *)
LEMMA BeginningOfBeginning ==
  ASSUME NEW A, NEW r \in Seq(A), NEW s \in Seq(A), NEW t \in Seq(A), Beginning(r \o s, t)
  PROVE  Beginning(r, t)
<1>1. PICK k \in 0..Len(t) : r \o s = SubSeq(t, 1, k)
  BY Zenon DEF Beginning
<1>2. /\ Len(r \o s) = Len(r) + Len(s) /\ Len(r) \in Nat /\ Len(s) \in Nat /\ Len(t) \in Nat
      /\ \A i \in 1..Len(r) : (r \o s)[i] = r[i]
  BY Concatenated
<1>3. Len(SubSeq(t, 1, k)) = k /\ \A i \in 1..k : SubSeq(t, 1, k)[i] = t[i]
  OBVIOUS
<1>4. Len(r) \in 0..Len(t) /\ 1..Len(r) \subseteq 1..k
  <2>1. k = Len(r) + Len(s)
    BY <1>1, <1>2, <1>3, Zenon
  <2>2. QED
    BY <1>2, <2>1
<1>5. \A i \in 1..Len(r) : r[i] = t[i]
  BY <1>1, <1>2, <1>3, <1>4, Zenon
<1>6. r = SubSeq(t, 1, Len(r))
  BY <1>2, <1>4, <1>5
<1>7. QED
  BY <1>4, <1>6, Zenon DEF Beginning

(* What is on the way in four parts, and how events pass from one part to  *)
(* the next.                                                               *)
LEMMA WayType ==
  ASSUME NEW A, NEW t \in Seq(A), NEW h \in Seq(A), NEW q \in Seq(A), NEW w \in Seq(A)
  PROVE  t \o h \o q \o w \in Seq(A) /\ t \o h \in Seq(A) /\ t \o h \o q \in Seq(A)
<1>1. t \o h \in Seq(A)
  BY Concatenated
<1>2. t \o h \o q \in Seq(A)
  BY <1>1, Concatenated
<1>3. QED
  BY <1>1, <1>2, Concatenated

(* A sequence is its head and its tail.                                    *)
LEMMA HeadAndTail ==
  ASSUME NEW A, NEW q \in Seq(A), q # <<>>
  PROVE  /\ Head(q) \in A /\ Tail(q) \in Seq(A) /\ <<Head(q)>> \in Seq(A)
         /\ <<Head(q)>> \o Tail(q) = q
<1>1. Head(q) \in A /\ Tail(q) \in Seq(A) /\ Len(Tail(q)) = Len(q) - 1 /\ Len(q) \in Nat
      /\ \A i \in 1..Len(Tail(q)) : Tail(q)[i] = q[i + 1]
  BY HeadTailProperties
<1>2. <<Head(q)>> \in Seq(A) /\ Len(<<Head(q)>>) = 1 /\ <<Head(q)>>[1] = q[1]
  BY <1>1
<1> DEFINE s == <<Head(q)>> \o Tail(q)
<1>3. /\ s \in Seq(A) /\ Len(s) = 1 + Len(Tail(q))
      /\ \A i \in 1..(1 + Len(Tail(q))) : s[i] = IF i <= 1 THEN <<Head(q)>>[i] ELSE Tail(q)[i - 1]
  BY <1>1, <1>2, ConcatProperties
<1> HIDE DEF s
<1>4. Len(s) = Len(q)
  BY <1>1, <1>3
<1>5. \A i \in 1..Len(s) : s[i] = q[i]
  <2>1. TAKE i \in 1..Len(s)
  <2>2. CASE i = 1
    BY <1>1, <1>2, <1>3, <2>2
  <2>3. CASE i # 1
    <3>1. i - 1 \in 1..Len(Tail(q)) /\ (i - 1) + 1 = i /\ ~(i <= 1) /\ i \in 1..(1 + Len(Tail(q)))
      BY <1>1, <1>3, <2>3
    <3>2. s[i] = Tail(q)[i - 1]
      BY <1>3, <3>1
    <3>3. QED
      BY <1>1, <3>1, <3>2
  <2>4. QED
    BY <2>2, <2>3, Zenon
<1>6. QED
  BY <1>3, <1>4, <1>5, SeqEqual, <1>1, <1>2, Zenon DEF s

(* What has been taken, what is in the hand of the goroutine, what is      *)
(* queued, and what the loop waits to queue.                               *)
Way(t, h, q, w) == t \o h \o q \o w

(* An event passes from the queue to the hand of the goroutine,            *)
LEMMA PassToHand ==
  ASSUME NEW A, NEW t \in Seq(A), NEW q \in Seq(A), q # <<>>, NEW w
  PROVE  Way(t, <<Head(q)>>, Tail(q), w) = Way(t, <<>>, q, w)
<1>1. t \o <<>> = t
  BY ConcatEmptySeq
<1>2. (t \o <<Head(q)>>) \o Tail(q) = t \o (<<Head(q)>> \o Tail(q))
  BY HeadAndTail, ConcatAssociative
<1>3. QED
  BY <1>1, <1>2, HeadAndTail DEF Way

(* from the hand to the websocket,                                         *)
LEMMA PassToTaken ==
  ASSUME NEW A, NEW t \in Seq(A), NEW x \in A, NEW q, NEW w
  PROVE  Way(Append(t, x), <<>>, q, w) = Way(t, <<x>>, q, w)
<1>1. Append(t, x) \in Seq(A) /\ Append(t, x) = t \o <<x>>
  BY AppendIsConcat, AppendProperties
<1>2. Append(t, x) \o <<>> = Append(t, x)
  BY <1>1, ConcatEmptySeq
<1>3. QED
  BY <1>1, <1>2, Zenon DEF Way

(* and from the loop to the queue.                                         *)
LEMMA PassToQueue ==
  ASSUME NEW A, NEW t \in Seq(A), NEW h \in Seq(A), NEW q \in Seq(A), NEW x \in A
  PROVE  Way(t, h, Append(q, x), <<>>) = Way(t, h, q, <<x>>)
<1>1. Append(q, x) \in Seq(A) /\ Append(q, x) = q \o <<x>> /\ <<x>> \in Seq(A)
  BY AppendIsConcat, AppendProperties
<1> DEFINE r == t \o h
<1>2. r \in Seq(A)
  BY WayType, Concatenated
<1> HIDE DEF r
<1>3. (r \o q) \o <<x>> = r \o (q \o <<x>>)
  BY <1>1, <1>2, ConcatAssociative
<1>4. (r \o Append(q, x)) \o <<>> = r \o Append(q, x)
  <2>1. r \o Append(q, x) \in Seq(A)
    BY <1>1, <1>2, Concatenated
  <2>2. QED
    BY <2>1, ConcatEmptySeq
<1>5. QED
  BY <1>1, <1>3, <1>4, Zenon DEF r, Way

(* It ends with the event that the loop has in hand.                       *)
LEMMA WayEnds ==
  ASSUME NEW A, NEW t \in Seq(A), NEW h \in Seq(A), NEW q \in Seq(A), NEW x \in A
  PROVE  Way(t, h, q, <<>>) \in Seq(A) /\ Way(t, h, q, <<x>>) = Way(t, h, q, <<>>) \o <<x>>
<1> DEFINE r == t \o h \o q
<1>1. r \in Seq(A)
  BY Concatenated
<1> HIDE DEF r
<1>2. r \o <<>> = r
  BY <1>1, ConcatEmptySeq
<1>3. QED
  BY <1>1, <1>2, Zenon DEF r, Way

(* The events that a goroutine has taken.                                  *)
Taken == [event : EventSet, written : BOOLEAN]
EventsTaken(taken) == [i \in DOMAIN taken |-> taken[i].event]

(* They are events,                                                        *)
LEMMA TakenType ==
  ASSUME NEW taken \in Seq(Taken)
  PROVE  /\ EventsTaken(taken) \in Seq(EventSet) /\ Len(EventsTaken(taken)) = Len(taken)
         /\ \A i \in 1..Len(taken) : EventsTaken(taken)[i] = taken[i].event
<1>1. DOMAIN taken = 1..Len(taken) /\ Len(taken) \in Nat /\ \A i \in 1..Len(taken) : taken[i] \in Taken
  OBVIOUS
<1>2. \A e \in Taken : e.event \in EventSet
  BY DEF Taken
<1>3. EventsTaken(taken) = [i \in 1..Len(taken) |-> taken[i].event]
  BY <1>1, Zenon DEF EventsTaken
<1>4. EventsTaken(taken) \in [1..Len(taken) -> EventSet]
  BY <1>1, <1>2, <1>3, Zenon
<1>5. \A i \in 1..Len(taken) : EventsTaken(taken)[i] = taken[i].event
  BY <1>3, Zenon
<1>6. QED
  BY <1>1, <1>4, <1>5

(* and one more is appended.                                               *)
LEMMA TakenAppend ==
  ASSUME NEW taken \in Seq(Taken), NEW x \in EventSet, NEW written \in BOOLEAN
  PROVE  EventsTaken(Append(taken, [event |-> x, written |-> written])) = Append(EventsTaken(taken), x)
<1> DEFINE e == [event |-> x, written |-> written]
           new == Append(taken, e)
<1>1. e \in Taken /\ e.event = x
  BY DEF Taken
<1> HIDE DEF e
<1>2. /\ new \in Seq(Taken) /\ Len(new) = Len(taken) + 1 /\ Len(taken) \in Nat
      /\ \A i \in 1..Len(taken) : new[i] = taken[i]
      /\ new[Len(taken) + 1] = e
  BY <1>1, AppendProperties
<1> HIDE DEF new
<1>3. /\ EventsTaken(taken) \in Seq(EventSet) /\ Len(EventsTaken(taken)) = Len(taken)
      /\ \A i \in 1..Len(taken) : EventsTaken(taken)[i] = taken[i].event
  BY TakenType, Zenon
<1>4. /\ EventsTaken(new) \in Seq(EventSet) /\ Len(EventsTaken(new)) = Len(taken) + 1
      /\ \A i \in 1..(Len(taken) + 1) : EventsTaken(new)[i] = new[i].event
  BY <1>2, TakenType, Zenon
<1> DEFINE s == Append(EventsTaken(taken), x)
<1>5. /\ s \in Seq(EventSet) /\ Len(s) = Len(taken) + 1
      /\ \A i \in 1..Len(taken) : s[i] = taken[i].event
      /\ s[Len(taken) + 1] = x
  <2>1. /\ s \in Seq(EventSet) /\ Len(s) = Len(EventsTaken(taken)) + 1
        /\ \A i \in 1..Len(EventsTaken(taken)) : s[i] = EventsTaken(taken)[i]
        /\ s[Len(EventsTaken(taken)) + 1] = x
    BY <1>3, AppendProperties
  <2> HIDE DEF s
  <2>2. QED
    BY <1>3, <2>1, Zenon
<1> HIDE DEF s
<1>6. \A i \in 1..(Len(taken) + 1) : i \in 1..Len(taken) \/ i = Len(taken) + 1
  BY <1>2
<1>7. \A i \in 1..(Len(taken) + 1) : s[i] = EventsTaken(new)[i]
  BY <1>1, <1>2, <1>4, <1>5, <1>6, Zenon
<1>8. s = EventsTaken(new)
  BY <1>4, <1>5, <1>7, SeqEqual
<1>9. QED
  BY <1>8, Zenon DEF s, new, e

-----------------------------------------------------------------------------
(* One subscription.                                                       *)

Delivers(s) ==
  subs[s].state # "none" => /\ Beginning(OnTheWay(s), Matching(s))
                            /\ subs[s].state = "open" => OnTheWay(s) = Matching(s)

(* The types of what it consists of.                                       *)
LEMMA SubscriptionType ==
  ASSUME BusTypeOK, NEW s \in Subscriptions
  PROVE  LET t == EventsTaken(subs[s].taken)
             w == IF s \in waiting THEN inHand ELSE <<>>
         IN  /\ subs[s].since \in Nat /\ subs[s].queue \in Seq(EventSet) /\ subs[s].hand \in Seq(EventSet)
             /\ subs[s].taken \in Seq(Taken) /\ t \in Seq(EventSet) /\ w \in Seq(EventSet)
             /\ OnTheWay(s) = Way(t, subs[s].hand, subs[s].queue, w)
             /\ OnTheWay(s) \in Seq(EventSet) /\ Matching(s) \in Seq(EventSet)
<1> DEFINE t == EventsTaken(subs[s].taken)
           w == IF s \in waiting THEN inHand ELSE <<>>
<1>1. /\ subs[s].since \in Nat /\ subs[s].queue \in Seq(EventSet) /\ subs[s].hand \in Seq(EventSet)
      /\ subs[s].taken \in Seq(Taken)
  BY DEF BusTypeOK, Taken
<1>2. t \in Seq(EventSet)
  BY <1>1, TakenType, Zenon
<1>3. w \in Seq(EventSet)
  <2>1. inHand \in Seq(EventSet) /\ <<>> \in Seq(EventSet)
    BY DEF BusTypeOK
  <2>2. QED
    BY <2>1, Zenon
<1>4. OnTheWay(s) = Way(t, subs[s].hand, subs[s].queue, w)
  BY Zenon DEF OnTheWay, EventsTaken, Way
<1> HIDE DEF t, w
<1>5. OnTheWay(s) \in Seq(EventSet)
  BY <1>1, <1>2, <1>3, <1>4, WayType DEF Way
<1>6. Matching(s) \in Seq(EventSet)
  <2>1. log \in Seq(EventSet)
    BY Zenon DEF BusTypeOK
  <2>2. \A i \in DOMAIN log : log[i] \in EventSet
    BY <2>1
  <2>3. QED
    BY <2>1, <2>2, KeptType, Zenon DEF Matching
<1>7. QED
  BY <1>1, <1>2, <1>3, <1>4, <1>5, <1>6, Zenon DEF t, w

(* Nothing happens to it.                                                  *)
LEMMA OtherSubscription ==
  ASSUME NEW s \in Subscriptions, SubscriptionOK(s), Delivers(s),
         subs'[s] = subs[s], log' = log, s \in waiting' <=> s \in waiting,
         s \in waiting => inHand' = inHand
  PROVE  SubscriptionOK(s)' /\ Delivers(s)'
<1>1. OnTheWay(s)' = OnTheWay(s)
  BY Zenon DEF OnTheWay
<1>2. Matching(s)' = Matching(s)
  BY Zenon DEF Matching
<1>3. QED
  BY <1>1, <1>2, Zenon DEF SubscriptionOK, Delivers, Beginning

(* An event passes from one part to the next.                              *)
LEMMA PassingOn ==
  ASSUME NEW s \in Subscriptions, SubscriptionOK(s), Delivers(s), subs[s].state # "none",
         log' = log, OnTheWay(s)' = OnTheWay(s),
         subs'[s].since = subs[s].since, subs'[s].state = subs[s].state,
         s \in waiting' => s \in waiting,
         subs'[s].hand # <<>> => subs'[s].hand = <<Head(subs'[s].hand)>>
  PROVE  SubscriptionOK(s)' /\ Delivers(s)'
<1>1. Matching(s)' = Matching(s)
  BY Zenon DEF Matching
<1>2. QED
  BY <1>1, Zenon DEF SubscriptionOK, Delivers, Beginning

(* It is cancelled, or ends, and what is last on the way is given up.      *)
LEMMA GivingUp ==
  ASSUME NEW s \in Subscriptions, BusTypeOK, SubscriptionOK(s), Delivers(s), subs[s].state # "none",
         log' = log, NEW w \in Seq(EventSet), NEW x \in Seq(EventSet),
         OnTheWay(s)' = w, OnTheWay(s) = w \o x,
         subs'[s].since = subs[s].since, subs'[s].state \notin {"none", "open"},
         s \notin waiting', subs'[s].hand = subs[s].hand
  PROVE  SubscriptionOK(s)' /\ Delivers(s)'
<1>1. Matching(s)' = Matching(s)
  BY Zenon DEF Matching
<1>2. Matching(s) \in Seq(EventSet)
  BY SubscriptionType, Zenon
<1>3. Beginning(w, Matching(s))
  <2>1. Beginning(w \o x, Matching(s))
    BY Zenon DEF Delivers
  <2>2. QED
    BY <1>2, <2>1, BeginningOfBeginning
<1>4. QED
  BY <1>1, <1>3, Zenon DEF SubscriptionOK, Delivers, Beginning

DeliveryOK == BusTypeOK /\ \A s \in Subscriptions : SubscriptionOK(s) /\ Delivers(s)

(* This is the invariant.                                                  *)
LEMMA DeliveryOKIsInv == DeliveryOK <=> DeliveryInv
BY Zenon DEF DeliveryOK, DeliveryInv, NothingSkipped, Delivers, Beginning

(* A step that changes one subscription and nothing that concerns others.  *)
LEMMA OneSubscription ==
  ASSUME DeliveryOK, NEW s \in Subscriptions,
         log' = log, inHand' = inHand, waiting' = waiting,
         NEW new \in [state : {"none", "open", "unsubscribed", "outOfCapacity", "ended"},
                      since : Nat, queue : Seq(EventSet), hand : Seq(EventSet), taken : Seq(Taken)],
         subs' = [subs EXCEPT ![s] = new],
         SubscriptionOK(s)' /\ Delivers(s)'
  PROVE  DeliveryOK'
<1>1. BusTypeOK'
  BY Zenon DEF DeliveryOK, BusTypeOK, Taken
<1>2. ASSUME NEW r \in Subscriptions, r # s PROVE SubscriptionOK(r)' /\ Delivers(r)'
  <2>1. subs'[r] = subs[r]
    BY <1>2, Zenon DEF DeliveryOK, BusTypeOK
  <2>2. SubscriptionOK(r) /\ Delivers(r)
    BY Zenon DEF DeliveryOK
  <2>3. QED
    BY <2>1, <2>2, OtherSubscription, Zenon
<1>3. QED
  BY <1>1, <1>2, Zenon DEF DeliveryOK

(* Nothing that concerns subscriptions.                                    *)
LEMMA NoSubscription ==
  ASSUME DeliveryOK, UNCHANGED <<subs, log>>, inHand' \in Seq(EventSet), waiting' \subseteq waiting,
         \A s \in Subscriptions : /\ s \in waiting' <=> s \in waiting
                                  /\ s \in waiting => inHand' = inHand
  PROVE  DeliveryOK'
<1>1. BusTypeOK'
  BY Zenon DEF DeliveryOK, BusTypeOK
<1>2. ASSUME NEW r \in Subscriptions PROVE SubscriptionOK(r)' /\ Delivers(r)'
  <2>1. /\ subs'[r] = subs[r] /\ log' = log /\ SubscriptionOK(r) /\ Delivers(r)
        /\ r \in waiting' <=> r \in waiting
        /\ r \in waiting => inHand' = inHand
    BY DEF DeliveryOK
  <2>2. QED
    BY <2>1, OtherSubscription
<1>3. QED
  BY <1>1, <1>2, Zenon DEF DeliveryOK

Subscription == [state : {"none", "open", "unsubscribed", "outOfCapacity", "ended"}, since : Nat,
                 queue : Seq(EventSet), hand : Seq(EventSet), taken : Seq(Taken)]

(* TakeEvent.                                                              *)
LEMMA TakeEventInv ==
  ASSUME DeliveryOK, NEW s \in Subscriptions, TakeEvent(s)
  PROVE  DeliveryOK'
<1> DEFINE q == subs[s].queue
           new == [subs[s] EXCEPT !.hand = <<Head(q)>>, !.queue = Tail(q)]
<1>1. /\ subs[s].state # "none" /\ subs[s].hand = <<>> /\ q # <<>>
      /\ subs' = [subs EXCEPT ![s].hand = <<Head(q)>>, ![s].queue = Tail(q)]
      /\ UNCHANGED <<log, inHand, waiting>>
  BY Zenon DEF TakeEvent, Running
<1>2. BusTypeOK /\ SubscriptionOK(s) /\ Delivers(s) /\ subs[s] \in Subscription
      /\ subs \in [Subscriptions -> Subscription]
  BY Zenon DEF DeliveryOK, BusTypeOK, Subscription, Taken
<1>3. Head(q) \in EventSet /\ Tail(q) \in Seq(EventSet) /\ <<Head(q)>> \in Seq(EventSet)
  BY <1>1, <1>2, SubscriptionType, HeadAndTail, Zenon
<1>4. /\ subs' = [subs EXCEPT ![s] = new] /\ new \in Subscription /\ subs'[s] = new
      /\ new.hand = <<Head(q)>> /\ new.queue = Tail(q) /\ new.taken = subs[s].taken
      /\ new.state = subs[s].state /\ new.since = subs[s].since
  <2> HIDE DEF q
  <2>1. /\ new \in Subscription
        /\ new.hand = <<Head(q)>> /\ new.queue = Tail(q) /\ new.taken = subs[s].taken
        /\ new.state = subs[s].state /\ new.since = subs[s].since
    BY <1>2, <1>3 DEF Subscription
  <2>2. subs' = [subs EXCEPT ![s] = new]
    BY <1>1, <1>2 DEF Subscription
  <2>3. QED
    BY <1>2, <2>1, <2>2, Zenon
<1>5. OnTheWay(s)' = OnTheWay(s)
  <2> DEFINE t == EventsTaken(subs[s].taken)
             w == IF s \in waiting THEN inHand ELSE <<>>
  <2>1. /\ OnTheWay(s) = Way(t, <<>>, q, w) /\ t \in Seq(EventSet) /\ q \in Seq(EventSet)
        /\ q # <<>>
    BY <1>1, <1>2, SubscriptionType, Zenon
  <2>2. OnTheWay(s)' = Way(t, <<Head(q)>>, Tail(q), w)
    BY <1>1, <1>4, Zenon DEF OnTheWay, EventsTaken, Way
  <2> HIDE DEF q, t, w
  <2>3. Way(t, <<Head(q)>>, Tail(q), w) = Way(t, <<>>, q, w)
    BY <2>1, PassToHand, Zenon
  <2>4. QED
    BY <2>1, <2>2, <2>3, Zenon
<1>6. SubscriptionOK(s)' /\ Delivers(s)'
  <2>1. Head(<<Head(q)>>) = Head(q)
    OBVIOUS
  <2>2. subs'[s].hand = <<Head(subs'[s].hand)>>
    BY <1>4, <2>1, Zenon
  <2>3. QED
    BY <1>1, <1>2, <1>4, <1>5, <2>2, PassingOn, Zenon
<1> HIDE DEF new
<1>7. QED
  BY <1>1, <1>4, <1>6, OneSubscription, Zenon DEF Subscription

(* WriteRPCResponse.                                                       *)
LEMMA WriteInv ==
  ASSUME DeliveryOK, NEW s \in Subscriptions, WriteRPCResponse(s)
  PROVE  DeliveryOK'
<1> DEFINE x == Head(subs[s].hand)
<1>1. PICK written \in BOOLEAN : subs' = [subs EXCEPT ![s] = AfterWrite(s, written)]
  BY Zenon DEF WriteRPCResponse
<1> DEFINE new == AfterWrite(s, written)
           e == [event |-> x, written |-> written]
<1>2. /\ subs[s].state # "none" /\ subs[s].hand # <<>> /\ UNCHANGED <<log, inHand, waiting>>
  BY Zenon DEF WriteRPCResponse, Running
<1>3. BusTypeOK /\ SubscriptionOK(s) /\ Delivers(s) /\ subs[s] \in Subscription
      /\ subs \in [Subscriptions -> Subscription]
  BY Zenon DEF DeliveryOK, BusTypeOK, Subscription, Taken
<1>4. x \in EventSet /\ subs[s].hand = <<x>> /\ e \in Taken
  <2>1. x \in EventSet
    BY <1>2, <1>3, SubscriptionType, HeadAndTail, Zenon
  <2>2. subs[s].hand = <<x>>
    BY <1>2, <1>3, Zenon DEF SubscriptionOK
  <2> HIDE DEF x
  <2>3. e \in Taken
    BY <2>1 DEF Taken
  <2>4. QED
    BY <2>1, <2>2, <2>3, Zenon DEF x
<1>5. Append(subs[s].taken, e) \in Seq(Taken) /\ <<>> \in Seq(EventSet)
  <2> HIDE DEF e
  <2>1. subs[s].taken \in Seq(Taken)
    BY <1>3, SubscriptionType, Zenon
  <2>2. QED
    BY <1>4, <2>1
<1>6. /\ new \in Subscription /\ subs'[s] = new
      /\ new.hand = <<>> /\ new.queue = subs[s].queue /\ new.taken = Append(subs[s].taken, e)
      /\ new.state = subs[s].state /\ new.since = subs[s].since
  <2>1. new = [subs[s] EXCEPT !.hand = <<>>, !.taken = Append(subs[s].taken, e)]
    BY Zenon DEF AfterWrite
  <2> HIDE DEF e, new
  <2>2. /\ new \in Subscription
        /\ new.hand = <<>> /\ new.queue = subs[s].queue /\ new.taken = Append(subs[s].taken, e)
        /\ new.state = subs[s].state /\ new.since = subs[s].since
    BY <1>3, <1>5, <2>1 DEF Subscription
  <2>3. QED
    BY <1>1, <1>3, <2>2, Zenon DEF new
<1>7. OnTheWay(s)' = OnTheWay(s)
  <2> DEFINE t == EventsTaken(subs[s].taken)
             w == IF s \in waiting THEN inHand ELSE <<>>
  <2>1. /\ OnTheWay(s) = Way(t, <<x>>, subs[s].queue, w) /\ t \in Seq(EventSet)
        /\ subs[s].taken \in Seq(Taken)
    BY <1>3, <1>4, SubscriptionType, Zenon
  <2>2. OnTheWay(s)' = Way(EventsTaken(Append(subs[s].taken, e)), <<>>, subs[s].queue, w)
    BY <1>2, <1>6, Zenon DEF OnTheWay, EventsTaken, Way
  <2>3. EventsTaken(Append(subs[s].taken, e)) = Append(t, x)
    BY <1>4, <2>1, TakenAppend, Zenon
  <2> HIDE DEF t, w, x, e
  <2>4. Way(Append(t, x), <<>>, subs[s].queue, w) = Way(t, <<x>>, subs[s].queue, w)
    BY <1>4, <2>1, PassToTaken, Zenon
  <2>5. QED
    BY <2>1, <2>2, <2>3, <2>4, Zenon
<1>8. SubscriptionOK(s)' /\ Delivers(s)'
  BY <1>2, <1>3, <1>6, <1>7, PassingOn, Zenon
<1> HIDE DEF new
<1>9. QED
  BY <1>1, <1>2, <1>6, <1>8, OneSubscription, Zenon DEF Subscription, new

(* SeeCanceled.                                                            *)
LEMMA SeeCanceledInv ==
  ASSUME DeliveryOK, NEW s \in Subscriptions, SeeCanceled(s)
  PROVE  DeliveryOK'
<1> DEFINE new == [subs[s] EXCEPT !.state = "ended", !.queue = <<>>]
<1>1. /\ subs[s].state # "none" /\ subs[s].hand = <<>> /\ subs[s].state # "open"
      /\ subs' = [subs EXCEPT ![s].state = "ended", ![s].queue = <<>>]
      /\ UNCHANGED <<log, inHand, waiting>>
  BY Zenon DEF SeeCanceled, Running
<1>2. BusTypeOK /\ SubscriptionOK(s) /\ Delivers(s) /\ subs[s] \in Subscription
      /\ subs \in [Subscriptions -> Subscription] /\ s \notin waiting
  BY <1>1, Zenon DEF DeliveryOK, BusTypeOK, Subscription, Taken, SubscriptionOK
<1>3. /\ subs' = [subs EXCEPT ![s] = new] /\ new \in Subscription /\ subs'[s] = new
      /\ new.hand = <<>> /\ new.queue = <<>> /\ new.taken = subs[s].taken
      /\ new.state = "ended" /\ new.since = subs[s].since
  <2>1. /\ new \in Subscription
        /\ new.hand = <<>> /\ new.queue = <<>> /\ new.taken = subs[s].taken
        /\ new.state = "ended" /\ new.since = subs[s].since
    BY <1>1, <1>2 DEF Subscription
  <2>2. subs' = [subs EXCEPT ![s] = new]
    BY <1>1, <1>2 DEF Subscription
  <2>3. QED
    BY <1>2, <2>1, <2>2, Zenon
<1>4. SubscriptionOK(s)' /\ Delivers(s)'
  <2> DEFINE t == EventsTaken(subs[s].taken)
             q == subs[s].queue
  <2>1. OnTheWay(s) = Way(t, <<>>, q, <<>>) /\ t \in Seq(EventSet) /\ q \in Seq(EventSet)
    BY <1>1, <1>2, SubscriptionType, Zenon
  <2>2. OnTheWay(s)' = t \o <<>> \o <<>> \o <<>>
    BY <1>1, <1>2, <1>3, Zenon DEF OnTheWay, EventsTaken
  <2> HIDE DEF t, q
  <2>3. t \o <<>> = t /\ t \o q \in Seq(EventSet)
    BY <2>1, ConcatEmptySeq, Concatenated
  <2>4. (t \o q) \o <<>> = t \o q
    BY <2>3, ConcatEmptySeq
  <2>5. OnTheWay(s)' = t /\ OnTheWay(s) = t \o q
    BY <2>1, <2>2, <2>3, <2>4, Zenon DEF Way
  <2>6. /\ subs'[s].since = subs[s].since /\ subs'[s].state \notin {"none", "open"}
        /\ s \notin waiting' /\ subs'[s].hand = subs[s].hand
    BY <1>1, <1>2, <1>3
  <2>7. QED
    BY <1>1, <1>2, <2>1, <2>5, <2>6, GivingUp
<1> HIDE DEF new
<1>5. QED
  BY <1>1, <1>3, <1>4, OneSubscription, Zenon DEF Subscription
(* DeliverToSubscription.                                                  *)
LEMMA DeliverEventInv ==
  ASSUME DeliveryOK, InHandOK, NEW s \in Subscriptions, DeliverToSubscription(s)
  PROVE  DeliveryOK'
<1> DEFINE x == Head(inHand)
           q == subs[s].queue
           t == EventsTaken(subs[s].taken)
           fits == [subs[s] EXCEPT !.queue = Append(q, x)]
           full == [subs[s] EXCEPT !.state = "outOfCapacity"]
           new == IF Len(q) < BufferSize THEN fits ELSE full
<1>1. /\ s \in waiting /\ waiting' = waiting \ {s} /\ log' = log
      /\ inHand' = IF waiting = {s} THEN <<>> ELSE inHand
      /\ s \notin waiting' /\ subs' = [subs EXCEPT ![s] = new]
  <2>1. subs' = [subs EXCEPT ![s] = new]
    BY DEF DeliverToSubscription
  <2>2. /\ s \in waiting /\ waiting' = waiting \ {s} /\ log' = log
        /\ inHand' = IF waiting = {s} THEN <<>> ELSE inHand
    BY Zenon DEF DeliverToSubscription, Delivered
  <2>3. QED
    BY <2>1, <2>2, Zenon
<1>2. BusTypeOK /\ SubscriptionOK(s) /\ Delivers(s) /\ subs[s] \in Subscription
      /\ subs \in [Subscriptions -> Subscription] /\ inHand \in Seq(EventSet)
  BY Zenon DEF DeliveryOK, BusTypeOK, Subscription, Taken
<1>3. subs[s].state = "open" /\ inHand # <<>> /\ inHand = <<x>>
  BY <1>1, <1>2, Zenon DEF SubscriptionOK, InHandOK
<1>4. x \in EventSet /\ inHand' \in Seq(EventSet) /\ <<x>> \in Seq(EventSet)
  <2>1. x \in EventSet
    BY <1>2, <1>3, HeadAndTail, Zenon
  <2>2. <<>> \in Seq(EventSet)
    OBVIOUS
  <2>3. QED
    BY <1>1, <1>2, <1>3, <2>1, <2>2, Zenon
<1>5. /\ OnTheWay(s) = Way(t, subs[s].hand, q, <<x>>) /\ t \in Seq(EventSet) /\ q \in Seq(EventSet)
      /\ subs[s].hand \in Seq(EventSet)
  BY <1>1, <1>2, <1>3, SubscriptionType, Zenon
<1>6. /\ fits \in Subscription /\ fits.queue = Append(q, x) /\ fits.hand = subs[s].hand
      /\ fits.taken = subs[s].taken /\ fits.state = "open" /\ fits.since = subs[s].since
  <2> HIDE DEF x, q
  <2>1. Append(q, x) \in Seq(EventSet)
    BY <1>4, <1>5
  <2>2. QED
    BY <1>2, <1>3, <2>1 DEF Subscription
<1>7. /\ full \in Subscription /\ full.queue = q /\ full.hand = subs[s].hand
      /\ full.taken = subs[s].taken /\ full.state = "outOfCapacity" /\ full.since = subs[s].since
  BY <1>2 DEF Subscription
<1> HIDE DEF fits, full
<1>8. subs'[s] = new /\ new \in Subscription
  BY <1>1, <1>2, <1>6, <1>7, Zenon
<1>9. SubscriptionOK(s)' /\ Delivers(s)'
  <2>1. CASE Len(q) < BufferSize
    <3>1. subs'[s] = fits
      BY <1>8, <2>1, Zenon
    <3>2. OnTheWay(s)' = Way(t, subs[s].hand, Append(q, x), <<>>)
      <4>1. /\ subs'[s].taken = subs[s].taken /\ subs'[s].hand = subs[s].hand
            /\ subs'[s].queue = Append(q, x)
        BY <1>6, <3>1, Zenon
      <4>2. s \notin waiting'
        BY <1>1, Zenon
      <4>3. QED
        BY <4>1, <4>2, Zenon DEF OnTheWay, EventsTaken, Way
    <3> HIDE DEF x, q, t
    <3>3. Way(t, subs[s].hand, Append(q, x), <<>>) = Way(t, subs[s].hand, q, <<x>>)
      BY <1>4, <1>5, PassToQueue, Zenon
    <3>4. OnTheWay(s)' = OnTheWay(s)
      BY <1>5, <3>2, <3>3, Zenon
    <3>5. subs'[s].hand # <<>> => subs'[s].hand = <<Head(subs'[s].hand)>>
      BY <1>2, <1>6, <3>1, Zenon DEF SubscriptionOK
    <3>6. /\ subs[s].state # "none" /\ subs'[s].since = subs[s].since
          /\ subs'[s].state = subs[s].state
      BY <1>3, <1>6, <3>1
    <3>7. QED
      BY <1>1, <1>2, <3>4, <3>5, <3>6, PassingOn, Zenon
  <2>2. CASE ~(Len(q) < BufferSize)
    <3>1. subs'[s] = full
      BY <1>8, <2>2, Zenon
    <3> DEFINE w == Way(t, subs[s].hand, q, <<>>)
    <3>2. OnTheWay(s)' = w
      <4>1. /\ subs'[s].taken = subs[s].taken /\ subs'[s].hand = subs[s].hand
            /\ subs'[s].queue = q
        BY <1>7, <3>1, Zenon
      <4>2. s \notin waiting'
        BY <1>1, Zenon
      <4>3. QED
        BY <4>1, <4>2, Zenon DEF OnTheWay, EventsTaken, Way
    <3> HIDE DEF x, q, t
    <3>3. w \in Seq(EventSet) /\ OnTheWay(s) = w \o <<x>>
      BY <1>4, <1>5, WayEnds
    <3>4. /\ subs[s].state # "none" /\ subs'[s].since = subs[s].since
          /\ subs'[s].state \notin {"none", "open"} /\ s \notin waiting' /\ subs'[s].hand = subs[s].hand
      BY <1>1, <1>3, <1>7, <3>1
    <3> HIDE DEF w
    <3>5. QED
      BY <1>1, <1>2, <1>4, <3>2, <3>3, <3>4, GivingUp
  <2>3. QED
    BY <2>1, <2>2, Zenon
<1> HIDE DEF new
<1>10. ASSUME NEW r \in Subscriptions, r # s PROVE SubscriptionOK(r)' /\ Delivers(r)'
  <2>1. subs'[r] = subs[r] /\ SubscriptionOK(r) /\ Delivers(r)
    BY <1>1, <1>2, <1>10, Zenon DEF DeliveryOK
  <2>2. (r \in waiting' <=> r \in waiting) /\ (r \in waiting => inHand' = inHand)
    BY <1>1, <1>10, Zenon
  <2>3. QED
    BY <1>1, <2>1, <2>2, OtherSubscription, Zenon
<1>11. BusTypeOK'
  BY <1>1, <1>2, <1>4, <1>8, Zenon DEF DeliveryOK, BusTypeOK, Subscription, Taken
<1>12. QED
  BY <1>9, <1>10, <1>11, Zenon DEF DeliveryOK

(* DeliverToIndexer.                                                       *)
LEMMA DeliverToIndexerInv ==
  ASSUME DeliveryOK, DeliverToIndexer
  PROVE  DeliveryOK'
<1>1. /\ UNCHANGED <<subs, log>> /\ waiting' = waiting \ {Indexer}
      /\ inHand' = IF waiting = {Indexer} THEN <<>> ELSE inHand
  BY Zenon DEF DeliverToIndexer, Delivered
<1>2. inHand' \in Seq(EventSet)
  <2>1. inHand \in Seq(EventSet) /\ <<>> \in Seq(EventSet)
    BY DEF DeliveryOK, BusTypeOK
  <2>2. QED
    BY <1>1, <2>1, Zenon
<1>3. \A s \in Subscriptions : s # Indexer
  BY BusConstantsHaveTypes, Zenon
<1>4. QED
  BY <1>1, <1>2, <1>3, NoSubscription, Zenon

(* Subscribe: what was published before does not count.                    *)
LEMMA SubscribeInv ==
  ASSUME DeliveryOK, InHandOK, NEW s \in Subscriptions, Subscribe(s)
  PROVE  DeliveryOK'
<1> DEFINE new == [subs[s] EXCEPT !.state = "open", !.since = Len(log)]
<1>1. /\ subs[s].state = "none" /\ inHand = <<>> /\ waiting = {}
      /\ subs' = [subs EXCEPT ![s].state = "open", ![s].since = Len(log)]
      /\ UNCHANGED <<log, inHand, waiting>>
  BY Zenon DEF Subscribe, InHandOK
<1>2. BusTypeOK /\ SubscriptionOK(s) /\ Delivers(s) /\ subs[s] \in Subscription
      /\ subs \in [Subscriptions -> Subscription] /\ log \in Seq(EventSet)
  BY Zenon DEF DeliveryOK, BusTypeOK, Subscription, Taken
<1>3. Len(log) \in Nat
  BY <1>2
<1>4. /\ subs' = [subs EXCEPT ![s] = new] /\ new \in Subscription /\ subs'[s] = new
      /\ new.hand = subs[s].hand /\ new.queue = subs[s].queue /\ new.taken = subs[s].taken
      /\ new.state = "open" /\ new.since = Len(log)
  <2>1. /\ new \in Subscription
        /\ new.hand = subs[s].hand /\ new.queue = subs[s].queue /\ new.taken = subs[s].taken
        /\ new.state = "open" /\ new.since = Len(log)
    BY <1>2, <1>3 DEF Subscription
  <2>2. subs' = [subs EXCEPT ![s] = new]
    BY <1>1, <1>2 DEF Subscription
  <2>3. QED
    BY <1>2, <2>1, <2>2, Zenon
<1> HIDE DEF new
<1>5. OnTheWay(s)' = <<>>
  <2>1. OnTheWay(s)' = OnTheWay(s)
    BY <1>1, <1>4, Zenon DEF OnTheWay
  <2>2. QED
    BY <1>1, <1>2, <2>1, Zenon DEF SubscriptionOK
<1>6. Matching(s)' = <<>>
  <2> DEFINE S == {i \in Len(log) + 1..Len(log) : log[i].type \in Query[s]}
  <2>1. Matching(s)' = Kept(log, S)
    BY <1>1, <1>4, Zenon DEF Matching
  <2>2. \A i \in 1..Len(log) : i \notin S
    BY <1>3
  <2> HIDE DEF S
  <2>3. QED
    BY <1>2, <2>1, <2>2, NothingKept, Zenon
<1>7. Beginning(<<>>, <<>>)
  <2>1. <<>> \in Seq(EventSet)
    OBVIOUS
  <2>2. QED
    BY <2>1, BeginsWithItself, Zenon
<1>8. Delivers(s)'
  BY <1>4, <1>5, <1>6, <1>7, Zenon DEF Delivers, Beginning
<1>9. SubscriptionOK(s)'
  <2>1. subs'[s].since <= Len(log')
    BY <1>1, <1>3, <1>4
  <2>2. s \notin waiting'
    BY <1>1, Zenon
  <2>3. subs'[s].hand = subs[s].hand /\ subs'[s].state = "open"
    BY <1>4, Zenon
  <2>4. QED
    BY <1>2, <2>1, <2>2, <2>3 DEF SubscriptionOK
<1>10. QED
  BY <1>1, <1>4, <1>8, <1>9, OneSubscription, Zenon DEF Subscription

(* Unsubscribe and UnsubscribeAll.                                         *)
LEMMA CancelInv ==
  ASSUME DeliveryOK, InHandOK, NEW S, inHand = <<>>, subs' = Cancelled(S),
         UNCHANGED <<log, inHand, waiting>>
  PROVE  DeliveryOK'
<1>1. /\ BusTypeOK /\ waiting = {} /\ subs \in [Subscriptions -> Subscription]
  BY Zenon DEF DeliveryOK, BusTypeOK, Subscription, Taken, InHandOK
<1>2. ASSUME NEW s \in Subscriptions
      PROVE  subs'[s] \in Subscription /\ SubscriptionOK(s)' /\ Delivers(s)'
  <2>1. SubscriptionOK(s) /\ Delivers(s) /\ subs[s] \in Subscription
    BY <1>1, Zenon DEF DeliveryOK
  <2>2. CASE subs'[s] = subs[s]
    BY <1>1, <2>1, <2>2, OtherSubscription, Zenon
  <2>3. CASE subs[s].state = "open" /\ subs'[s] = [subs[s] EXCEPT !.state = "unsubscribed"]
    <3> DEFINE new == [subs[s] EXCEPT !.state = "unsubscribed"]
    <3>1. /\ new \in Subscription
          /\ new.hand = subs[s].hand /\ new.queue = subs[s].queue /\ new.taken = subs[s].taken
          /\ new.state = "unsubscribed" /\ new.since = subs[s].since
      BY <2>1 DEF Subscription
    <3> HIDE DEF new
    <3>2. subs'[s] = new
      BY <2>3 DEF new
    <3>3. OnTheWay(s)' = OnTheWay(s) /\ Matching(s)' = Matching(s)
      BY <3>1, <3>2, Zenon DEF OnTheWay, Matching
    <3>4. SubscriptionOK(s)' /\ Delivers(s)'
      <4>1. /\ subs'[s].hand = subs[s].hand /\ subs'[s].since = subs[s].since
            /\ subs'[s].state = "unsubscribed"
        BY <3>1, <3>2, Zenon
      <4>2. subs'[s].state \notin {"none", "open"} /\ subs[s].state # "none" /\ s \notin waiting'
        BY <1>1, <2>3, <4>1
      <4>3. QED
        BY <2>1, <3>3, <4>1, <4>2, Zenon DEF SubscriptionOK, Delivers, Beginning
    <3>5. QED
      BY <3>1, <3>2, <3>4, Zenon
  <2>4. QED
    BY <2>2, <2>3, Zenon DEF Cancelled
<1>3. subs' \in [Subscriptions -> Subscription]
  <2>1. subs' = [s \in Subscriptions |-> subs'[s]]
    BY Zenon DEF Cancelled
  <2>2. QED
    BY <1>2, <2>1
<1>4. BusTypeOK'
  BY <1>1, <1>3, Zenon DEF BusTypeOK, Subscription, Taken
<1>5. QED
  BY <1>2, <1>4, Zenon DEF DeliveryOK

(* One more event: it matches the query of a subscription or not.          *)
LEMMA MatchingGrows ==
  ASSUME BusTypeOK, NEW s \in Subscriptions, SubscriptionOK(s), NEW e \in EventSet,
         log' = Append(log, e), subs' = subs
  PROVE  Matching(s)' = IF e.type \in Query[s] THEN Append(Matching(s), e) ELSE Matching(s)
<1> DEFINE b == subs[s].since
           n == Len(log)
           S == {i \in b + 1..n : log[i].type \in Query[s]}
           T == {i \in b + 1..Len(log') : log'[i].type \in Query[s]}
<1>1. log \in Seq(EventSet) /\ b \in Nat /\ b <= n
  BY SubscriptionType, Zenon DEF BusTypeOK, SubscriptionOK
<1>2. n \in Nat /\ Len(log') = n + 1 /\ log'[n + 1] = e /\ \A i \in 1..n : log'[i] = log[i]
  <2>1. Len(log) \in Nat
    BY <1>1, LenProperties, Zenon
  <2>2. /\ Len(Append(log, e)) = Len(log) + 1 /\ Append(log, e)[Len(log) + 1] = e
        /\ \A i \in 1..Len(log) : Append(log, e)[i] = log[i]
    <3>1. \A q \in Seq(EventSet) :
            /\ Len(Append(q, e)) = Len(q) + 1 /\ Append(q, e)[Len(q) + 1] = e
            /\ \A i \in 1..Len(q) : Append(q, e)[i] = q[i]
      OBVIOUS
    <3>2. QED
      BY <1>1, <3>1, Zenon
  <2>3. QED
    BY <2>1, <2>2, Zenon
<1>3. Matching(s) = Kept(log, S) /\ Matching(s)' = Kept(Append(log, e), T)
  BY Zenon DEF Matching
<1> HIDE DEF b, n
<1>4. \A i \in 1..n : i \in S <=> i \in T
  <2>1. ASSUME NEW i \in 1..n PROVE i \in S <=> i \in T
    <3>1. i \in b + 1..n <=> i \in b + 1..Len(log')
      BY <1>1, <1>2
    <3>2. log'[i] = log[i]
      BY <1>2, Zenon
    <3>3. QED
      BY <3>1, <3>2, Zenon
  <2>2. QED
    BY <2>1, Zenon
<1>5. n + 1 \in T <=> e.type \in Query[s]
  <2>1. n + 1 \in b + 1..Len(log')
    BY <1>1, <1>2
  <2>2. QED
    BY <1>2, <2>1, Zenon
<1> HIDE DEF S, T
<1>6. Kept(Append(log, e), T) = IF n + 1 \in T THEN Append(Kept(log, S), e) ELSE Kept(log, S)
  BY <1>1, <1>4, KeptAppend DEF n
<1>7. QED
  BY <1>3, <1>5, <1>6, Zenon

(* PublishEvent: what matches the query of an open subscription is on its  *)
(* way.                                                                    *)
LEMMA PublishDelivers ==
  ASSUME ClientInv, BusInv, DeliveryOK, NEW t \in Threads, PublishEvent(t)
  PROVE  DeliveryOK'
<1> DEFINE events == fireEvents(block, res)
           e == events[fired + 1]
<1>1. /\ inHand = <<>> /\ fired < Len(events) /\ log' = Append(log, e) /\ subs' = subs
      /\ inHand' = (IF Receivers(e) = {} THEN <<>> ELSE <<e>>) /\ waiting' = Receivers(e)
  BY Zenon DEF PublishEvent
<1>2. e \in EventSet
  <2>1. events \in Seq(EventSet) /\ Len(events) \in Nat /\ fired \in 0..Len(events)
    BY BlockEvents, Zenon DEF BusInv, FiringOK
  <2> HIDE DEF events
  <2>2. fired + 1 \in 1..Len(events)
    BY <1>1, <2>1
  <2>3. QED
    BY <2>1, <2>2
<1> HIDE DEF e, events
<1>3. BusTypeOK /\ waiting = {} /\ log \in Seq(EventSet)
  BY <1>1, Zenon DEF DeliveryOK, BusTypeOK, BusInv, InHandOK
<1>4. BusTypeOK'
  <2>1. Append(log, e) \in Seq(EventSet) /\ <<e>> \in Seq(EventSet) /\ <<>> \in Seq(EventSet)
    BY <1>2, <1>3
  <2>2. Receivers(e) \subseteq Subscriptions \cup {Indexer}
    BY Zenon DEF Receivers
  <2>3. QED
    BY <1>1, <1>3, <2>1, <2>2, Zenon DEF BusTypeOK
<1>5. ASSUME NEW s \in Subscriptions PROVE SubscriptionOK(s)' /\ Delivers(s)'
  <2>1. SubscriptionOK(s) /\ Delivers(s) /\ s # Indexer /\ s \notin waiting
    BY <1>3, BusConstantsHaveTypes, Zenon DEF DeliveryOK
  <2>2. s \in waiting' <=> subs[s].state = "open" /\ e.type \in Query[s]
    BY <1>1, <2>1, Zenon DEF Receivers
  <2>3. Matching(s)' = IF e.type \in Query[s] THEN Append(Matching(s), e) ELSE Matching(s)
    BY <1>1, <1>2, <1>3, <2>1, MatchingGrows, Zenon
  <2>4. Matching(s) \in Seq(EventSet) /\ Append(Matching(s), e) \in Seq(EventSet)
    <3>1. Matching(s) \in Seq(EventSet)
      BY <1>3, SubscriptionType, Zenon
    <3>2. QED
      BY <1>2, <3>1
  <2>5. subs[s].since <= Len(log')
    <3>1. Len(log') = Len(log) + 1 /\ Len(log) \in Nat /\ subs[s].since \in Nat
      <4>1. log \in Seq(EventSet) /\ subs[s].since \in Nat
        BY <1>3, SubscriptionType, Zenon DEF BusTypeOK
      <4>2. Len(Append(log, e)) = Len(log) + 1 /\ Len(log) \in Nat
        BY <1>2, <4>1, AppendProperties, LenProperties, Zenon
      <4>3. QED
        BY <1>1, <4>1, <4>2, Zenon
    <3>2. QED
      BY <2>1, <3>1 DEF SubscriptionOK
  <2>6. CASE s \in waiting'
    <3> DEFINE tk == EventsTaken(subs[s].taken)
               h == subs[s].hand
               q == subs[s].queue
    <3>1. inHand' = <<e>>
      BY <1>1, <2>6, Zenon
    <3>2. /\ OnTheWay(s) = Way(tk, h, q, <<>>) /\ tk \in Seq(EventSet)
          /\ h \in Seq(EventSet) /\ q \in Seq(EventSet)
      BY <1>3, <2>1, SubscriptionType, Zenon
    <3>3. OnTheWay(s)' = Way(tk, h, q, <<e>>)
      BY <1>1, <2>6, <3>1, Zenon DEF OnTheWay, EventsTaken, Way
    <3>4. OnTheWay(s) = Matching(s) /\ subs[s].state = "open" /\ e.type \in Query[s]
      BY <2>1, <2>2, <2>6 DEF Delivers
    <3> HIDE DEF tk, h, q
    <3>5. Way(tk, h, q, <<e>>) = Way(tk, h, q, <<>>) \o <<e>>
      BY <1>2, <3>2, WayEnds
    <3>6. Append(Matching(s), e) = Matching(s) \o <<e>>
      BY <1>2, <2>4, AppendIsConcat
    <3>7. OnTheWay(s)' = Matching(s)'
      BY <2>3, <3>2, <3>3, <3>4, <3>5, <3>6, Zenon
    <3>8. Beginning(Matching(s)', Matching(s)')
      BY <2>3, <2>4, <3>4, BeginsWithItself, Zenon
    <3>9. Delivers(s)'
      BY <3>7, <3>8, Zenon DEF Delivers, Beginning
    <3>10. subs[s].state # "none"
      BY <3>4
    <3>11. QED
      BY <1>1, <2>1, <2>5, <3>4, <3>9, <3>10, Zenon DEF SubscriptionOK
  <2>7. CASE s \notin waiting'
    <3>1. OnTheWay(s)' = OnTheWay(s)
      BY <1>1, <2>1, <2>7, Zenon DEF OnTheWay
    <3>2. subs[s].state = "open" => Matching(s)' = Matching(s)
      BY <2>2, <2>3, <2>7, Zenon
    <3>3. ASSUME Beginning(OnTheWay(s), Matching(s)) PROVE Beginning(OnTheWay(s), Matching(s)')
      BY <1>2, <2>3, <2>4, <3>3, BeginsWhenAppended, Zenon
    <3>4. Delivers(s)'
      BY <1>1, <2>1, <3>1, <3>2, <3>3, Zenon DEF Delivers, Beginning
    <3>5. QED
      BY <1>1, <2>1, <2>5, <2>7, <3>1, <3>4, Zenon DEF SubscriptionOK
  <2>8. QED
    BY <2>6, <2>7, Zenon
<1>6. QED
  BY <1>4, <1>5, Zenon DEF DeliveryOK

(* Nothing is published initially.                                         *)
LEMMA InitDelivery ==
  ASSUME BusInit
  PROVE  DeliveryOK
<1> DEFINE none == [state |-> "none", since |-> 0, queue |-> <<>>, hand |-> <<>>, taken |-> <<>>]
<1>1. /\ inHand = <<>> /\ waiting = {} /\ log = <<>> /\ subs = [s \in Subscriptions |-> none]
  BY Zenon DEF BusInit
<1>2. none \in Subscription /\ <<>> \in Seq(EventSet)
  BY DEF Subscription
<1>3. none.state = "none" /\ none.since = 0 /\ none.queue = <<>> /\ none.hand = <<>> /\ none.taken = <<>>
  OBVIOUS
<1> HIDE DEF none
<1>4. BusTypeOK
  <2>1. subs \in [Subscriptions -> Subscription]
    BY <1>1, <1>2, Zenon
  <2>2. QED
    BY <1>1, <1>2, <2>1, Zenon DEF BusTypeOK, Subscription, Taken
<1>5. ASSUME NEW s \in Subscriptions PROVE SubscriptionOK(s) /\ Delivers(s)
  <2>1. subs[s] = none
    BY <1>1, Zenon
  <2>2. OnTheWay(s) = <<>>
    <3>1. EventsTaken(<<>>) = <<>>
      BY DEF EventsTaken
    <3>2. <<>> \o <<>> = <<>>
      BY <1>2, ConcatEmptySeq
    <3>3. EventsTaken(subs[s].taken) = <<>> /\ subs[s].hand = <<>> /\ subs[s].queue = <<>> /\ s \notin waiting
      BY <1>1, <1>3, <2>1, <3>1, Zenon
    <3>4. QED
      BY <3>2, <3>3, Zenon DEF OnTheWay, EventsTaken
  <2>3. Len(log) = 0
    BY <1>1
  <2>4. 0 <= 0
    OBVIOUS
  <2>5. subs[s].since <= Len(log)
    BY <1>3, <2>1, <2>3, <2>4, Zenon
  <2>6. QED
    BY <1>1, <1>3, <2>1, <2>2, <2>5, Zenon DEF SubscriptionOK, Delivers
<1>6. QED
  BY <1>4, <1>5, Zenon DEF DeliveryOK

(* Every step keeps the invariant.                                         *)
LEMMA StepDelivery ==
  ASSUME ClientInv, BusInv, DeliveryOK, [BusNext]_<<vars, busVars>>
  PROVE  DeliveryOK'
<1>0. InHandOK
  BY Zenon DEF BusInv
<1>1. CASE UNCHANGED <<subs, log, inHand, waiting>>
  <2>1. inHand' \in Seq(EventSet)
    BY <1>1, Zenon DEF DeliveryOK, BusTypeOK
  <2>2. QED
    BY <1>1, <2>1, NoSubscription, Zenon
<1>2. CASE BusStep
  <2>1. CASE Loop
    BY <1>0, <2>1, DeliverToIndexerInv, DeliverEventInv, Zenon DEF Loop
  <2>2. CASE Indexing
    BY <1>1, <2>2, Zenon DEF Indexing, IndexBlock, IndexTxs
  <2>3. ASSUME NEW s \in Subscriptions, Subscribe(s) \/ Unsubscribe(s) \/ UnsubscribeAll(RemoteAddr[s])
        PROVE  DeliveryOK'
    <3>1. CASE Subscribe(s)
      BY <1>0, <3>1, SubscribeInv, Zenon
    <3>2. CASE Unsubscribe(s)
      BY <1>0, <3>2, CancelInv, Zenon DEF Unsubscribe
    <3>3. CASE UnsubscribeAll(RemoteAddr[s])
      BY <1>0, <3>3, CancelInv, Zenon DEF UnsubscribeAll
    <3>4. QED
      BY <2>3, <3>1, <3>2, <3>3, Zenon
  <2>4. ASSUME NEW s \in Subscriptions, Writer(s) PROVE DeliveryOK'
    BY <2>4, TakeEventInv, WriteInv, SeeCanceledInv, Zenon DEF Writer
  <2>5. QED
    BY <1>2, <2>1, <2>2, <2>3, <2>4, Zenon DEF BusStep
<1>3. ASSUME NEW t \in Threads, FiringStep(t) PROVE DeliveryOK'
  <2>1. CASE PublishEvent(t)
    BY <2>1, PublishDelivers, Zenon
  <2>2. CASE ReturnFromFireEvents(t) \/ PanicInFireEvents(t)
    BY <1>1, <2>2, Zenon DEF ReturnFromFireEvents, PanicInFireEvents
  <2>3. QED
    BY <1>3, <2>1, <2>2, Zenon DEF FiringStep
<1>4. CASE UNCHANGED busVars
  BY <1>1, <1>4, Zenon DEF busVars
<1>5. QED
  BY <1>2, <1>3, <1>4, Zenon DEF BusNext

(* The inductive invariant of the subscriptions: what was published for    *)
(* one is, in this order, what its goroutine took, what it writes, what is *)
(* queued and what the loop has in hand.                                   *)
THEOREM DeliveryInvHolds == BusSpec => []DeliveryInv
<1>1. BusSpec => [](TypeOK /\ StorageInv /\ AppInv /\ TipInv)
  BY EventsDoNotDisturb, TypeCorrect, InvHolds, AppInvHolds, TipInvHolds, PTL
<1>2. TypeOK /\ StorageInv /\ AppInv /\ TipInv => ClientInv
  BY Zenon DEF ClientInv
<1>3. BusInit => DeliveryOK
  BY InitDelivery, Zenon
<1>4. ClientInv /\ BusInv /\ DeliveryOK /\ [BusNext]_<<vars, busVars>> => DeliveryOK'
  BY StepDelivery, Zenon
<1>5. DeliveryOK => DeliveryInv
  BY DeliveryOKIsInv, Zenon
<1>6. QED
  BY <1>1, <1>2, <1>3, <1>4, <1>5, BusInvHolds, PTL DEF BusSpec

(* A subscription takes the events that match its query in the order of    *)
(* publication, each once and none left out; all of them as long as it is  *)
(* open, and the first ones of them after it was cancelled: whatever       *)
(* writes time out, and whatever the size of the buffers is.               *)
THEOREM NoEventIsSkipped == BusSpec => []NothingSkipped
<1>1. DeliveryInv => NothingSkipped
  BY Zenon DEF DeliveryInv
<1>2. QED
  BY <1>1, DeliveryInvHolds, PTL
=============================================================================
