--------------------------- MODULE IntercomProofs ---------------------------
(* What the two ends of the intercom keep for every size of the ring and of  *)
(* the play list, every number of packets and sessions, and every setting of *)
(* the listening end: theorems about IntercomLink.                           *)
EXTENDS IntercomLink, WellFoundedInduction, SequenceTheorems, TLAPS

-----------------------------------------------------------------------------
(* Numbers, places in a ring, and lists.                                     *)

LEMMA MinTwo ==
  ASSUME NEW a \in Int, NEW b \in Int
  PROVE  Min({a, b}) = IF a <= b THEN a ELSE b
<1> DEFINE m == IF a <= b THEN a ELSE b
<1>1. \A x \in {a, b} : (\A y \in {a, b} : x <= y) <=> x = m
  OBVIOUS
<1>2. m \in {a, b}
  OBVIOUS
<1> HIDE DEF m
<1>3. (CHOOSE x \in {a, b} : \A y \in {a, b} : x <= y) = m
  BY <1>1, <1>2
<1> QED BY <1>3 DEF Min, m

(* Min of a set of numbers is one of them. *)
LEMMA Least ==
  ASSUME NEW S \in SUBSET Nat, S # {}
  PROVE  Min(S) \in S
<1> DEFINE R == OpToRel(<, Nat)
<1>1. R = {ss \in Nat \X Nat : ss[1] < ss[2]} /\ IsWellFoundedOn(R, Nat)
  BY NatLessThanWellFounded, Zenon DEF OpToRel
<1> HIDE DEF R
<1>2. PICK x \in S : \A y \in S : ~ (<<y, x>> \in R)
  BY <1>1, WFMin
<1>3. \A y \in S : x <= y
  <2>1. \A a, b \in Nat : a < b => <<a, b>> \in R
    BY <1>1
  <2>2. x \in Nat /\ \A y \in S : y \in Nat /\ ~ (y < x)
    BY <1>2, <2>1
  <2> QED BY <2>2
<1> QED BY <1>3 DEF Min

LEMMA Inserted ==
  ASSUME NEW S, NEW list \in Seq(S), NEW p \in S, NEW i \in 1 .. Len(list)
  PROVE  /\ InsertAt(list, i, p) \in Seq(S)
         /\ Len(InsertAt(list, i, p)) = Len(list) + 1
         /\ \A j \in 1 .. Len(list) + 1 :
              InsertAt(list, i, p)[j] = IF j < i THEN list[j] ELSE IF j = i THEN p ELSE list[j - 1]
<1> DEFINE low == SubSeq(list, 1, i - 1)
           high == SubSeq(list, i, Len(list))
           one == <<p>>
           mid == low \o one
           all == mid \o high
<1>1. low \in Seq(S) /\ Len(low) = i - 1 /\ \A j \in 1 .. i - 1 : low[j] = list[j]
  OBVIOUS
<1>2. /\ high \in Seq(S) /\ Len(high) = Len(list) - i + 1
      /\ \A j \in 1 .. Len(list) - i + 1 : high[j] = list[i + j - 1]
  OBVIOUS
<1>3. one \in Seq(S) /\ Len(one) = 1 /\ one[1] = p
  OBVIOUS
<1> HIDE DEF low, high, one
<1>4. /\ mid \in Seq(S) /\ Len(mid) = Len(low) + Len(one)
      /\ \A j \in 1 .. Len(low) + Len(one) : mid[j] = IF j <= Len(low) THEN low[j] ELSE one[j - Len(low)]
  BY <1>1, <1>3, ConcatProperties
<1> HIDE DEF mid
<1>5. /\ all \in Seq(S) /\ Len(all) = Len(mid) + Len(high)
      /\ \A j \in 1 .. Len(mid) + Len(high) : all[j] = IF j <= Len(mid) THEN mid[j] ELSE high[j - Len(mid)]
  <2>1. mid \in Seq(S) /\ high \in Seq(S)
    BY <1>2, <1>4
  <2> QED BY <2>1, ConcatProperties
<1>6. InsertAt(list, i, p) = all
  BY DEF InsertAt, low, high, one, mid
<1> HIDE DEF all
<1>7. Len(mid) = i /\ Len(all) = Len(list) + 1
  BY <1>1, <1>2, <1>3, <1>4, <1>5
<1>8. ASSUME NEW j \in 1 .. Len(list) + 1
      PROVE  all[j] = IF j < i THEN list[j] ELSE IF j = i THEN p ELSE list[j - 1]
  <2>1. CASE j <= i
    <3>1. all[j] = mid[j]
      BY <1>2, <1>5, <1>7, <2>1
    <3>2. mid[j] = IF j <= i - 1 THEN low[j] ELSE one[j - (i - 1)]
      BY <1>1, <1>3, <1>4, <2>1
    <3>3. j = i => one[j - (i - 1)] = p
      BY <1>3
    <3> QED BY <1>1, <2>1, <3>1, <3>2, <3>3
  <2>2. CASE j > i
    <3>1. all[j] = high[j - i] /\ j - i \in 1 .. Len(list) - i + 1 /\ i + (j - i) - 1 = j - 1
      BY <1>2, <1>5, <1>7, <2>2
    <3> QED BY <1>2, <2>2, <3>1
  <2> QED BY <2>1, <2>2
<1> QED BY <1>5, <1>6, <1>7, <1>8
(* Once around a ring of n places. *)
Wrap(x, n) == IF x < n THEN x ELSE x - n

LEMMA Around ==
  ASSUME NEW n \in Nat \ {0}, NEW x \in 0 .. 2 * n - 1
  PROVE  x % n = Wrap(x, n)
<1>1. CASE x < n
  BY <1>1 DEF Wrap
<1>2. CASE x >= n
  <2>1. x - n \in 0 .. n - 1
    BY <1>2
  <2>2. x = n * 1 + (x - n)
    BY <2>1
  <2> QED BY <1>2, <2>1, <2>2 DEF Wrap
<1> QED BY <1>1, <1>2

(* Places counted from front, and on from the place after one. *)
LEMMA Places ==
  ASSUME NEW n \in Nat \ {0}, NEW f \in 0 .. n - 1, NEW k \in 0 .. n - 1
  PROVE  /\ (f + k) % n \in 0 .. n - 1
         /\ (((f + k) % n) + 1) % n = (f + (k + 1)) % n
         /\ (((f + 1) % n) + k) % n = (f + (k + 1)) % n
         /\ \A j \in 0 .. n - 1 : j # k => (f + j) % n # (f + k) % n
<1>1. f + k \in 0 .. 2 * n - 1 /\ f + 1 \in 0 .. 2 * n - 1 /\ f + (k + 1) \in 0 .. 2 * n - 1
  OBVIOUS
<1>2. (f + k) % n = Wrap(f + k, n) /\ (f + 1) % n = Wrap(f + 1, n)
  BY <1>1, Around
<1>3. (f + (k + 1)) % n = Wrap(f + (k + 1), n)
  BY <1>1, Around
<1>4. Wrap(f + k, n) + 1 \in 0 .. 2 * n - 1 /\ Wrap(f + 1, n) + k \in 0 .. 2 * n - 1
  BY DEF Wrap
<1>5. /\ (Wrap(f + k, n) + 1) % n = Wrap(Wrap(f + k, n) + 1, n)
      /\ (Wrap(f + 1, n) + k) % n = Wrap(Wrap(f + 1, n) + k, n)
  BY <1>4, Around
<1>6. /\ Wrap(Wrap(f + k, n) + 1, n) = Wrap(f + (k + 1), n)
      /\ Wrap(Wrap(f + 1, n) + k, n) = Wrap(f + (k + 1), n)
      /\ Wrap(f + k, n) \in 0 .. n - 1
  BY DEF Wrap
<1>7. ASSUME NEW j \in 0 .. n - 1, j # k
      PROVE  (f + j) % n # (f + k) % n
  <2>1. f + j \in 0 .. 2 * n - 1
    OBVIOUS
  <2>2. (f + j) % n = Wrap(f + j, n)
    BY <2>1, Around
  <2>3. Wrap(f + j, n) # Wrap(f + k, n)
    BY <1>7 DEF Wrap
  <2> QED BY <1>2, <2>2, <2>3
<1> QED BY <1>2, <1>3, <1>5, <1>6, <1>7

Distinct(list) == \A i, j \in 1 .. Len(list) : i # j => list[i] # list[j]

LEMMA PlaceOf ==
  ASSUME NEW S, NEW list \in Seq(S), NEW k \in 1 .. Len(list), list[k] # Head0, Distinct(list)
  PROVE  Place(list, list[k]) = k
<1>1. {i \in 1 .. Len(list) : list[i] = list[k]} = {k}
  BY DEF Distinct
<1>2. SelectInSeq(list, LAMBDA x : x = list[k]) = k
  BY <1>1, MinTwo DEF SelectInSeq
<1> QED BY <1>2 DEF Place

(* The last two nodes of a list are one step apart. *)
LEMMA LastStep ==
  ASSUME NEW S, NEW list \in Seq(S), Distinct(list), \A i \in 1 .. Len(list) : list[i] # Head0,
         NEW n \in Nat, Len(list) = n + 1, NEW pop,
         pop = IF n = 0 THEN Head0 ELSE list[n]
  PROVE  /\ NodeAfter(list, pop) = list[n + 1]
         /\ list[n + 1] # NoNode => get_ringbuf_manage_count(list, pop, list[n + 1]) = 1
<1>1. Place(list, pop) = n
  <2>1. CASE n = 0
    BY <2>1 DEF Place
  <2>2. CASE n # 0
    BY <2>2, PlaceOf
  <2> QED BY <2>1, <2>2
<1>2. Place(list, list[n + 1]) = n + 1
  BY PlaceOf
<1>3. NodeAfter(list, pop) = list[n + 1]
  BY <1>1 DEF NodeAfter
<1>4. (n + 1 - n) % (n + 1 + 1) = 1
  <2>1. n + 1 - n = 1 /\ n + 1 + 1 \in Nat \ {0} /\ 1 \in 0 .. 2 * (n + 1 + 1) - 1 /\ 1 < n + 1 + 1
    OBVIOUS
  <2> QED BY <2>1, Around DEF Wrap
<1> QED BY <1>1, <1>2, <1>3, <1>4 DEF get_ringbuf_manage_count

LEMMA NoSteps ==
  ASSUME NEW list, NEW n, Len(list) \in Nat, Place(list, n) \in Int
  PROVE  get_ringbuf_manage_count(list, n, n) = 0
<1>1. Place(list, n) - Place(list, n) = 0
  OBVIOUS
<1>2. 0 % (Len(list) + 1) = 0
  <2>1. Len(list) + 1 \in Nat \ {0} /\ 0 \in 0 .. 2 * (Len(list) + 1) - 1
    OBVIOUS
  <2> QED BY <2>1, Around DEF Wrap
<1> QED BY <1>1, <1>2 DEF get_ringbuf_manage_count

-----------------------------------------------------------------------------
(* The talking end.  Every node is in one of the two lists, once; the ring   *)
(* is filled from front on, and nothing in it waits to be sent.              *)
NodesInv ==
    /\ Len(use) + Len(src) = ENCODED_BUF_NUM
    /\ Distinct(use) /\ Distinct(src)
    /\ \A i \in 1 .. Len(use), j \in 1 .. Len(src) : use[i] # src[j]
CursorInv ==
    /\ rear = (front + Len(use)) % ENCODED_BUF_NUM
    /\ num_of_avaiable = 0
    /\ sort = 0 => manage_cur_pop = Head0 /\ manage_cur_push = NoNode
    /\ sort > 0 => manage_cur_pop = manage_cur_push /\ manage_cur_pop = use[Len(use)]
SenderInv == SenderTypeOK /\ NodesInv /\ CursorInv /\ KeepsNewest

LEMMA SenderSizes ==
  ASSUME SenderInv
  PROVE  /\ Len(use) = IF sort < ENCODED_BUF_NUM THEN sort ELSE ENCODED_BUF_NUM - 1
         /\ Len(use) \in 0 .. ENCODED_BUF_NUM - 1 /\ Len(src) \in 1 .. ENCODED_BUF_NUM
         /\ use \in Seq(ManageNodes) /\ src \in Seq(ManageNodes)
         /\ Len(use) + Len(src) = ENCODED_BUF_NUM
         /\ sort \in Nat
         /\ ENCODED_BUF_NUM \in Nat /\ ENCODED_BUF_NUM > 2
<1>1. sort \in 0 .. MaxSort /\ use \in Seq(ManageNodes) /\ src \in Seq(ManageNodes)
  BY DEF SenderInv, SenderTypeOK
<1>2. sort \in Nat /\ ENCODED_BUF_NUM \in Nat /\ ENCODED_BUF_NUM > 2
  BY <1>1, NetAssumption
<1>3. Len(use) = IF sort <= ENCODED_BUF_NUM - 1 THEN sort ELSE ENCODED_BUF_NUM - 1
  BY <1>2, MinTwo DEF SenderInv, KeepsNewest
<1>4. Len(use) + Len(src) = ENCODED_BUF_NUM
  BY DEF SenderInv, NodesInv
<1>5. Len(use) \in Nat /\ Len(src) \in Nat
  BY <1>1
<1> QED BY <1>1, <1>2, <1>3, <1>4, <1>5

(* So NothingWaits is what SenderInv says of the cursors. *)
LEMMA SenderNothingWaits ==
  ASSUME SenderInv
  PROVE  NothingWaits
<1>1. CASE sort = 0
  BY <1>1 DEF SenderInv, CursorInv, NothingWaits, get_ringbuf_manage_count
<1>2. CASE sort > 0
  <2>1. Len(use) \in 1 .. Len(use) /\ use \in Seq(ManageNodes)
    BY <1>2, SenderSizes
  <2>2. /\ manage_cur_pop = manage_cur_push /\ manage_cur_pop = use[Len(use)]
        /\ use # <<>> /\ Distinct(use) /\ use[Len(use)] \in ManageNodes
    BY <1>2, <2>1 DEF SenderInv, CursorInv, NodesInv
  <2>3. use[Len(use)] # Head0
    BY <2>2, SenderAssumption DEF ManageNodes
  <2>4. Place(use, manage_cur_pop) = Len(use)
    BY <2>1, <2>2, <2>3, PlaceOf
  <2>5. get_ringbuf_manage_count(use, manage_cur_pop, manage_cur_push) = 0
    BY <2>1, <2>2, <2>4, NoSteps
  <2> QED BY <2>2, <2>5 DEF NothingWaits, Last
<1> QED BY <1>1, <1>2, SenderSizes

(* A new packet takes the first free node; the oldest packet leaves first    *)
(* when the ring is full.  Never is there no free node.                      *)
Full == Len(use) = ENCODED_BUF_NUM - 1

(* The lists and cursors the steps of a push hand to each other. *)
Lists(u, s, f, pop, push) == [use |-> u, src |-> s, front |-> f, pop |-> pop, push |-> push]

LEMMA ForgetIs ==
  ASSUME NEW u, NEW s, NEW f, NEW pop, NEW push
  PROVE  Forget(Lists(u, s, f, pop, push))
           = Lists(Tail(u), s, NextSlot(f), IF pop = Head(u) THEN NodeAfter(u, pop) ELSE pop, push)
<1> DEFINE y == Forget(Lists(u, s, f, pop, push))
           u2 == Tail(u)
           f2 == NextSlot(f)
           p2 == IF pop = Head(u) THEN NodeAfter(u, pop) ELSE pop
<1>1. y.use = u2 /\ y.src = s /\ y.front = f2 /\ y.push = push /\ y.pop = p2
  BY DEF Forget, Lists
<1>2. DOMAIN y = {"use", "src", "front", "pop", "push"}
  BY DEF Forget, Lists
<1>3. y = [i \in DOMAIN y |-> y[i]]
  BY DEF Forget, Lists
<1> HIDE DEF y, u2, f2, p2
<1>4. y = Lists(u2, s, f2, p2, push)
  BY <1>1, <1>2, <1>3 DEF Lists
<1> QED BY <1>4 DEF y, u2, f2, p2

LEMMA GrabIs ==
  ASSUME NEW u, NEW s, s # <<>>, NEW f, NEW pop, NEW push
  PROVE  Grab(Lists(u, s, f, pop, push)) = Lists(Append(u, Head(s)), Tail(s), f, pop, Head(s))
<1> DEFINE y == Grab(Lists(u, s, f, pop, push))
           u2 == Append(u, Head(s))
           s2 == Tail(s)
           h == Head(s)
<1>1. y.use = u2 /\ y.src = s2 /\ y.front = f /\ y.pop = pop /\ y.push = h
  BY DEF Grab, Lists
<1>2. DOMAIN y = {"use", "src", "front", "pop", "push"}
  BY DEF Grab, Lists
<1>3. y = [i \in DOMAIN y |-> y[i]]
  BY DEF Grab, Lists
<1> HIDE DEF y, u2, s2, h
<1>4. y = Lists(u2, s2, f, pop, h)
  BY <1>1, <1>2, <1>3 DEF Lists
<1> QED BY <1>4 DEF y, u2, s2, h

LEMMA RoomIs ==
  ASSUME NEW u, NEW s, NEW f, NEW pop, NEW push, NextSlot(rear) = f
  PROVE  MakeRoom(Lists(u, s, f, pop, push))
           = Lists(Tail(u), Append(s, Head(u)), NextSlot(f),
                   IF pop = Head(u) THEN NodeAfter(u, pop) ELSE pop, push)
<1> DEFINE given == Lists(u, s, f, pop, push)
           u2 == Tail(u)
           s2 == Append(s, Head(u))
           f2 == NextSlot(f)
           p2 == IF pop = Head(u) THEN NodeAfter(u, pop) ELSE pop
           y == [Lists(u2, s, f2, p2, push) EXCEPT !.src = s2]
<1>1. given.use = u /\ given.src = s /\ given.front = f
  BY DEF Lists
<1>2. Forget(given) = Lists(u2, s, f2, p2, push)
  BY ForgetIs
<1> HIDE DEF given
<1>3. MakeRoom(given) = y
  BY <1>1, <1>2 DEF MakeRoom
<1> HIDE DEF u2, s2, f2, p2
<1>4. y = Lists(u2, s2, f2, p2, push)
  BY DEF Lists
<1> QED BY <1>3, <1>4 DEF given, u2, s2, f2, p2
LEMMA PlacedIs ==
  ASSUME SenderInv
  PROVE  Placed =
           IF Full THEN Lists(Tail(Append(use, src[1])), Append(Tail(src), use[1]), NextSlot(front),
                              manage_cur_pop, src[1])
           ELSE Lists(Append(use, src[1]), Tail(src), front, manage_cur_pop, src[1])
<1> DEFINE N == ENCODED_BUF_NUM
           longer == Append(use, src[1])
<1>1. src # <<>> /\ Head(src) = src[1]
  BY SenderSizes
<1>2. Placed = MakeRoom(Lists(longer, Tail(src), front, manage_cur_pop, src[1]))
  BY <1>1, GrabIs DEF Placed, Lists
<1>3. NextSlot(rear) = front <=> Full
  <2>1. N \in Nat \ {0} /\ Len(use) \in 0 .. N - 1
    BY SenderSizes
  <2>2. front \in 0 .. N - 1
    BY DEF SenderInv, SenderTypeOK, Slots
  <2>3. rear = (front + Len(use)) % N
    BY DEF SenderInv, CursorInv
  <2> HIDE DEF N
  <2>4. front + Len(use) \in 0 .. 2 * N - 1
    BY <2>1, <2>2
  <2>5. rear = Wrap(front + Len(use), N)
    BY <2>1, <2>3, <2>4, Around
  <2>6. rear + 1 \in 0 .. 2 * N - 1
    BY <2>1, <2>2, <2>5 DEF Wrap
  <2>7. (rear + 1) % N = Wrap(rear + 1, N)
    BY <2>1, <2>6, Around
  <2>8. Wrap(rear + 1, N) = front <=> Len(use) = N - 1
    BY <2>1, <2>2, <2>5 DEF Wrap
  <2> QED BY <2>7, <2>8 DEF N, NextSlot, Full
<1>4. CASE ~Full
  BY <1>2, <1>3, <1>4 DEF MakeRoom, Lists
<1>5. CASE Full
  <2>1. Len(use) > 1 /\ use \in Seq(ManageNodes) /\ src[1] \in ManageNodes
    <3>1. /\ Len(use) > 1 /\ use \in Seq(ManageNodes)
          /\ src \in Seq(ManageNodes) /\ 1 \in 1 .. Len(src)
      BY <1>5, SenderSizes DEF Full
    <3> QED BY <3>1
  <2>2. Head(longer) = use[1]
    BY <2>1
  <2>3. manage_cur_pop # use[1]
    <3>1. sort > 0
      BY <2>1, SenderSizes
    <3> QED BY <2>1, <3>1 DEF SenderInv, CursorInv, NodesInv, Distinct
  <2> HIDE DEF longer
  <2>4. Placed = Lists(Tail(longer), Append(Tail(src), Head(longer)), NextSlot(front),
                       IF manage_cur_pop = Head(longer) THEN NodeAfter(longer, manage_cur_pop)
                       ELSE manage_cur_pop, src[1])
    BY <1>2, <1>3, <1>5, RoomIs
  <2>5. Placed = Lists(Tail(longer), Append(Tail(src), use[1]), NextSlot(front), manage_cur_pop,
                       src[1])
    BY <2>2, <2>3, <2>4
  <2> QED BY <1>5, <2>5 DEF longer
<1> QED BY <1>4, <1>5

(* What Enqueue does, element by element. *)
LEMMA EnqueueIs ==
  ASSUME SenderInv, NEW status \in {0, 1}, Enqueue(status)
  PROVE  /\ sort' = sort + 1 /\ sort < MaxSort /\ session' = session
         /\ g_send_sequence' = NextSeq(g_send_sequence)
         /\ use' \in Seq(ManageNodes) /\ src' \in Seq(ManageNodes)
         /\ Len(use') = IF Full THEN Len(use) ELSE Len(use) + 1
         /\ Len(src') = IF Full THEN Len(src) ELSE Len(src) - 1
         /\ use'[Len(use')] = src[1]
         /\ \A i \in 1 .. Len(use') - 1 : use'[i] = IF Full THEN use[i + 1] ELSE use[i]
         /\ \A i \in 1 .. Len(src') :
              src'[i] = IF i < Len(src) THEN src[i + 1] ELSE use[1]
         /\ front' = IF Full THEN NextSlot(front) ELSE front
         /\ rear' = NextSlot(rear)
         /\ manage_cur_push' = src[1] /\ src[1] \in ManageNodes
         /\ Placed.pop = manage_cur_pop
         /\ buf_addr' = [buf_addr EXCEPT ![src[1]] = rear]
         /\ ring' = [ring EXCEPT ![rear] = {NewPacket(status)}]
<1>1. use \in Seq(ManageNodes) /\ src \in Seq(ManageNodes) /\ Len(src) >= 1 /\ Len(use) \in Nat
  BY SenderSizes
<1>2. src[1] \in ManageNodes /\ (Full => Len(use) >= 1 /\ use[1] \in ManageNodes)
  BY <1>1, SenderSizes DEF Full
<1>3. /\ use' = IF Full THEN Tail(Append(use, src[1])) ELSE Append(use, src[1])
      /\ src' = IF Full THEN Append(Tail(src), use[1]) ELSE Tail(src)
      /\ front' = IF Full THEN NextSlot(front) ELSE front
      /\ manage_cur_push' = src[1]
      /\ buf_addr' = [buf_addr EXCEPT ![src[1]] = rear]
      /\ Placed.pop = manage_cur_pop
  <2> DEFINE u == IF Full THEN Tail(Append(use, src[1])) ELSE Append(use, src[1])
             s == IF Full THEN Append(Tail(src), use[1]) ELSE Tail(src)
             f == IF Full THEN NextSlot(front) ELSE front
  <2>1. Placed = Lists(u, s, f, manage_cur_pop, src[1])
    BY PlacedIs
  <2> HIDE DEF u, s, f
  <2>2. /\ Placed.use = u /\ Placed.src = s /\ Placed.front = f
        /\ Placed.pop = manage_cur_pop /\ Placed.push = src[1]
    BY <2>1 DEF Lists
  <2>3. /\ use' = u /\ src' = s /\ front' = f /\ manage_cur_push' = src[1]
        /\ buf_addr' = [buf_addr EXCEPT ![src[1]] = rear]
    BY <2>2 DEF Enqueue
  <2> QED BY <2>2, <2>3 DEF u, s, f
<1>4. /\ sort' = sort + 1 /\ sort < MaxSort /\ session' = session
      /\ g_send_sequence' = NextSeq(g_send_sequence)
      /\ rear' = NextSlot(rear)
      /\ ring' = [ring EXCEPT ![rear] = {NewPacket(status)}]
  BY DEF Enqueue, NewPacket
<1>5. /\ use' \in Seq(ManageNodes)
      /\ Len(use') = IF Full THEN Len(use) ELSE Len(use) + 1
      /\ use'[Len(use')] = src[1]
      /\ \A i \in 1 .. Len(use') - 1 : use'[i] = IF Full THEN use[i + 1] ELSE use[i]
  <2>1. CASE ~Full
    BY <1>1, <1>2, <1>3, <2>1
  <2>2. CASE Full
    <3> DEFINE longer == Append(use, src[1])
    <3>1. longer \in Seq(ManageNodes) /\ Len(longer) = Len(use) + 1
      BY <1>1, <1>2
    <3>2. longer[Len(use) + 1] = src[1] /\ \A i \in 1 .. Len(use) : longer[i] = use[i]
      BY <1>1, <1>2
    <3> HIDE DEF longer
    <3>3. use' = Tail(longer)
      BY <1>3, <2>2 DEF longer
    <3>4. /\ Tail(longer) \in Seq(ManageNodes) /\ Len(Tail(longer)) = Len(longer) - 1
          /\ \A i \in 1 .. Len(longer) - 1 : Tail(longer)[i] = longer[i + 1]
      BY <1>1, <3>1
    <3> QED BY <1>1, <1>2, <2>2, <3>1, <3>2, <3>3, <3>4
  <2> QED BY <2>1, <2>2
<1>6. /\ src' \in Seq(ManageNodes)
      /\ Len(src') = IF Full THEN Len(src) ELSE Len(src) - 1
      /\ \A i \in 1 .. Len(src') : src'[i] = IF i < Len(src) THEN src[i + 1] ELSE use[1]
  <2> DEFINE shorter == Tail(src)
  <2>1. /\ shorter \in Seq(ManageNodes) /\ Len(shorter) = Len(src) - 1
        /\ \A i \in 1 .. Len(src) - 1 : shorter[i] = src[i + 1]
    BY <1>1
  <2> HIDE DEF shorter
  <2>2. src' = IF Full THEN Append(shorter, use[1]) ELSE shorter
    BY <1>3 DEF shorter
  <2> QED BY <1>1, <1>2, <2>1, <2>2
<1> QED BY <1>2, <1>3, <1>4, <1>5, <1>6
(* Every node stays in one of the two lists, once. *)
LEMMA EnqueueNodes ==
  ASSUME SenderInv, NEW status \in {0, 1}, Enqueue(status)
  PROVE  NodesInv'
<1> DEFINE U == Len(use)
           S == Len(src)
<1>1. /\ U \in Nat /\ S \in Nat /\ S >= 1 /\ U + S = ENCODED_BUF_NUM
      /\ (Full => U >= 2 /\ S = 1) /\ ENCODED_BUF_NUM \in Nat
  <2>1. /\ U \in 0 .. ENCODED_BUF_NUM - 1 /\ S \in 1 .. ENCODED_BUF_NUM
        /\ U + S = ENCODED_BUF_NUM /\ ENCODED_BUF_NUM \in Nat /\ ENCODED_BUF_NUM > 2
    BY SenderSizes
  <2>2. Full => U = ENCODED_BUF_NUM - 1
    BY DEF Full
  <2> HIDE DEF U, S
  <2> QED BY <2>1, <2>2
<1>2. /\ Len(use') = IF Full THEN U ELSE U + 1
      /\ Len(src') = IF Full THEN S ELSE S - 1
      /\ use'[Len(use')] = src[1]
      /\ \A i \in 1 .. Len(use') - 1 : use'[i] = IF Full THEN use[i + 1] ELSE use[i]
      /\ \A i \in 1 .. Len(src') : src'[i] = IF i < S THEN src[i + 1] ELSE use[1]
  BY EnqueueIs
<1>3. /\ \A i, j \in 1 .. U : i # j => use[i] # use[j]
      /\ \A i, j \in 1 .. S : i # j => src[i] # src[j]
      /\ \A i \in 1 .. U, j \in 1 .. S : use[i] # src[j]
  BY DEF SenderInv, NodesInv, Distinct
<1> HIDE DEF U, S
<1>4. CASE ~Full
  <2>1. /\ Len(use') = U + 1 /\ Len(src') = S - 1 /\ use'[U + 1] = src[1]
        /\ \A i \in 1 .. U : use'[i] = use[i]
        /\ \A i \in 1 .. S - 1 : src'[i] = src[i + 1]
    <3>1. Len(use') = U + 1 /\ Len(src') = S - 1 /\ use'[U + 1] = src[1]
      BY <1>2, <1>4
    <3>2. \A i \in 1 .. U : i \in 1 .. Len(use') - 1
      BY <1>1, <3>1
    <3>3. \A i \in 1 .. S - 1 : i \in 1 .. Len(src') /\ i < S
      BY <1>1, <3>1
    <3> QED BY <1>2, <1>4, <3>1, <3>2, <3>3
  <2>2. \A i, j \in 1 .. U + 1 : i # j => use'[i] # use'[j]
    BY <1>1, <1>3, <2>1
  <2>3. \A i, j \in 1 .. S - 1 : i # j => src'[i] # src'[j]
    BY <1>1, <1>3, <2>1
  <2>4. \A i \in 1 .. U + 1, j \in 1 .. S - 1 : use'[i] # src'[j]
    <3>1. \A j \in 1 .. S - 1 : src'[j] = src[j + 1] /\ j + 1 \in 1 .. S /\ j + 1 # 1
      BY <1>1, <2>1
    <3>2. \A i \in 1 .. U + 1 : IF i = U + 1 THEN use'[i] = src[1] ELSE i \in 1 .. U /\ use'[i] = use[i]
      BY <1>1, <2>1
    <3>3. 1 \in 1 .. S
      BY <1>1
    <3> QED BY <1>3, <3>1, <3>2, <3>3
  <2> QED BY <1>1, <2>1, <2>2, <2>3, <2>4 DEF NodesInv, Distinct
<1>5. CASE Full
  <2>1. /\ Len(use') = U /\ Len(src') = 1 /\ use'[U] = src[1] /\ src'[1] = use[1]
        /\ \A i \in 1 .. U - 1 : use'[i] = use[i + 1]
    BY <1>1, <1>2, <1>5
  <2>2. \A i, j \in 1 .. U : i # j => use'[i] # use'[j]
    BY <1>1, <1>3, <1>5, <2>1
  <2>3. \A i \in 1 .. U : use'[i] # src'[1]
    BY <1>1, <1>3, <1>5, <2>1
  <2> QED BY <1>1, <1>5, <2>1, <2>2, <2>3 DEF NodesInv, Distinct
<1> QED BY <1>4, <1>5

(* It is sent at once, and is all that is sent. *)
LEMMA EnqueueSends ==
  ASSUME SenderInv, NEW status \in {0, 1}, Enqueue(status)
  PROVE  /\ manage_cur_pop' = src[1] /\ send_start_flag' = 1
         /\ net' = net \cup {NewPacket(status)}
<1> DEFINE n == Len(use') - 1
           h == src[1]
<1>1. /\ use' \in Seq(ManageNodes) /\ h \in ManageNodes /\ use'[Len(use')] = h
      /\ Len(use') = IF Full THEN Len(use) ELSE Len(use) + 1
      /\ \A i \in 1 .. Len(use') - 1 : use'[i] = IF Full THEN use[i + 1] ELSE use[i]
      /\ manage_cur_push' = h /\ Placed.pop = manage_cur_pop
      /\ buf_addr' = [buf_addr EXCEPT ![h] = rear]
      /\ ring' = [ring EXCEPT ![rear] = {NewPacket(status)}]
  BY EnqueueIs
<1>2. /\ n \in Nat /\ Len(use') = n + 1 /\ Len(use) \in Nat
      /\ n = IF Full THEN Len(use) - 1 ELSE Len(use)
      /\ (n = 0 => sort = 0) /\ (n # 0 => sort > 0)
  <2>1. /\ Len(use) \in 0 .. ENCODED_BUF_NUM - 1 /\ ENCODED_BUF_NUM \in Nat /\ ENCODED_BUF_NUM > 2
        /\ sort \in Nat
        /\ Len(use) = IF sort < ENCODED_BUF_NUM THEN sort ELSE ENCODED_BUF_NUM - 1
    BY SenderSizes
  <2>2. Len(use') = IF Full THEN Len(use) ELSE Len(use) + 1
    BY <1>1
  <2> QED BY <2>1, <2>2 DEF Full
<1>3. Distinct(use')
  BY EnqueueNodes DEF NodesInv
<1>4. manage_cur_pop = IF n = 0 THEN Head0 ELSE use'[n]
  <2>1. CASE n = 0
    <3>1. sort = 0
      BY <1>2, <2>1
    <3> QED BY <2>1, <3>1 DEF SenderInv, CursorInv
  <2>2. CASE n # 0
    <3>1. sort > 0
      BY <1>2, <2>2
    <3> HIDE DEF n
    <3>2. n \in 1 .. Len(use') - 1
      <4>1. n \in Nat /\ n # 0 /\ Len(use') = n + 1
        BY <1>2, <2>2
      <4> QED BY <4>1
    <3>3. use'[n] = IF Full THEN use[n + 1] ELSE use[n]
      BY <1>1, <3>2
    <3>4. (IF Full THEN n + 1 ELSE n) = Len(use)
      BY <1>2
    <3>5. use'[n] = use[Len(use)]
      BY <3>3, <3>4
    <3> QED BY <2>2, <3>1, <3>5 DEF SenderInv, CursorInv
  <2> QED BY <2>1, <2>2
<1>5. \A i \in 1 .. Len(use') : use'[i] # Head0
  <2>1. Head0 \notin ManageNodes
    BY SenderAssumption DEF ManageNodes
  <2>2. \A i \in 1 .. Len(use') : use'[i] \in ManageNodes
    BY <1>1
  <2> QED BY <2>1, <2>2
<1>6. h # NoNode /\ h # Head0
  <2> HIDE DEF h
  <2> QED BY <1>1, SenderAssumption DEF ManageNodes
<1>7. /\ NodeAfter(use', manage_cur_pop) = h
      /\ get_ringbuf_manage_count(use', manage_cur_pop, h) = 1
  <2> DEFINE list == use'
  <2> HIDE DEF n, h, list
  <2>1. /\ list \in Seq(ManageNodes) /\ Distinct(list) /\ \A i \in 1 .. Len(list) : list[i] # Head0
        /\ n \in Nat /\ Len(list) = n + 1 /\ list[n + 1] = h
        /\ manage_cur_pop = IF n = 0 THEN Head0 ELSE list[n]
    BY <1>1, <1>2, <1>3, <1>4, <1>5 DEF list
  <2>2. /\ NodeAfter(list, manage_cur_pop) = list[n + 1]
        /\ list[n + 1] # NoNode => get_ringbuf_manage_count(list, manage_cur_pop, list[n + 1]) = 1
    BY <2>1, LastStep
  <2> QED BY <1>6, <2>1, <2>2 DEF list
<1>8. ring'[buf_addr'[h]] = {NewPacket(status)}
  <2>1. rear \in Slots /\ buf_addr \in [ManageNodes -> Slots] /\ DOMAIN ring = Slots
    BY DEF SenderInv, SenderTypeOK
  <2> QED BY <1>1, <2>1
<1>9. intercom_send(1, use', manage_cur_pop, h, buf_addr', ring')
  BY <1>1 DEF Enqueue
<1> QED BY <1>6, <1>7, <1>8, <1>9 DEF intercom_send
(* The packets that stay keep their slots, and those follow each other from  *)
(* the new front on.                                                         *)
LEMMA EnqueueSlots ==
  ASSUME SenderInv, NEW status \in {0, 1}, Enqueue(status)
  PROVE  /\ front' \in Slots /\ rear' \in Slots /\ rear \in Slots
         /\ rear' = (front' + Len(use')) % ENCODED_BUF_NUM
         /\ rear = (front' + (Len(use') - 1)) % ENCODED_BUF_NUM
         /\ \A k \in 0 .. Len(use) - 1 : (front + k) % ENCODED_BUF_NUM # rear
         /\ Full => \A k \in 0 .. Len(use) - 1 :
              (front' + k) % ENCODED_BUF_NUM = (front + (k + 1)) % ENCODED_BUF_NUM
<1> DEFINE N == ENCODED_BUF_NUM
           U == Len(use)
<1>1. N \in Nat \ {0} /\ N > 2 /\ U \in 0 .. N - 1
  BY SenderSizes
<1>2. /\ Len(use') = IF Full THEN U ELSE U + 1
      /\ front' = IF Full THEN (front + 1) % N ELSE front
      /\ rear' = (rear + 1) % N
  BY EnqueueIs DEF NextSlot
<1>3. rear = (front + U) % N /\ front \in 0 .. N - 1 /\ (Full <=> U = N - 1)
  BY DEF SenderInv, SenderTypeOK, CursorInv, Slots, Full
<1> HIDE DEF N, U
<1>4. \A k \in 0 .. N - 1 :
        /\ (front + k) % N \in 0 .. N - 1
        /\ (((front + k) % N) + 1) % N = (front + (k + 1)) % N
        /\ (((front + 1) % N) + k) % N = (front + (k + 1)) % N
        /\ \A j \in 0 .. N - 1 : j # k => (front + j) % N # (front + k) % N
  BY <1>1, <1>3, Places
<1>5. rear \in 0 .. N - 1 /\ rear' = (front + (U + 1)) % N
  BY <1>1, <1>2, <1>3, <1>4
<1>6. \A k \in 0 .. U - 1 : (front + k) % N # rear
  <2> TAKE k \in 0 .. U - 1
  <2>1. k \in 0 .. N - 1 /\ U # k
    BY <1>1
  <2> QED BY <1>1, <1>3, <1>4, <2>1
<1>7. (rear + 1) % N \in 0 .. N - 1 /\ (front + 1) % N \in 0 .. N - 1
  <2>1. 1 \in 0 .. N - 1
    BY <1>1
  <2>2. (front + 1) % N \in 0 .. N - 1
    BY <1>4, <2>1
  <2>3. (rear + 1) % N \in 0 .. N - 1
    BY <1>1, <1>5, <2>1, Places
  <2> QED BY <2>2, <2>3
<1>8. CASE ~Full
  <2>1. Len(use') = U + 1 /\ front' = front /\ Len(use') - 1 = U
    BY <1>1, <1>2, <1>8
  <2> QED BY <1>2, <1>3, <1>5, <1>6, <1>7, <1>8, <2>1 DEF N, U, Slots
<1>9. CASE Full
  <2>1. Len(use') = U /\ front' = (front + 1) % N
    BY <1>1, <1>2, <1>9
  <2>2. (front' + U) % N = (front + (U + 1)) % N
    BY <1>1, <1>4, <2>1
  <2>3. U - 1 \in 0 .. N - 1 /\ (U - 1) + 1 = U
    BY <1>1, <1>3, <1>9
  <2>4. (front' + (U - 1)) % N = (front + ((U - 1) + 1)) % N
    BY <1>4, <2>1, <2>3
  <2>5. \A k \in 0 .. U - 1 : (front' + k) % N = (front + (k + 1)) % N
    <3> TAKE k \in 0 .. U - 1
    <3>1. k \in 0 .. N - 1
      BY <1>1
    <3> QED BY <1>4, <2>1, <3>1
  <2>6. /\ front' \in 0 .. N - 1 /\ rear' \in 0 .. N - 1
        /\ rear' = (front' + Len(use')) % N
        /\ rear = (front' + (Len(use') - 1)) % N
    BY <1>2, <1>3, <1>5, <1>7, <2>1, <2>2, <2>3, <2>4
  <2> QED BY <1>5, <1>6, <2>5, <2>6 DEF N, U, Slots
<1> QED BY <1>8, <1>9

InUse == UNION {Held(use[i]) : i \in 1 .. Len(use)}

LEMMA EnqueueNewest ==
  ASSUME SenderInv, NEW status \in {0, 1}, Enqueue(status)
  PROVE  KeepsNewest' /\ InUse' \subseteq InUse \cup {NewPacket(status)}
<1> DEFINE N == ENCODED_BUF_NUM
           U == Len(use)
           h == src[1]
<1>1. /\ N \in Nat \ {0} /\ N > 2 /\ U \in 0 .. N - 1 /\ sort \in Nat
      /\ U = IF sort < N THEN sort ELSE N - 1
      /\ use \in Seq(ManageNodes) /\ 1 \in 1 .. Len(src)
  BY SenderSizes
<1>2. /\ Len(use') = IF Full THEN U ELSE U + 1
      /\ sort' = sort + 1 /\ h \in ManageNodes
      /\ use'[Len(use')] = h
      /\ \A i \in 1 .. Len(use') - 1 : use'[i] = IF Full THEN use[i + 1] ELSE use[i]
      /\ buf_addr' = [buf_addr EXCEPT ![h] = rear]
      /\ ring' = [ring EXCEPT ![rear] = {NewPacket(status)}]
      /\ (~Full => front' = front)
  BY EnqueueIs
<1>3. /\ Full <=> U = N - 1
      /\ buf_addr \in [ManageNodes -> Slots] /\ ring \in [Slots -> SUBSET Packet]
      /\ \A i \in 1 .. U : use[i] # h
      /\ front \in 0 .. N - 1
  BY <1>1 DEF SenderInv, SenderTypeOK, NodesInv, Slots, Full
<1>4. \A k \in 1 .. U :
        /\ use[k] \in ManageNodes
        /\ buf_addr[use[k]] = (front + k - 1) % N
        /\ \E p \in Held(use[k]) : Held(use[k]) = {p} /\ p.sort = sort - U + k
  <2>1. \A k \in 1 .. U : use[k] \in ManageNodes
    BY <1>1
  <2>2. KeepsNewest
    BY DEF SenderInv
  <2> QED BY <2>1, <2>2 DEF KeepsNewest
<1>5. /\ rear \in Slots
      /\ rear = (front' + (Len(use') - 1)) % N
      /\ \A k \in 0 .. U - 1 : (front + k) % N # rear
      /\ Full => \A k \in 0 .. U - 1 : (front' + k) % N = (front + (k + 1)) % N
      /\ front' \in 0 .. N - 1
  BY EnqueueSlots DEF Slots
<1> HIDE DEF N, U, h
<1>6. Len(use') = Min({sort', N - 1})
  <2>1. Min({sort + 1, N - 1}) = IF sort + 1 <= N - 1 THEN sort + 1 ELSE N - 1
    BY <1>1, MinTwo
  <2> QED BY <1>1, <1>2, <1>3, <2>1
<1>7. ASSUME NEW k \in 1 .. U
      PROVE  /\ buf_addr'[use[k]] = (front + k - 1) % N
             /\ \E p \in ring'[buf_addr'[use[k]]] :
                  ring'[buf_addr'[use[k]]] = {p} /\ p.sort = sort - U + k
             /\ ring'[buf_addr'[use[k]]] = Held(use[k])
  <2>1. buf_addr'[use[k]] = buf_addr[use[k]]
    BY <1>2, <1>3, <1>4
  <2>2. front + k - 1 = front + (k - 1) /\ k - 1 \in 0 .. U - 1
    BY <1>1, <1>3
  <2>3. buf_addr[use[k]] # rear /\ buf_addr[use[k]] \in Slots
    BY <1>3, <1>4, <1>5, <2>2
  <2>4. ring'[buf_addr'[use[k]]] = Held(use[k])
    BY <1>2, <1>3, <2>1, <2>3 DEF Held
  <2> QED BY <1>4, <2>1, <2>4
<1>8. ASSUME NEW i \in 1 .. Len(use')
      PROVE  /\ buf_addr'[use'[i]] = (front' + i - 1) % N
             /\ \E p \in ring'[buf_addr'[use'[i]]] :
                  ring'[buf_addr'[use'[i]]] = {p} /\ p.sort = sort' - Len(use') + i
             /\ \/ ring'[buf_addr'[use'[i]]] = {NewPacket(status)}
                \/ \E k \in 1 .. U : ring'[buf_addr'[use'[i]]] = Held(use[k])
  <2>1. CASE i = Len(use')
    <3>1. buf_addr'[h] = rear /\ ring'[rear] = {NewPacket(status)}
      BY <1>2, <1>3, <1>5
    <3>2. NewPacket(status).sort = sort + 1
      BY DEF NewPacket
    <3>3. front' + i - 1 = front' + (Len(use') - 1) /\ sort' - Len(use') + i = sort + 1
      BY <1>1, <1>2, <1>5, <2>1
    <3> QED BY <1>2, <1>5, <2>1, <3>1, <3>2, <3>3
  <2>2. CASE i # Len(use') /\ ~Full
    <3>1. i \in 1 .. U /\ use'[i] = use[i]
      BY <1>1, <1>2, <2>2
    <3>2. sort' - Len(use') + i = sort - U + i
      BY <1>1, <1>2, <2>2
    <3> QED BY <1>2, <1>7, <2>2, <3>1, <3>2
  <2>3. CASE i # Len(use') /\ Full
    <3>1. i + 1 \in 1 .. U /\ use'[i] = use[i + 1] /\ i - 1 \in 0 .. U - 1
      <4>1. Len(use') = U
        BY <1>2, <2>3
      <4>2. i \in 1 .. U - 1
        BY <1>1, <2>3, <4>1
      <4>3. use'[i] = use[i + 1]
        BY <1>2, <2>3, <4>1, <4>2
      <4> QED BY <1>1, <4>2, <4>3
    <3>2. sort' - Len(use') + i = sort - U + (i + 1)
      BY <1>1, <1>2, <2>3
    <3>3. front' + i - 1 = front' + (i - 1) /\ front + (i + 1) - 1 = front + ((i - 1) + 1)
      BY <1>3, <1>5
    <3>4. (front' + i - 1) % N = (front + (i + 1) - 1) % N
      BY <1>5, <2>3, <3>1, <3>3
    <3>5. /\ buf_addr'[use[i + 1]] = (front + (i + 1) - 1) % N
          /\ \E p \in ring'[buf_addr'[use[i + 1]]] :
               ring'[buf_addr'[use[i + 1]]] = {p} /\ p.sort = sort - U + (i + 1)
          /\ ring'[buf_addr'[use[i + 1]]] = Held(use[i + 1])
      BY <1>7, <3>1
    <3> QED BY <3>1, <3>2, <3>4, <3>5
  <2> QED BY <2>1, <2>2, <2>3
<1>9. KeepsNewest'
  <2>1. \A i \in 1 .. Len(use') :
          /\ buf_addr'[use'[i]] = (front' + i - 1) % N
          /\ \E p \in ring'[buf_addr'[use'[i]]] :
               ring'[buf_addr'[use'[i]]] = {p} /\ p.sort = sort' - Len(use') + i
    BY <1>8
  <2> QED BY <1>6, <2>1 DEF KeepsNewest, Held, N
<1>10. InUse' \subseteq InUse \cup {NewPacket(status)}
  <2>1. \A i \in 1 .. Len(use') :
          ring'[buf_addr'[use'[i]]] \subseteq InUse \cup {NewPacket(status)}
    BY <1>8 DEF InUse, U
  <2> QED BY <2>1 DEF InUse, Held
<1> QED BY <1>9, <1>10
-----------------------------------------------------------------------------
(* Every step of the talking end keeps SenderInv.                            *)
LEMMA NextSeqIs ==
  ASSUME NEW q \in Seqs \cup {0}
  PROVE  NextSeq(q) = IF q < 2 * ENCODED_BUF_NUM THEN q + 1 ELSE 1
<1> DEFINE M == 2 * ENCODED_BUF_NUM
<1>1. M \in Nat \ {0} /\ q \in 0 .. M
  BY NetAssumption DEF Seqs
<1> HIDE DEF M
<1>2. q \in 0 .. 2 * M - 1
  BY <1>1
<1>3. q % M = Wrap(q, M)
  BY <1>1, <1>2, Around
<1> QED BY <1>1, <1>3 DEF NextSeq, M, Wrap

LEMMA NewIsPacket ==
  ASSUME SenderInv, NEW status \in {0, 1}, Enqueue(status)
  PROVE  NewPacket(status) \in Packet /\ NextSeq(g_send_sequence) \in Seqs
<1>1. NextSeq(g_send_sequence) \in Seqs
  <2>1. g_send_sequence \in Seqs \cup {0}
    BY DEF SenderInv, SenderTypeOK
  <2> QED BY <2>1, NextSeqIs, NetAssumption DEF Seqs
<1>2. sort + 1 \in 1 .. MaxSort
  <2>1. sort \in 0 .. MaxSort /\ MaxSort \in Nat
    BY NetAssumption DEF SenderInv, SenderTypeOK
  <2> QED BY <2>1, EnqueueIs
<1> QED BY <1>1, <1>2 DEF NewPacket, Packet, SenderInv, SenderTypeOK

LEMMA EnqueueSender ==
  ASSUME SenderInv, NEW status \in {0, 1}, Enqueue(status),
         g_transfer_mode' \in {"send", "recv"}, mute_sta' \in {0, 1},
         num_of_avaiable' = 0, cnt' = cnt
  PROVE  SenderInv'
<1>1. SenderTypeOK'
  <2>1. NextSeq(g_send_sequence) \in Seqs /\ NewPacket(status) \in Packet
    BY NewIsPacket
  <2>2. /\ sort' \in 1 .. MaxSort /\ sort + 1 \in 1 .. MaxSort
        /\ g_send_sequence' = NextSeq(g_send_sequence) /\ session' = session
        /\ use' \in Seq(ManageNodes) /\ src' \in Seq(ManageNodes)
        /\ buf_addr' = [buf_addr EXCEPT ![src[1]] = rear] /\ src[1] \in ManageNodes
        /\ ring' = [ring EXCEPT ![rear] = {NewPacket(status)}]
        /\ manage_cur_push' = src[1]
    <3>1. sort \in 0 .. MaxSort /\ MaxSort \in Nat
      BY NetAssumption DEF SenderInv, SenderTypeOK
    <3> QED BY <3>1, EnqueueIs
  <2>4. front' \in Slots /\ rear' \in Slots /\ rear \in Slots
    BY EnqueueSlots
  <2>5. buf_addr' \in [ManageNodes -> Slots] /\ ring' \in [Slots -> SUBSET Packet]
    BY <2>1, <2>2, <2>4 DEF SenderInv, SenderTypeOK
  <2>6. manage_cur_pop' = src[1] /\ send_start_flag' = 1
    BY EnqueueSends
  <2>7. num_of_avaiable' \in 0 .. ENCODED_BUF_NUM
    BY NetAssumption
  <2> QED BY <2>1, <2>2, <2>4, <2>5, <2>6, <2>7 DEF SenderInv, SenderTypeOK
<1>2. NodesInv'
  BY EnqueueNodes
<1>3. CursorInv'
  <2>1. rear' = (front' + Len(use')) % ENCODED_BUF_NUM
    BY EnqueueSlots
  <2>2. manage_cur_pop' = src[1] /\ manage_cur_push' = src[1] /\ use'[Len(use')] = src[1]
    BY EnqueueSends, EnqueueIs
  <2>3. sort' = sort + 1 /\ sort \in Nat
    BY SenderSizes, EnqueueIs
  <2>4. sort' # 0
    BY <2>3
  <2> QED BY <2>1, <2>2, <2>4 DEF CursorInv
<1>4. KeepsNewest'
  BY EnqueueNewest
<1> QED BY <1>1, <1>2, <1>3, <1>4 DEF SenderInv

(* Nothing ever waits, so a wake-up without a frame either sends an empty    *)
(* packet or does nothing.                                                   *)
LEMMA TalkIs ==
  ASSUME SenderInv, EncodeFrame \/ EncodeSilence \/ EncodeNothing \/ PushKey
  PROVE  /\ g_transfer_mode' \in {"send", "recv"} /\ mute_sta' \in {0, 1}
         /\ num_of_avaiable' = 0 /\ cnt' = cnt /\ asked' = asked
         /\ \/ \E status \in {0, 1} : Enqueue(status)
            \/ UNCHANGED <<session, use, src, buf_addr, ring, front, rear, g_send_sequence, sort,
                           manage_cur_push, manage_cur_pop, send_start_flag, net>>
<1>1. /\ get_ringbuf_manage_count(use, manage_cur_pop, manage_cur_push) = 0
      /\ num_of_avaiable = 0 /\ mute_sta \in {0, 1} /\ g_transfer_mode \in {"send", "recv"}
  BY SenderNothingWaits DEF NothingWaits, SenderInv, CursorInv, SenderTypeOK
<1>2. ASSUME EncodeFrame PROVE (\E status \in {0, 1} : Enqueue(status)) /\ mute_sta' \in {0, 1}
  BY <1>1, <1>2 DEF EncodeFrame
<1>3. CASE EncodeFrame
  BY <1>1, <1>2, <1>3 DEF EncodeFrame
<1>4. CASE EncodeSilence
  BY <1>1, <1>4 DEF EncodeSilence
<1>5. CASE EncodeNothing
  BY <1>1, <1>5 DEF EncodeNothing, listVars
<1>6. CASE PushKey
  BY <1>1, <1>6 DEF PushKey
<1> QED BY <1>3, <1>4, <1>5, <1>6

LEMMA SenderKept ==
  ASSUME SenderInv, g_transfer_mode' \in {"send", "recv"}, mute_sta' \in {0, 1},
         num_of_avaiable' = 0, cnt' \in 0 .. CntMod - 1,
         UNCHANGED <<session, use, src, buf_addr, ring, front, rear, g_send_sequence, sort,
                     manage_cur_push, manage_cur_pop, send_start_flag>>
  PROVE  SenderInv' /\ InUse' = InUse
<1>1. SenderTypeOK'
  BY NetAssumption DEF SenderInv, SenderTypeOK
<1>2. NodesInv' /\ CursorInv' /\ KeepsNewest'
  BY DEF SenderInv, NodesInv, CursorInv, KeepsNewest, Held
<1>3. InUse' = InUse
  BY DEF InUse, Held
<1> QED BY <1>1, <1>2, <1>3 DEF SenderInv

LEMMA TalkSender ==
  ASSUME SenderInv, EncodeFrame \/ EncodeSilence \/ EncodeNothing \/ PushKey
  PROVE  SenderInv'
<1>1. CASE \E status \in {0, 1} : Enqueue(status)
  BY <1>1, TalkIs, EnqueueSender
<1>2. CASE ~ \E status \in {0, 1} : Enqueue(status)
  <2>1. cnt' \in 0 .. CntMod - 1
    BY TalkIs DEF SenderInv, SenderTypeOK
  <2> QED BY <1>2, <2>1, TalkIs, SenderKept
<1> QED BY <1>1, <1>2

LEMMA ResendIs ==
  ASSUME SenderInv, RetransferCheck
  PROVE  SenderInv' /\ InUse' = InUse /\ net' \subseteq net \cup InUse
<1> DEFINE seen == Min({Looks, Len(use)})
<1>1. seen \in Nat /\ seen <= Len(use) /\ cnt \in 0 .. CntMod - 1 /\ CntMod \in Nat \ {0}
  <2>1. /\ cnt \in 0 .. CntMod - 1 /\ CntMod \in Nat /\ CntMod > ENCODED_BUF_NUM
        /\ ENCODED_BUF_NUM \in Nat /\ Len(use) \in Nat
    BY SenderAssumption, SenderSizes DEF SenderInv, SenderTypeOK
  <2>2. Looks \in Nat
    BY <2>1 DEF Looks
  <2> QED BY <2>1, <2>2, MinTwo
<1>2. (cnt + seen) % CntMod \in 0 .. CntMod - 1
  <2> HIDE DEF seen
  <2> QED BY <1>1
<1>3. cnt' \in 0 .. CntMod - 1
  BY <1>1, <1>2 DEF RetransferCheck
<1>4. SenderInv' /\ InUse' = InUse
  <2>1. /\ g_transfer_mode' \in {"send", "recv"} /\ mute_sta' \in {0, 1} /\ num_of_avaiable' = 0
    BY DEF RetransferCheck, SenderInv, SenderTypeOK, CursorInv
  <2> QED BY <1>3, <2>1, SenderKept DEF RetransferCheck
<1>5. net' \subseteq net \cup InUse
  <2> DEFINE held == UNION {ring[buf_addr[use[i]]] : i \in 1 .. seen}
  <2>1. net' = net \/ net' = net \cup {p \in held : p.seq \in asked}
    BY DEF RetransferCheck
  <2> HIDE DEF seen
  <2>2. held \subseteq InUse
    <3>1. Len(use) \in Nat
      BY SenderSizes
    <3> QED BY <1>1, <3>1 DEF InUse, Held
  <2> QED BY <2>1, <2>2
<1> QED BY <1>4, <1>5

LEMMA SenderStays ==
  ASSUME SenderInv, UNCHANGED senderVars
  PROVE  SenderInv' /\ InUse' = InUse /\ session' = session
<1>1. UNCHANGED <<session, g_transfer_mode, g_send_sequence, sort, use, src, buf_addr, ring,
                  front, rear, manage_cur_pop, manage_cur_push, send_start_flag, mute_sta,
                  num_of_avaiable, cnt>>
  BY DEF senderVars
<1>2. /\ g_transfer_mode \in {"send", "recv"} /\ mute_sta \in {0, 1}
      /\ num_of_avaiable = 0 /\ cnt \in 0 .. CntMod - 1
  BY DEF SenderInv, SenderTypeOK, CursorInv
<1>3. /\ g_transfer_mode' \in {"send", "recv"} /\ mute_sta' \in {0, 1}
      /\ num_of_avaiable' = 0 /\ cnt' \in 0 .. CntMod - 1
  BY <1>1, <1>2
<1> QED BY <1>1, <1>3, SenderKept

LEMMA HeldArePackets ==
  ASSUME SenderInv
  PROVE  InUse \subseteq Packet
<1>1. /\ use \in Seq(ManageNodes) /\ buf_addr \in [ManageNodes -> Slots]
      /\ ring \in [Slots -> SUBSET Packet]
  BY DEF SenderInv, SenderTypeOK
<1>2. \A i \in 1 .. Len(use) : Held(use[i]) \subseteq Packet
  BY <1>1 DEF Held
<1> QED BY <1>2 DEF InUse

(* The talking end as a start leaves it. *)
Started ==
    /\ session \in 1 .. MaxSession
    /\ g_transfer_mode = "recv"
    /\ g_send_sequence = 0
    /\ sort = 0
    /\ use = <<>>
    /\ src = [i \in ManageNodes |-> i]
    /\ buf_addr = [i \in ManageNodes |-> 0]
    /\ ring = [i \in Slots |-> {}]
    /\ front = 0
    /\ rear = 0
    /\ manage_cur_pop = Head0
    /\ manage_cur_push = NoNode
    /\ send_start_flag = 0
    /\ mute_sta = 0
    /\ num_of_avaiable = 0
    /\ cnt = 0

LEMMA StartedSender ==
  Started => SenderInv /\ InUse = {}
<1> SUFFICES ASSUME Started PROVE SenderInv /\ InUse = {}
  OBVIOUS
<1> DEFINE N == ENCODED_BUF_NUM
<1>1. N \in Nat /\ N > 2 /\ use = <<>> /\ Len(use) = 0 /\ sort = 0
  BY NetAssumption DEF Started
<1>2. /\ src = [i \in 1 .. N |-> i] /\ src \in Seq(ManageNodes) /\ Len(src) = N
      /\ use \in Seq(ManageNodes)
  BY <1>1 DEF Started, ManageNodes
<1>3. SenderTypeOK
  BY <1>1, <1>2, NetAssumption, SenderAssumption
     DEF Started, SenderTypeOK, ManageNodes, Slots, Seqs
<1>4. NodesInv
  <2> HIDE DEF N
  <2>1. Distinct(src)
    BY <1>1, <1>2 DEF Distinct
  <2> QED BY <1>1, <1>2, <2>1 DEF NodesInv, Distinct, N
<1>5. CursorInv
  <2>1. 0 \in 0 .. 2 * N - 1 /\ N \in Nat \ {0}
    BY <1>1
  <2>2. 0 % N = 0
    <3> HIDE DEF N
    <3> QED BY <1>1, <2>1, Around DEF Wrap
  <2> QED BY <1>1, <2>2 DEF Started, CursorInv
<1>6. KeepsNewest
  <2>1. Min({0, N - 1}) = 0
    BY <1>1, MinTwo
  <2> QED BY <1>1, <2>1 DEF KeepsNewest
<1>7. InUse = {}
  BY <1>1 DEF InUse
<1> QED BY <1>3, <1>4, <1>5, <1>6, <1>7 DEF SenderInv

LEMMA StartSender ==
  ASSUME SenderInit
  PROVE  SenderInv /\ InUse = {}
<1>1. Started
  BY NetAssumption DEF SenderInit, Started
<1> QED BY <1>1, StartedSender

LEMMA RestartSender ==
  ASSUME SenderInv, Restart
  PROVE  SenderInv' /\ InUse' = {}
<1>1. session + 1 \in 1 .. MaxSession
  BY NetAssumption DEF SenderInv, SenderTypeOK, Restart
<1>2. Started'
  BY <1>1 DEF Restart, Started, ManageNodes, Slots
<1>3. SenderInv' /\ (InUse = {})'
  BY <1>2, StartedSender, PTL
<1> QED BY <1>3

-----------------------------------------------------------------------------
(* The listening end.  Everything on the air and in the ring is of the       *)
(* session at hand; what it took in may be of an earlier one.                *)
Label(x) == <<x.id, x.sort>>
Sessions ==
    /\ \A p \in net \cup InUse : p.id = session
    /\ \A i \in 1 .. Len(useList) : useList[i].id <= session
    /\ \A x \in played : x[1] <= session
ReceiverInv == ReceiverTypeOK /\ Len(useList) <= SUBLIST_NUM /\ Sessions
LinkInv == NetTypeOK /\ SenderInv /\ ReceiverInv

(* new is list with p put in at some place. *)
PutIn(new, list, p) ==
    /\ Len(new) = Len(list) + 1
    /\ \E i \in 1 .. Len(list) + 1 :
          \A j \in 1 .. Len(list) + 1 :
              new[j] = IF j < i THEN list[j] ELSE IF j = i THEN p ELSE list[j - 1]

LEMMA InsertIs ==
  ASSUME NEW list \in Seq(Packet), NEW p \in Packet, NEW prev
  PROVE  LET new == insert_into_useList(p, list, prev)
         IN new = list \/ (new \in Seq(Packet) /\ PutIn(new, list, p))
<1> DEFINE before(i) == IF i = 1 THEN prev ELSE list[i - 1].sort
           stops == {i \in DOMAIN list :
                        list[i].sort = p.sort \/ Fits(before(i), p.sort, list[i].sort)}
           new == insert_into_useList(p, list, prev)
<1>1. stops \subseteq 1 .. Len(list) /\ stops \in SUBSET Nat
  OBVIOUS
<1>2. new = list \/ (stops = {} /\ new = Append(list, p))
        \/ (stops # {} /\ new = InsertAt(list, Min(stops), p))
  BY DEF insert_into_useList
<1> HIDE DEF stops, new
<1>3. ASSUME new = Append(list, p)
      PROVE  new \in Seq(Packet) /\ PutIn(new, list, p)
  <2>1. /\ new \in Seq(Packet) /\ Len(new) = Len(list) + 1
        /\ \A i \in 1 .. Len(list) : new[i] = list[i]
        /\ new[Len(list) + 1] = p
    BY <1>3, AppendProperties
  <2>2. Len(list) + 1 \in 1 .. Len(list) + 1 /\ Len(list) \in Nat
    OBVIOUS
  <2>3. \A j \in 1 .. Len(list) + 1 :
          new[j] = IF j < Len(list) + 1 THEN list[j] ELSE IF j = Len(list) + 1 THEN p ELSE list[j - 1]
    BY <2>1, <2>2
  <2> QED BY <2>1, <2>2, <2>3 DEF PutIn
<1>4. ASSUME stops # {}, new = InsertAt(list, Min(stops), p)
      PROVE  new \in Seq(Packet) /\ PutIn(new, list, p)
  <2>1. PICK k \in 1 .. Len(list) : k = Min(stops)
    BY <1>1, <1>4, Least
  <2>2. /\ new \in Seq(Packet) /\ Len(new) = Len(list) + 1
        /\ \A j \in 1 .. Len(list) + 1 :
             new[j] = IF j < k THEN list[j] ELSE IF j = k THEN p ELSE list[j - 1]
    BY <1>4, <2>1, Inserted
  <2>3. k \in 1 .. Len(list) + 1
    OBVIOUS
  <2> QED BY <2>2, <2>3 DEF PutIn
<1>5. new = list \/ (new \in Seq(Packet) /\ PutIn(new, list, p))
  BY <1>2, <1>3, <1>4
<1> QED BY <1>5 DEF new

(* A change of identity leaves the play list without some of its first       *)
(* entries, or without any.                                                  *)
LEMMA KeptIs ==
  ASSUME LinkInv, NEW p \in net
  PROVE  /\ p.id = session /\ p \in Packet
         /\ Kept(p) \in Seq(Packet) /\ Len(Kept(p)) <= Len(useList) /\ Len(Kept(p)) \in Nat
         /\ \E k \in Nat : \A i \in 1 .. Len(Kept(p)) :
               Kept(p)[i] = useList[i + k] /\ i + k \in 1 .. Len(useList)
<1>1. /\ p.id = session /\ p \in Packet
      /\ useList \in Seq(Packet) /\ Len(useList) \in Nat
      /\ g_numofcached \in 0 .. SUBLIST_NUM /\ SUBLIST_NUM \in Nat
  BY ReceiverAssumption DEF LinkInv, NetTypeOK, ReceiverInv, ReceiverTypeOK, Sessions
<1>2. CASE Kept(p) = useList
  <2>1. \A i \in 1 .. Len(Kept(p)) : Kept(p)[i] = useList[i + 0] /\ i + 0 \in 1 .. Len(useList)
    BY <1>1, <1>2
  <2> QED BY <1>1, <1>2, <2>1
<1>3. CASE Kept(p) = SubSeq(useList, g_numofcached + 1, Len(useList))
  <2> DEFINE k == g_numofcached
             n == Len(useList)
  <2>1. k \in Nat /\ n \in Nat
    BY <1>1
  <2>2. CASE k < n
    <3>1. \A i \in k + 1 .. n : useList[i] \in Packet
      BY <1>1, <2>1
    <3>2. SubSeq(useList, k + 1, n) = [i \in 1 .. n - k |-> useList[i + k]]
      BY <1>1, <2>1, <2>2
    <3>3. Kept(p) = [i \in 1 .. n - k |-> useList[i + k]] /\ n - k \in Nat
      BY <1>3, <2>1, <2>2, <3>2
    <3>4. \A i \in 1 .. n - k : i + k \in 1 .. n /\ useList[i + k] \in Packet
      BY <1>1, <2>1
    <3>5. Kept(p) \in Seq(Packet) /\ Len(Kept(p)) = n - k
      BY <3>3, <3>4
    <3>6. n - k <= n
      BY <2>1
    <3>7. \A i \in 1 .. Len(Kept(p)) : Kept(p)[i] = useList[i + k] /\ i + k \in 1 .. n
      BY <3>3, <3>4, <3>5
    <3> HIDE DEF k, n
    <3>8. Len(Kept(p)) <= n /\ Len(Kept(p)) \in Nat
      BY <3>3, <3>5, <3>6
    <3>9. \E j \in Nat : \A i \in 1 .. Len(Kept(p)) :
            Kept(p)[i] = useList[i + j] /\ i + j \in 1 .. n
      BY <2>1, <3>7
    <3> QED BY <1>1, <3>5, <3>8, <3>9 DEF n
  <2>3. CASE ~ (k < n)
    <3>1. Kept(p) = <<>>
      BY <1>1, <1>3, <2>1, <2>3
    <3> QED BY <1>1, <2>1, <3>1
  <2> QED BY <2>2, <2>3
<1> QED BY <1>2, <1>3 DEF Kept

LEMMA LossTypes ==
  ASSUME LinkInv, NEW p \in net, RecvRepeat(p) \/ RecvLate(p) \/ RecvFresh(p)
  PROVE  /\ sequence' \in Seqs \cup {0} /\ lose_packet' \subseteq Seqs
         /\ retrans_num' \in [Seqs -> {0, 1}]
         /\ seq_sort' \in [Seqs -> 0 .. MaxSort]
         /\ asked' \subseteq Seqs
<1>1. /\ sequence \in Seqs \cup {0} /\ lose_packet \subseteq Seqs
      /\ retrans_num \in [Seqs -> {0, 1}]
      /\ seq_sort \in [Seqs -> 0 .. MaxSort]
      /\ asked \subseteq Seqs
      /\ p.seq \in Seqs /\ p.sort \in 1 .. MaxSort /\ MaxSort \in Nat
  BY KeptIs, NetAssumption
     DEF LinkInv, NetTypeOK, ReceiverInv, ReceiverTypeOK, Packet
<1>2. Aged \in [Seqs -> {0, 1}] /\ StillLost \subseteq Seqs
  BY <1>1 DEF Aged, StillLost
<1>3. Skipped(p) \subseteq Seqs
  <2>1. NextSeq(sequence) \in Seqs
    <3>1. NextSeq(sequence) = IF sequence < 2 * ENCODED_BUF_NUM THEN sequence + 1 ELSE 1
      BY <1>1, NextSeqIs
    <3> QED BY <1>1, <3>1, NetAssumption DEF Seqs
  <2>2. Expected(p) \in Seqs
    BY <1>1, <2>1 DEF Expected
  <2> QED BY <1>1, <2>2, NetAssumption DEF Skipped, Seqs
<1>4. CASE RecvRepeat(p)
  BY <1>1, <1>2, <1>4 DEF RecvRepeat, Ask
<1>5. CASE RecvLate(p)
  BY <1>1, <1>2, <1>5 DEF RecvLate, Ask
<1>6. CASE RecvFresh(p)
  BY <1>1, <1>2, <1>3, <1>6 DEF RecvFresh, Ask
<1> QED BY <1>4, <1>5, <1>6

(* A packet that is taken in: what is kept of the play list grows by at most *)
(* that one.                                                                 *)
LEMMA ArrivedIs ==
  ASSUME LinkInv, NEW p \in net, RecvRepeat(p) \/ RecvLate(p) \/ RecvFresh(p)
  PROVE  /\ Len(useList) < SUBLIST_NUM
         /\ useList' = Kept(p) \/ (useList' \in Seq(Packet) /\ PutIn(useList', Kept(p), p))
         /\ r_identify_num' = session /\ playing' \in BOOLEAN /\ astray' \in BOOLEAN
         /\ g_numofcached' \in {0, g_numofcached}
         /\ UNCHANGED decoderVars
<1>1. Arrive(p) /\ (useList' = Kept(p)
                     \/ useList' = insert_into_useList(p, Kept(p), PrevSort(StillPlaying(p))))
  BY DEF RecvRepeat, RecvLate, RecvFresh
<1>2. Kept(p) \in Seq(Packet) /\ p \in Packet /\ p.id = session
  BY KeptIs
<1>3. useList' = Kept(p) \/ (useList' \in Seq(Packet) /\ PutIn(useList', Kept(p), p))
  BY <1>1, <1>2, InsertIs
<1>4. /\ Len(useList) < SUBLIST_NUM /\ r_identify_num' = session
      /\ g_numofcached' \in {0, g_numofcached}
      /\ UNCHANGED decoderVars
  BY <1>1, <1>2 DEF Arrive
<1>5. playing' \in BOOLEAN /\ astray' \in BOOLEAN
  <2>1. playing' = (playing /\ ~Changed(p))
    BY <1>1 DEF Arrive, StillPlaying
  <2>2. astray' = (astray \/ (Changed(p) /\ g_numofcached > Len(useList)))
    BY <1>1 DEF Arrive
  <2> QED BY <2>1, <2>2, Zenon
<1> QED BY <1>3, <1>4, <1>5

LEMMA ListenReceiver ==
  ASSUME LinkInv, Recv, UNCHANGED senderVars
  PROVE  NetTypeOK' /\ ReceiverInv'
<1>1. PICK p \in net : /\ net' = net \ {p}
                       /\ RecvRepeat(p) \/ RecvLate(p) \/ RecvFresh(p) \/ RecvNoRoom(p)
  BY DEF Recv
<1>2. InUse' = InUse /\ session' = session
  BY DEF senderVars, InUse, Held
<1>3. net \subseteq Packet /\ net' \subseteq Packet /\ asked \subseteq Seqs
  BY <1>1 DEF LinkInv, NetTypeOK
<1>4. CASE RecvNoRoom(p)
  <2>1. NetTypeOK'
    BY <1>3, <1>4 DEF RecvNoRoom, NetTypeOK
  <2>2. Sessions'
    BY <1>1, <1>2, <1>4 DEF RecvNoRoom, receiverVars, LinkInv, ReceiverInv, Sessions
  <2> QED BY <1>4, <2>1, <2>2 DEF RecvNoRoom, receiverVars, LinkInv, ReceiverInv, ReceiverTypeOK
<1>5. CASE RecvRepeat(p) \/ RecvLate(p) \/ RecvFresh(p)
  <2>1. /\ Len(useList) < SUBLIST_NUM
        /\ useList' = Kept(p) \/ (useList' \in Seq(Packet) /\ PutIn(useList', Kept(p), p))
        /\ r_identify_num' = session /\ playing' \in BOOLEAN /\ astray' \in BOOLEAN
        /\ g_numofcached' \in {0, g_numofcached}
        /\ UNCHANGED decoderVars
    BY <1>5, ArrivedIs
  <2>2. NetTypeOK'
    BY <1>3, <1>5, LossTypes DEF NetTypeOK
  <2>3. /\ p.id = session /\ Kept(p) \in Seq(Packet)
        /\ Len(Kept(p)) <= Len(useList) /\ Len(Kept(p)) \in Nat
    BY KeptIs
  <2>4. PICK k \in Nat : \A i \in 1 .. Len(Kept(p)) :
               Kept(p)[i] = useList[i + k] /\ i + k \in 1 .. Len(useList)
    BY KeptIs
  <2>5. SUBLIST_NUM \in Nat /\ Len(useList) \in Nat /\ session \in 1 .. MaxSession
        /\ MaxSession \in Nat
    BY ReceiverAssumption, NetAssumption
       DEF LinkInv, ReceiverInv, ReceiverTypeOK, SenderInv, SenderTypeOK
  <2>6. useList' \in Seq(Packet) /\ Len(useList') <= SUBLIST_NUM
    <3>1. CASE useList' = Kept(p)
      BY <2>1, <2>3, <2>5, <3>1
    <3>2. CASE PutIn(useList', Kept(p), p) /\ useList' \in Seq(Packet)
      BY <2>1, <2>3, <2>5, <3>2 DEF PutIn
    <3> QED BY <2>1, <3>1, <3>2
  <2>7. ReceiverTypeOK'
    <3>1. session \in 0 .. MaxSession
      BY <2>5
    <3>2. g_numofcached' \in 0 .. SUBLIST_NUM
      BY <2>1, <2>5 DEF LinkInv, ReceiverInv, ReceiverTypeOK
    <3> QED BY <1>5, <2>1, <2>6, <3>1, <3>2, LossTypes
            DEF decoderVars, LinkInv, ReceiverInv, ReceiverTypeOK
  <2>8. \A i \in 1 .. Len(Kept(p)) : Kept(p)[i].id <= session
    BY <2>4 DEF LinkInv, ReceiverInv, Sessions
  <2>9. \A i \in 1 .. Len(useList') : useList'[i].id <= session
    <3>1. CASE useList' = Kept(p)
      BY <2>8, <3>1
    <3>2. CASE PutIn(useList', Kept(p), p)
      <4>1. PICK j \in 1 .. Len(Kept(p)) + 1 :
              \A i \in 1 .. Len(Kept(p)) + 1 :
                 useList'[i] = IF i < j THEN Kept(p)[i] ELSE IF i = j THEN p ELSE Kept(p)[i - 1]
        BY <3>2 DEF PutIn
      <4>2. Len(useList') = Len(Kept(p)) + 1
        BY <3>2 DEF PutIn
      <4>3. session <= session
        BY <2>5
      <4> SUFFICES ASSUME NEW i \in 1 .. Len(useList') PROVE useList'[i].id <= session
        OBVIOUS
      <4>4. i \in 1 .. Len(Kept(p)) + 1
        BY <4>2
      <4>5. CASE i < j
        <5>1. i \in 1 .. Len(Kept(p)) /\ useList'[i] = Kept(p)[i]
          BY <2>3, <4>1, <4>4, <4>5
        <5> QED BY <2>8, <5>1
      <4>6. CASE i = j
        BY <2>3, <4>1, <4>3, <4>4, <4>6
      <4>7. CASE i > j
        <5>1. i - 1 \in 1 .. Len(Kept(p)) /\ useList'[i] = Kept(p)[i - 1]
          BY <2>3, <4>1, <4>4, <4>7
        <5> QED BY <2>8, <5>1
      <4> QED BY <4>4, <4>5, <4>6, <4>7
    <3> QED BY <2>1, <3>1, <3>2
  <2>10. Sessions'
    BY <1>1, <1>2, <2>1, <2>9 DEF decoderVars, LinkInv, ReceiverInv, Sessions
  <2> QED BY <2>2, <2>6, <2>7, <2>10 DEF ReceiverInv
<1> QED BY <1>1, <1>4, <1>5

LEMMA WakeReceiver ==
  ASSUME LinkInv, Wake, UNCHANGED senderVars
  PROVE  ReceiverInv'
<1> DEFINE n == Len(useList)
<1>1. /\ ReceiverTypeOK /\ n \in 0 .. SUBLIST_NUM /\ SUBLIST_NUM \in Nat /\ playofwait \in Nat
      /\ useList \in Seq(Packet) /\ Sessions /\ playing \in BOOLEAN
  BY ReceiverAssumption DEF LinkInv, ReceiverInv, ReceiverTypeOK
<1>2. /\ g_numofcached' = n /\ cached' = n /\ numofwait' = Waited(n)
      /\ playing' = (playing \/ StartsNow(n))
      /\ pc' = IF playing' THEN "play" ELSE "idle"
      /\ useList' = useList /\ pc = "idle"
      /\ anew' = (anew \/ StartsNow(n))
  BY DEF Wake
<1>3. StartsNow(n) \in BOOLEAN
  BY DEF StartsNow
<1>4. playing' \in BOOLEAN /\ pc' \in {"idle", "play"} /\ anew' \in BOOLEAN
  BY <1>1, <1>2, <1>3, Zenon
<1>5. numofwait' \in 0 .. playofwait + 1
  <2>1. numofwait \in 0 .. playofwait + 1
    BY <1>1 DEF ReceiverTypeOK
  <2>2. ~playing /\ ~StartsNow(n) => numofwait <= playofwait
    BY <1>1, <2>1 DEF StartsNow
  <2>3. Waited(n) \in 0 .. playofwait + 1
    BY <1>1, <2>1, <2>2 DEF Waited
  <2> QED BY <1>2, <2>3
<1>6. Sessions'
  <2>1. UNCHANGED <<net, session, played>> /\ InUse' = InUse
    BY DEF Wake, DecoderOnly, lossVars, senderVars, InUse, Held
  <2> QED BY <1>1, <1>2, <2>1 DEF Sessions
<1>7. ReceiverTypeOK'
  <2>1. /\ UNCHANGED <<sequence, lose_packet, retrans_num, seq_sort, r_identify_num, own_mode,
                       play_sort, plc_cnt, astray, lastPlayed, played>>
        /\ onDac' \in BOOLEAN
        /\ g_current_sort' \in IF ~StartsNow(n) THEN {g_current_sort}
                               ELSE IF n = 0 THEN Beside ELSE {useList[1].sort}
    BY DEF Wake, DecoderOnly, lossVars
  <2>2. g_current_sort' \in Nat
    <3>1. n > 0 => useList[1].sort \in Nat
      <4>1. n > 0 => useList[1] \in Packet
        BY <1>1
      <4> QED BY <4>1, NetAssumption DEF Packet
    <3>2. Beside \subseteq Nat
      BY NetAssumption DEF Beside
    <3>3. n > 0 \/ n = 0
      BY <1>1
    <3> QED BY <1>1, <2>1, <3>1, <3>2, <3>3 DEF ReceiverTypeOK
  <2> QED BY <1>1, <1>2, <1>4, <1>5, <2>1, <2>2 DEF ReceiverTypeOK
<1> QED BY <1>1, <1>2, <1>6, <1>7 DEF ReceiverInv

LEMMA FlushReceiver ==
  ASSUME LinkInv, Flush, UNCHANGED senderVars
  PROVE  ReceiverInv'
<1>1. /\ ReceiverTypeOK /\ Len(useList) \in 0 .. SUBLIST_NUM /\ SUBLIST_NUM \in Nat
      /\ Sessions /\ playofwait \in Nat
  BY ReceiverAssumption DEF LinkInv, ReceiverInv, ReceiverTypeOK
<1>2. Sessions'
  <2>1. UNCHANGED <<net, session, played>> /\ InUse' = InUse
    BY DEF Flush, DecoderOnly, lossVars, senderVars, InUse, Held
  <2>2. useList' = <<>>
    BY DEF Flush
  <2> QED BY <1>1, <2>1, <2>2 DEF Sessions
<1>3. ReceiverTypeOK'
  <2>1. /\ UNCHANGED <<sequence, lose_packet, retrans_num, seq_sort, r_identify_num, own_mode,
                       plc_cnt, cached, pc, astray, lastPlayed, anew, played>>
        /\ onDac' = FALSE /\ playing' = FALSE /\ numofwait' = 0 /\ useList' = <<>>
        /\ g_numofcached' = Len(useList) /\ g_current_sort' = g_current_sort + Len(useList)
        /\ play_sort' = IF useList = <<>> THEN play_sort ELSE g_current_sort'
    BY DEF Flush, DecoderOnly, lossVars
  <2>2. useList' \in Seq(Packet) /\ g_current_sort' \in Nat
    BY <1>1, <2>1 DEF ReceiverTypeOK
  <2>3. play_sort' \in Nat
    BY <1>1, <2>1, <2>2 DEF ReceiverTypeOK
  <2>4. /\ g_numofcached' \in 0 .. SUBLIST_NUM /\ numofwait' \in 0 .. playofwait + 1
        /\ onDac' \in BOOLEAN /\ playing' \in BOOLEAN
    <3>1. g_numofcached' \in 0 .. SUBLIST_NUM
      BY <1>1, <2>1
    <3>2. 0 \in 0 .. playofwait + 1
      BY <1>1
    <3> QED BY <2>1, <3>1, <3>2
  <2>5. /\ sequence' \in Seqs \cup {0} /\ lose_packet' \subseteq Seqs
        /\ retrans_num' \in [Seqs -> {0, 1}] /\ seq_sort' \in [Seqs -> 0 .. MaxSort]
        /\ r_identify_num' \in 0 .. MaxSession /\ own_mode' \in {"send", "recv"}
        /\ plc_cnt' \in Nat /\ cached' \in 0 .. SUBLIST_NUM /\ pc' \in {"idle", "play"}
        /\ astray' \in BOOLEAN /\ lastPlayed' \in 0 .. MaxSort /\ anew' \in BOOLEAN
        /\ played' \subseteq (1 .. MaxSession) \X (1 .. MaxSort)
    BY <1>1, <2>1 DEF ReceiverTypeOK
  <2> QED BY <2>2, <2>3, <2>4, <2>5 DEF ReceiverTypeOK
<1>4. Len(useList') <= SUBLIST_NUM
  BY <1>1 DEF Flush
<1> QED BY <1>2, <1>3, <1>4 DEF ReceiverInv

(* What the end of a period and another frame in it leave.                   *)
LEMMA PeriodIs ==
  ASSUME ReceiverTypeOK, NEW on \in BOOLEAN, EndPeriod(on) \/ Again(on), pc = "play"
  PROVE  playing' \in BOOLEAN /\ (playing' => on) /\ pc' \in {"idle", "play"}
         /\ cached' \in 0 .. SUBLIST_NUM
<1>1. CASE EndPeriod(on)
  <2>1. playing' \in BOOLEAN /\ (playing' => on)
    BY <1>1, Zenon DEF EndPeriod
  <2> QED BY <1>1, <2>1 DEF EndPeriod, ReceiverTypeOK
<1>2. CASE Again(on)
  BY <1>2, ReceiverAssumption DEF Again, ReceiverTypeOK
<1> QED BY <1>1, <1>2

LEMMA PeriodReceiver ==
  ASSUME LinkInv, PlayPacket \/ PlayEmpty \/ Conceal \/ NoFrame, UNCHANGED senderVars
  PROVE  ReceiverInv'
<1>1. /\ ReceiverTypeOK /\ useList \in Seq(Packet) /\ Len(useList) <= SUBLIST_NUM
      /\ SUBLIST_NUM \in Nat /\ Sessions /\ playing \in BOOLEAN
  BY ReceiverAssumption DEF LinkInv, ReceiverInv, ReceiverTypeOK
<1>2. pc = "play" /\ UNCHANGED <<numofwait, g_numofcached, onDac, astray>> /\ DecoderOnly
  BY DEF PlayPacket, PlayEmpty, Conceal, NoFrame
<1>3. \/ EndPeriod(playing) \/ Again(playing)
      \/ EndPeriod(playing /\ plc_cnt < PlcMax) \/ Again(playing /\ plc_cnt < PlcMax)
  BY DEF PlayPacket, PlayEmpty, Conceal, NoFrame
<1>4. /\ playing' \in BOOLEAN /\ pc' \in {"idle", "play"} /\ cached' \in 0 .. SUBLIST_NUM
  BY <1>1, <1>2, <1>3, PeriodIs
<1>5. /\ useList' = useList \/ (useList # <<>> /\ useList' = Tail(useList))
  BY DEF PlayPacket, PlayEmpty, Conceal, NoFrame
<1>6. /\ useList' \in Seq(Packet) /\ Len(useList') <= SUBLIST_NUM
      /\ \A i \in 1 .. Len(useList') : \E j \in 1 .. Len(useList) : useList'[i] = useList[j]
  <2>1. CASE useList' = useList
    BY <1>1, <2>1
  <2>2. CASE useList # <<>> /\ useList' = Tail(useList)
    <3>1. /\ useList' \in Seq(Packet) /\ Len(useList') = Len(useList) - 1
          /\ \A i \in 1 .. Len(useList) - 1 : useList'[i] = useList[i + 1]
      BY <1>1, <2>2
    <3>2. Len(useList) \in Nat /\ \A i \in 1 .. Len(useList) - 1 : i + 1 \in 1 .. Len(useList)
      BY <1>1
    <3> QED BY <1>1, <3>1, <3>2
  <2> QED BY <1>5, <2>1, <2>2
<1>7. useList # <<>> =>
        /\ useList[1].sort \in 1 .. MaxSort /\ useList[1].id \in 1 .. MaxSession
        /\ useList[1].id <= session
  <2>1. useList # <<>> => useList[1] \in Packet /\ 1 \in 1 .. Len(useList)
    BY <1>1
  <2> QED BY <1>1, <2>1 DEF Packet, Sessions
<1>8. \/ played' = played
      \/ useList # <<>> /\ played' = played \cup {<<useList[1].id, useList[1].sort>>}
  BY DEF PlayPacket, PlayEmpty, Conceal, NoFrame
<1>9. /\ g_current_sort' \in Nat /\ play_sort' \in Nat /\ plc_cnt' \in Nat
      /\ lastPlayed' \in 0 .. MaxSort /\ anew' \in BOOLEAN
  <2>1. useList # <<>> => Position \in Nat
    BY <1>1, <1>7, NetAssumption DEF Position, ReceiverTypeOK
  <2>2. CASE PlayPacket
    <3>1. /\ useList # <<>> /\ lastPlayed' = useList[1].sort /\ anew' = FALSE
          /\ g_current_sort' = Position + 1 /\ play_sort' = g_current_sort /\ plc_cnt' = 0
      BY <2>2 DEF PlayPacket
    <3>2. lastPlayed' \in 0 .. MaxSort
      BY <1>7, <3>1, NetAssumption
    <3>3. g_current_sort \in Nat /\ Position \in Nat
      BY <1>1, <2>1, <3>1 DEF ReceiverTypeOK
    <3>4. g_current_sort' \in Nat /\ play_sort' \in Nat /\ plc_cnt' \in Nat
      BY <3>1, <3>3
    <3>5. anew' \in BOOLEAN
      BY <3>1
    <3> QED BY <3>2, <3>4, <3>5
  <2>3. CASE PlayEmpty
    <3>1. /\ useList # <<>> /\ g_current_sort' = Position + 1 /\ play_sort' = g_current_sort
          /\ anew' = (anew \/ NearlyFull)
          /\ UNCHANGED <<plc_cnt, lastPlayed>>
      BY <2>3 DEF PlayEmpty
    <3>2. anew' \in BOOLEAN
      BY <3>1, Zenon
    <3> QED BY <1>1, <2>1, <3>1, <3>2, NetAssumption DEF ReceiverTypeOK
  <2>4. CASE Conceal
    BY <1>1, <2>1, <2>4 DEF Conceal, ReceiverTypeOK
  <2>5. CASE NoFrame
    BY <1>1, <2>5 DEF NoFrame, ReceiverTypeOK
  <2> QED BY <2>2, <2>3, <2>4, <2>5
<1>10. ReceiverTypeOK'
  <2>1. played' \subseteq (1 .. MaxSession) \X (1 .. MaxSort)
    BY <1>1, <1>7, <1>8 DEF ReceiverTypeOK
  <2> QED BY <1>1, <1>2, <1>4, <1>6, <1>9, <2>1 DEF DecoderOnly, lossVars, ReceiverTypeOK
<1>11. Sessions'
  <2>1. UNCHANGED <<net, session>> /\ InUse' = InUse
    BY <1>2 DEF DecoderOnly, senderVars, InUse, Held
  <2>2. \A x \in played' : x[1] <= session
    BY <1>1, <1>7, <1>8 DEF Sessions
  <2> QED BY <1>1, <1>6, <2>1, <2>2 DEF Sessions
<1> QED BY <1>6, <1>10, <1>11 DEF ReceiverInv

-----------------------------------------------------------------------------
(* Every step keeps what the two ends and the air between them agree on.     *)
LEMMA LinkStart ==
  ASSUME Init
  PROVE  LinkInv
<1>1. SenderInv /\ InUse = {}
  BY StartSender DEF Init
<1>2. NetTypeOK
  BY DEF Init, NetTypeOK
<1>3. ReceiverTypeOK
  <2>1. useList \in Seq(Packet) /\ retrans_num \in [Seqs -> {0, 1}]
    BY DEF Init, ReceiverInit
  <2>2. seq_sort \in [Seqs -> 0 .. MaxSort] /\ r_identify_num \in 0 .. MaxSession
    BY NetAssumption DEF Init, ReceiverInit
  <2>3. /\ numofwait \in 0 .. playofwait + 1
        /\ g_numofcached \in 0 .. SUBLIST_NUM /\ cached \in 0 .. SUBLIST_NUM
    BY ReceiverAssumption DEF Init, ReceiverInit
  <2>4. lastPlayed \in 0 .. MaxSort /\ played \subseteq (1 .. MaxSession) \X (1 .. MaxSort)
    BY NetAssumption DEF Init, ReceiverInit
  <2> QED BY <2>1, <2>2, <2>3, <2>4 DEF Init, ReceiverInit, ReceiverTypeOK
<1>4. Sessions
  BY <1>1 DEF Init, ReceiverInit, Sessions
<1>5. Len(useList) <= SUBLIST_NUM
  BY ReceiverAssumption DEF Init, ReceiverInit
<1> QED BY <1>1, <1>2, <1>3, <1>4, <1>5 DEF LinkInv, ReceiverInv

(* A step that leaves the listening end alone.                               *)
LEMMA ReceiverAlone ==
  ASSUME LinkInv, UNCHANGED receiverVars, session' = session,
         \A p \in net' \cup InUse' : p.id = session
  PROVE  ReceiverInv'
<1>1. Sessions'
  BY DEF LinkInv, ReceiverInv, Sessions, receiverVars
<1> QED BY <1>1 DEF LinkInv, ReceiverInv, ReceiverTypeOK, receiverVars

LEMMA LinkTalk ==
  ASSUME LinkInv, Talk
  PROVE  LinkInv'
<1>1. /\ EncodeFrame \/ EncodeSilence \/ EncodeNothing \/ PushKey
      /\ UNCHANGED receiverVars /\ SenderInv
      /\ net \subseteq Packet /\ asked \subseteq Seqs
      /\ \A p \in net \cup InUse : p.id = session
  BY DEF Talk, LinkInv, NetTypeOK, ReceiverInv, Sessions
<1>2. SenderInv'
  BY <1>1, TalkSender
<1>3. /\ g_transfer_mode' \in {"send", "recv"} /\ mute_sta' \in {0, 1}
      /\ num_of_avaiable' = 0 /\ cnt' = cnt /\ asked' = asked
  BY <1>1, TalkIs
<1>4. ASSUME NEW status \in {0, 1}, Enqueue(status)
      PROVE  /\ net' \subseteq Packet /\ session' = session
             /\ \A p \in net' \cup InUse' : p.id = session
  <2>1. /\ net' = net \cup {NewPacket(status)} /\ session' = session
        /\ InUse' \subseteq InUse \cup {NewPacket(status)}
    BY <1>1, <1>4, EnqueueSends, EnqueueIs, EnqueueNewest
  <2>2. NewPacket(status) \in Packet
    BY <1>1, <1>4, NewIsPacket
  <2>3. NewPacket(status).id = session
    BY DEF NewPacket
  <2> QED BY <1>1, <2>1, <2>2, <2>3
<1>5. ASSUME ~ \E status \in {0, 1} : Enqueue(status)
      PROVE  /\ net' \subseteq Packet /\ session' = session
             /\ \A p \in net' \cup InUse' : p.id = session
  <2>1. UNCHANGED <<session, use, src, buf_addr, ring, front, rear, g_send_sequence, sort,
                    manage_cur_push, manage_cur_pop, send_start_flag, net>>
    BY <1>1, <1>5, TalkIs
  <2> QED BY <1>1, <2>1 DEF InUse, Held
<1>6. /\ net' \subseteq Packet /\ session' = session
      /\ \A p \in net' \cup InUse' : p.id = session
  BY <1>4, <1>5
<1> QED BY <1>1, <1>2, <1>3, <1>6, ReceiverAlone DEF LinkInv, NetTypeOK

LEMMA LinkResend ==
  ASSUME LinkInv, Resend
  PROVE  LinkInv'
<1>1. /\ RetransferCheck /\ UNCHANGED receiverVars /\ SenderInv
      /\ net \subseteq Packet /\ \A p \in net \cup InUse : p.id = session
  BY DEF Resend, LinkInv, NetTypeOK, ReceiverInv, Sessions
<1>2. SenderInv' /\ InUse' = InUse /\ net' \subseteq net \cup InUse
  BY <1>1, ResendIs
<1>3. InUse \subseteq Packet
  BY <1>1, HeldArePackets
<1>4. session' = session /\ asked' = {}
  BY <1>1 DEF RetransferCheck
<1> QED BY <1>1, <1>2, <1>3, <1>4, ReceiverAlone DEF LinkInv, NetTypeOK

LEMMA LinkAir ==
  ASSUME LinkInv, Air
  PROVE  LinkInv'
<1>1. UNCHANGED <<senderVars, receiverVars>> /\ net' \subseteq net /\ asked' \subseteq asked
  BY DEF Air, LosePacket, LoseRequest
<1>2. SenderInv' /\ InUse' = InUse /\ session' = session
  BY <1>1, SenderStays DEF LinkInv
<1>3. \A p \in net' \cup InUse' : p.id = session
  BY <1>1, <1>2 DEF LinkInv, ReceiverInv, Sessions
<1>4. NetTypeOK'
  BY <1>1 DEF LinkInv, NetTypeOK
<1> QED BY <1>1, <1>2, <1>3, <1>4, ReceiverAlone DEF LinkInv

LEMMA LinkPowerCycle ==
  ASSUME LinkInv, PowerCycle
  PROVE  LinkInv'
<1>1. /\ net = {} /\ session' = session + 1 /\ UNCHANGED <<net, asked>>
      /\ UNCHANGED receiverVars
  BY DEF PowerCycle, Restart
<1>2. SenderInv' /\ InUse' = {}
  BY RestartSender DEF PowerCycle, LinkInv
<1>3. NetTypeOK'
  BY <1>1 DEF LinkInv, NetTypeOK
<1>4. Sessions'
  <2>1. session \in Int
    BY NetAssumption DEF LinkInv, SenderInv, SenderTypeOK
  <2>2. UNCHANGED <<useList, played>>
    BY <1>1 DEF receiverVars
  <2>3. /\ useList \in Seq(Packet) /\ \A i \in 1 .. Len(useList) : useList[i].id <= session
        /\ \A x \in played : x[1] <= session
        /\ played \subseteq (1 .. MaxSession) \X (1 .. MaxSort)
    BY DEF LinkInv, ReceiverInv, ReceiverTypeOK, Sessions
  <2>4. \A i \in 1 .. Len(useList) : useList[i].id <= session + 1
    <3> SUFFICES ASSUME NEW i \in 1 .. Len(useList) PROVE useList[i].id <= session + 1
      OBVIOUS
    <3>1. useList[i] \in Packet
      BY <2>3
    <3>2. useList[i].id \in Int
      BY <3>1, NetAssumption DEF Packet
    <3> QED BY <2>1, <2>3, <3>2
  <2>5. \A x \in played : x[1] <= session + 1
    <3> SUFFICES ASSUME NEW x \in played PROVE x[1] <= session + 1
      OBVIOUS
    <3>1. x[1] \in Int
      BY <2>3, NetAssumption
    <3> QED BY <2>1, <2>3, <3>1
  <2> QED BY <1>1, <1>2, <2>2, <2>4, <2>5 DEF Sessions
<1>5. ReceiverInv'
  BY <1>1, <1>4 DEF LinkInv, ReceiverInv, ReceiverTypeOK, receiverVars
<1> QED BY <1>2, <1>3, <1>5 DEF LinkInv

LEMMA LinkPlay ==
  ASSUME LinkInv, Play
  PROVE  LinkInv'
<1>1. UNCHANGED senderVars
  BY DEF Play
<1>2. SenderInv' /\ InUse' = InUse /\ session' = session
  BY <1>1, SenderStays DEF LinkInv
<1>3. net' = net /\ asked' = asked
  BY DEF Play, Decode, OwnKey, Flush, Wake, PlayPacket, PlayEmpty, Conceal, NoFrame, DecoderOnly
<1>4. NetTypeOK'
  BY <1>3 DEF LinkInv, NetTypeOK
<1>5. CASE OwnKey
  <2>1. Sessions'
    BY <1>2, <1>3, <1>5 DEF OwnKey, lossVars, LinkInv, ReceiverInv, Sessions
  <2>2. ReceiverTypeOK'
    BY <1>5 DEF OwnKey, lossVars, LinkInv, ReceiverInv, ReceiverTypeOK
  <2>3. Len(useList') <= SUBLIST_NUM
    BY <1>5 DEF OwnKey, LinkInv, ReceiverInv
  <2> QED BY <1>2, <1>4, <2>1, <2>2, <2>3 DEF LinkInv, ReceiverInv
<1>6. CASE Decode
  <2>1. ReceiverInv'
    BY <1>1, <1>6, FlushReceiver, WakeReceiver, PeriodReceiver DEF Decode
  <2> QED BY <1>2, <1>4, <2>1 DEF LinkInv
<1> QED BY <1>5, <1>6 DEF Play

LEMMA LinkStep ==
  ASSUME LinkInv, [Next]_vars
  PROVE  LinkInv'
<1>1. CASE UNCHANGED vars
  <2>1. UNCHANGED <<net, asked>> /\ UNCHANGED senderVars /\ UNCHANGED receiverVars
    BY <1>1 DEF vars
  <2>2. SenderInv' /\ InUse' = InUse /\ session' = session
    BY <2>1, SenderStays DEF LinkInv
  <2>3. NetTypeOK' /\ \A p \in net' \cup InUse' : p.id = session
    BY <2>1, <2>2 DEF LinkInv, NetTypeOK, ReceiverInv, Sessions
  <2> QED BY <2>1, <2>2, <2>3, ReceiverAlone DEF LinkInv
<1>2. CASE Listen
  <2>1. Recv /\ UNCHANGED senderVars
    BY <1>2 DEF Listen
  <2>2. SenderInv'
    BY <2>1, SenderStays DEF LinkInv
  <2> QED BY <2>1, <2>2, ListenReceiver DEF LinkInv
<1> QED BY <1>1, <1>2, LinkTalk, LinkResend, LinkAir, LinkPowerCycle, LinkPlay DEF Next

-----------------------------------------------------------------------------
(* A packet carries the number its age gives it, while fewer than a round of *)
(* newer ones overtake it; the listening end remembers, under its number,    *)
(* each packet it took in that is no older than a round.                     *)
Round == 2 * ENCODED_BUF_NUM
NumberOf(last, age) == IF last > age THEN last - age ELSE last - age + Round

Numbered ==
    /\ sort > 0 => g_send_sequence \in Seqs
    /\ \A p \in net \cup InUse :
          /\ p.sort <= sort /\ sort - p.sort < Round
          /\ p.seq = NumberOf(g_send_sequence, sort - p.sort)

Taken(s) ==
    \/ <<session, s>> \in played
    \/ \E i \in 1 .. Len(useList) : Label(useList[i]) = <<session, s>>
Remembered ==
    \A s \in 1 .. MaxSort : Taken(s) =>
        /\ s <= sort
        /\ sort - s < Round => seq_sort[NumberOf(g_send_sequence, sort - s)] = s
EachOnce ==
    /\ \A i, j \in 1 .. Len(useList) : i # j => Label(useList[i]) # Label(useList[j])
    /\ \A i \in 1 .. Len(useList) : Label(useList[i]) \notin played
OnceInv == LinkInv /\ Numbered /\ Remembered /\ EachOnce

LEMMA RoundIs ==
  Round \in Nat /\ Round > 2 /\ Seqs = 1 .. Round /\ ENCODED_BUF_NUM < Round
  /\ ENCODED_BUF_NUM \in Nat
BY NetAssumption DEF Round, Seqs

LEMMA NumberIs ==
  ASSUME NEW q \in Seqs, NEW a \in 0 .. Round - 1
  PROVE  /\ NumberOf(q, a) \in Seqs /\ NumberOf(q, 0) = q
         /\ \A b \in 0 .. Round - 1 : NumberOf(q, a) = NumberOf(q, b) => a = b
         /\ a < Round - 1 => NumberOf(NextSeq(q), a + 1) = NumberOf(q, a)
<1>1. NextSeq(q) = IF q < Round THEN q + 1 ELSE 1
  BY NextSeqIs DEF Round
<1>2. Round \in Nat /\ Round > 2 /\ q \in 1 .. Round
  BY RoundIs
<1> QED BY <1>1, <1>2, RoundIs DEF NumberOf

(* The ring keeps packets younger than its size. *)
LEMMA HeldAge ==
  SenderInv => \A p \in InUse : p.sort <= sort /\ sort - p.sort < ENCODED_BUF_NUM
<1> SUFFICES ASSUME SenderInv, NEW p \in InUse
             PROVE  p.sort <= sort /\ sort - p.sort < ENCODED_BUF_NUM
  OBVIOUS
<1>1. PICK i \in 1 .. Len(use) : p \in Held(use[i])
  BY DEF InUse
<1>2. p.sort = sort - Len(use) + i
  BY <1>1 DEF SenderInv, KeepsNewest
<1>3. Len(use) \in 0 .. ENCODED_BUF_NUM - 1 /\ sort \in Nat /\ ENCODED_BUF_NUM \in Nat
  BY SenderSizes
<1> QED BY <1>2, <1>3

LEMMA EnqueueNumbers ==
  ASSUME MaxDelay < Round, LinkInv, Numbered, NEW status \in {0, 1}, Enqueue(status)
  PROVE  /\ Numbered'
         /\ sort' = sort + 1 /\ g_send_sequence' = NextSeq(g_send_sequence)
<1>1. /\ SenderInv /\ net \subseteq Packet /\ InUse \subseteq Packet
  BY HeldArePackets DEF LinkInv, NetTypeOK
<1>2. /\ sort' = sort + 1 /\ g_send_sequence' = NextSeq(g_send_sequence)
      /\ net' = net \cup {NewPacket(status)}
      /\ InUse' \subseteq InUse \cup {NewPacket(status)}
      /\ g_send_sequence' \in Seqs
  BY <1>1, EnqueueIs, EnqueueSends, EnqueueNewest, NewIsPacket
<1>3. sort \in Nat /\ sort' > 0 /\ MaxDelay \in Nat
  BY <1>1, <1>2, SenderSizes, NetAssumption
<1>4. NewPacket(status).sort = sort + 1 /\ NewPacket(status).seq = g_send_sequence'
  BY <1>2 DEF NewPacket
<1>5. \A q \in net : sort + 1 - q.sort <= MaxDelay
  <2>1. \A q \in net : NewPacket(status).sort - q.sort <= MaxDelay
    BY DEF Enqueue
  <2>2. NewPacket(status).sort = sort + 1
    BY <1>4
  <2>3. \A q \in net : q.sort \in Int
    BY <1>1, NetAssumption DEF Packet
  <2> QED BY <1>3, <2>1, <2>2, <2>3
<1>6. ASSUME NEW p \in net \cup InUse
      PROVE  /\ p.sort <= sort' /\ sort' - p.sort < Round
             /\ p.seq = NumberOf(g_send_sequence', sort' - p.sort)
  <2>1. p.sort \in Nat /\ p.sort >= 1
    BY <1>1, NetAssumption DEF Packet
  <2>2. p.sort <= sort /\ p.seq = NumberOf(g_send_sequence, sort - p.sort)
    BY DEF Numbered
  <2>3. sort + 1 - p.sort < Round
    <3>1. CASE p \in net
      BY <1>3, <1>5, <2>1, <3>1, RoundIs
    <3>2. CASE p \in InUse
      <4>1. sort - p.sort < ENCODED_BUF_NUM
        BY <1>1, <3>2, HeldAge
      <4> QED BY <1>3, <2>1, <4>1, NetAssumption DEF Round
    <3> QED BY <3>1, <3>2
  <2>4. sort - p.sort \in 0 .. Round - 1 /\ sort - p.sort < Round - 1 /\ sort > 0
    BY <1>3, <2>1, <2>2, <2>3, RoundIs
  <2>5. g_send_sequence \in Seqs
    BY <2>4 DEF Numbered
  <2>6. NumberOf(NextSeq(g_send_sequence), sort - p.sort + 1) = NumberOf(g_send_sequence, sort - p.sort)
    BY <2>4, <2>5, NumberIs
  <2>7. sort' - p.sort = sort - p.sort + 1
    BY <1>2, <1>3, <2>1
  <2> QED BY <1>2, <1>3, <2>1, <2>2, <2>3, <2>6, <2>7
<1>7. /\ NewPacket(status).sort <= sort' /\ sort' - NewPacket(status).sort < Round
      /\ NewPacket(status).seq = NumberOf(g_send_sequence', sort' - NewPacket(status).sort)
  <2>1. sort' - NewPacket(status).sort = 0
    BY <1>2, <1>3, <1>4
  <2>2. NumberOf(g_send_sequence', 0) = g_send_sequence'
    <3>1. 0 \in 0 .. Round - 1
      BY RoundIs
    <3> QED BY <1>2, <3>1, NumberIs
  <2> QED BY <1>2, <1>3, <1>4, <2>1, <2>2, RoundIs
<1>8. \A p \in net' \cup InUse' :
        /\ p.sort <= sort' /\ sort' - p.sort < Round
        /\ p.seq = NumberOf(g_send_sequence', sort' - p.sort)
  BY <1>2, <1>6, <1>7
<1> QED BY <1>2, <1>8 DEF Numbered

(* The talking end alone: what the listening end remembers ages with it.     *)
LEMMA EnqueueRemembers ==
  ASSUME MaxDelay < Round, OnceInv, NEW status \in {0, 1}, Enqueue(status), UNCHANGED receiverVars
  PROVE  Remembered' /\ EachOnce'
<1>1. /\ sort' = sort + 1 /\ g_send_sequence' = NextSeq(g_send_sequence)
  BY EnqueueNumbers DEF OnceInv
<1>2. session' = session /\ sort \in Nat
  BY EnqueueIs, SenderSizes DEF OnceInv, LinkInv
<1>3. UNCHANGED <<useList, seq_sort, played>>
  BY DEF receiverVars
<1>4. ASSUME NEW s \in 1 .. MaxSort, Taken(s)
      PROVE  /\ s <= sort'
             /\ sort' - s < Round => seq_sort[NumberOf(g_send_sequence', sort' - s)] = s
  <2>1. s <= sort /\ (sort - s < Round => seq_sort[NumberOf(g_send_sequence, sort - s)] = s)
    BY <1>4 DEF OnceInv, Remembered
  <2>2. s \in Nat /\ s >= 1
    BY NetAssumption
  <2>3. ASSUME sort' - s < Round PROVE seq_sort[NumberOf(g_send_sequence', sort' - s)] = s
    <3>1. sort - s \in 0 .. Round - 1 /\ sort - s < Round - 1 /\ sort > 0 /\ sort' - s = sort - s + 1
      BY <1>1, <1>2, <2>1, <2>2, <2>3, RoundIs
    <3>2. g_send_sequence \in Seqs
      BY <3>1 DEF OnceInv, Numbered
    <3>3. NumberOf(NextSeq(g_send_sequence), sort - s + 1) = NumberOf(g_send_sequence, sort - s)
      BY <3>1, <3>2, NumberIs
    <3> QED BY <1>1, <2>1, <3>1, <3>3, RoundIs
  <2> QED BY <1>1, <1>2, <2>1, <2>2, <2>3
<1>5. \A s : Taken(s)' <=> Taken(s)
  BY <1>2, <1>3 DEF Taken
<1>6. Remembered'
  BY <1>2, <1>3, <1>4, <1>5 DEF Remembered
<1>7. EachOnce'
  BY <1>3 DEF OnceInv, EachOnce
<1> QED BY <1>6, <1>7

(* Putting in a packet of a new label keeps the labels of a list distinct.   *)
LEMMA PutOnce ==
  ASSUME NEW list, Len(list) \in Nat, NEW new, NEW p, PutIn(new, list, p),
         \A i, j \in 1 .. Len(list) : i # j => Label(list[i]) # Label(list[j]),
         \A i \in 1 .. Len(list) : Label(list[i]) # Label(p)
  PROVE  /\ \A i, j \in 1 .. Len(new) : i # j => Label(new[i]) # Label(new[j])
         /\ \A j \in 1 .. Len(new) :
              Label(new[j]) = Label(p) \/ \E i \in 1 .. Len(list) : Label(new[j]) = Label(list[i])
<1>1. PICK k \in 1 .. Len(list) + 1 :
        \A j \in 1 .. Len(list) + 1 :
            new[j] = IF j < k THEN list[j] ELSE IF j = k THEN p ELSE list[j - 1]
  BY DEF PutIn
<1>2. Len(new) = Len(list) + 1
  BY DEF PutIn
<1> DEFINE from(j) == IF j < k THEN j ELSE j - 1
<1>3. ASSUME NEW j \in 1 .. Len(new)
      PROVE  IF j = k THEN new[j] = p ELSE from(j) \in 1 .. Len(list) /\ new[j] = list[from(j)]
  <2>1. new[j] = IF j < k THEN list[j] ELSE IF j = k THEN p ELSE list[j - 1]
    BY <1>1, <1>2
  <2> QED BY <1>2, <2>1
<1>4. \A i, j \in 1 .. Len(new) : i # j /\ i # k /\ j # k => from(i) # from(j)
  BY <1>2
<1> HIDE DEF from
<1>5. ASSUME NEW i \in 1 .. Len(new), NEW j \in 1 .. Len(new), i # j
      PROVE  Label(new[i]) # Label(new[j])
  <2>1. CASE i = k
    BY <1>3, <1>5, <2>1
  <2>2. CASE j = k
    BY <1>3, <1>5, <2>2
  <2>3. CASE i # k /\ j # k
    BY <1>3, <1>4, <1>5, <2>3
  <2> QED BY <2>1, <2>2, <2>3
<1>6. \A j \in 1 .. Len(new) :
        Label(new[j]) = Label(p) \/ \E i \in 1 .. Len(list) : Label(new[j]) = Label(list[i])
  BY <1>3
<1> QED BY <1>5, <1>6

LEMMA ListenOnce ==
  ASSUME OnceInv, Recv, UNCHANGED senderVars
  PROVE  Remembered' /\ EachOnce'
<1>1. PICK p \in net : /\ net' = net \ {p}
                       /\ RecvRepeat(p) \/ RecvLate(p) \/ RecvFresh(p) \/ RecvNoRoom(p)
  BY DEF Recv
<1>2. UNCHANGED <<session, sort, g_send_sequence>> /\ LinkInv
  BY DEF senderVars, OnceInv
<1>3. CASE RecvNoRoom(p)
  <2>1. UNCHANGED <<useList, seq_sort, played>>
    BY <1>3 DEF RecvNoRoom, receiverVars
  <2>2. \A s : Taken(s)' <=> Taken(s)
    BY <1>2, <2>1 DEF Taken
  <2>3. Remembered'
    BY <1>2, <2>1, <2>2 DEF OnceInv, Remembered
  <2> QED BY <2>1, <2>3 DEF OnceInv, EachOnce
<1>4. CASE RecvRepeat(p) \/ RecvLate(p) \/ RecvFresh(p)
  <2> DEFINE q == g_send_sequence
             age == sort - p.sort
  <2>1. /\ useList' = Kept(p) \/ (useList' \in Seq(Packet) /\ PutIn(useList', Kept(p), p))
        /\ played' = played
    BY <1>2, <1>4, ArrivedIs DEF decoderVars
  <2>2. /\ p.id = session /\ p \in Packet /\ Kept(p) \in Seq(Packet) /\ Len(Kept(p)) \in Nat
    BY <1>2, KeptIs
  <2>3. /\ p.seq \in Seqs /\ p.sort \in 1 .. MaxSort /\ MaxSort \in Nat /\ sort \in Nat
        /\ seq_sort \in [Seqs -> 0 .. MaxSort] /\ Label(p) = <<session, p.sort>>
    BY <1>2, <2>2, SenderSizes, NetAssumption
       DEF LinkInv, ReceiverInv, ReceiverTypeOK, Packet, Label
  <2>4. p.sort <= sort /\ age \in 0 .. Round - 1 /\ p.seq = NumberOf(q, age) /\ q \in Seqs
    <3>1. p.sort <= sort /\ age < Round /\ p.seq = NumberOf(q, age)
      BY DEF OnceInv, Numbered
    <3>2. sort > 0
      BY <2>3, <3>1
    <3> QED BY <2>3, <3>1, <3>2, RoundIs DEF OnceInv, Numbered
  <2>5. seq_sort' = seq_sort \/ seq_sort' = [seq_sort EXCEPT ![p.seq] = p.sort]
    BY <1>4 DEF RecvRepeat, RecvLate, RecvFresh
  <2>6. PICK k \in Nat : \A i \in 1 .. Len(Kept(p)) :
               Kept(p)[i] = useList[i + k] /\ i + k \in 1 .. Len(useList)
    BY <1>2, KeptIs
  <2>7. ASSUME NEW s \in 1 .. MaxSort, Taken(s)
        PROVE  /\ s <= sort
               /\ sort - s < Round => seq_sort[NumberOf(q, sort - s)] = s
               /\ sort - s < Round => seq_sort'[NumberOf(q, sort - s)] = s
    <3>1. s <= sort /\ (sort - s < Round => seq_sort[NumberOf(q, sort - s)] = s)
      BY <2>7 DEF OnceInv, Remembered
    <3>2. ASSUME sort - s < Round PROVE seq_sort'[NumberOf(q, sort - s)] = s
      <4>1. s \in Nat /\ sort - s \in 0 .. Round - 1
        BY <2>3, <3>1, <3>2, RoundIs
      <4>2. NumberOf(q, sort - s) \in Seqs
        BY <2>4, <4>1, NumberIs
      <4>3. NumberOf(q, sort - s) = p.seq => sort - s = age
        BY <2>4, <4>1, NumberIs
      <4>4. sort - s = age => s = p.sort
        BY <2>3, <4>1
      <4> HIDE DEF age, q
      <4>5. CASE NumberOf(q, sort - s) = p.seq
        BY <2>3, <2>5, <3>1, <3>2, <4>2, <4>3, <4>4, <4>5
      <4>6. CASE NumberOf(q, sort - s) # p.seq
        BY <2>3, <2>5, <3>1, <3>2, <4>2, <4>6
      <4> QED BY <4>5, <4>6
    <3> QED BY <3>1, <3>2
  <2> HIDE DEF q, age
  <2>8. /\ \A i, j \in 1 .. Len(Kept(p)) : i # j => Label(Kept(p)[i]) # Label(Kept(p)[j])
        /\ \A i \in 1 .. Len(Kept(p)) : Label(Kept(p)[i]) \notin played
        /\ \A i \in 1 .. Len(Kept(p)) :
              \E j \in 1 .. Len(useList) : Kept(p)[i] = useList[j]
    <3>1. /\ \A i, j \in 1 .. Len(useList) : i # j => Label(useList[i]) # Label(useList[j])
          /\ \A i \in 1 .. Len(useList) : Label(useList[i]) \notin played
      BY DEF OnceInv, EachOnce
    <3>2. \A i, j \in 1 .. Len(Kept(p)) : i # j => i + k # j + k
      BY <2>2
    <3> QED BY <2>6, <3>1, <3>2
  <2>9. CASE useList' = Kept(p)
    <3>1. \A s : Taken(s)' => Taken(s)
      BY <1>2, <2>1, <2>8, <2>9 DEF Taken
    <3>2. Remembered'
      BY <1>2, <2>7, <3>1 DEF Remembered, q
    <3> QED BY <2>1, <2>8, <2>9, <3>2 DEF EachOnce
  <2>10. CASE RecvFresh(p) /\ PutIn(useList', Kept(p), p)
    <3>1. /\ seq_sort' = [seq_sort EXCEPT ![p.seq] = p.sort] /\ ~Repeats(p)
      BY <2>10 DEF RecvFresh
    <3>2. ~Taken(p.sort)
      <4>1. SUFFICES ASSUME Taken(p.sort) PROVE FALSE
        OBVIOUS
      <4>2. sort - p.sort < Round => seq_sort[NumberOf(q, sort - p.sort)] = p.sort
        BY <2>3, <2>7, <4>1
      <4>3. sort - p.sort < Round
        BY <2>4, RoundIs DEF age
      <4> QED BY <2>4, <3>1, <4>2, <4>3 DEF Repeats, age
    <3>3. Label(p) \notin played /\ \A i \in 1 .. Len(Kept(p)) : Label(Kept(p)[i]) # Label(p)
      BY <2>3, <2>8, <3>2 DEF Taken
    <3>4. /\ \A i, j \in 1 .. Len(useList') : i # j => Label(useList'[i]) # Label(useList'[j])
          /\ \A j \in 1 .. Len(useList') :
               Label(useList'[j]) = Label(p)
                 \/ \E i \in 1 .. Len(Kept(p)) : Label(useList'[j]) = Label(Kept(p)[i])
      BY <2>2, <2>8, <2>10, <3>3, PutOnce
    <3>5. ASSUME NEW s, Taken(s)' PROVE s = p.sort \/ Taken(s)
      <4>1. CASE <<session, s>> \in played
        BY <4>1 DEF Taken
      <4>2. CASE \E j \in 1 .. Len(useList') : Label(useList'[j]) = <<session, s>>
        <5>1. PICK j \in 1 .. Len(useList') : Label(useList'[j]) = <<session, s>>
          BY <4>2
        <5>2. CASE Label(useList'[j]) = Label(p)
          BY <2>3, <5>1, <5>2
        <5>3. CASE \E i \in 1 .. Len(Kept(p)) : Label(useList'[j]) = Label(Kept(p)[i])
          BY <2>8, <5>1, <5>3 DEF Taken
        <5> QED BY <3>4, <5>2, <5>3
      <4> QED BY <1>2, <2>1, <3>5, <4>1, <4>2 DEF Taken
    <3>6. seq_sort'[NumberOf(q, sort - p.sort)] = p.sort
      BY <2>3, <2>4, <3>1 DEF age
    <3>7. Remembered'
      <4>1. \A s \in 1 .. MaxSort : Taken(s)' =>
              s <= sort /\ (sort - s < Round => seq_sort'[NumberOf(q, sort - s)] = s)
        BY <2>4, <2>7, <3>5, <3>6
      <4> QED BY <1>2, <4>1 DEF Remembered, q
    <3>8. EachOnce'
      <4>1. \A j \in 1 .. Len(useList') : Label(useList'[j]) \notin played'
        BY <2>1, <2>8, <3>3, <3>4
      <4> QED BY <3>4, <4>1 DEF EachOnce
    <3> QED BY <3>7, <3>8
  <2>11. CASE RecvRepeat(p) \/ RecvLate(p)
    <3>1. useList' = Kept(p)
      BY <2>11 DEF RecvRepeat, RecvLate
    <3> QED BY <2>9, <3>1
  <2> QED BY <1>4, <2>1, <2>9, <2>10, <2>11
<1> QED BY <1>1, <1>3, <1>4

(* Playing moves a packet from the play list to those played; everything else *)
(* the decoder does takes entries away.                                      *)
LEMMA PlayOnce ==
  ASSUME OnceInv, Decode \/ OwnKey, UNCHANGED senderVars
  PROVE  /\ Remembered' /\ EachOnce'
         /\ PlayPacket => Label(useList[1]) \notin played
<1>1. UNCHANGED <<session, sort, g_send_sequence, seq_sort>>
  BY DEF senderVars, Decode, OwnKey, Flush, Wake, PlayPacket, PlayEmpty, Conceal, NoFrame,
         DecoderOnly, lossVars
<1>2. useList \in Seq(Packet)
  BY DEF OnceInv, LinkInv, ReceiverInv, ReceiverTypeOK
<1>3. /\ \A i, j \in 1 .. Len(useList) : i # j => Label(useList[i]) # Label(useList[j])
      /\ \A i \in 1 .. Len(useList) : Label(useList[i]) \notin played
  BY DEF OnceInv, EachOnce
<1>4. useList # <<>> => /\ Len(Tail(useList)) = Len(useList) - 1 /\ 1 \in 1 .. Len(useList)
                        /\ \A i \in 1 .. Len(useList) - 1 :
                             Tail(useList)[i] = useList[i + 1] /\ i + 1 \in 1 .. Len(useList)
  BY <1>2
<1>5. PlayPacket => /\ useList # <<>> /\ useList' = Tail(useList)
                    /\ played' = played \cup {Label(useList[1])}
  BY DEF PlayPacket, Label
<1>6. PlayPacket => Label(useList[1]) \notin played
  BY <1>3, <1>4, <1>5
<1>7. useList # <<>> =>
        \A i, j \in 1 .. Len(Tail(useList)) : i # j => Label(Tail(useList)[i]) # Label(Tail(useList)[j])
  <2> SUFFICES ASSUME useList # <<>>, NEW i \in 1 .. Len(Tail(useList)),
                      NEW j \in 1 .. Len(Tail(useList)), i # j
               PROVE  Label(Tail(useList)[i]) # Label(Tail(useList)[j])
    OBVIOUS
  <2>1. /\ Tail(useList)[i] = useList[i + 1] /\ i + 1 \in 1 .. Len(useList)
        /\ Tail(useList)[j] = useList[j + 1] /\ j + 1 \in 1 .. Len(useList)
    BY <1>4
  <2>2. i + 1 # j + 1
    OBVIOUS
  <2> QED BY <1>3, <2>1, <2>2
<1>8. CASE PlayPacket
  <2>1. Len(useList) \in Nat
    BY <1>2
  <2>2. \A i, j \in 1 .. Len(useList') : i # j => Label(useList'[i]) # Label(useList'[j])
    BY <1>5, <1>8, <1>7
  <2>3. \A i \in 1 .. Len(useList') : Label(useList'[i]) \notin played'
    BY <1>3, <1>4, <1>5, <1>8, <2>1
  <2>4. \A s : Taken(s)' => Taken(s)
    BY <1>1, <1>4, <1>5, <1>8 DEF Taken
  <2>5. Remembered'
    BY <1>1, <2>4 DEF OnceInv, Remembered
  <2> QED BY <1>6, <2>2, <2>3, <2>5 DEF EachOnce
<1>9. CASE ~PlayPacket
  <2>1. played' = played /\ \/ useList' = useList \/ useList' = <<>>
                            \/ useList # <<>> /\ useList' = Tail(useList)
    BY <1>9 DEF Decode, OwnKey, Flush, Wake, PlayEmpty, Conceal, NoFrame
  <2>2. Len(useList) \in Nat
    BY <1>2
  <2>3. \A i, j \in 1 .. Len(useList') : i # j => Label(useList'[i]) # Label(useList'[j])
    <3>1. CASE useList' = useList
      BY <1>3, <3>1
    <3>2. CASE useList' = <<>>
      BY <3>2
    <3>3. CASE useList # <<>> /\ useList' = Tail(useList)
      BY <1>7, <3>3
    <3> QED BY <2>1, <3>1, <3>2, <3>3
  <2>4. \A j \in 1 .. Len(useList') : \E i \in 1 .. Len(useList) : useList'[j] = useList[i]
    BY <1>4, <2>1, <2>2
  <2>5. \A s : Taken(s)' => Taken(s)
    BY <1>1, <2>1, <2>4 DEF Taken
  <2>6. Remembered'
    BY <1>1, <2>5 DEF OnceInv, Remembered
  <2>7. EachOnce'
    BY <1>3, <2>1, <2>3, <2>4 DEF EachOnce
  <2> QED BY <1>9, <2>6, <2>7
<1> QED BY <1>8, <1>9

LEMMA OnceStep ==
  ASSUME MaxDelay < Round, OnceInv, [Next]_vars
  PROVE  OnceInv' /\ (PlayPacket => Label(useList[1]) \notin played)
<1>1. LinkInv'
  BY LinkStep DEF OnceInv
<1>2. ASSUME UNCHANGED <<session, sort, g_send_sequence>>, net' \cup InUse' \subseteq net \cup InUse
      PROVE  Numbered'
  BY <1>2 DEF OnceInv, Numbered
<1>3. ASSUME UNCHANGED receiverVars, UNCHANGED <<session, sort, g_send_sequence>>
      PROVE  Remembered' /\ EachOnce'
  <2>1. UNCHANGED <<useList, seq_sort, played>>
    BY <1>3 DEF receiverVars
  <2>2. \A s : Taken(s)' <=> Taken(s)
    BY <1>3, <2>1 DEF Taken
  <2>3. Remembered'
    BY <1>3, <2>1, <2>2 DEF OnceInv, Remembered
  <2> QED BY <2>1, <2>3 DEF OnceInv, EachOnce
<1>4. ASSUME UNCHANGED receiverVars PROVE ~PlayPacket
  <2>1. UNCHANGED useList
    BY <1>4 DEF receiverVars
  <2>2. useList \in Seq(Packet)
    BY DEF OnceInv, LinkInv, ReceiverInv, ReceiverTypeOK
  <2>3. useList # <<>> => Tail(useList) # useList
    BY <2>2
  <2> QED BY <2>1, <2>3 DEF PlayPacket
<1>5. CASE Talk
  <2>1. UNCHANGED receiverVars /\ SenderInv
        /\ (EncodeFrame \/ EncodeSilence \/ EncodeNothing \/ PushKey)
    BY <1>5 DEF Talk, OnceInv, LinkInv
  <2>2. ASSUME NEW status \in {0, 1}, Enqueue(status)
        PROVE  Numbered' /\ Remembered' /\ EachOnce'
    BY <2>1, <2>2, EnqueueNumbers, EnqueueRemembers DEF OnceInv
  <2>3. ASSUME ~ \E status \in {0, 1} : Enqueue(status)
        PROVE  Numbered' /\ Remembered' /\ EachOnce'
    <3>1. UNCHANGED <<session, use, src, buf_addr, ring, front, rear, g_send_sequence, sort,
                      manage_cur_push, manage_cur_pop, send_start_flag, net>>
      BY <2>1, <2>3, TalkIs
    <3>2. InUse' = InUse
      BY <3>1 DEF InUse, Held
    <3> QED BY <1>2, <1>3, <2>1, <3>1, <3>2
  <2>4. Numbered' /\ Remembered' /\ EachOnce'
    BY <2>2, <2>3
  <2> QED BY <1>1, <1>4, <2>1, <2>4 DEF OnceInv
<1>6. CASE Resend
  <2>1. RetransferCheck /\ UNCHANGED receiverVars /\ SenderInv
    BY <1>6 DEF Resend, OnceInv, LinkInv
  <2>2. /\ InUse' = InUse /\ net' \subseteq net \cup InUse
        /\ UNCHANGED <<session, sort, g_send_sequence>>
    BY <2>1, ResendIs DEF RetransferCheck
  <2> QED BY <1>1, <1>2, <1>3, <1>4, <2>1, <2>2 DEF OnceInv
<1>7. CASE Air \/ UNCHANGED vars
  <2>1. UNCHANGED senderVars /\ UNCHANGED receiverVars /\ net' \subseteq net
    BY <1>7 DEF Air, LosePacket, LoseRequest, vars
  <2>2. InUse' = InUse /\ UNCHANGED <<session, sort, g_send_sequence>>
    BY <2>1, SenderStays DEF OnceInv, LinkInv, senderVars
  <2> QED BY <1>1, <1>2, <1>3, <1>4, <2>1, <2>2 DEF OnceInv
<1>8. CASE Listen
  <2>1. Recv /\ UNCHANGED senderVars /\ net' \subseteq net
    BY <1>8 DEF Listen, Recv
  <2>2. InUse' = InUse /\ UNCHANGED <<session, sort, g_send_sequence>>
    BY <2>1, SenderStays DEF OnceInv, LinkInv, senderVars
  <2>3. Remembered' /\ EachOnce'
    BY <2>1, ListenOnce
  <2>4. ~PlayPacket
    <3>1. net' # net
      BY <1>8 DEF Listen, Recv
    <3> QED BY <3>1 DEF PlayPacket, DecoderOnly
  <2> QED BY <1>1, <1>2, <2>1, <2>2, <2>3, <2>4 DEF OnceInv
<1>9. CASE Play
  <2>1. /\ Decode \/ OwnKey
        /\ UNCHANGED senderVars /\ net' = net
    BY <1>9 DEF Play, Decode, OwnKey, Flush, Wake, PlayPacket, PlayEmpty, Conceal, NoFrame,
                DecoderOnly
  <2>2. InUse' = InUse /\ UNCHANGED <<session, sort, g_send_sequence>>
    BY <2>1, SenderStays DEF OnceInv, LinkInv, senderVars
  <2> QED BY <1>1, <1>2, <2>1, <2>2, PlayOnce DEF OnceInv
<1>10. CASE PowerCycle
  <2>1. net' = {} /\ session' = session + 1 /\ sort' = 0 /\ UNCHANGED receiverVars
    BY <1>10 DEF PowerCycle, Restart
  <2>2. InUse' = {}
    BY <1>10, RestartSender DEF PowerCycle, OnceInv, LinkInv
  <2>3. Numbered'
    BY <2>1, <2>2 DEF Numbered
  <2>4. UNCHANGED <<useList, seq_sort, played>>
    BY <2>1 DEF receiverVars
  <2>5. EachOnce'
    BY <2>4 DEF OnceInv, EachOnce
  <2>6. Remembered'
    <3>1. /\ session \in Int
          /\ \A i \in 1 .. Len(useList) : useList[i].id <= session
          /\ \A x \in played : x[1] <= session
      BY NetAssumption
         DEF OnceInv, LinkInv, SenderInv, SenderTypeOK, ReceiverInv, Sessions
    <3>2. ASSUME NEW s PROVE ~Taken(s)'
      <4>1. <<session + 1, s>> \notin played
        <5>1. ~ (session + 1 <= session)
          BY <3>1
        <5> QED BY <3>1, <5>1
      <4>2. \A i \in 1 .. Len(useList) : Label(useList[i]) # <<session + 1, s>>
        <5>1. ~ (session + 1 <= session)
          BY <3>1
        <5> QED BY <3>1, <5>1 DEF Label
      <4> QED BY <2>1, <2>4, <4>1, <4>2 DEF Taken
    <3> QED BY <3>2 DEF Remembered
  <2> QED BY <1>1, <1>4, <2>1, <2>3, <2>5, <2>6 DEF OnceInv
<1> QED BY <1>5, <1>6, <1>7, <1>8, <1>9, <1>10 DEF Next

-----------------------------------------------------------------------------
(* Playing goes on from its position, which is past the packet last played   *)
(* unless it has begun anew since.                                           *)
Forward == lastPlayed # 0 /\ ~anew => g_current_sort > lastPlayed

(* The decoder's position only moves on, unless the list is nearly full: then *)
(* it is that of the first entry.                                            *)
LEMMA PositionIs ==
  ASSUME LinkInv, useList # <<>>
  PROVE  /\ Position \in Nat
         /\ NearlyFull => Position = useList[1].sort
         /\ ~NearlyFull => Position >= g_current_sort
<1>1. useList \in Seq(Packet) /\ g_current_sort \in Nat /\ SortJump \in Nat
  BY ReceiverAssumption DEF LinkInv, ReceiverInv, ReceiverTypeOK
<1>2. useList[1] \in Packet
  BY <1>1
<1>3. useList[1].sort \in Nat
  BY <1>2, NetAssumption DEF Packet
<1> QED BY <1>1, <1>3 DEF Position

LEMMA ForwardStep ==
  ASSUME LinkInv, Forward, [Next]_vars
  PROVE  /\ Forward'
         /\ lastPlayed' # lastPlayed => lastPlayed' > lastPlayed \/ anew \/ NearlyFull
<1>1. /\ g_current_sort \in Nat /\ lastPlayed \in Nat /\ useList \in Seq(Packet)
      /\ Len(useList) \in Nat
  BY NetAssumption DEF LinkInv, ReceiverInv, ReceiverTypeOK
<1>2. ASSUME UNCHANGED <<g_current_sort, lastPlayed, anew>>
      PROVE  Forward' /\ lastPlayed' = lastPlayed
  BY <1>2 DEF Forward
<1>3. CASE Talk \/ Resend \/ Listen \/ Air \/ PowerCycle \/ OwnKey \/ UNCHANGED vars
  <2>1. UNCHANGED <<g_current_sort, lastPlayed, anew>>
    BY <1>3 DEF Talk, Resend, Listen, Air, PowerCycle, OwnKey, vars, receiverVars, decoderVars,
                Recv, RecvRepeat, RecvLate, RecvFresh, RecvNoRoom, Arrive
  <2> QED BY <1>2, <2>1
<1>4. CASE Flush
  <2>1. /\ lastPlayed' = lastPlayed /\ anew' = anew
        /\ g_current_sort' = g_current_sort + Len(useList)
    BY <1>4 DEF Flush
  <2> QED BY <1>1, <2>1 DEF Forward
<1>5. CASE Wake
  <2>1. CASE StartsNow(Len(useList))
    <3>1. lastPlayed' = lastPlayed /\ anew'
      BY <1>5, <2>1 DEF Wake
    <3> QED BY <3>1 DEF Forward
  <2>2. CASE ~StartsNow(Len(useList))
    <3>1. g_current_sort' = g_current_sort /\ lastPlayed' = lastPlayed /\ (anew' <=> anew)
      BY <1>5, <2>2 DEF Wake
    <3> QED BY <3>1 DEF Forward
  <2> QED BY <2>1, <2>2
<1>6. CASE PlayPacket
  <2>1. useList # <<>> /\ g_current_sort' = Position + 1 /\ lastPlayed' = Position
    BY <1>6 DEF PlayPacket
  <2>2. Position \in Nat /\ (~NearlyFull => Position >= g_current_sort)
    BY <2>1, PositionIs
  <2>3. Forward'
    BY <2>1, <2>2 DEF Forward
  <2>4. lastPlayed # 0 /\ ~anew /\ ~NearlyFull => lastPlayed' > lastPlayed
    BY <1>1, <2>1, <2>2 DEF Forward
  <2>5. lastPlayed = 0 /\ lastPlayed' # 0 => lastPlayed' > lastPlayed
    BY <2>1, <2>2
  <2> QED BY <2>3, <2>4, <2>5
<1>7. CASE PlayEmpty
  <2>1. /\ useList # <<>> /\ g_current_sort' = Position + 1
        /\ lastPlayed' = lastPlayed /\ (anew' <=> anew \/ NearlyFull)
    BY <1>7 DEF PlayEmpty
  <2>2. Position \in Nat /\ (~NearlyFull => Position >= g_current_sort)
    BY <2>1, PositionIs
  <2>3. CASE NearlyFull
    BY <2>1, <2>3 DEF Forward
  <2>4. CASE ~NearlyFull
    <3>1. lastPlayed' = lastPlayed /\ (anew' <=> anew)
      BY <2>1, <2>4
    <3>2. g_current_sort' > g_current_sort
      BY <1>1, <2>1, <2>2, <2>4
    <3> QED BY <1>1, <2>1, <2>2, <3>1, <3>2 DEF Forward
  <2> QED BY <2>3, <2>4
<1>8. CASE Conceal
  <2>1. /\ lastPlayed' = lastPlayed /\ anew' = anew
        /\ g_current_sort' = (IF useList = <<>> THEN g_current_sort ELSE Position) + 1
        /\ useList # <<>> => useList[1].sort # Position
    BY <1>8 DEF Conceal
  <2>2. useList # <<>> => Position \in Nat /\ Position >= g_current_sort
    BY <2>1, PositionIs
  <2>3. g_current_sort' \in Nat /\ g_current_sort' > g_current_sort
    BY <1>1, <2>1, <2>2
  <2> QED BY <1>1, <2>1, <2>3 DEF Forward
<1>9. CASE NoFrame
  BY <1>2, <1>9 DEF NoFrame
<1>10. Play => OwnKey \/ Flush \/ Wake \/ PlayPacket \/ PlayEmpty \/ Conceal \/ NoFrame
  BY DEF Play, Decode
<1> QED BY <1>3, <1>4, <1>5, <1>6, <1>7, <1>8, <1>9, <1>10 DEF Next

-----------------------------------------------------------------------------
(* The theorems.                                                             *)

(* The two ends and the air stay in their types, and what LinkInv says of    *)
(* them holds all the time.                                                  *)
THEOREM Agreed == Spec => [](LinkInv /\ TypeOK)
<1>1. Init => LinkInv
  BY LinkStart
<1>2. LinkInv /\ [Next]_vars => LinkInv'
  BY LinkStep
<1>3. LinkInv => LinkInv /\ TypeOK
  BY DEF LinkInv, SenderInv, ReceiverInv, TypeOK
<1> QED BY <1>1, <1>2, <1>3, PTL DEF Spec

(* Whatever is encoded, sent again, lost and switched off, the ring keeps    *)
(* exactly the newest packets, each in the slot its node points to: what a   *)
(* request names is answered with that packet (intercom_adpcm.c lines        *)
(* 1398-1427, 1442-1471, 1488-1517).                                         *)
THEOREM RingKeepsNewest == Spec => []KeepsNewest
<1>1. LinkInv /\ TypeOK => KeepsNewest
  BY DEF LinkInv, SenderInv
<1> QED BY <1>1, Agreed, PTL

(* No iteration of the encoder leaves a packet waiting, so none is ever asked *)
(* to send more than its buffer holds, and the cursors stay on the last node *)
(* of the list (lines 1142, 1424, 1468, 1484, 1514, 1528).                   *)
THEOREM SendsAtOnce == Spec => []NothingWaits
<1>1. LinkInv /\ TypeOK => NothingWaits
  BY SenderNothingWaits DEF LinkInv
<1> QED BY <1>1, Agreed, PTL

(* No packet of one identity is played twice, however often it is sent       *)
(* again, as long as fewer packets than a round of sequence numbers overtake *)
(* one on the air (lines 939-950, 1010-1017).                                *)
THEOREM NothingTwice == ASSUME MaxDelay < Round PROVE Spec => PlayedOnce
<1>1. Init => OnceInv
  <2>1. SUFFICES ASSUME Init PROVE OnceInv
    OBVIOUS
  <2>2. LinkInv
    BY <2>1, LinkStart
  <2>3. Numbered
    <3>1. sort = 0 /\ net = {} /\ InUse = {}
      BY <2>1, StartSender DEF Init, SenderInit
    <3> QED BY <3>1 DEF Numbered
  <2>4. Remembered /\ EachOnce
    BY <2>1 DEF Init, ReceiverInit, Taken, Remembered, EachOnce
  <2> QED BY <2>2, <2>3, <2>4 DEF OnceInv
<1>2. OnceInv /\ [Next]_vars => OnceInv'
  BY OnceStep
<1>3. OnceInv /\ [Next]_vars
         => [PlayPacket => <<useList[1].id, useList[1].sort>> \notin played]_vars
  BY OnceStep DEF Label
<1> QED BY <1>1, <1>2, <1>3, PTL DEF Spec, PlayedOnce

(* Whatever was lost, overtaken and sent again, and however far the decoder  *)
(* jumped over a gap, packets are played in the order they were spoken,      *)
(* except where the list is nearly full, and where playing stopped and       *)
(* started again: then it starts with the first entry, however old (lines    *)
(* 881-916, 1570-1594, 1759-1761).                                           *)
THEOREM InOrder == Spec => PlaysOn
<1>1. Init => Forward
  BY DEF Init, ReceiverInit, Forward
<1>2. LinkInv /\ Forward /\ [Next]_vars => Forward'
  BY ForwardStep
<1>3. LinkInv /\ Forward /\ [Next]_vars
         => [lastPlayed' # lastPlayed => lastPlayed' > lastPlayed \/ anew \/ NearlyFull]_vars
  BY ForwardStep
<1> QED BY <1>1, <1>2, <1>3, Agreed, PTL DEF Spec, PlaysOn
=============================================================================
