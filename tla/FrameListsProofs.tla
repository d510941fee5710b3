-------------------------- MODULE FrameListsProofs --------------------------
(* The links of the two lists of frames stay whole for every number of      *)
(* frames and of tries, up to the first time a frame is appended to          *)
(* src_d_list_u while that list has it beside others.                       *)
(*                                                                          *)
(* A memory and a head hold a set of frames when some order of the set, each *)
(* frame once, is what the links say (Holds).  An insertion and a deletion   *)
(* change the set by one frame and leave every list of other frames alone,   *)
(* and a walk meets exactly the set.  The invariant then says which set each *)
(* of the two lists holds.                                                   *)
EXTENDS FrameLists, FiniteSetTheorems, WellFoundedInduction, TLAPS

-----------------------------------------------------------------------------
(* Lists.                                                                    *)
Mem == [next : [Frames -> Frames \cup {NULL}], prev : [Frames -> Frames \cup {NULL}]]

Links(head, m, n, q) ==
    /\ \A i, j \in 1 .. n : i # j => q[i] # q[j]
    /\ head = IF n = 0 THEN NULL ELSE q[1]
    /\ \A i \in 1 .. n :
          /\ m.next[q[i]] = IF i = n THEN NULL ELSE q[i + 1]
          /\ m.prev[q[i]] = IF i = 1 THEN q[n] ELSE q[i - 1]

Holds(head, m, S) ==
    \E n \in Nat : \E q \in [1 .. n -> Frames] :
        Links(head, m, n, q) /\ S = {q[i] : i \in 1 .. n}

(* A memory that differs from another at most at the frames of S.            *)
OnlyAt(m, m2, S) ==
    \A y \in Frames \ S : m2.next[y] = m.next[y] /\ m2.prev[y] = m.prev[y]

(* What each change of a link leaves.                                        *)
LEMMA Changed ==
  ASSUME NEW g \in [Frames -> Frames \cup {NULL}], NEW x \in Frames, NEW v \in Frames \cup {NULL}
  PROVE  /\ [g EXCEPT ![x] = v] \in [Frames -> Frames \cup {NULL}]
         /\ \A y \in Frames : [g EXCEPT ![x] = v][y] = IF y = x THEN v ELSE g[y]
OBVIOUS

LEMMA MemIs ==
  ASSUME NEW m \in Mem
  PROVE  /\ m.next \in [Frames -> Frames \cup {NULL}] /\ m.prev \in [Frames -> Frames \cup {NULL}]
         /\ m = [next |-> m.next, prev |-> m.prev]
BY DEF Mem

LEMMA SetNextIs ==
  ASSUME NEW m \in Mem, NEW x \in Frames, NEW v \in Frames \cup {NULL}
  PROVE  /\ SetNext(m, x, v) \in Mem
         /\ \A y \in Frames : /\ SetNext(m, x, v).next[y] = IF y = x THEN v ELSE m.next[y]
                              /\ SetNext(m, x, v).prev[y] = m.prev[y]
<1>1. SetNext(m, x, v) = [next |-> [m.next EXCEPT ![x] = v], prev |-> m.prev]
  BY DEF SetNext, Mem
<1> QED BY <1>1, MemIs, Changed DEF Mem

LEMMA SetPrevIs ==
  ASSUME NEW m \in Mem, NEW x \in Frames, NEW v \in Frames \cup {NULL}
  PROVE  /\ SetPrev(m, x, v) \in Mem
         /\ \A y \in Frames : /\ SetPrev(m, x, v).prev[y] = IF y = x THEN v ELSE m.prev[y]
                              /\ SetPrev(m, x, v).next[y] = m.next[y]
<1>1. SetPrev(m, x, v) = [next |-> m.next, prev |-> [m.prev EXCEPT ![x] = v]]
  BY DEF SetPrev, Mem
<1> QED BY <1>1, MemIs, Changed DEF Mem

LEMMA LinkIs ==
  ASSUME NEW m \in Mem, NEW x \in Frames, NEW v \in Frames \cup {NULL}, NEW w \in Frames \cup {NULL}
  PROVE  /\ Link(m, x, v, w) \in Mem
         /\ \A y \in Frames : /\ Link(m, x, v, w).next[y] = IF y = x THEN v ELSE m.next[y]
                              /\ Link(m, x, v, w).prev[y] = IF y = x THEN w ELSE m.prev[y]
<1>1. Link(m, x, v, w) = [next |-> [m.next EXCEPT ![x] = v], prev |-> [m.prev EXCEPT ![x] = w]]
  BY DEF Link
<1> QED BY <1>1, MemIs, Changed DEF Mem

(* A frame that is taken out of a list gets its links cleared.               *)
LEMMA ClearedIs ==
  ASSUME NEW m \in Mem, NEW x \in Frames, NEW l, l = Link(m, x, NULL, NULL)
  PROVE  /\ l \in Mem
         /\ \A y \in Frames : y # x => l.next[y] = m.next[y] /\ l.prev[y] = m.prev[y]
<1>1. l = [next |-> [m.next EXCEPT ![x] = NULL], prev |-> [m.prev EXCEPT ![x] = NULL]]
  BY DEF Link
<1>2. NULL \in Frames \cup {NULL}
  OBVIOUS
<1> QED BY <1>1, <1>2, MemIs, Changed DEF Mem

(* A list is not touched by what happens to other frames.                    *)
LEMMA HoldsElsewhere ==
  ASSUME NEW head, NEW m, NEW m2, NEW S, Holds(head, m, S),
         \A y \in S : m2.next[y] = m.next[y] /\ m2.prev[y] = m.prev[y]
  PROVE  Holds(head, m2, S)
<1>0. PICK n \in Nat : \E q \in [1 .. n -> Frames] :
        Links(head, m, n, q) /\ S = {q[i] : i \in 1 .. n}
  BY DEF Holds
<1>1. PICK q \in [1 .. n -> Frames] : Links(head, m, n, q) /\ S = {q[i] : i \in 1 .. n}
  BY <1>0
<1>2. Links(head, m2, n, q)
  BY <1>1 DEF Links
<1> QED BY <1>1, <1>2 DEF Holds

LEMMA HeadIs ==
  ASSUME NEW head, NEW m, NEW S, Holds(head, m, S)
  PROVE  /\ S \subseteq Frames
         /\ head = NULL <=> S = {}
         /\ head # NULL => head \in S
<1>0. PICK n \in Nat : \E q \in [1 .. n -> Frames] :
        Links(head, m, n, q) /\ S = {q[i] : i \in 1 .. n}
  BY DEF Holds
<1>1. PICK q \in [1 .. n -> Frames] : Links(head, m, n, q) /\ S = {q[i] : i \in 1 .. n}
  BY <1>0
<1>2. n # 0 => q[1] \in S /\ q[1] \in Frames
  BY <1>1
<1>3. n = 0 => S = {}
  BY <1>1
<1>4. head = IF n = 0 THEN NULL ELSE q[1]
  BY <1>1 DEF Links
<1>5. S \subseteq Frames
  BY <1>1
<1>6. CASE n = 0
  BY <1>3, <1>4, <1>5, <1>6
<1>7. CASE n # 0
  BY <1>2, <1>4, <1>5, <1>7, FramesAssumption
<1> QED BY <1>6, <1>7

(* The only frame of a list.                                                 *)
LEMMA AloneIs ==
  ASSUME NEW f \in Frames, NEW m, NEW S, Holds(f, m, S), m.next[f] = NULL
  PROVE  m.prev[f] = f
<1>0. PICK n \in Nat : \E q \in [1 .. n -> Frames] : Links(f, m, n, q)
  BY DEF Holds
<1>1. PICK q \in [1 .. n -> Frames] : Links(f, m, n, q)
  BY <1>0
<1>2. n # 0 /\ f = q[1]
  BY <1>1, FramesAssumption DEF Links
<1>3. 1 \in 1 .. n
  BY <1>2
<1>4. n = 1
  <2> SUFFICES ASSUME n # 1 PROVE FALSE
    OBVIOUS
  <2>1. 2 \in 1 .. n /\ m.next[q[1]] = q[2]
    BY <1>1, <1>3 DEF Links
  <2> QED BY <1>2, <2>1, FramesAssumption
<1> QED BY <1>1, <1>2, <1>3, <1>4 DEF Links

LEMMA EmptyHolds == ASSUME NEW m PROVE Holds(NULL, m, {})
<1> DEFINE q == [i \in 1 .. 0 |-> CHOOSE f \in Frames : TRUE]
<1>1. 0 \in Nat /\ 1 .. 0 = {}
  OBVIOUS
<1>2. q \in [1 .. 0 -> Frames]
  BY <1>1
<1>3. Links(NULL, m, 0, q) /\ {} = {q[i] : i \in 1 .. 0}
  BY <1>1 DEF Links
<1> HIDE DEF q
<1> QED BY <1>1, <1>2, <1>3 DEF Holds

LEMMA AppendHolds ==
  ASSUME NEW head, NEW m \in Mem, NEW S, Holds(head, m, S), NEW x \in Frames, x \notin S
  PROVE  /\ Holds(Appended(head, m, x).head, Appended(head, m, x).mem, S \cup {x})
         /\ Appended(head, m, x).mem \in Mem
         /\ OnlyAt(m, Appended(head, m, x).mem, S \cup {x})
<1> DEFINE a == Appended(head, m, x)
<1>0. PICK n \in Nat : \E q \in [1 .. n -> Frames] :
        Links(head, m, n, q) /\ S = {q[i] : i \in 1 .. n}
  BY DEF Holds
<1>1. PICK q \in [1 .. n -> Frames] : Links(head, m, n, q) /\ S = {q[i] : i \in 1 .. n}
  BY <1>0
<1> DEFINE q2 == [i \in 1 .. n + 1 |-> IF i <= n THEN q[i] ELSE x]
<1>2. q2 \in [1 .. n + 1 -> Frames] /\ n + 1 \in Nat
  OBVIOUS
<1>3. /\ \A i \in 1 .. n : q2[i] = q[i]
      /\ q2[n + 1] = x /\ n + 1 \in 1 .. n + 1
      /\ \A i \in 1 .. n + 1 : i \in 1 .. n \/ i = n + 1
  OBVIOUS
<1>4. S \cup {x} = {q2[i] : i \in 1 .. n + 1}
  <2>1. \A y \in S \cup {x} : \E i \in 1 .. n + 1 : y = q2[i]
    BY <1>1, <1>3
  <2>2. \A i \in 1 .. n + 1 : q2[i] \in S \cup {x}
    BY <1>1, <1>3
  <2> QED BY <2>1, <2>2
<1>5. \A i \in 1 .. n : q[i] # x /\ q[i] \in Frames /\ q[i] \in S
  BY <1>1
<1>9. x \in Frames \cup {NULL} /\ NULL \in Frames \cup {NULL}
  OBVIOUS
<1>6. \A i, j \in 1 .. n + 1 : i # j => q2[i] # q2[j]
  BY <1>1, <1>3, <1>5 DEF Links
<1> HIDE DEF q2
<1>7. CASE n = 0
  <2>1. head = NULL
    BY <1>1, <1>7 DEF Links
  <2>2. a.head = x /\ a.mem = Link(m, x, NULL, x)
    BY <2>1 DEF Appended
  <2> HIDE DEF a
  <2>3. a.mem \in Mem /\ \A y \in Frames :
             /\ a.mem.next[y] = IF y = x THEN NULL ELSE m.next[y]
             /\ a.mem.prev[y] = IF y = x THEN x ELSE m.prev[y]
    <3>1. LET l == Link(m, x, NULL, x)
          IN  l \in Mem /\ \A y \in Frames : /\ l.next[y] = IF y = x THEN NULL ELSE m.next[y]
                                             /\ l.prev[y] = IF y = x THEN x ELSE m.prev[y]
      BY <1>9, LinkIs
    <3> QED BY <2>2, <3>1
  <2>4. Links(a.head, a.mem, n + 1, q2)
    BY <1>3, <1>6, <1>7, <2>2, <2>3 DEF Links
  <2>5. Holds(a.head, a.mem, S \cup {x})
    BY <1>2, <1>4, <2>4 DEF Holds
  <2>6. OnlyAt(m, a.mem, S \cup {x})
    BY <2>3 DEF OnlyAt
  <2> QED BY <2>3, <2>5, <2>6 DEF a
<1>8. CASE n # 0
  <2>1. /\ head = q[1] /\ head \in Frames /\ head # NULL /\ head # x /\ 1 \in 1 .. n /\ n \in 1 .. n
        /\ q[n] \in Frames /\ q[n] # x /\ m.prev[head] = q[n]
    BY <1>1, <1>5, <1>8, FramesAssumption DEF Links
  <2> DEFINE m1 == SetPrev(m, x, m.prev[head])
             m2 == SetNext(m1, m1.prev[head], x)
             m3 == SetPrev(m2, head, x)
             m4 == SetNext(m3, x, NULL)
  <2>2. a.head = head /\ a.mem = m4
    BY <2>1 DEF Appended
  <2>3. m1 \in Mem /\ \A y \in Frames : /\ m1.next[y] = m.next[y]
                                        /\ m1.prev[y] = IF y = x THEN q[n] ELSE m.prev[y]
    BY <2>1, SetPrevIs
  <2> HIDE DEF m1
  <2>4. m1.prev[head] = q[n]
    BY <2>1, <2>3
  <2>5. m2 \in Mem /\ \A y \in Frames : /\ m2.next[y] = IF y = q[n] THEN x ELSE m1.next[y]
                                        /\ m2.prev[y] = m1.prev[y]
    BY <2>1, <2>3, <2>4, SetNextIs
  <2> HIDE DEF m2
  <2>6. m3 \in Mem /\ \A y \in Frames : /\ m3.next[y] = m2.next[y]
                                        /\ m3.prev[y] = IF y = head THEN x ELSE m2.prev[y]
    <3>1. m2 \in Mem /\ head \in Frames /\ x \in Frames \cup {NULL}
      BY <1>9, <2>1, <2>5
    <3> QED BY <3>1, SetPrevIs
  <2> HIDE DEF m3
  <2>7. m4 \in Mem /\ \A y \in Frames : /\ m4.next[y] = IF y = x THEN NULL ELSE m3.next[y]
                                        /\ m4.prev[y] = m3.prev[y]
    BY <2>6, SetNextIs
  <2> HIDE DEF a, m4
  <2>8. \A y \in Frames :
          /\ m4.next[y] = IF y = x THEN NULL ELSE IF y = q[n] THEN x ELSE m.next[y]
          /\ m4.prev[y] = IF y = head THEN x ELSE IF y = x THEN q[n] ELSE m.prev[y]
    BY <2>3, <2>5, <2>6, <2>7
  <2>9. \A i \in 1 .. n + 1 : /\ m4.next[q2[i]] = IF i = n + 1 THEN NULL ELSE q2[i + 1]
                              /\ m4.prev[q2[i]] = IF i = 1 THEN q2[n + 1] ELSE q2[i - 1]
    <3> TAKE i \in 1 .. n + 1
    <3>1. CASE i = n + 1
      <4>1. q2[i] = x /\ i # 1 /\ i - 1 = n /\ q2[i - 1] = q[n]
        BY <1>3, <1>8, <2>1, <3>1
      <4> QED BY <2>1, <2>8, <3>1, <4>1
    <3>2. CASE i \in 1 .. n
      <4>0. (q[i] = q[n] <=> i = n) /\ (q[i] = q[1] <=> i = 1)
        BY <1>1, <2>1, <3>2 DEF Links
      <4>1. /\ q2[i] = q[i] /\ q[i] \in Frames /\ q[i] # x /\ i # n + 1
            /\ (q[i] = q[n] <=> i = n) /\ (q[i] = head <=> i = 1)
        BY <1>3, <1>5, <2>1, <3>2, <4>0
      <4>2. m4.next[q[i]] = q2[i + 1]
        <5>1. CASE i = n
          BY <1>3, <2>8, <4>1, <5>1
        <5>2. CASE i # n
          <6>1. m.next[q[i]] = q[i + 1] /\ i + 1 \in 1 .. n
            BY <1>1, <3>2, <5>2 DEF Links
          <6> QED BY <1>3, <2>8, <4>1, <5>2, <6>1
        <5> QED BY <5>1, <5>2
      <4>3. m4.prev[q[i]] = IF i = 1 THEN x ELSE q2[i - 1]
        <5>1. CASE i = 1
          BY <2>8, <4>1, <5>1
        <5>2. CASE i # 1
          <6>1. m.prev[q[i]] = q[i - 1] /\ i - 1 \in 1 .. n
            BY <1>1, <3>2, <5>2 DEF Links
          <6> QED BY <1>3, <2>8, <4>1, <5>2, <6>1
        <5> QED BY <5>1, <5>2
      <4> QED BY <1>3, <4>1, <4>2, <4>3
    <3> QED BY <1>3, <3>1, <3>2
  <2>10. Links(a.head, a.mem, n + 1, q2)
    <3>1. a.head = q2[1] /\ n + 1 # 0
      BY <1>3, <2>1, <2>2
    <3> QED BY <1>6, <2>2, <2>9, <3>1 DEF Links
  <2>11. Holds(a.head, a.mem, S \cup {x})
    BY <1>2, <1>4, <2>10 DEF Holds
  <2>12. OnlyAt(m, a.mem, S \cup {x})
    <3>1. head \in S /\ q[n] \in S
      BY <1>5, <2>1
    <3> QED BY <2>2, <2>8, <3>1 DEF OnlyAt
  <2> QED BY <2>2, <2>7, <2>11, <2>12 DEF a
<1> QED BY <1>7, <1>8

LEMMA DeleteHolds ==
  ASSUME NEW head, NEW m \in Mem, NEW S, Holds(head, m, S), NEW x \in S
  PROVE  /\ Holds(Deleted(head, m, x).head, Deleted(head, m, x).mem, S \ {x})
         /\ Deleted(head, m, x).mem \in Mem
         /\ OnlyAt(m, Deleted(head, m, x).mem, S)
<1> DEFINE d == Deleted(head, m, x)
<1>0. PICK n \in Nat : \E q \in [1 .. n -> Frames] :
        Links(head, m, n, q) /\ S = {q[i] : i \in 1 .. n}
  BY DEF Holds
<1>1. PICK q \in [1 .. n -> Frames] : Links(head, m, n, q) /\ S = {q[i] : i \in 1 .. n}
  BY <1>0
<1>2. PICK k \in 1 .. n : x = q[k]
  BY <1>1
<1>3. /\ n \in 1 .. n /\ 1 \in 1 .. n /\ n # 0 /\ head = q[1] /\ head \in Frames /\ x \in Frames
      /\ q[n] \in Frames /\ NULL \notin Frames /\ n - 1 \in Nat
      /\ \A i \in 1 .. n : q[i] \in Frames /\ q[i] \in S /\ (q[i] = x <=> i = k)
      /\ \A i, j \in 1 .. n : q[i] = q[j] <=> i = j
  BY <1>1, <1>2, FramesAssumption DEF Links
<1> DEFINE q2 == [i \in 1 .. n - 1 |-> IF i < k THEN q[i] ELSE q[i + 1]]
<1>4. /\ q2 \in [1 .. n - 1 -> Frames]
      /\ \A i \in 1 .. n - 1 : q2[i] = IF i < k THEN q[i] ELSE q[i + 1]
  <2>1. \A i \in 1 .. n - 1 : i \in 1 .. n /\ i + 1 \in 1 .. n
    BY <1>3
  <2> QED BY <1>3, <2>1
<1> HIDE DEF q2
<1>5. S \ {x} = {q2[i] : i \in 1 .. n - 1}
  <2>1. \A y \in S \ {x} : \E i \in 1 .. n - 1 : y = q2[i]
    <3> TAKE y \in S \ {x}
    <3>1. PICK j \in 1 .. n : y = q[j] /\ j # k
      BY <1>1, <1>2
    <3>2. CASE j < k
      BY <1>4, <3>1, <3>2
    <3>3. CASE j > k
      <4>1. j - 1 \in 1 .. n - 1 /\ ~ (j - 1 < k) /\ (j - 1) + 1 = j
        BY <3>3
      <4> QED BY <1>4, <3>1, <4>1
    <3> QED BY <3>1, <3>2, <3>3
  <2>2. \A i \in 1 .. n - 1 : q2[i] \in S \ {x}
    <3> TAKE i \in 1 .. n - 1
    <3>1. i \in 1 .. n /\ i + 1 \in 1 .. n /\ (i < k => i # k) /\ (~ (i < k) => i + 1 # k)
      BY <1>3
    <3> QED BY <1>3, <1>4, <3>1
  <2> QED BY <2>1, <2>2
<1>6. \A i, j \in 1 .. n - 1 : i # j => q2[i] # q2[j]
  <2> TAKE i, j \in 1 .. n - 1
  <2>1. /\ i \in 1 .. n /\ i + 1 \in 1 .. n /\ j \in 1 .. n /\ j + 1 \in 1 .. n
        /\ i # j => i + 1 # j + 1 /\ (i < k /\ ~ (j < k) => i # j + 1)
                    /\ (j < k /\ ~ (i < k) => i + 1 # j)
    BY <1>3
  <2> QED BY <1>3, <1>4, <2>1
(* What the links become is enough.                                          *)
<1>7. ASSUME d.head = IF n = 1 THEN NULL ELSE IF k = 1 THEN q[2] ELSE q[1],
             d.mem \in Mem,
             \A y \in Frames :
                d.mem.next[y] = IF k > 1 /\ y = q[k - 1] THEN m.next[x] ELSE m.next[y],
             n > 1 => \A y \in Frames :
                d.mem.prev[y] = IF y = (IF k = n THEN head ELSE q[k + 1])
                                THEN m.prev[x] ELSE m.prev[y],
             n = 1 => \A y \in Frames : d.mem.prev[y] = m.prev[y]
      PROVE  /\ Holds(d.head, d.mem, S \ {x})
             /\ d.mem \in Mem
             /\ OnlyAt(m, d.mem, S)
  <2> HIDE DEF d
  <2>1. d.head = IF n - 1 = 0 THEN NULL ELSE q2[1]
    BY <1>3, <1>4, <1>7
  <2>2. ASSUME NEW i \in 1 .. n - 1
        PROVE  d.mem.next[q2[i]] = IF i = n - 1 THEN NULL ELSE q2[i + 1]
    <3>1. CASE i < k - 1
      <4>1. /\ i \in 1 .. n /\ i + 1 \in 1 .. n - 1 /\ i # n - 1 /\ i < k /\ i + 1 < k
            /\ k - 1 \in 1 .. n /\ i # k - 1 /\ i # n
        BY <1>3, <3>1
      <4>2. q2[i] = q[i] /\ q2[i + 1] = q[i + 1] /\ q[i] \in Frames /\ q[i] # q[k - 1]
        BY <1>3, <1>4, <4>1
      <4>3. m.next[q[i]] = q[i + 1]
        BY <1>1, <4>1 DEF Links
      <4> QED BY <1>7, <4>1, <4>2, <4>3
    <3>2. CASE i = k - 1
      <4>1. i \in 1 .. n /\ i < k /\ k > 1 /\ (i = n - 1 <=> k = n) /\ ~ (i + 1 < k)
        BY <1>3, <3>2
      <4>2. q2[i] = q[k - 1] /\ q[k - 1] \in Frames
        BY <1>3, <1>4, <3>2, <4>1
      <4>3. d.mem.next[q2[i]] = m.next[x]
        BY <1>7, <4>1, <4>2
      <4>4. m.next[x] = IF k = n THEN NULL ELSE q[k + 1]
        BY <1>1, <1>2 DEF Links
      <4>5. k # n => i + 1 \in 1 .. n - 1 /\ (i + 1) + 1 = k + 1 /\ q2[i + 1] = q[k + 1]
        BY <1>3, <1>4, <3>2, <4>1
      <4> QED BY <4>1, <4>3, <4>4, <4>5
    <3>3. CASE i > k - 1
      <4>1. /\ ~ (i < k) /\ i + 1 \in 1 .. n /\ ~ (i + 1 < k) /\ (i = n - 1 <=> i + 1 = n)
            /\ i # n - 1 => i + 1 \in 1 .. n - 1
            /\ k > 1 => k - 1 \in 1 .. n /\ k - 1 # i + 1
        BY <1>3, <3>3
      <4>2. q2[i] = q[i + 1] /\ q[i + 1] \in Frames /\ (k > 1 => q[i + 1] # q[k - 1])
        BY <1>3, <1>4, <4>1
      <4>3. d.mem.next[q2[i]] = m.next[q[i + 1]]
        BY <1>7, <4>2
      <4>4. m.next[q[i + 1]] = IF i + 1 = n THEN NULL ELSE q[(i + 1) + 1]
        BY <1>1, <4>1 DEF Links
      <4>5. i # n - 1 => q2[i + 1] = q[(i + 1) + 1]
        BY <1>4, <4>1
      <4> QED BY <4>1, <4>3, <4>4, <4>5
    <3> QED BY <3>1, <3>2, <3>3
  <2>3. ASSUME NEW i \in 1 .. n - 1
        PROVE  d.mem.prev[q2[i]] = IF i = 1 THEN q2[n - 1] ELSE q2[i - 1]
    <3>0. n > 1 /\ n - 1 \in 1 .. n - 1 /\ n - 1 \in 1 .. n /\ (n - 1) + 1 = n
      BY <1>3
    <3>1. q2[n - 1] = IF k = n THEN q[n - 1] ELSE q[n]
      BY <1>3, <1>4, <3>0
    <3>2. \A y \in Frames : d.mem.prev[y] = IF y = (IF k = n THEN head ELSE q[k + 1])
                                            THEN m.prev[x] ELSE m.prev[y]
      BY <1>7, <3>0
    <3>3. m.prev[x] = IF k = 1 THEN q[n] ELSE q[k - 1]
      BY <1>1, <1>2 DEF Links
    <3>4. CASE i < k
      <4>1. i \in 1 .. n /\ q2[i] = q[i] /\ q[i] \in Frames /\ k # 1
        BY <1>3, <1>4, <3>4
      <4>2. k # n => k + 1 \in 1 .. n /\ q[i] # q[k + 1]
        BY <1>3, <3>4, <4>1
      <4>3. (q[i] = head <=> i = 1)
        BY <1>3, <4>1
      <4>4. m.prev[q[i]] = IF i = 1 THEN q[n] ELSE q[i - 1]
        BY <1>1, <4>1 DEF Links
      <4>5. i # 1 => i - 1 \in 1 .. n - 1 /\ i - 1 < k /\ q2[i - 1] = q[i - 1]
        BY <1>4, <3>4
      <4>6. CASE k = n
        BY <3>1, <3>2, <3>3, <4>1, <4>3, <4>4, <4>5, <4>6
      <4>7. CASE k # n
        BY <3>1, <3>2, <4>1, <4>2, <4>4, <4>5, <4>7
      <4> QED BY <4>6, <4>7
    <3>5. CASE i >= k
      <4>1. /\ i + 1 \in 1 .. n /\ q2[i] = q[i + 1] /\ q[i + 1] \in Frames /\ k # n
            /\ k + 1 \in 1 .. n /\ i + 1 # 1
        BY <1>3, <1>4, <3>5
      <4>2. q[i + 1] = q[k + 1] <=> i = k
        BY <1>3, <4>1
      <4>3. m.prev[q[i + 1]] = q[(i + 1) - 1] /\ (i + 1) - 1 = i
        BY <1>1, <4>1 DEF Links
      <4>4. d.mem.prev[q2[i]] = IF i = k THEN m.prev[x] ELSE q[i]
        BY <3>2, <4>1, <4>2, <4>3
      <4>5. CASE i = k
        <5>1. k # 1 => k - 1 \in 1 .. n - 1 /\ k - 1 < k /\ q2[k - 1] = q[k - 1]
          BY <1>4, <4>1, <4>5
        <5> QED BY <3>1, <3>3, <4>1, <4>4, <4>5, <5>1
      <4>6. CASE i # k
        <5>1. i # 1 /\ i - 1 \in 1 .. n - 1 /\ ~ (i - 1 < k) /\ (i - 1) + 1 = i
          BY <1>3, <3>5, <4>6
        <5>2. q2[i - 1] = q[i]
          BY <1>4, <5>1
        <5> QED BY <4>4, <4>6, <5>1, <5>2
      <4> QED BY <4>5, <4>6
    <3> QED BY <3>4, <3>5
  <2>4. Links(d.head, d.mem, n - 1, q2)
    BY <1>6, <2>1, <2>2, <2>3 DEF Links
  <2>5. Holds(d.head, d.mem, S \ {x})
    <3>1. \E p \in [1 .. n - 1 -> Frames] :
            Links(d.head, d.mem, n - 1, p) /\ S \ {x} = {p[i] : i \in 1 .. n - 1}
      BY <1>4, <1>5, <2>4
    <3> QED BY <1>3, <3>1 DEF Holds
  <2>6. OnlyAt(m, d.mem, S)
    <3>1. k > 1 => k - 1 \in 1 .. n
      BY <1>3
    <3>2. k # n => k + 1 \in 1 .. n
      BY <1>3
    <3>3. head \in S /\ (k > 1 => q[k - 1] \in S) /\ (k # n => q[k + 1] \in S)
      BY <1>3, <3>1, <3>2
    <3> SUFFICES ASSUME NEW y \in Frames \ S
                 PROVE  d.mem.next[y] = m.next[y] /\ d.mem.prev[y] = m.prev[y]
      BY DEF OnlyAt
    <3>4. d.mem.next[y] = m.next[y]
      BY <1>7, <3>3
    <3>5. d.mem.prev[y] = m.prev[y]
      <4>1. CASE n = 1
        BY <1>7, <4>1
      <4>2. CASE n # 1
        <5>1. n > 1
          BY <1>3, <4>2
        <5> QED BY <1>7, <3>3, <5>1
      <4> QED BY <4>1, <4>2
    <3> QED BY <3>4, <3>5
  <2> QED BY <1>7, <2>5, <2>6
<1>8. /\ m.next[x] = IF k = n THEN NULL ELSE q[k + 1]
      /\ m.prev[x] = IF k = 1 THEN q[n] ELSE q[k - 1]
      /\ m.next[x] \in Frames \cup {NULL} /\ m.prev[x] \in Frames
  <2>1. /\ m.next[x] = IF k = n THEN NULL ELSE q[k + 1]
        /\ m.prev[x] = IF k = 1 THEN q[n] ELSE q[k - 1]
    BY <1>1, <1>2 DEF Links
  <2>2. (k # n => k + 1 \in 1 .. n) /\ (k # 1 => k - 1 \in 1 .. n)
    BY <1>3
  <2> QED BY <1>3, <2>1, <2>2
<1>9. m.prev[x] = x <=> n = 1
  <2>1. k # 1 => k - 1 \in 1 .. n /\ k - 1 # k
    BY <1>3
  <2>2. k = 1 => (q[n] = x <=> n = 1)
    BY <1>3
  <2>3. n = 1 => k = 1
    OBVIOUS
  <2> QED BY <1>3, <1>8, <2>1, <2>2, <2>3
<1>10. CASE n = 1
  <2>1. d.head = NULL /\ d.mem = m /\ k = 1
    BY <1>9, <1>10 DEF Deleted
  <2> HIDE DEF d
  <2> QED BY <1>7, <1>10, <2>1 DEF d
<1>11. CASE n # 1 /\ k = 1
  <2>1. x = head /\ n > 1 /\ k # n /\ k + 1 = 2 /\ q[2] \in Frames
    BY <1>2, <1>3, <1>11
  <2>2. d.head = q[2] /\ d.mem = SetPrev(m, q[2], m.prev[x])
    BY <1>8, <1>9, <1>11, <2>1 DEF Deleted
  <2>3. m.prev[x] \in Frames \cup {NULL}
    BY <1>8
  <2>4. d.mem \in Mem /\ \A y \in Frames : /\ d.mem.prev[y] = IF y = q[2] THEN m.prev[x] ELSE m.prev[y]
                                           /\ d.mem.next[y] = m.next[y]
    <3>1. ASSUME NEW z \in Frames, NEW v \in Frames \cup {NULL}
          PROVE  /\ SetPrev(m, z, v) \in Mem
                 /\ \A y \in Frames : /\ SetPrev(m, z, v).prev[y] = IF y = z THEN v ELSE m.prev[y]
                                      /\ SetPrev(m, z, v).next[y] = m.next[y]
      BY SetPrevIs
    <3> HIDE DEF d
    <3> QED BY <2>1, <2>2, <2>3, <3>1
  <2> HIDE DEF d
  <2> QED BY <1>7, <1>11, <2>1, <2>2, <2>4 DEF d
<1>12. CASE n # 1 /\ k # 1
  <2>1. x # head /\ n > 1 /\ k > 1 /\ k - 1 \in 1 .. n /\ q[k - 1] \in Frames /\ q[k - 1] # x
    BY <1>2, <1>3, <1>12
  <2> DEFINE m1 == SetNext(m, m.prev[x], m.next[x])
             at == IF m1.next[x] # NULL THEN m1.next[x] ELSE head
  <2>2. d.head = q[1] /\ d.mem = SetPrev(m1, at, m1.prev[x])
    BY <1>3, <1>9, <1>12, <2>1 DEF Deleted
  <2>3. m.prev[x] = q[k - 1]
    BY <1>8, <1>12
  <2>4. m1 \in Mem /\ \A y \in Frames : /\ m1.next[y] = IF y = q[k - 1] THEN m.next[x] ELSE m.next[y]
                                        /\ m1.prev[y] = m.prev[y]
    BY <1>8, <2>1, <2>3, SetNextIs
  <2> HIDE DEF m1
  <2>5. m1.next[x] = m.next[x] /\ m1.prev[x] = m.prev[x]
    BY <1>3, <2>1, <2>4
  <2>6. at = IF k = n THEN head ELSE q[k + 1]
    <3>1. k # n => k + 1 \in 1 .. n
      BY <1>3
    <3> QED BY <1>3, <1>8, <2>5, <3>1
  <2>7. at \in Frames /\ m1.prev[x] \in Frames \cup {NULL}
    <3>1. k # n => k + 1 \in 1 .. n
      BY <1>3
    <3> QED BY <1>3, <1>8, <2>5, <2>6, <3>1
  <2> HIDE DEF at, d
  <2>8. d.mem \in Mem /\ \A y \in Frames : /\ d.mem.prev[y] = IF y = at THEN m1.prev[x] ELSE m1.prev[y]
                                           /\ d.mem.next[y] = m1.next[y]
    <3>1. LET l == SetPrev(m1, at, m1.prev[x])
          IN  l \in Mem /\ \A y \in Frames : /\ l.prev[y] = IF y = at THEN m1.prev[x] ELSE m1.prev[y]
                                             /\ l.next[y] = m1.next[y]
      BY <2>4, <2>7, SetPrevIs
    <3> QED BY <2>2, <3>1
  <2>9. /\ \A y \in Frames : d.mem.next[y] = IF k > 1 /\ y = q[k - 1] THEN m.next[x] ELSE m.next[y]
        /\ \A y \in Frames : d.mem.prev[y] = IF y = (IF k = n THEN head ELSE q[k + 1])
                                             THEN m.prev[x] ELSE m.prev[y]
    BY <2>1, <2>4, <2>5, <2>6, <2>8
  <2> QED BY <1>7, <1>12, <2>1, <2>2, <2>8, <2>9 DEF d
<1> QED BY <1>10, <1>11, <1>12

-----------------------------------------------------------------------------
(* Recursion over a bounded number.                                          *)

(* A set of numbers has a least one.                                         *)
LEMMA LeastOf ==
  ASSUME NEW B \in SUBSET Nat, B # {}
  PROVE  \E i \in B : \A j \in B : i <= j
<1> DEFINE R == OpToRel(<, Nat)
<1>1. R = {ss \in Nat \X Nat : ss[1] < ss[2]} /\ IsWellFoundedOn(R, Nat)
  BY NatLessThanWellFounded, Zenon DEF OpToRel
<1> HIDE DEF R
<1>2. PICK x \in B : \A y \in B : ~ (<<y, x>> \in R)
  BY <1>1, WFMin
<1>3. \A a, b \in Nat : a < b => <<a, b>> \in R
  BY <1>1
<1>4. x \in Nat /\ \A y \in B : y \in Nat /\ ~ (y < x)
  BY <1>2, <1>3
<1> QED BY <1>4

(* What holds at 0 and from each number to the next, up to N, holds of all.  *)
LEMMA Stepwise ==
  ASSUME NEW N \in Nat, NEW Good, 0 \in Good,
         \A i \in 1 .. N : i - 1 \in Good => i \in Good
  PROVE  0 .. N \subseteq Good
<1> DEFINE Bad == {i \in 0 .. N : i \notin Good}
<1> SUFFICES ASSUME Bad # {} PROVE FALSE
  OBVIOUS
<1>1. PICK i \in Bad : \A j \in Bad : i <= j
  <2>1. Bad \in SUBSET Nat
    OBVIOUS
  <2> HIDE DEF Bad
  <2> QED BY <2>1, LeastOf
<1>2. i # 0 /\ i \in 0 .. N
  BY <1>1
<1>3. i - 1 \in 0 .. N /\ i \in 1 .. N /\ ~ (i <= i - 1)
  BY <1>2
<1>4. i - 1 \in Good
  BY <1>1, <1>3
<1> QED BY <1>1, <1>3, <1>4

(* A list is no longer than there are frames.                                *)
LEMMA ListFits ==
  ASSUME NEW head, NEW m, NEW n \in Nat, NEW q \in [1 .. n -> Frames], Links(head, m, n, q)
  PROVE  Cardinality(Frames) \in Nat /\ n <= Cardinality(Frames)
<1>1. IsFiniteSet(Frames) /\ Cardinality(Frames) \in Nat
  BY FramesAssumption, FS_CardinalityType
<1>2. q \in Injection(1 .. n, Frames)
  <2>1. \A i, j \in 1 .. n : q[i] = q[j] => i = j
    BY DEF Links
  <2> QED BY <2>1 DEF Injection, IsInjective
<1>3. Cardinality(1 .. n) <= Cardinality(Frames)
  BY <1>1, <1>2, FS_Injection
<1>4. Cardinality(1 .. n) = n
  BY FS_Interval
<1> QED BY <1>1, <1>3, <1>4

(* A walk meets the frames of the list, and nothing else.                    *)
LEMMA WalkHolds ==
  ASSUME NEW head, NEW m \in Mem, NEW S, Holds(head, m, S)
  PROVE  Walked(head, m) = S
<1>0. PICK n \in Nat : \E q \in [1 .. n -> Frames] :
        Links(head, m, n, q) /\ S = {q[i] : i \in 1 .. n}
  BY DEF Holds
<1>1. PICK q \in [1 .. n -> Frames] : Links(head, m, n, q) /\ S = {q[i] : i \in 1 .. n}
  BY <1>0
<1> DEFINE N == Cardinality(Frames)
           Met(k) == {q[j] : j \in {j \in 1 .. n : j <= k + 1}}
           Further(A) == A \cup ({m.next[x] : x \in A} \ {NULL})
<1>2. N \in Nat /\ n <= N
  BY <1>1, ListFits
<1>3. DOMAIN m.next = Frames
  BY MemIs
<1> DEFINE Walk(g) == g = [i \in 0 .. N |-> IF i = 0 THEN {head} \ {NULL} ELSE Further(g[i - 1])]
           reach == CHOOSE g : Walk(g)
<1>4. Walked(head, m) = reach[N]
  BY <1>3 DEF Walked
<1> HIDE DEF N
<1>5. Met(0) = {head} \ {NULL}
  <2>1. CASE n = 0
    BY <1>1, <2>1 DEF Links
  <2>2. CASE n # 0
    <3>1. 1 \in 1 .. n /\ head = q[1] /\ q[1] # NULL
      BY <1>1, <2>2, FramesAssumption DEF Links
    <3>2. {j \in 1 .. n : j <= 0 + 1} = {1}
      BY <3>1
    <3> QED BY <3>1, <3>2
  <2> QED BY <2>1, <2>2
<1>6. ASSUME NEW k \in 1 .. N
      PROVE  Met(k) = Further(Met(k - 1))
  <2>1. \A y \in Met(k) : y \in Further(Met(k - 1))
    <3> TAKE y \in Met(k)
    <3>1. PICK j \in 1 .. n : j <= k + 1 /\ y = q[j]
      OBVIOUS
    <3>2. CASE j <= k
      <4>1. j <= (k - 1) + 1
        BY <3>2
      <4> QED BY <3>1, <4>1
    <3>3. CASE j = k + 1
      <4>1. k \in 1 .. n /\ k <= (k - 1) + 1 /\ k # n
        BY <3>3
      <4>2. q[k] \in Met(k - 1)
        BY <4>1
      <4>3. m.next[q[k]] = y /\ y # NULL
        BY <1>1, <3>1, <3>3, <4>1, FramesAssumption DEF Links
      <4> QED BY <4>2, <4>3
    <3> QED BY <3>1, <3>2, <3>3
  <2>2. \A y \in Met(k - 1) : y \in Met(k)
    <3> TAKE y \in Met(k - 1)
    <3>1. PICK j \in 1 .. n : j <= (k - 1) + 1 /\ y = q[j]
      OBVIOUS
    <3>2. j <= k + 1
      BY <3>1
    <3> QED BY <3>1, <3>2
  <2>3. \A x \in Met(k - 1) : m.next[x] # NULL => m.next[x] \in Met(k)
    <3> TAKE x \in Met(k - 1)
    <3>1. PICK j \in 1 .. n : j <= (k - 1) + 1 /\ x = q[j]
      OBVIOUS
    <3>2. m.next[x] # NULL => m.next[x] = q[j + 1] /\ j + 1 \in 1 .. n /\ j + 1 <= k + 1
      BY <1>1, <3>1 DEF Links
    <3> QED BY <3>2
  <2> HIDE DEF Met
  <2> QED BY <2>1, <2>2, <2>3
<1>7. S = Met(N)
  <2>1. \A j \in 1 .. n : j <= N + 1
    BY <1>2
  <2> QED BY <1>1, <2>1
<1> DEFINE g0 == [i \in 0 .. N |-> Met(i)]
<1>8. Walk(g0)
  <2> HIDE DEF Met, Further
  <2>1. \A i \in 0 .. N : i # 0 => i \in 1 .. N /\ i - 1 \in 0 .. N
    BY <1>2
  <2>2. \A i \in 0 .. N : g0[i] = IF i = 0 THEN {head} \ {NULL} ELSE Further(g0[i - 1])
    BY <1>5, <1>6, <2>1
  <2> QED BY <2>2
<1>9. Walk(reach)
  <2> HIDE DEF Walk, g0
  <2> QED BY <1>8
<1>10. \A i \in 0 .. N : reach[i] = Met(i)
  <2> HIDE DEF Met, Further
  <2>1. \A i \in 0 .. N : reach[i] = IF i = 0 THEN {head} \ {NULL} ELSE Further(reach[i - 1])
    <3> HIDE DEF reach
    <3> QED BY <1>9
  <2> HIDE DEF reach
  <2> DEFINE Good == {i \in 0 .. N : reach[i] = Met(i)}
  <2>2. 0 \in Good
    <3>1. 0 \in 0 .. N
      BY <1>2
    <3>2. reach[0] = Met(0)
      BY <1>5, <2>1, <3>1
    <3> QED BY <3>1, <3>2
  <2>3. \A i \in 1 .. N : i - 1 \in Good => i \in Good
    <3> TAKE i \in 1 .. N
    <3>1. i \in 0 .. N /\ i # 0
      OBVIOUS
    <3> QED BY <1>6, <2>1, <3>1
  <2>4. 0 .. N \subseteq Good
    <3> HIDE DEF Good
    <3> QED BY <1>2, <2>2, <2>3, Stepwise
  <2> QED BY <2>4
<1> QED BY <1>2, <1>4, <1>7, <1>10

(* After open_stream the first list holds every frame.                       *)
LEMMA OpenedHolds == Opened.mem \in Mem /\ Holds(Opened.head, Opened.mem, Frames)
<1> DEFINE N == Cardinality(Frames)
           order == CHOOSE o \in [1 .. N -> Frames] : \A f \in Frames : \E i \in DOMAIN o : o[i] = f
           none == [next |-> [f \in Frames |-> NULL], prev |-> [f \in Frames |-> NULL]]
           More(r, i) == Appended(r.head, r.mem, order[i])
           Fill(g, k) == g = [i \in 0 .. k |-> IF i = 0 THEN [head |-> NULL, mem |-> none]
                                               ELSE More(g[i - 1], i)]
           filled == CHOOSE g : Fill(g, N)
<1>1. Opened = filled[N]
  BY DEF Opened
<1>2. N \in Nat /\ ExistsBijection(1 .. N, Frames) /\ IsFiniteSet(1 .. N) /\ Cardinality(1 .. N) = N
  BY FramesAssumption, FS_CardinalityType, FS_Interval
<1>3. order \in Surjection(1 .. N, Frames)
  <2>1. \E o \in [1 .. N -> Frames] : \A f \in Frames : \E i \in DOMAIN o : o[i] = f
    <3>1. PICK o \in Bijection(1 .. N, Frames) : TRUE
      BY <1>2 DEF ExistsBijection
    <3>2. o \in [1 .. N -> Frames] /\ \A f \in Frames : \E i \in 1 .. N : o[i] = f
      BY <3>1 DEF Bijection, Surjection
    <3> QED BY <3>2
  <2>2. order \in [1 .. N -> Frames] /\ \A f \in Frames : \E i \in DOMAIN order : order[i] = f
    <3> HIDE DEF N
    <3> QED BY <2>1
  <2> QED BY <2>2 DEF Surjection
<1>4. /\ order \in [1 .. N -> Frames]
      /\ \A f \in Frames : \E i \in 1 .. N : order[i] = f
      /\ \A i, j \in 1 .. N : order[i] = order[j] => i = j
  <2>1. order \in Injection(1 .. N, Frames)
    BY <1>2, <1>3, FS_SurjSameCardinalityImpliesInj
  <2> HIDE DEF N, order
  <2> QED BY <1>3, <2>1 DEF Surjection, Injection, IsInjective
<1>5. none \in Mem
  BY DEF Mem
<1> HIDE DEF N, order, none
<1> DEFINE Fillable == {k \in 0 .. N : \E g : Fill(g, k)}
<1>6. 0 \in Fillable
  <2> DEFINE g == [i \in 0 .. 0 |-> [head |-> NULL, mem |-> none]]
  <2>1. g = [i \in 0 .. 0 |-> IF i = 0 THEN [head |-> NULL, mem |-> none] ELSE More(g[i - 1], i)]
    <3> HIDE DEF More
    <3> QED OBVIOUS
  <2> HIDE DEF g, More
  <2>2. 0 \in 0 .. N
    BY <1>2
  <2> QED BY <2>1, <2>2
<1>7. \A k \in 1 .. N : k - 1 \in Fillable => k \in Fillable
  <2> TAKE k \in 1 .. N
  <2> SUFFICES ASSUME k - 1 \in Fillable PROVE k \in Fillable
    OBVIOUS
  <2> HIDE DEF More
  <2>1. PICK g : g = [i \in 0 .. k - 1 |-> IF i = 0 THEN [head |-> NULL, mem |-> none]
                                           ELSE More(g[i - 1], i)]
    OBVIOUS
  <2> DEFINE g2 == [i \in 0 .. k |-> IF i < k THEN g[i] ELSE More(g[k - 1], k)]
  <2>2. \A i \in 0 .. k : g2[i] = IF i = 0 THEN [head |-> NULL, mem |-> none]
                                  ELSE More(g2[i - 1], i)
    <3> TAKE i \in 0 .. k
    <3>1. CASE i = 0
      <4>1. 0 \in 0 .. k - 1 /\ 0 < k
        OBVIOUS
      <4> QED BY <2>1, <3>1, <4>1
    <3>2. CASE i # 0 /\ i < k
      <4>1. i \in 0 .. k - 1 /\ i - 1 \in 0 .. k /\ i - 1 < k
        BY <3>2
      <4>2. g2[i] = g[i] /\ g2[i - 1] = g[i - 1]
        BY <3>2, <4>1
      <4>3. g[i] = More(g[i - 1], i)
        BY <2>1, <3>2, <4>1
      <4> QED BY <3>2, <4>2, <4>3
    <3>3. CASE i = k
      <4>1. k - 1 \in 0 .. k /\ k - 1 < k /\ ~ (k < k) /\ k # 0
        OBVIOUS
      <4> QED BY <3>3, <4>1
    <3> QED BY <3>1, <3>2, <3>3
  <2>3. g2 = [i \in 0 .. k |-> IF i = 0 THEN [head |-> NULL, mem |-> none]
                               ELSE More(g2[i - 1], i)]
    <3>1. g2 = [i \in 0 .. k |-> g2[i]]
      OBVIOUS
    <3> HIDE DEF g2
    <3> QED BY <2>2, <3>1
  <2> HIDE DEF g2
  <2>4. k \in 0 .. N
    OBVIOUS
  <2> QED BY <2>3, <2>4
<1>8. Fill(filled, N)
  <2>1. 0 .. N \subseteq Fillable
    <3> HIDE DEF Fillable
    <3> QED BY <1>2, <1>6, <1>7, Stepwise
  <2>2. N \in Fillable
    BY <1>2, <2>1
  <2>3. \E g : Fill(g, N)
    BY <2>2
  <2> HIDE DEF Fill
  <2> QED BY <2>3
<1> HIDE DEF filled
<1>9. /\ filled[0] = [head |-> NULL, mem |-> none]
      /\ \A i \in 1 .. N : filled[i] = More(filled[i - 1], i)
  <2> HIDE DEF More
  <2>1. 0 \in 0 .. N /\ \A i \in 1 .. N : i \in 0 .. N /\ i # 0
    BY <1>2
  <2> QED BY <1>8, <2>1
<1> HIDE DEF Fill
<1> DEFINE First(k) == {order[j] : j \in 1 .. k}
           Right(k) == filled[k].mem \in Mem /\ Holds(filled[k].head, filled[k].mem, First(k))
           Good == {k \in 0 .. N : Right(k)}
<1>10. 0 \in Good
  <2>1. First(0) = {}
    OBVIOUS
  <2>2. Holds(NULL, none, {})
    BY EmptyHolds
  <2>3. 0 \in 0 .. N
    BY <1>2
  <2>4. filled[0].head = NULL /\ filled[0].mem = none
    BY <1>9
  <2> HIDE DEF First
  <2> QED BY <1>5, <2>1, <2>2, <2>3, <2>4
<1>11. \A k \in 1 .. N : k - 1 \in Good => k \in Good
  <2> TAKE k \in 1 .. N
  <2> SUFFICES ASSUME k - 1 \in Good PROVE Right(k)
    OBVIOUS
  <2>1. order[k] \in Frames
    BY <1>4
  <2>2. order[k] \notin First(k - 1)
    <3>1. \A j \in 1 .. k - 1 : j \in 1 .. N /\ j # k
      BY <1>2
    <3> QED BY <1>4, <3>1
  <2>3. First(k) = First(k - 1) \cup {order[k]}
    <3>1. \A j \in 1 .. k : j \in 1 .. k - 1 \/ j = k
      OBVIOUS
    <3>2. k \in 1 .. k /\ \A j \in 1 .. k - 1 : j \in 1 .. k
      OBVIOUS
    <3> QED BY <3>1, <3>2
  <2>4. /\ filled[k - 1].mem \in Mem
        /\ Holds(filled[k - 1].head, filled[k - 1].mem, First(k - 1))
    OBVIOUS
  <2>5. filled[k] = Appended(filled[k - 1].head, filled[k - 1].mem, order[k])
    BY <1>9
  <2> HIDE DEF First
  <2>6. /\ filled[k].mem \in Mem
        /\ Holds(filled[k].head, filled[k].mem, First(k - 1) \cup {order[k]})
    BY <2>1, <2>2, <2>4, <2>5, AppendHolds
  <2> QED BY <2>3, <2>6
<1>12. N \in Good
  <2> HIDE DEF Good
  <2> QED BY <1>2, <1>10, <1>11, Stepwise
<1>13. First(N) = Frames
  BY <1>4
<1> QED BY <1>1, <1>12, <1>13

-----------------------------------------------------------------------------
(* The invariant: who holds each frame, and what each list therefore holds.  *)
Types ==
    /\ mem \in Mem
    /\ ref \in [Frames -> Nat]
    /\ queued \in SUBSET Frames
    /\ dying \in [{"decoder", "reader"} -> Frames \cup {NULL}]
    /\ pc \in {"get", "hold", "send", "dest", "sent", "free", "done"}
    /\ cur \in Frames \cup {NULL}
    /\ tries \in Nat
    /\ sent \in BOOLEAN
    /\ closed \in {"open", "closed", "freed"}

(* A frame counts its place in the queue of the destination, and the         *)
(* decoder's own the hold and the send under way.                            *)
RefsAre ==
    /\ \A f \in Frames : f # cur => ref[f] = IF f \in queued THEN 1 ELSE 0
    /\ pc = "hold" => ref[cur] = 0
    /\ pc = "send" => IF tries = 0 THEN ref[cur] \in {0, 1} ELSE ref[cur] = 1
    /\ pc = "dest" => ref[cur] = 2
    /\ pc = "sent" => IF cur \in queued THEN ref[cur] = 3 ELSE ref[cur] \in {1, 2}
    /\ pc = "free" => ref[cur] = IF cur \in queued THEN 2 ELSE 1

Where ==
    /\ cur = NULL <=> pc \in {"get", "done"}
    /\ pc \in {"hold", "send", "dest"} => cur \notin queued
    /\ pc \in {"sent", "free"} /\ ~sent => cur \notin queued
    /\ pc = "hold" => tries = 0
    /\ pc \in {"dest", "sent", "free"} => tries > 0
    /\ \A w \in {"decoder", "reader"} : dying[w] # NULL => dying[w] \notin queued \cup {cur}
    /\ dying["decoder"] # NULL => dying["decoder"] # dying["reader"] /\ cur = NULL
    /\ closed # "open" => pc = "done"

Used ==
    queued \cup ({dying["decoder"], dying["reader"]} \ {NULL})
           \cup (IF cur # NULL /\ tries > 0 THEN {cur} ELSE {})
Rest == Frames \ (Used \cup {cur})

Whole ==
    IF closed = "freed" THEN Used = {}
    ELSE Holds(head_u, mem, Used) /\ Holds(head_f, mem, Rest)

IInv == Types /\ RefsAre /\ Where /\ Whole

NInv == harmed \in BOOLEAN /\ (harmed \/ IInv)

(* The two lists hold what they held, when nothing moves.                    *)
LEMMA WholeStays ==
  ASSUME IInv, Used' = Used, Rest' = Rest, UNCHANGED <<head_f, head_u, mem, closed>>
  PROVE  Whole'
BY DEF IInv, Whole

LEMMA UsedIs ==
  ASSUME IInv
  PROVE  /\ Used \subseteq Frames /\ Rest \subseteq Frames /\ Used \cap Rest = {}
         /\ NULL \notin Frames /\ NULL \notin Used
BY FramesAssumption DEF IInv, Types, Used, Rest

LEMMA StartWhole == Init => IInv
<1> SUFFICES ASSUME Init PROVE IInv
  OBVIOUS
<1>1. /\ cur = NULL /\ tries = 0 /\ queued = {} /\ pc = "get" /\ closed = "open" /\ sent = FALSE
      /\ dying = [w \in {"decoder", "reader"} |-> NULL] /\ ref = [f \in Frames |-> 0]
      /\ head_u = NULL /\ head_f = Opened.head /\ mem = Opened.mem
  BY DEF Init
<1>2. Types
  BY <1>1, OpenedHolds DEF Types
<1>3. RefsAre /\ Where
  BY <1>1 DEF RefsAre, Where
<1>4. Used = {} /\ Rest = Frames
  BY <1>1, FramesAssumption DEF Used, Rest
<1>5. Whole
  BY <1>1, <1>4, OpenedHolds, EmptyHolds DEF Whole
<1> QED BY <1>2, <1>3, <1>5 DEF IInv

LEMMA GetWhole ==
  ASSUME IInv, get
  PROVE  IInv'
<1> DEFINE d == Deleted(head_f, mem, head_f)
<1>1. /\ Types /\ RefsAre /\ Where /\ pc = "get" /\ cur = NULL /\ dying["decoder"] = NULL
      /\ closed = "open" /\ head_f # NULL
  BY DEF IInv, Where, get, At, Types
<1>2. Holds(head_u, mem, Used) /\ Holds(head_f, mem, Rest)
  BY <1>1 DEF IInv, Whole
<1>3. head_f \in Rest /\ head_f \in Frames /\ head_f # NULL /\ head_f \notin Used
  BY <1>1, <1>2, HeadIs, UsedIs
<1>4. /\ head_f' = d.head /\ mem' = Link(d.mem, head_f, NULL, NULL)
      /\ cur' = head_f /\ pc' \in {"hold", "send"} /\ tries' = 0 /\ sent' = FALSE
      /\ UNCHANGED <<head_u, ref, queued, dying, closed>>
  BY DEF get
<1>5. Holds(d.head, d.mem, Rest \ {head_f}) /\ d.mem \in Mem /\ OnlyAt(mem, d.mem, Rest)
  BY <1>1, <1>2, <1>3, DeleteHolds DEF Types
<1> HIDE DEF d
<1>6. /\ mem' \in Mem
      /\ \A y \in Frames : y # head_f => mem'.next[y] = d.mem.next[y] /\ mem'.prev[y] = d.mem.prev[y]
  BY <1>3, <1>4, <1>5, ClearedIs
<1>7. Used' = Used /\ Rest' = Rest \ {head_f}
  <2>1. Used' = Used
    BY <1>1, <1>4 DEF Used
  <2> QED BY <1>1, <1>3, <1>4, <2>1, UsedIs DEF Rest
<1>8. Whole'
  <2>1. Holds(head_u, mem', Used)
    <3>1. \A y \in Used : mem'.next[y] = mem.next[y] /\ mem'.prev[y] = mem.prev[y]
      BY <1>3, <1>5, <1>6, UsedIs DEF OnlyAt
    <3> QED BY <1>2, <3>1, HoldsElsewhere
  <2>2. Holds(d.head, mem', Rest \ {head_f})
    <3>1. \A y \in Rest \ {head_f} : mem'.next[y] = d.mem.next[y] /\ mem'.prev[y] = d.mem.prev[y]
      BY <1>6, UsedIs
    <3> QED BY <1>5, <3>1, HoldsElsewhere
  <2> QED BY <1>1, <1>4, <1>7, <2>1, <2>2 DEF Whole
<1>9. Types'
  BY <1>1, <1>3, <1>4, <1>6 DEF Types
<1>10. head_f \notin queued /\ head_f # dying["reader"]
  BY <1>1, <1>3 DEF Used, Types
<1>11. RefsAre'
  <2>1. \A f \in Frames : ref[f] = IF f \in queued THEN 1 ELSE 0
    BY <1>1, FramesAssumption DEF RefsAre
  <2>2. ref'[head_f] = 0
    BY <1>3, <1>4, <1>10, <2>1
  <2> QED BY <1>4, <2>1, <2>2 DEF RefsAre
<1>12. Where'
  BY <1>1, <1>3, <1>4, <1>10 DEF Where
<1> QED BY <1>8, <1>9, <1>11, <1>12 DEF IInv

(* A frame sent again while it is alone on the list: nothing changes.        *)
LEMMA AgainWhole ==
  ASSUME IInv, send, tries > 0, head_u = cur, mem.next[cur] = NULL
  PROVE  IInv'
<1> DEFINE a == Appended(head_u, mem, cur)
<1>1. /\ Types /\ RefsAre /\ Where /\ pc = "send" /\ dying["decoder"] = NULL /\ closed = "open"
      /\ cur # NULL /\ cur \in Frames /\ cur \notin queued /\ dying["reader"] # cur
      /\ ref[cur] = 1
  BY DEF IInv, RefsAre, Where, send, At, Types
<1>2. /\ tries' = tries + 1 /\ head_u' = a.head /\ mem' = a.mem /\ pc' = "dest"
      /\ ref' = [ref EXCEPT ![cur] = @ + 1]
      /\ UNCHANGED <<head_f, queued, dying, cur, sent, closed>>
  BY <1>1 DEF send, Use
<1>3. mem.prev[cur] = cur
  BY <1>1, AloneIs DEF IInv, Whole
<1>4. a.head = head_u /\ a.mem = mem
  <2>1. /\ mem = [next |-> mem.next, prev |-> mem.prev]
        /\ [mem.prev EXCEPT ![cur] = cur] = mem.prev
        /\ [[mem.next EXCEPT ![cur] = cur] EXCEPT ![cur] = NULL] = mem.next
    BY <1>1, <1>3 DEF Types, Mem
  <2>2. SetPrev(mem, cur, cur) = mem
    BY <2>1, <1>1 DEF SetPrev, Types, Mem
  <2>3. SetNext(SetPrev(SetNext(mem, cur, cur), cur, cur), cur, NULL) = mem
    BY <2>1, <1>1 DEF SetPrev, SetNext, Types, Mem
  <2> QED BY <1>1, <1>3, <2>2, <2>3 DEF Appended
<1> HIDE DEF a
<1>5. Used' = Used
  BY <1>1, <1>2 DEF Used, Types
<1>6. Rest' = Rest
  BY <1>2, <1>5 DEF Rest
<1>7. Whole'
  BY <1>2, <1>4, <1>5, <1>6, WholeStays
<1>8. ref' \in [Frames -> Nat] /\ ref'[cur] = 2 /\ \A f \in Frames : f # cur => ref'[f] = ref[f]
  BY <1>1, <1>2 DEF Types
<1>9. Types' /\ RefsAre' /\ Where'
  BY <1>1, <1>2, <1>4, <1>8 DEF Types, RefsAre, Where
<1> QED BY <1>7, <1>9 DEF IInv

LEMMA FirstWhole ==
  ASSUME IInv, send, tries = 0
  PROVE  IInv'
<1> DEFINE a == Appended(head_u, mem, cur)
<1>1. /\ Types /\ RefsAre /\ Where /\ pc = "send" /\ dying["decoder"] = NULL /\ closed = "open"
      /\ cur # NULL /\ cur \in Frames /\ cur \notin queued /\ dying["reader"] # cur
  BY DEF IInv, Where, send, At, Types
<1>2. /\ tries' = tries + 1 /\ head_u' = a.head /\ mem' = a.mem
      /\ pc' = IF ref[cur] > 0 THEN "dest" ELSE "sent"
      /\ ref' = [ref EXCEPT ![cur] = @ + 1]
      /\ UNCHANGED <<head_f, queued, dying, cur, sent, closed>>
  BY DEF send, Use
<1>3. tries = 0 /\ tries' = 1
  BY <1>1, <1>2 DEF Types
<1>4. cur \notin Used /\ Used' = Used \cup {cur} /\ Rest' = Rest
  <2>1. cur \notin Used /\ Used' = Used \cup {cur}
    BY <1>1, <1>2, <1>3 DEF Used
  <2> QED BY <1>2, <2>1 DEF Rest
<1>5. Holds(head_u, mem, Used) /\ Holds(head_f, mem, Rest)
  BY <1>1 DEF IInv, Whole
<1>6. Holds(a.head, a.mem, Used \cup {cur}) /\ a.mem \in Mem /\ OnlyAt(mem, a.mem, Used \cup {cur})
  BY <1>1, <1>4, <1>5, AppendHolds DEF Types
<1> HIDE DEF a
<1>7. Holds(head_f, a.mem, Rest)
  <2>1. \A y \in Rest : y \in Frames \ (Used \cup {cur})
    BY DEF Rest
  <2>2. \A y \in Rest : a.mem.next[y] = mem.next[y] /\ a.mem.prev[y] = mem.prev[y]
    BY <1>6, <2>1 DEF OnlyAt
  <2> QED BY <1>5, <2>2, HoldsElsewhere
<1>8. Whole'
  BY <1>1, <1>2, <1>4, <1>6, <1>7 DEF Whole
<1>9. Types'
  BY <1>1, <1>2, <1>3, <1>6 DEF Types
<1>10. ref[cur] \in {0, 1} /\ ref'[cur] = ref[cur] + 1 /\ \A f \in Frames : f # cur => ref'[f] = ref[f]
  BY <1>1, <1>2, <1>3 DEF RefsAre, Types
<1>11. RefsAre'
  BY <1>1, <1>2, <1>10 DEF RefsAre
<1>12. Where'
  BY <1>1, <1>2, <1>3, <1>10 DEF Where
<1> QED BY <1>8, <1>9, <1>11, <1>12 DEF IInv

LEMMA SendWhole ==
  ASSUME IInv, send, ~ Spoils(cur)
  PROVE  IInv'
<1>1. tries \in Nat
  BY DEF IInv, Types
<1> QED BY <1>1, AgainWhole, FirstWhole DEF Spoils

LEMMA MoveWhole ==
  ASSUME IInv, NEW w \in {"decoder", "reader"}, move(w)
  PROVE  IInv'
<1> DEFINE f == dying[w]
           d == Deleted(head_u, mem, f)
           l == Link(d.mem, f, NULL, NULL)
           a == Appended(head_f, l, f)
<1>1. Types /\ RefsAre /\ Where /\ f # NULL /\ f \in Frames /\ f \in Used
  BY DEF IInv, move, Types, Used
<1>2. /\ head_u' = d.head /\ head_f' = a.head /\ mem' = a.mem
      /\ dying' = [dying EXCEPT ![w] = NULL]
      /\ UNCHANGED <<ref, queued, pc, cur, tries, sent, closed>>
  BY DEF move, Unlinked
<1>3. closed # "freed" /\ Holds(head_u, mem, Used) /\ Holds(head_f, mem, Rest)
  BY <1>1 DEF IInv, Whole
<1>4. f \notin queued /\ f # cur /\ f \notin Rest
  <2>1. f \notin queued \cup {cur}
    BY <1>1 DEF Where
  <2> QED BY <1>1, <2>1 DEF Rest
<1>5. Used' = Used \ {f} /\ Rest' = Rest \cup {f}
  <2>1. dying["decoder"] # NULL => dying["decoder"] # dying["reader"]
    BY <1>1 DEF Where
  <2>2. \/ w = "decoder" /\ dying'["decoder"] = NULL /\ dying'["reader"] = dying["reader"]
        \/ w = "reader" /\ dying'["reader"] = NULL /\ dying'["decoder"] = dying["decoder"]
    BY <1>1, <1>2 DEF Types
  <2>3. Used' = Used \ {f}
    BY <1>1, <1>2, <1>4, <2>1, <2>2 DEF Used
  <2> QED BY <1>1, <1>2, <1>4, <2>3 DEF Rest
<1>6. Holds(d.head, d.mem, Used \ {f}) /\ d.mem \in Mem /\ OnlyAt(mem, d.mem, Used)
  BY <1>1, <1>3, DeleteHolds DEF Types
<1> HIDE DEF f, d
<1>7. /\ l \in Mem
      /\ \A y \in Frames : y # f => l.next[y] = d.mem.next[y] /\ l.prev[y] = d.mem.prev[y]
  BY <1>1, <1>6, ClearedIs
<1> HIDE DEF l
<1>8. Holds(head_f, l, Rest)
  <2>1. \A y \in Rest : y \in Frames \ Used /\ y # f
    BY <1>4, UsedIs
  <2>2. \A y \in Rest : l.next[y] = mem.next[y] /\ l.prev[y] = mem.prev[y]
    BY <1>6, <1>7, <2>1 DEF OnlyAt
  <2> QED BY <1>3, <2>2, HoldsElsewhere
<1>9. Holds(a.head, a.mem, Rest \cup {f}) /\ a.mem \in Mem /\ OnlyAt(l, a.mem, Rest \cup {f})
  BY <1>1, <1>4, <1>7, <1>8, AppendHolds
<1> HIDE DEF a
<1>10. Holds(d.head, a.mem, Used \ {f})
  <2>1. \A y \in Used \ {f} : y \in Frames \ (Rest \cup {f}) /\ y # f
    BY UsedIs
  <2>2. \A y \in Used \ {f} : a.mem.next[y] = d.mem.next[y] /\ a.mem.prev[y] = d.mem.prev[y]
    BY <1>7, <1>9, <2>1 DEF OnlyAt
  <2> QED BY <1>6, <2>2, HoldsElsewhere
<1>11. Whole'
  BY <1>2, <1>3, <1>5, <1>9, <1>10 DEF Whole
<1>12. dying' \in [{"decoder", "reader"} -> Frames \cup {NULL}]
       /\ \A v \in {"decoder", "reader"} : dying'[v] \in {NULL, dying[v]}
  BY <1>1, <1>2 DEF Types
<1>13. Types'
  BY <1>1, <1>2, <1>9, <1>12 DEF Types
<1>14. RefsAre'
  BY <1>1, <1>2 DEF RefsAre
<1>15. Where'
  BY <1>1, <1>2, <1>12 DEF Where
<1> QED BY <1>11, <1>13, <1>14, <1>15 DEF IInv

LEMMA HoldWhole ==
  ASSUME IInv, hold
  PROVE  IInv'
<1>1. /\ Types /\ RefsAre /\ Where /\ pc = "hold" /\ cur # NULL /\ cur \in Frames
      /\ cur \notin queued /\ tries = 0 /\ ref[cur] = 0
  BY DEF IInv, Where, RefsAre, hold, At, Types
<1>2. /\ ref' = [ref EXCEPT ![cur] = @ + 1] /\ pc' = "send"
      /\ UNCHANGED <<head_f, head_u, mem, queued, dying, cur, tries, sent, closed>>
  BY DEF hold
<1>3. Whole'
  <2>1. Used' = Used
    BY <1>2 DEF Used
  <2>2. Rest' = Rest
    BY <1>2, <2>1 DEF Rest
  <2> QED BY <1>2, <2>1, <2>2, WholeStays
<1>4. ref' \in [Frames -> Nat] /\ ref'[cur] = 1 /\ \A f \in Frames : f # cur => ref'[f] = ref[f]
  BY <1>1, <1>2 DEF Types
<1>5. Types' /\ RefsAre' /\ Where'
  BY <1>1, <1>2, <1>4 DEF Types, RefsAre, Where
<1> QED BY <1>3, <1>5 DEF IInv

LEMMA DestWhole ==
  ASSUME IInv, dest
  PROVE  IInv'
<1>1. /\ Types /\ RefsAre /\ Where /\ pc = "dest" /\ cur # NULL /\ cur \in Frames
      /\ cur \notin queued /\ tries > 0 /\ ref[cur] = 2 /\ dying["decoder"] = NULL
      /\ dying["reader"] # cur
  BY DEF IInv, Where, RefsAre, dest, At, Types
<1>2. /\ pc' = "sent"
      /\ UNCHANGED <<head_f, head_u, mem, dying, cur, tries, closed>>
      /\ \/ queued' = queued \cup {cur} /\ ref' = [ref EXCEPT ![cur] = @ + 1] /\ sent' = TRUE
         \/ UNCHANGED <<queued, ref>> /\ sent' = FALSE
  BY DEF dest, Given
<1>3. Whole'
  <2>1. Used' = Used
    BY <1>1, <1>2 DEF Used
  <2>2. Rest' = Rest
    BY <1>2, <2>1 DEF Rest
  <2> QED BY <1>2, <2>1, <2>2, WholeStays
<1>4. /\ ref' \in [Frames -> Nat] /\ \A f \in Frames : f # cur => ref'[f] = ref[f]
      /\ ref'[cur] = IF cur \in queued' THEN 3 ELSE 2
  BY <1>1, <1>2 DEF Types
<1>5. Types'
  BY <1>1, <1>2, <1>4 DEF Types
<1>6. RefsAre'
  BY <1>1, <1>2, <1>4 DEF RefsAre
<1>7. Where'
  BY <1>1, <1>2 DEF Where, Types
<1> QED BY <1>3, <1>5, <1>6, <1>7 DEF IInv

(* What a free leaves of the count, and who still has to move the frame.     *)
LEMMA DropIs ==
  ASSUME IInv, NEW w \in {"decoder", "reader"}, NEW f \in Frames, Drop(w, f), dying[w] = NULL,
         ref[f] > 0
  PROVE  /\ ref' \in [Frames -> Nat] /\ ref'[f] = ref[f] - 1
         /\ \A g \in Frames : g # f => ref'[g] = ref[g]
         /\ dying' \in [{"decoder", "reader"} -> Frames \cup {NULL}]
         /\ dying'[w] = (IF ref[f] = 1 THEN f ELSE NULL)
         /\ \A v \in {"decoder", "reader"} : v # w => dying'[v] = dying[v]
<1>1. /\ ref \in [Frames -> Nat] /\ ref' = [ref EXCEPT ![f] = @ - 1]
      /\ dying \in [{"decoder", "reader"} -> Frames \cup {NULL}]
      /\ dying' = [dying EXCEPT ![w] = IF ref[f] = 1 THEN f ELSE NULL]
  BY DEF IInv, Types, Drop
<1>2. ref[f] - 1 \in Nat
  BY <1>1
<1>3. ref' \in [Frames -> Nat] /\ ref'[f] = ref[f] - 1 /\ \A g \in Frames : g # f => ref'[g] = ref[g]
  BY <1>1, <1>2
<1> QED BY <1>1, <1>3

LEMMA SentWhole ==
  ASSUME IInv, sent_free
  PROVE  IInv'
<1>1. /\ Types /\ RefsAre /\ Where /\ pc = "sent" /\ cur # NULL /\ cur \in Frames
      /\ tries > 0 /\ dying["decoder"] = NULL /\ dying["reader"] # cur /\ closed = "open"
      /\ IF cur \in queued THEN ref[cur] = 3 ELSE ref[cur] \in {1, 2}
      /\ ref[cur] \in Nat /\ ref[cur] > 0
  BY DEF IInv, Where, RefsAre, sent_free, At, Types
<1>2. /\ UNCHANGED <<head_f, head_u, mem, queued, tries, sent, closed>> /\ Drop("decoder", cur)
      /\ \/ ref[cur] = 1 /\ pc' = "get" /\ cur' = NULL
         \/ ref[cur] # 1 /\ cur' = cur /\ pc' = "free"
         \/ ref[cur] # 1 /\ cur' = cur /\ pc' = "send" /\ ~sent
  BY DEF sent_free
<1>3. /\ ref' \in [Frames -> Nat] /\ ref'[cur] = ref[cur] - 1
      /\ \A g \in Frames : g # cur => ref'[g] = ref[g]
      /\ dying' \in [{"decoder", "reader"} -> Frames \cup {NULL}]
      /\ dying'["decoder"] = (IF ref[cur] = 1 THEN cur ELSE NULL)
      /\ dying'["reader"] = dying["reader"]
  BY <1>1, <1>2, DropIs
<1>4. Used' = Used /\ cur \in Used
  <2>1. CASE ref[cur] = 1
    BY <1>1, <1>2, <1>3, <2>1 DEF Used
  <2>2. CASE ref[cur] # 1
    BY <1>1, <1>2, <1>3, <2>2 DEF Used
  <2> QED BY <2>1, <2>2
<1>5. Rest' = Rest
  BY <1>2, <1>4, FramesAssumption DEF Rest
<1>6. Whole'
  BY <1>2, <1>4, <1>5, WholeStays
<1>7. Types'
  BY <1>1, <1>2, <1>3 DEF Types
<1>8. RefsAre'
  <2>1. CASE ref[cur] = 1
    <3>1. cur \notin queued /\ pc' = "get" /\ ref'[cur] = 0
      BY <1>1, <1>2, <1>3, <2>1
    <3> QED BY <1>2, <1>3, <1>1, <3>1 DEF RefsAre
  <2>2. CASE ref[cur] # 1
    <3>1. cur' = cur /\ ref'[cur] = IF cur \in queued THEN 2 ELSE 1
      BY <1>1, <1>2, <1>3, <2>2
    <3>2. pc' = "free" \/ (pc' = "send" /\ cur \notin queued)
      BY <1>1, <1>2, <2>2 DEF Where
    <3> QED BY <1>1, <1>2, <1>3, <3>1, <3>2 DEF RefsAre
  <2> QED BY <2>1, <2>2
<1>9. Where'
  <2>1. CASE ref[cur] = 1
    <3>1. cur \notin queued /\ pc' = "get" /\ cur' = NULL /\ dying'["decoder"] = cur
      BY <1>1, <1>2, <1>3, <2>1
    <3> QED BY <1>1, <1>2, <1>3, <3>1 DEF Where
  <2>2. CASE ref[cur] # 1
    <3>1. cur' = cur /\ dying'["decoder"] = NULL
      BY <1>1, <1>2, <1>3, <2>2
    <3>2. pc' = "free" \/ (pc' = "send" /\ cur \notin queued)
      BY <1>1, <1>2, <2>2 DEF Where
    <3> QED BY <1>1, <1>2, <1>3, <3>1, <3>2 DEF Where
  <2> QED BY <2>1, <2>2
<1> QED BY <1>6, <1>7, <1>8, <1>9 DEF IInv

LEMMA UnholdWhole ==
  ASSUME IInv, unhold
  PROVE  IInv'
<1>1. /\ Types /\ RefsAre /\ Where /\ pc = "free" /\ cur # NULL /\ cur \in Frames
      /\ tries > 0 /\ dying["decoder"] = NULL /\ dying["reader"] # cur /\ closed = "open"
      /\ ref[cur] = (IF cur \in queued THEN 2 ELSE 1) /\ ref[cur] > 0
  BY DEF IInv, Where, RefsAre, unhold, At, Types
<1>2. /\ UNCHANGED <<head_f, head_u, mem, queued, tries, sent, closed>> /\ Drop("decoder", cur)
      /\ cur' = NULL /\ pc' \in {"get", "done"}
  BY DEF unhold
<1>3. /\ ref' \in [Frames -> Nat] /\ ref'[cur] = (IF cur \in queued THEN 1 ELSE 0)
      /\ \A g \in Frames : g # cur => ref'[g] = ref[g]
      /\ dying' \in [{"decoder", "reader"} -> Frames \cup {NULL}]
      /\ dying'["decoder"] = (IF cur \in queued THEN NULL ELSE cur)
      /\ dying'["reader"] = dying["reader"]
  BY <1>1, <1>2, DropIs
<1>4. Used' = Used /\ cur \in Used
  BY <1>1, <1>2, <1>3 DEF Used
<1>5. Rest' = Rest
  BY <1>2, <1>4, FramesAssumption DEF Rest
<1>6. Whole'
  BY <1>2, <1>4, <1>5, WholeStays
<1>7. Types'
  BY <1>1, <1>2, <1>3 DEF Types
<1>8. RefsAre'
  BY <1>1, <1>2, <1>3 DEF RefsAre
<1>9. Where'
  BY <1>1, <1>2, <1>3 DEF Where
<1> QED BY <1>6, <1>7, <1>8, <1>9 DEF IInv

LEMMA ConsumeWhole ==
  ASSUME IInv, NEW f \in Frames, consume(f)
  PROVE  IInv'
<1>1. /\ Types /\ RefsAre /\ Where /\ f \in queued /\ dying["reader"] = NULL
      /\ f # dying["decoder"] /\ (f = cur => pc \in {"sent", "free"} /\ tries > 0)
      /\ f # NULL
  <2>1. Types /\ RefsAre /\ Where /\ f \in queued /\ dying["reader"] = NULL
    BY DEF IInv, consume
  <2>2. f # dying["decoder"] /\ f # NULL
    BY <2>1, FramesAssumption DEF Where
  <2> QED BY <2>1, <2>2 DEF Where, Types
<1>2. /\ UNCHANGED <<head_f, head_u, mem, pc, cur, tries, sent, closed>> /\ Drop("reader", f)
      /\ queued' = queued \ {f}
  BY DEF consume
<1>3. ref[f] > 0 /\ (ref[f] = 1 <=> f # cur)
  BY <1>1 DEF RefsAre
<1>4. /\ ref' \in [Frames -> Nat] /\ ref'[f] = ref[f] - 1
      /\ \A g \in Frames : g # f => ref'[g] = ref[g]
      /\ dying' \in [{"decoder", "reader"} -> Frames \cup {NULL}]
      /\ dying'["reader"] = (IF f # cur THEN f ELSE NULL)
      /\ dying'["decoder"] = dying["decoder"]
  BY <1>1, <1>2, <1>3, DropIs
<1>5. Used' = Used
  <2>1. CASE f = cur
    BY <1>1, <1>2, <1>4, <2>1 DEF Used
  <2>2. CASE f # cur
    BY <1>1, <1>2, <1>4, <2>2 DEF Used
  <2> QED BY <2>1, <2>2
<1>6. Rest' = Rest
  BY <1>2, <1>5 DEF Rest
<1>7. Whole'
  BY <1>2, <1>5, <1>6, WholeStays
<1>8. Types'
  BY <1>1, <1>2, <1>4 DEF Types
<1>9. RefsAre'
  <2>1. CASE f = cur
    <3>1. pc' = pc /\ cur' = cur /\ cur \notin queued' /\ pc \in {"sent", "free"}
      BY <1>1, <1>2, <2>1
    <3>2. ref'[cur] = IF pc = "sent" THEN 2 ELSE 1
      BY <1>1, <1>4, <2>1 DEF RefsAre
    <3>3. \A g \in Frames : g # cur => (g \in queued' <=> g \in queued)
      BY <1>2, <2>1
    <3> QED BY <1>1, <1>4, <2>1, <3>1, <3>2, <3>3 DEF RefsAre
  <2>2. CASE f # cur
    <3>1. pc' = pc /\ cur' = cur /\ tries' = tries /\ (cur \in queued' <=> cur \in queued)
      BY <1>2, <2>2
    <3>2. cur \in Frames => ref'[cur] = ref[cur]
      BY <1>4, <2>2
    <3>3. \A g \in Frames : g # cur => ref'[g] = IF g \in queued' THEN 1 ELSE 0
      BY <1>1, <1>2, <1>3, <1>4 DEF RefsAre
    <3>4. pc \notin {"get", "done"} => cur \in Frames
      BY <1>1 DEF Where, Types
    <3> QED BY <1>1, <3>1, <3>2, <3>3, <3>4 DEF RefsAre
  <2> QED BY <2>1, <2>2
<1>10. Where'
  BY <1>1, <1>2, <1>4 DEF Where
<1> QED BY <1>7, <1>8, <1>9, <1>10 DEF IInv

LEMMA StillWhole ==
  ASSUME IInv, stop \/ close \/ mark \/ UNCHANGED vars
  PROVE  IInv'
<1>1. UNCHANGED <<head_f, head_u, mem, ref, queued, dying, cur, tries, sent>>
  BY DEF stop, close, mark, vars
<1>2. Used' = Used
  BY <1>1 DEF Used
<1>3. Rest' = Rest
  BY <1>1, <1>2 DEF Rest
<1>4. CASE stop \/ UNCHANGED vars
  <2>1. pc' = pc \/ (pc = "get" /\ pc' = "done")
    BY <1>4 DEF stop, At, vars
  <2>2. closed' = closed
    BY <1>4 DEF stop, vars
  <2>3. Whole'
    BY <1>1, <1>2, <1>3, <2>2, WholeStays
  <2>4. Types' /\ RefsAre' /\ Where'
    BY <1>1, <2>1, <2>2 DEF IInv, Types, RefsAre, Where
  <2> QED BY <2>3, <2>4 DEF IInv
<1>5. CASE close \/ mark
  <2>1. pc' = pc
    BY <1>5 DEF close, mark
  <2>2. closed' \in {"closed", "freed"} /\ closed # "freed" /\ pc = "done"
    BY <1>5 DEF close, mark, At, IInv, Where
  <2>3. closed' = "freed" => head_u = NULL
    BY <1>5 DEF close, mark, AllBack
  <2>4. Whole'
    <3>1. Holds(head_u, mem, Used) /\ Holds(head_f, mem, Rest)
      BY <2>2 DEF IInv, Whole
    <3>2. head_u = NULL => Used = {}
      BY <3>1, HeadIs
    <3> QED BY <1>1, <1>2, <1>3, <2>3, <3>1, <3>2 DEF Whole
  <2>5. Types' /\ RefsAre' /\ Where'
    BY <1>1, <2>1, <2>2 DEF IInv, Types, RefsAre, Where
  <2> QED BY <2>4, <2>5 DEF IInv
<1> QED BY <1>4, <1>5

(* Once harmed it stays so.                                                  *)
LEMMA HarmStays ==
  ASSUME harmed \in BOOLEAN, [Next]_vars
  PROVE  /\ harmed' \in BOOLEAN /\ (harmed => harmed')
         /\ send /\ ~ harmed' => ~ Spoils(cur)
BY DEF Next, Decoder, Reader, get, hold, send, dest, sent_free, unhold, stop, close, consume,
       mark, move, vars

LEMMA StepWhole ==
  ASSUME IInv, [Next]_vars, send => ~ Spoils(cur)
  PROVE  IInv'
<1>1. Decoder => get \/ hold \/ send \/ dest \/ sent_free \/ unhold
  BY DEF Decoder
<1>2. Reader => \E f \in Frames : consume(f)
  BY DEF Reader
<1> QED BY <1>1, <1>2, GetWhole, HoldWhole, SendWhole, DestWhole, SentWhole, UnholdWhole,
           ConsumeWhole, MoveWhole, StillWhole DEF Next

(* The frames the model says are in use are those src_d_list_u holds.        *)
LEMMA InUseIs == ASSUME IInv PROVE InUse = Used
<1>1. Types /\ RefsAre /\ Where
  BY DEF IInv
<1>2. Dying = {dying["decoder"], dying["reader"]} \ {NULL}
  BY <1>1 DEF Dying, Types
<1>3. \A f \in Frames : f # cur => (ref[f] > 0 <=> f \in queued)
  BY <1>1 DEF RefsAre
<1>4. cur # NULL => cur \in Frames /\ (cur \in queued => tries > 0) /\ (tries > 0 => ref[cur] > 0)
  <2> SUFFICES ASSUME cur # NULL
               PROVE  cur \in Frames /\ (cur \in queued => tries > 0) /\ (tries > 0 => ref[cur] > 0)
    OBVIOUS
  <2>1. cur \in Frames /\ pc \in {"hold", "send", "dest", "sent", "free"}
    BY <1>1 DEF Types, Where
  <2>2. cur \in queued => tries > 0
    BY <1>1, <2>1 DEF Where
  <2>3. tries > 0 => ref[cur] > 0
    BY <1>1, <2>1 DEF RefsAre, Where
  <2> QED BY <2>1, <2>2, <2>3
<1>5. \A f \in Frames : (ref[f] > 0 /\ ~ (f = cur /\ tries = 0))
                           <=> (f \in queued \/ (f = cur /\ tries > 0))
  <2> TAKE f \in Frames
  <2>1. CASE f = cur
    <3>1. cur # NULL /\ tries \in Nat
      BY <1>1, <2>1, FramesAssumption DEF Types
    <3> QED BY <1>4, <2>1, <3>1
  <2>2. CASE f # cur
    BY <1>3, <2>2
  <2> QED BY <2>1, <2>2
<1>6. queued \subseteq Frames /\ Dying \subseteq Frames
  BY <1>1, <1>2 DEF Types
<1> QED BY <1>2, <1>4, <1>5, <1>6, FramesAssumption DEF InUse, Used

-----------------------------------------------------------------------------
(* The theorems.                                                             *)

(* Until a frame is appended to src_d_list_u beside others while it is there *)
(* already, a walk of either list meets exactly the frames that belong there, *)
(* however often a frame is sent and whoever frees it when, and the arrays    *)
(* are freed after the last one came back: DL_APPEND and DL_DELETE keep the   *)
(* links of both lists whole (utlist.h lines 636-651 and 703-723, amr_app.c   *)
(* lines 249-319, stream_frame.c lines 42-80 and 690-745).                    *)
THEOREM ListsStayWhole == Spec => []WholeUnlessHarmed
<1>1. Init => NInv
  BY StartWhole DEF Init, NInv
<1>2. NInv /\ [Next]_vars => NInv'
  <2> SUFFICES ASSUME NInv, [Next]_vars PROVE NInv'
    OBVIOUS
  <2>1. harmed' \in BOOLEAN /\ (harmed => harmed') /\ (send /\ ~ harmed' => ~ Spoils(cur))
    BY HarmStays DEF NInv
  <2>2. CASE harmed'
    BY <2>1, <2>2 DEF NInv
  <2>3. CASE ~ harmed'
    <3>1. IInv /\ (send => ~ Spoils(cur))
      BY <2>1, <2>3 DEF NInv
    <3>2. IInv'
      BY <3>1, StepWhole
    <3> QED BY <2>1, <3>2 DEF NInv
  <2> QED BY <2>2, <2>3
<1>3. IInv => ListsAreWhole
  <2> SUFFICES ASSUME IInv PROVE ListsAreWhole
    OBVIOUS
  <2>1. InUse = Used /\ Types /\ Whole
    BY InUseIs DEF IInv
  <2>2. Frames \ (InUse \cup ({cur} \ {NULL})) = Rest
    BY <2>1, FramesAssumption DEF Rest
  <2>3. CASE closed = "freed"
    BY <2>1, <2>3 DEF ListsAreWhole, Whole
  <2>4. CASE closed # "freed"
    <3>1. Walked(head_u, mem) = Used /\ Walked(head_f, mem) = Rest
      BY <2>1, <2>4, WalkHolds DEF Types, Whole
    <3> QED BY <2>1, <2>2, <2>4, <3>1 DEF ListsAreWhole
  <2> QED BY <2>3, <2>4
<1>4. NInv => WholeUnlessHarmed
  BY <1>3 DEF NInv, WholeUnlessHarmed
<1> QED BY <1>1, <1>2, <1>4, PTL DEF Spec
=============================================================================
