-------------------------- MODULE StreamDataProofs --------------------------
(* Every frame of the data path is counted exactly, reaches each reader     *)
(* once and comes back to its source only after the last one, whatever the  *)
(* streams, their bindings, frames and nodes and wherever the scheduler     *)
(* switches, as long as none of the Races of StreamData happened: theorems  *)
(* about StreamData, and the step by step proof that it implements          *)
(* FrameOwnership up to the first race.                                     *)
EXTENDS StreamData, TLAPS, FiniteSetTheorems

ToPcs == {"send_pop", "send_load", "send_store", "send_append"}

(* What the steps of a task rely on at each place of it.                    *)
Sends(s) ==
    /\ pc[s] \in SendPcs => frm[s] \in src_d_list_u /\ src[frm[s]] = s
    /\ pc[s] \in ToPcs => to[s] \in Streams \ todo[s]
    /\ pc[s] \in SendNode => node[s] \in Nodes /\ dest[node[s]] = to[s]
    /\ pc[s] = "send_append" => data[node[s]] = frm[s]
Takes(s) ==
    /\ pc[s] \in {"recv", "recv_free"} =>
          used[s] = ISUED /\ node[s] \in Nodes /\ dest[node[s]] = s
    /\ pc[s] = "recv_free" => frm[s] \in Frames
Drains(s) ==
    /\ pc[s] \in {"drain", "drain_head", "drain_end"} => used[s] = UNAVAILABLE
    /\ pc[s] = "drain_head" => d_list_u[s] # <<>>
    /\ s \in InHand /\ pc[s] \in {"drain_node", "recycle", "free_end"} =>
          used[s] = UNAVAILABLE /\ node[s] \in Nodes /\ dest[node[s]] = s
    /\ pc[s] = "recycle" => frm[s] \in src_d_list_u /\ Refs(frm[s]) = {}

(* Where a node is. *)
NoRepeats(q) == \A i, j \in 1 .. Len(q) : q[i] = q[j] => i = j
Queues == \A s \in Streams : NoRepeats(d_list_u[s]) /\ InQueue(s) \subseteq NodesOf(s)
HasNode(s, n) == s \in InHand /\ node[s] = n
NodePlaced(n) ==
    /\ n \in d_list_f => n \notin InQueue(dest[n])
    /\ \A s \in Streams : HasNode(s, n) => n \notin d_list_f /\ n \notin InQueue(dest[n])
    /\ \A s, x \in Streams : HasNode(s, n) /\ HasNode(x, n) => s = x
    /\ (n \in d_list_f \/ n \in InQueue(dest[n]) \/ \E s \in Streams : HasNode(s, n))
          <=> used[dest[n]] # AVAILABLE_AGAIN
FramePlaced(f) ==
    /\ f \in src_d_list_f => f \notin src_d_list_u /\ f \notin filling
    /\ f \in src_d_list_u => f \notin filling
    /\ (f \in src_d_list_f \/ f \in src_d_list_u \/ f \in filling)
          <=> used[src[f]] # AVAILABLE_AGAIN

TaskRef(s, f) == frm[s] = f /\ pc[s] \in SendPcs \cup {"recv_free"}
Filled(f) ==
    f \in filling => used[src[f]] = ISUED /\ Refs(f) \subseteq {"held"} \X Streams

(* No stream is given a frame it already has. *)
Owed(s) == IF pc[s] \in SendPcs
           THEN todo[s] \cup (IF pc[s] \in ToPcs \ {"send_append"} THEN {to[s]} ELSE {})
           ELSE {}
Has(d, f) == f \in got[d] \/ \E n \in Carrying : dest[n] = d /\ data[n] = f
Once ==
    /\ \A n \in Carrying : data[n] \in Frames /\ data[n] \notin got[dest[n]]
    /\ \A n, m \in Carrying : dest[n] = dest[m] /\ data[n] = data[m] => n = m
    /\ \A s \in Streams : \A d \in Owed(s) : ~Has(d, frm[s])

RecycledOnce ==
    \A s, x \in Streams :
        pc[s] = "recycle" /\ pc[x] = "recycle" /\ frm[s] = frm[x] => s = x

TaskInv == \A s \in Streams : Sends(s) /\ Takes(s) /\ Drains(s)
PlaceInv == Queues /\ (\A n \in Nodes : NodePlaced(n)) /\ (\A f \in Frames : FramePlaced(f) /\ Filled(f))
IInv == TaskInv /\ PlaceInv /\ Once /\ RecycledOnce /\ FramesCounted /\ SharedIsOut
-----------------------------------------------------------------------------
(* A node carries a frame when it is queued or in the hand of a task that   *)
(* hands it over.                                                           *)
Hands(s, n) == pc[s] \in {"send_append", "recv"} /\ node[s] = n

LEMMA CarryingIs ==
  \A n : n \in Carrying <=> \E s \in Streams : n \in InQueue(s) \/ Hands(s, n)
<1> TAKE n
<1> DEFINE Q == UNION {InQueue(s) : s \in Streams}
           H == {node[s] : s \in {x \in Streams : pc[x] \in {"send_append", "recv"}}}
<1>1. n \in Q <=> \E s \in Streams : n \in InQueue(s)
  OBVIOUS
<1>2. n \in H <=> \E s \in Streams : Hands(s, n)
  BY DEF Hands
<1>3. Carrying = Q \cup H
  BY DEF Carrying
<1> HIDE DEF Q, H
<1> QED BY <1>1, <1>2, <1>3

LEMMA CarryingAreNodes ==
  ASSUME TypeOK, TaskInv
  PROVE  Carrying \subseteq Nodes
<1> SUFFICES ASSUME NEW n, n \in Carrying PROVE n \in Nodes
  OBVIOUS
<1>1. ASSUME NEW s \in Streams, n \in InQueue(s) PROVE n \in Nodes
  BY <1>1 DEF InQueue, TypeOK
<1>2. ASSUME NEW s \in Streams, Hands(s, n) PROVE n \in Nodes
  BY <1>2 DEF Hands, TaskInv, Sends, Takes, SendNode
<1> QED BY <1>1, <1>2, CarryingIs

(* A queue without repetitions, when a node joins it and when the first     *)
(* one leaves it.                                                           *)
Contents(q) == {q[i] : i \in 1 .. Len(q)}

LEMMA QueueAppend ==
  ASSUME NEW S, NEW q \in Seq(S), NEW n \in S, NoRepeats(q), n \notin Contents(q)
  PROVE  /\ Append(q, n) \in Seq(S)
         /\ NoRepeats(Append(q, n))
         /\ Contents(Append(q, n)) = Contents(q) \cup {n}
<1> DEFINE r == Append(q, n)
<1>1. /\ r \in Seq(S) /\ Len(r) = Len(q) + 1 /\ Len(q) \in Nat
      /\ \A i \in 1 .. Len(q) : r[i] = q[i]
      /\ r[Len(q) + 1] = n
  OBVIOUS
<1> HIDE DEF r
<1>2. 1 .. Len(r) = (1 .. Len(q)) \cup {Len(q) + 1}
  BY <1>1
<1>3. Contents(r) = Contents(q) \cup {n}
  BY <1>1, <1>2 DEF Contents
<1>4. NoRepeats(r)
  <2> SUFFICES ASSUME NEW i \in 1 .. Len(r), NEW j \in 1 .. Len(r), r[i] = r[j], i # j
               PROVE  FALSE
    BY DEF NoRepeats
  <2>1. \A k \in 1 .. Len(q) : q[k] # n
    BY DEF Contents
  <2>2. CASE i \in 1 .. Len(q) /\ j \in 1 .. Len(q)
    BY <2>2, <1>1 DEF NoRepeats
  <2>3. CASE i = Len(q) + 1 /\ j \in 1 .. Len(q)
    BY <2>3, <2>1, <1>1
  <2>4. CASE j = Len(q) + 1 /\ i \in 1 .. Len(q)
    BY <2>4, <2>1, <1>1
  <2> QED BY <2>2, <2>3, <2>4, <1>2
<1> QED BY <1>1, <1>3, <1>4 DEF r

LEMMA QueueTail ==
  ASSUME NEW S, NEW q \in Seq(S), NoRepeats(q), q # <<>>
  PROVE  /\ Tail(q) \in Seq(S)
         /\ NoRepeats(Tail(q))
         /\ Head(q) \in Contents(q)
         /\ Contents(Tail(q)) = Contents(q) \ {Head(q)}
<1> DEFINE r == Tail(q)
<1>1. /\ r \in Seq(S) /\ Len(q) \in Nat \ {0} /\ Len(r) = Len(q) - 1
      /\ \A i \in 1 .. Len(r) : r[i] = q[i + 1]
      /\ Head(q) = q[1]
  OBVIOUS
<1> HIDE DEF r
<1>2. NoRepeats(r)
  BY <1>1 DEF NoRepeats
<1>3. Head(q) \in Contents(q)
  BY <1>1 DEF Contents
<1>4. \A i \in 1 .. Len(r) : q[i + 1] # Head(q)
  BY <1>1 DEF NoRepeats
<1>5. Contents(r) \subseteq Contents(q) \ {Head(q)}
  BY <1>1, <1>4 DEF Contents
<1>6. ASSUME NEW i \in 1 .. Len(q), q[i] # Head(q) PROVE q[i] \in Contents(r)
  <2>1. i - 1 \in 1 .. Len(r) /\ r[i - 1] = q[i]
    BY <1>1, <1>6
  <2> QED BY <2>1 DEF Contents
<1>7. Contents(q) \ {Head(q)} \subseteq Contents(r)
  BY <1>6 DEF Contents
<1> QED BY <1>1, <1>2, <1>3, <1>5, <1>7 DEF r

LEMMA EmptyQueue ==
  ASSUME NEW S, NEW q \in Seq(S)
  PROVE  Contents(q) = {} <=> q = <<>>
<1>1. Len(q) \in Nat /\ (Len(q) = 0 <=> q = <<>>)
  OBVIOUS
<1>2. Len(q) # 0 => 1 \in 1 .. Len(q)
  BY <1>1
<1>3. Len(q) = 0 => 1 .. Len(q) = {}
  BY <1>1
<1> QED BY <1>1, <1>2, <1>3 DEF Contents

LEMMA InQueueIs == \A s : InQueue(s) = Contents(d_list_u[s])
  BY DEF InQueue, Contents

(* References.                                                              *)
NodeRef(n, f) == n \in Carrying /\ data[n] = f

RefsAre ==
  \A f, k, x :
    <<k, x>> \in Refs(f) <=>
      \/ k = "task" /\ x \in Streams /\ TaskRef(x, f)
      \/ k = "node" /\ NodeRef(x, f)
      \/ k = "got" /\ x \in Streams /\ f \in got[x]
      \/ k = "held" /\ x \in Streams /\ f \in held[x]

LEMMA RefsIs == RefsAre
<1> USE DEF RefsAre
<1> TAKE f, k, x
<1> DEFINE A == {s \in Streams : frm[s] = f /\ pc[s] \in SendPcs \cup {"recv_free"}}
           B == {n \in Carrying : data[n] = f}
           C == {s \in Streams : f \in got[s]}
           D == {s \in Streams : f \in held[s]}
<1>1. Refs(f) = ({"task"} \X A) \cup ({"node"} \X B) \cup ({"got"} \X C) \cup ({"held"} \X D)
  BY DEF Refs
<1>2. /\ x \in A <=> x \in Streams /\ TaskRef(x, f)
      /\ x \in B <=> NodeRef(x, f)
      /\ x \in C <=> x \in Streams /\ f \in got[x]
      /\ x \in D <=> x \in Streams /\ f \in held[x]
  BY DEF TaskRef, NodeRef
<1> HIDE DEF A, B, C, D
<1>3. \A t, S : <<k, x>> \in {t} \X S <=> k = t /\ x \in S
  OBVIOUS
<1>4. <<k, x>> \in Refs(f) <=> (<<k, x>> \in {"task"} \X A \/ <<k, x>> \in {"node"} \X B
                                 \/ <<k, x>> \in {"got"} \X C \/ <<k, x>> \in {"held"} \X D)
  BY <1>1
<1> QED BY <1>2, <1>3, <1>4, Zenon

RefKinds == {"task", "node", "got", "held"}
LEMMA RefsIn ==
  ASSUME TypeOK, TaskInv, NEW f
  PROVE  Refs(f) \subseteq RefKinds \X (Streams \cup Nodes)
  BY CarryingAreNodes DEF Refs, RefKinds

LEMMA RefsFinite ==
  ASSUME TypeOK, TaskInv, NEW f
  PROVE  IsFiniteSet(Refs(f)) /\ Cardinality(Refs(f)) \in Nat
<1>1. IsFiniteSet(RefKinds)
  <2>1. IsFiniteSet({"task"}) /\ IsFiniteSet({"node"}) /\ IsFiniteSet({"got"})
        /\ IsFiniteSet({"held"})
    BY FS_Singleton
  <2>2. IsFiniteSet({"task"} \cup {"node"}) /\ IsFiniteSet({"got"} \cup {"held"})
    BY <2>1, FS_Union
  <2>3. IsFiniteSet(({"task"} \cup {"node"}) \cup ({"got"} \cup {"held"}))
    BY <2>2, FS_Union
  <2>4. RefKinds = ({"task"} \cup {"node"}) \cup ({"got"} \cup {"held"})
    BY DEF RefKinds
  <2> QED BY <2>3, <2>4
<1>2. IsFiniteSet(Streams \cup Nodes)
  BY SizeAssumption, FS_Union
<1>3. IsFiniteSet(RefKinds \X (Streams \cup Nodes))
  BY <1>1, <1>2, FS_Product
<1>4. IsFiniteSet(Refs(f))
  BY <1>3, RefsIn, FS_Subset
<1> QED BY <1>4, FS_CardinalityType

LEMMA RefsNext == RefsAre'
  BY RefsIs, PTL

RefsPairs == \A f : \A r \in Refs(f) : r = <<r[1], r[2]>>
LEMMA RefsArePairs == RefsPairs
  BY DEF Refs, RefsPairs
LEMMA RefsPairsNext == RefsPairs'
  BY RefsArePairs, PTL

LEMMA CarryingNext ==
  (\A n : n \in Carrying <=> \E s \in Streams : n \in InQueue(s) \/ Hands(s, n))'
  BY CarryingIs, PTL

(* How the references to one frame change in a step: not at all, by one     *)
(* more, by one less, or one for another.                                   *)
Ref(f, r) == r \in Refs(f)

LEMMA RefsSame ==
  ASSUME NEW f, \A k, x : Ref(f, <<k, x>>)' <=> Ref(f, <<k, x>>)
  PROVE  Refs(f)' = Refs(f)
<1>1. ASSUME NEW r, r \in Refs(f) PROVE r \in Refs(f)'
  BY <1>1, RefsArePairs DEF RefsPairs, Ref
<1>2. ASSUME NEW r, r \in Refs(f)' PROVE r \in Refs(f)
  BY <1>2, RefsPairsNext DEF RefsPairs, Ref
<1> QED BY <1>1, <1>2

LEMMA PartsSame ==
  ASSUME NEW f,
         \A x \in Streams : /\ TaskRef(x, f)' <=> TaskRef(x, f)
                            /\ (f \in got[x])' <=> f \in got[x]
                            /\ (f \in held[x])' <=> f \in held[x],
         \A n : NodeRef(n, f)' <=> NodeRef(n, f)
  PROVE  Refs(f)' = Refs(f)
<1> SUFFICES ASSUME NEW k, NEW x PROVE Ref(f, <<k, x>>)' <=> Ref(f, <<k, x>>)
  BY RefsSame
<1>1. Ref(f, <<k, x>>) <=> \/ k = "task" /\ x \in Streams /\ TaskRef(x, f)
                           \/ k = "node" /\ NodeRef(x, f)
                           \/ k = "got" /\ x \in Streams /\ f \in got[x]
                           \/ k = "held" /\ x \in Streams /\ f \in held[x]
  BY RefsIs DEF RefsAre, Ref
<1>2. Ref(f, <<k, x>>)' <=> \/ k = "task" /\ x \in Streams /\ TaskRef(x, f)'
                            \/ k = "node" /\ NodeRef(x, f)'
                            \/ k = "got" /\ x \in Streams /\ (f \in got[x])'
                            \/ k = "held" /\ x \in Streams /\ (f \in held[x])'
  BY RefsNext DEF RefsAre, Ref
<1> QED BY <1>1, <1>2

LEMMA RefsGain ==
  ASSUME TypeOK, TaskInv, NEW f, NEW k0, NEW x0,
         ~Ref(f, <<k0, x0>>), Ref(f, <<k0, x0>>)',
         \A k, x : <<k, x>> # <<k0, x0>> => (Ref(f, <<k, x>>)' <=> Ref(f, <<k, x>>))
  PROVE  Cardinality(Refs(f)') = Cardinality(Refs(f)) + 1
<1>1. Refs(f)' = Refs(f) \cup {<<k0, x0>>}
  <2>1. ASSUME NEW r, r \in Refs(f) PROVE r \in Refs(f)'
    BY <2>1, RefsArePairs DEF RefsPairs, Ref
  <2>2. ASSUME NEW r, r \in Refs(f)', r # <<k0, x0>> PROVE r \in Refs(f)
    BY <2>2, RefsPairsNext DEF RefsPairs, Ref
  <2> QED BY <2>1, <2>2 DEF Ref
<1> QED BY <1>1, RefsFinite, FS_AddElement DEF Ref

LEMMA RefsLoss ==
  ASSUME TypeOK, TaskInv, NEW f, NEW k0, NEW x0,
         Ref(f, <<k0, x0>>), ~Ref(f, <<k0, x0>>)',
         \A k, x : <<k, x>> # <<k0, x0>> => (Ref(f, <<k, x>>)' <=> Ref(f, <<k, x>>))
  PROVE  /\ Cardinality(Refs(f)') = Cardinality(Refs(f)) - 1
         /\ Refs(f)' = {} <=> Cardinality(Refs(f)) = 1
<1>1. Refs(f)' = Refs(f) \ {<<k0, x0>>}
  <2>1. ASSUME NEW r, r \in Refs(f), r # <<k0, x0>> PROVE r \in Refs(f)'
    BY <2>1, RefsArePairs DEF RefsPairs, Ref
  <2>2. ASSUME NEW r, r \in Refs(f)' PROVE r \in Refs(f)
    BY <2>2, RefsPairsNext DEF RefsPairs, Ref
  <2> QED BY <2>1, <2>2 DEF Ref
<1>2. Cardinality(Refs(f)') = Cardinality(Refs(f)) - 1
  BY <1>1, RefsFinite, FS_RemoveElement DEF Ref
<1>3. IsFiniteSet(Refs(f)')
  <2>1. IsFiniteSet(Refs(f) \ {<<k0, x0>>})
    BY RefsFinite, FS_RemoveElement
  <2> QED BY <1>1, <2>1
<1>4. Refs(f)' = {} <=> Cardinality(Refs(f)') = 0
  BY <1>3, FS_EmptySet
<1> QED BY <1>2, <1>4, RefsFinite

LEMMA RefsMove ==
  ASSUME TypeOK, TaskInv, NEW f, NEW k0, NEW x0, NEW k1, NEW x1,
         Ref(f, <<k0, x0>>), ~Ref(f, <<k0, x0>>)',
         ~Ref(f, <<k1, x1>>), Ref(f, <<k1, x1>>)',
         \A k, x : <<k, x>> \notin {<<k0, x0>>, <<k1, x1>>}
                     => (Ref(f, <<k, x>>)' <=> Ref(f, <<k, x>>))
  PROVE  Cardinality(Refs(f)') = Cardinality(Refs(f))
<1> DEFINE R == Refs(f) \ {<<k0, x0>>}
<1>1. Refs(f)' = R \cup {<<k1, x1>>}
  <2>1. ASSUME NEW r, r \in R PROVE r \in Refs(f)'
    BY <2>1, RefsArePairs DEF RefsPairs, Ref
  <2>2. ASSUME NEW r, r \in Refs(f)', r # <<k1, x1>> PROVE r \in R
    BY <2>2, RefsPairsNext DEF RefsPairs, Ref
  <2> QED BY <2>1, <2>2 DEF Ref
<1>2. IsFiniteSet(R) /\ Cardinality(R) = Cardinality(Refs(f)) - 1
  BY RefsFinite, FS_RemoveElement DEF Ref
<1>3. <<k1, x1>> \notin R
  BY DEF Ref
<1>4. Cardinality(R \cup {<<k1, x1>>}) = Cardinality(R) + 1
  BY <1>2, <1>3, FS_AddElement
<1> QED BY <1>1, <1>2, <1>4, RefsFinite

-----------------------------------------------------------------------------
(* The types.                                                               *)
LEMMA TypeInit == Init => TypeOK
  BY NullAssumption DEF Init, TypeOK, UsedStates, ISUED, Pcs

(* What the steps that can lose a race did when they lost none.             *)
LEMMA NoRaceYet ==
  ASSUME NEW k, NEW happens \in BOOLEAN, Race(k, happens), raced' = {}
  PROVE  ~happens /\ raced = {}
  BY DEF Race

LEMMA NotTorn ==
  ASSUME NEW s \in Streams, send_store(s), raced' = {}
  PROVE  ref[frm[s]] = tmp[s]
  BY NoRaceYet DEF send_store

LEMMA NotReused ==
  ASSUME NEW s \in Streams, recv_free(s), raced' = {}
  PROVE  data[node[s]] = frm[s]
  BY NoRaceYet DEF recv_free

LEMMA NotCut ==
  ASSUME NEW s \in Streams, close_drain(s), d_list_u[s] # <<>>, raced' = {}
  PROVE  Dequeue(s) /\ Free(s, data[Head(d_list_u[s])], "drain_node")
<1>1. ~(Len(d_list_u[s]) # tmp[s])
  BY NoRaceYet DEF close_drain
<1> QED BY <1>1 DEF close_drain, Dequeue

LEMMA NotFreed ==
  ASSUME NEW s \in Streams, mark(s), raced' = {}
  PROVE  /\ d_list_u[s] = <<>>
         /\ \A x \in Streams : pc[x] \in SendNode => to[x] # s
  BY NoRaceYet DEF mark

LEMMA RacesStay ==
  ASSUME [Next]_vars, raced' = {}
  PROVE  raced = {}
<1>1. CASE UNCHANGED vars
  BY <1>1 DEF vars
<1>2. ASSUME NEW s \in Streams, Inside(s) PROVE raced = {}
  BY <1>2, NoRaceYet
     DEF Inside, send_each, send_pop, send_load, send_store, send_append, send_finish,
         recv_keep, recv_filter, recv_free, close_head, close_drain, close_drain_node,
         close_end, recycle, free_end
<1>3. ASSUME NEW s \in Streams, Call(s) PROVE raced = {}
  BY <1>3 DEF Call, Giveback, recv_real_data, free_got, free_held, enable_stream,
              close_stream, open_stream, get_src_data_f, hold_data, send_data_to_stream,
              force_del_data, Issue
<1>4. ASSUME NEW s \in Streams, mark(s) PROVE raced = {}
  BY <1>4, NoRaceYet DEF mark
<1> QED BY <1>1, <1>2, <1>3, <1>4 DEF Next

LEMMA DropType ==
  ASSUME TypeOK, NEW s \in Streams, NEW f \in Frames,
         NEW next \in Pcs, next \in {"idle", "drain_node"}, Drop(s, f, next)
  PROVE  /\ ref' \in [Frames -> Int]
         /\ pc' \in [Streams -> Pcs]
         /\ cont' \in [Streams -> {"idle", "drain_node"}]
         /\ frm' \in [Streams -> Frames \cup {Null}]
<1> USE DEF TypeOK, Pcs
<1>1. ref' \in [Frames -> Int]
  BY DEF Drop
<1>2. CASE Last(f) /\ Go(s, "recycle") /\ frm' = [frm EXCEPT ![s] = f]
           /\ cont' = [cont EXCEPT ![s] = next]
  BY <1>1, <1>2 DEF Go
<1>3. CASE Go(s, next) /\ frm' = [frm EXCEPT ![s] = Null] /\ UNCHANGED cont
  BY <1>1, <1>3 DEF Go
<1> QED BY <1>2, <1>3 DEF Drop

LEMMA TypeInside ==
  ASSUME TypeOK, TaskInv, raced' = {}, NEW s \in Streams, Inside(s)
  PROVE  TypeOK'
<1> USE DEF TypeOK, Go, Pcs, lists, state, count, keeps, locals
<1>1. CASE send_each(s)
  <2>1. PICK d \in todo[s] :
          /\ todo' = [todo EXCEPT ![s] = @ \ {d}]
          /\ \/ UNCHANGED <<pc, to>>
             \/ to' = [to EXCEPT ![s] = d] /\ Go(s, "send_pop")
    BY <1>1 DEF send_each
  <2>2. d \in Streams /\ todo' \in [Streams -> SUBSET Streams]
    BY <2>1
  <2>3. to' \in [Streams -> Streams \cup {Null}] /\ pc' \in [Streams -> Pcs]
    <3>1. CASE UNCHANGED <<pc, to>>
      BY <3>1
    <3>2. CASE to' = [to EXCEPT ![s] = d] /\ Go(s, "send_pop")
      <4>1. to' \in [Streams -> Streams \cup {Null}]
        BY <2>2, <3>2
      <4>2. pc' \in [Streams -> Pcs]
        BY <3>2
      <4> QED BY <4>1, <4>2
    <3> QED BY <2>1, <3>1, <3>2
  <2> QED BY <1>1, <2>2, <2>3 DEF send_each
<1>2. CASE send_pop(s)
  <2>1. ASSUME NEW n \in d_list_f, d_list_f' = d_list_f \ {n},
               node' = [node EXCEPT ![s] = n], Go(s, "send_load"), UNCHANGED to
        PROVE  TypeOK'
    BY <1>2, <2>1 DEF send_pop
  <2>2. ASSUME to' = [to EXCEPT ![s] = Null], Go(s, "send"), UNCHANGED <<d_list_f, node>>
        PROVE  TypeOK'
    BY <1>2, <2>2 DEF send_pop
  <2> QED BY <1>2, <2>1, <2>2 DEF send_pop
<1>3. CASE send_load(s)
  <2>1. frm[s] \in Frames
    BY <1>3 DEF send_load, At, TaskInv, Sends, SendPcs
  <2> QED BY <1>3, <2>1 DEF send_load
<1>4. CASE send_store(s)
  <2>1. frm[s] \in Frames /\ node[s] \in Nodes
    BY <1>4 DEF send_store, At, TaskInv, Sends, SendPcs, SendNode
  <2> QED BY <1>4, <2>1 DEF send_store, Counted, Point
<1>5. CASE send_append(s)
  <2>1. node[s] \in Nodes /\ to[s] \in Streams
    BY <1>5 DEF send_append, At, TaskInv, Sends, ToPcs, SendNode
  <2>2. Append(d_list_u[to[s]], node[s]) \in Seq(Nodes)
    BY <2>1
  <2>3. d_list_u' \in [Streams -> Seq(Nodes)]
    BY <1>5, <2>1, <2>2 DEF send_append
  <2> QED BY <1>5, <2>3 DEF send_append
<1>6. CASE send_finish(s)
  <2>1. frm[s] \in Frames
    BY <1>6 DEF send_finish, At, TaskInv, Sends, SendPcs
  <2> QED BY <1>6, <2>1, DropType DEF send_finish
<1>7. CASE recv_keep(s)
  <2>1. node[s] \in Nodes
    BY <1>7 DEF recv_keep, At, TaskInv, Takes
  <2> QED BY <1>7, <2>1 DEF recv_keep, NodeBack
<1>8. CASE recv_filter(s)
  <2>1. node[s] \in Nodes
    BY <1>8 DEF recv_filter, At, TaskInv, Takes
  <2> QED BY <1>8, <2>1 DEF recv_filter, NodeBack
<1>9. CASE recv_free(s)
  <2>1. node[s] \in Nodes
    BY <1>9 DEF recv_free, At, TaskInv, Takes
  <2>2. CASE data[node[s]] # Null /\ Drop(s, data[node[s]], "idle")
    BY <1>9, <2>1, <2>2, DropType DEF recv_free
  <2>3. CASE Go(s, "idle") /\ frm' = [frm EXCEPT ![s] = Null] /\ UNCHANGED <<ref, cont>>
    BY <1>9, <2>1, <2>3 DEF recv_free
  <2> QED BY <1>9, <2>2, <2>3 DEF recv_free, Free
<1>10. CASE close_drain(s)
  <2>1. /\ d_list_u[s] # <<>> /\ Head(d_list_u[s]) \in Nodes
        /\ Tail(d_list_u[s]) \in Seq(Nodes)
    BY <1>10 DEF close_drain, At, TaskInv, Drains
  <2>2. d_list_u' \in [Streams -> Seq(Nodes)] /\ node' \in [Streams -> Nodes \cup {Null}]
    BY <1>10, <2>1, NotCut DEF Dequeue
  <2> DEFINE f == data[Head(d_list_u[s])]
  <2>3. f \in Frames \cup {Null}
    BY <2>1
  <2> HIDE DEF f
  <2>4. CASE f # Null /\ Drop(s, f, "drain_node")
    BY <1>10, <2>2, <2>3, <2>4, DropType DEF close_drain
  <2>5. CASE f = Null /\ Go(s, "drain_node") /\ frm' = [frm EXCEPT ![s] = Null]
             /\ UNCHANGED <<ref, cont>>
    BY <1>10, <2>2, <2>5 DEF close_drain
  <2> QED BY <1>10, <2>4, <2>5 DEF close_drain, Free, f
<1>11. CASE close_drain_node(s)
  <2>1. node[s] \in Nodes
    BY <1>11 DEF close_drain_node, At, TaskInv, Drains, InHand, NodePcs
  <2> QED BY <1>11, <2>1 DEF close_drain_node, NodeBack
<1>12. CASE close_end(s)
  BY <1>12 DEF close_end, UsedStates, WAIT_GC_MARKER
<1>13. CASE recycle(s)
  <2>1. frm[s] \in Frames
    BY <1>13 DEF recycle, At, TaskInv, Drains
  <2> QED BY <1>13, <2>1 DEF recycle, Restore
<1>14. CASE close_head(s)
  BY <1>14 DEF close_head
<1>15. CASE free_end(s)
  BY <1>15 DEF free_end
<1> QED BY <1>1, <1>2, <1>3, <1>4, <1>5, <1>6, <1>7, <1>8, <1>9, <1>10, <1>11, <1>12, <1>13,
           <1>14, <1>15 DEF Inside

LEMMA TypeCall ==
  ASSUME TypeOK, NEW s \in Streams, Call(s)
  PROVE  TypeOK'
<1> USE DEF TypeOK, Go, Pcs, lists, state, count, keeps, locals
<1>1. CASE recv_real_data(s)
  <2>1. Head(d_list_u[s]) \in Nodes /\ Tail(d_list_u[s]) \in Seq(Nodes)
    BY <1>1 DEF recv_real_data, Dequeue
  <2> QED BY <1>1, <2>1 DEF recv_real_data, Dequeue
<1>2. ASSUME NEW f \in Frames, free_got(s, f) PROVE TypeOK'
  BY <1>2, DropType DEF free_got
<1>3. ASSUME NEW f \in Frames, free_held(s, f) PROVE TypeOK'
  BY <1>3, DropType DEF free_held
<1>4. CASE enable_stream(s)
  BY <1>4 DEF enable_stream
<1>5. CASE close_stream(s)
  BY <1>5 DEF close_stream, UsedStates, UNAVAILABLE
<1>6. CASE open_stream(s)
  BY <1>6 DEF open_stream, UsedStates, ISUED, FramesOf, NodesOf
<1>7. ASSUME NEW f \in Frames, get_src_data_f(s, f) PROVE TypeOK'
  BY <1>7 DEF get_src_data_f
<1>8. ASSUME NEW f \in Frames, hold_data(s, f) PROVE TypeOK'
  BY <1>8 DEF hold_data
<1>9. ASSUME NEW f \in Frames, NEW D \in SUBSET Streams, Issue(s, f, D) PROVE TypeOK'
  BY <1>9 DEF Issue
<1>10. s_list[s] \in SUBSET Streams /\ {} \in SUBSET Streams
  BY OwnersAssumption
<1> QED BY <1>1, <1>2, <1>3, <1>4, <1>5, <1>6, <1>7, <1>8, <1>9, <1>10
        DEF Call, Giveback, send_data_to_stream, force_del_data

LEMMA TypeMark ==
  ASSUME TypeOK, raced' = {}, NEW s \in Streams, mark(s)
  PROVE  TypeOK'
  BY DEF TypeOK, mark, count, keeps, locals, UsedStates, AVAILABLE_AGAIN
-----------------------------------------------------------------------------
(* A step of the task of s: no other task moves.                            *)
Stays(x) == UNCHANGED <<pc[x], cont[x], frm[x], node[x], to[x], todo[x], tmp[x]>>
OnlyTask(s) == \A x \in Streams \ {s} : Stays(x)

LEMMA OthersKeep ==
  ASSUME TypeOK, IInv, NEW s \in Streams, OnlyTask(s), NEW x \in Streams \ {s},
         used'[x] = used[x],
         d_list_u[x] # <<>> => d_list_u'[x] # <<>>,
         pc[x] = "send_append" => data'[node[x]] = data[node[x]],
         pc[x] \in SendPcs \cup {"recycle"} => frm[x] \in src_d_list_u',
         pc[x] = "recycle" => Refs(frm[x])' = {}
  PROVE  Sends(x)' /\ Takes(x)' /\ Drains(x)'
<1>1. Sends(x) /\ Takes(x) /\ Drains(x)
  BY DEF IInv, TaskInv
<1>2. /\ pc'[x] = pc[x] /\ cont'[x] = cont[x] /\ frm'[x] = frm[x] /\ node'[x] = node[x]
      /\ to'[x] = to[x] /\ todo'[x] = todo[x]
  BY DEF OnlyTask, Stays
<1>3. Sends(x)'
  BY <1>1, <1>2 DEF Sends, ToPcs, SendNode, SendPcs
<1>4. Takes(x)'
  BY <1>1, <1>2 DEF Takes
<1>5. Drains(x)'
  <2>1. x \in InHand' <=> x \in InHand
    BY <1>2 DEF InHand
  <2> QED BY <1>1, <1>2, <2>1 DEF Drains
<1> QED BY <1>3, <1>4, <1>5

LEMMA NodeElsewhere ==
  ASSUME NEW m \in Nodes, NodePlaced(m),
         (m \in d_list_f)' <=> m \in d_list_f,
         (m \in InQueue(dest[m]))' <=> m \in InQueue(dest[m]),
         \A x \in Streams : HasNode(x, m)' <=> HasNode(x, m),
         (used[dest[m]] = AVAILABLE_AGAIN)' <=> used[dest[m]] = AVAILABLE_AGAIN
  PROVE  NodePlaced(m)'
  BY DEF NodePlaced

LEMMA OthersQuiet ==
  ASSUME TypeOK, IInv, NEW s \in Streams, OnlyTask(s),
         \A x \in Streams \ {s} : used'[x] = used[x],
         \A x \in Streams \ {s} : d_list_u[x] # <<>> => d_list_u'[x] # <<>>,
         \A x \in Streams \ {s} : pc[x] = "send_append" => data'[node[x]] = data[node[x]],
         src_d_list_u \subseteq src_d_list_u',
         \A g \in src_d_list_u : Refs(g) = {} => Refs(g)' = {}
  PROVE  \A x \in Streams \ {s} : Sends(x)' /\ Takes(x)' /\ Drains(x)'
<1> TAKE x \in Streams \ {s}
<1>1. pc[x] \in SendPcs \cup {"recycle"} => frm[x] \in src_d_list_u
  BY DEF IInv, TaskInv, Drains, Sends, SendPcs
<1>2. /\ pc[x] = "recycle" => Refs(frm[x]) = {}
      /\ pc'[x] = pc[x] /\ frm'[x] = frm[x]
  BY DEF IInv, TaskInv, Drains, OnlyTask, Stays
<1>3. PICK g : g = frm[x]
  OBVIOUS
<1>4. pc[x] = "recycle" => Refs(frm[x])' = {}
  <2>1. pc[x] = "recycle" => Refs(g)' = {}
    BY <1>1, <1>2, <1>3
  <2>2. frm'[x] = g
    BY <1>2, <1>3
  <2> QED BY <2>1, <2>2
<1> QED BY <1>1, <1>4, OthersKeep

LEMMA CarryingSame ==
  ASSUME \A m : \A x \in Streams : /\ (m \in InQueue(x))' <=> m \in InQueue(x)
                                   /\ Hands(x, m)' <=> Hands(x, m)
  PROVE  Carrying' = Carrying
  BY CarryingIs, CarryingNext

(* What a step leaves alone. *)
LEMMA RefsUntouched ==
  ASSUME Carrying' = Carrying, \A n \in Carrying : data'[n] = data[n],
         UNCHANGED <<got, held>>,
         \A x \in Streams : \A g : TaskRef(x, g)' <=> TaskRef(x, g)
  PROVE  \A g : Refs(g)' = Refs(g)
<1> TAKE g
<1>1. \A n : NodeRef(n, g)' <=> NodeRef(n, g)
  BY DEF NodeRef
<1> QED BY <1>1, PartsSame

LEMMA FramesUntouched ==
  ASSUME IInv, UNCHANGED <<src_d_list_f, src_d_list_u, filling, ref>>,
         \A d \in Streams : \/ used'[d] = used[d]
                            \/ /\ AVAILABLE_AGAIN \notin {used'[d], used[d]}
                               /\ \A g \in filling : src[g] # d,
         \A g \in Frames : Refs(g)' = Refs(g)
  PROVE  /\ FramesCounted' /\ SharedIsOut'
         /\ \A g \in Frames : FramePlaced(g)' /\ Filled(g)'
<1>1. FramesCounted' /\ SharedIsOut'
  BY DEF IInv, FramesCounted, SharedIsOut
<1>2. \A g \in Frames : FramePlaced(g)'
  BY OwnersAssumption DEF IInv, PlaceInv, FramePlaced
<1>3. \A g \in Frames : Filled(g)'
  BY OwnersAssumption DEF IInv, PlaceInv, Filled
<1> QED BY <1>1, <1>2, <1>3

LEMMA NodesUntouched ==
  ASSUME IInv, UNCHANGED <<d_list_f, d_list_u>>,
         \A d \in Streams : used'[d] = AVAILABLE_AGAIN <=> used[d] = AVAILABLE_AGAIN,
         \A x \in Streams, m \in Nodes : HasNode(x, m)' <=> HasNode(x, m)
  PROVE  Queues' /\ \A m \in Nodes : NodePlaced(m)'
<1>1. \A x \in Streams : InQueue(x)' = InQueue(x)
  BY DEF InQueue
<1>2. Queues'
  BY <1>1 DEF IInv, PlaceInv, Queues, NodesOf
<1>3. ASSUME NEW m \in Nodes PROVE NodePlaced(m)'
  <2>1. dest[m] \in Streams /\ NodePlaced(m)
    BY OwnersAssumption DEF IInv, PlaceInv
  <2> QED BY <1>1, <2>1, NodeElsewhere
<1> QED BY <1>2, <1>3

LEMMA OnceKept ==
  ASSUME TypeOK, IInv, Carrying' \subseteq Carrying, \A n \in Carrying' : data'[n] = data[n],
         \A x \in Streams : got'[x] \subseteq got[x],
         \A x \in Streams : Owed(x)' # {} => Owed(x)' \subseteq Owed(x) /\ frm'[x] = frm[x]
  PROVE  Once'
<1>1. \A n \in Carrying' : data'[n] \in Frames /\ data'[n] \notin got'[dest[n]]
  <2> SUFFICES ASSUME NEW n \in Carrying' PROVE data[n] \in Frames /\ data[n] \notin got'[dest[n]]
    OBVIOUS
  <2>1. n \in Nodes
    BY CarryingAreNodes DEF IInv
  <2>2. dest[n] \in Streams
    BY <2>1, OwnersAssumption
  <2> QED BY <2>2 DEF IInv, Once
<1>2. \A n, m \in Carrying' : dest[n] = dest[m] /\ data'[n] = data'[m] => n = m
  BY DEF IInv, Once
<1>3. ASSUME NEW x \in Streams, NEW d \in Owed(x)' PROVE ~Has(d, frm[x])'
  <2>1. d \in Owed(x) /\ frm'[x] = frm[x] /\ ~Has(d, frm[x])
    BY <1>3 DEF IInv, Once
  <2>2. d \in Streams
    BY <2>1 DEF Owed, TypeOK, IInv, TaskInv, Sends, ToPcs
  <2> QED BY <2>1, <2>2 DEF Has
<1> QED BY <1>1, <1>2, <1>3 DEF Once

(* A node goes back to its free list from the hand of the task of its       *)
(* stream.                                                                  *)
LEMMA NodeGoesBack ==
  ASSUME TypeOK, IInv, NEW s \in Streams, OnlyTask(s), UNCHANGED <<d_list_u, used>>,
         NEW n \in Nodes, HasNode(s, n), dest[n] = s, used[s] # AVAILABLE_AGAIN,
         d_list_f' = d_list_f \cup {n}, s \notin InHand'
  PROVE  Queues' /\ \A m \in Nodes : NodePlaced(m)'
<1>1. \A x \in Streams : InQueue(x)' = InQueue(x)
  BY DEF InQueue
<1>2. Queues'
  BY <1>1 DEF IInv, PlaceInv, Queues, NodesOf
<1>3. \A x \in Streams : \A m : HasNode(x, m)' <=> x # s /\ HasNode(x, m)
  BY DEF HasNode, InHand, OnlyTask, Stays
<1>4. ASSUME NEW m \in Nodes, m # n PROVE NodePlaced(m)'
  <2>1. dest[m] \in Streams /\ NodePlaced(m)
    BY OwnersAssumption DEF IInv, PlaceInv
  <2>2. \A x \in Streams : HasNode(x, m)' <=> HasNode(x, m)
    BY <1>3, <1>4 DEF HasNode
  <2> QED BY <1>1, <1>4, <2>1, <2>2, NodeElsewhere
<1>5. NodePlaced(n)'
  BY <1>1, <1>3 DEF IInv, PlaceInv, NodePlaced
<1> QED BY <1>2, <1>4, <1>5

(* The first node of a queue comes into the hand of the task of its stream. *)
LEMMA NodeDequeued ==
  ASSUME TypeOK, IInv, NEW s \in Streams, OnlyTask(s), UNCHANGED <<d_list_f, used>>,
         Dequeue(s), s \notin InHand, s \in InHand'
  PROVE  /\ Queues' /\ \A m \in Nodes : NodePlaced(m)'
         /\ Head(d_list_u[s]) \in InQueue(s) /\ Head(d_list_u[s]) \in Nodes
         /\ node'[s] = Head(d_list_u[s]) /\ dest[node'[s]] = s
         /\ \A x \in Streams : InQueue(x)' = InQueue(x) \ {Head(d_list_u[s])}
<1>1. PICK n : n = Head(d_list_u[s])
  OBVIOUS
<1>2. d_list_u[s] \in Seq(Nodes) /\ NoRepeats(d_list_u[s]) /\ d_list_u[s] # <<>>
  BY DEF TypeOK, IInv, PlaceInv, Queues, Dequeue
<1>3. /\ Tail(d_list_u[s]) \in Seq(Nodes) /\ NoRepeats(Tail(d_list_u[s]))
      /\ n \in Contents(d_list_u[s])
      /\ Contents(Tail(d_list_u[s])) = Contents(d_list_u[s]) \ {n}
  BY <1>1, <1>2, QueueTail
<1>4. d_list_u' = [d_list_u EXCEPT ![s] = Tail(@)] /\ node'[s] = n
  BY <1>1 DEF Dequeue, TypeOK
<1>5. \A x : InQueue(x) = Contents(d_list_u[x]) /\ InQueue(x)' = Contents(d_list_u'[x])
  BY DEF InQueue, Contents
<1>6. InQueue(s)' = InQueue(s) \ {n} /\ n \in InQueue(s)
  BY <1>3, <1>4, <1>5 DEF TypeOK
<1>7. n \in Nodes /\ dest[n] = s
  BY <1>6 DEF IInv, PlaceInv, Queues, NodesOf
<1>8. \A x \in Streams : n \in InQueue(x) => x = s
  BY <1>7 DEF IInv, PlaceInv, Queues, NodesOf
<1>9. \A x \in Streams : InQueue(x)' = InQueue(x) \ {n}
  <2> TAKE x \in Streams
  <2>1. CASE x = s
    BY <2>1, <1>6
  <2>2. CASE x # s
    <3>1. d_list_u'[x] = d_list_u[x]
      BY <1>4, <2>2 DEF TypeOK
    <3> QED BY <1>5, <1>8, <2>2, <3>1
  <2> QED BY <2>1, <2>2
<1>10. \A x \in Streams : NoRepeats(d_list_u'[x])
  BY <1>3, <1>4 DEF TypeOK, IInv, PlaceInv, Queues
<1>11. Queues'
  BY <1>9, <1>10 DEF IInv, PlaceInv, Queues, NodesOf
<1>12. \A x \in Streams : \A m : HasNode(x, m)' <=> HasNode(x, m) \/ (x = s /\ m = n)
  BY <1>4 DEF HasNode, InHand, OnlyTask, Stays
<1>13. ASSUME NEW m \in Nodes, m # n PROVE NodePlaced(m)'
  <2>1. dest[m] \in Streams /\ NodePlaced(m)
    BY OwnersAssumption DEF IInv, PlaceInv
  <2>2. \A x \in Streams : HasNode(x, m)' <=> HasNode(x, m)
    BY <1>12, <1>13
  <2> QED BY <1>9, <1>13, <2>1, <2>2, NodeElsewhere
<1>14. NodePlaced(n)'
  BY <1>6, <1>7, <1>12 DEF IInv, PlaceInv, NodePlaced
<1> QED BY <1>1, <1>4, <1>6, <1>7, <1>9, <1>11, <1>13, <1>14

(* A task gives up a reference to a frame. *)
LEMMA Dropped ==
  ASSUME TypeOK, IInv, NEW s \in Streams, OnlyTask(s),
         NEW f \in Frames, NEW next \in {"idle", "drain_node"}, Drop(s, f, next),
         UNCHANGED <<src_d_list_f, src_d_list_u, filling, used, data>>,
         \A x \in Streams \ {s} : d_list_u'[x] = d_list_u[x],
         f \notin filling, \A g : g # f => Refs(g)' = Refs(g),
         NEW k0, NEW x0, Ref(f, <<k0, x0>>), ~Ref(f, <<k0, x0>>)',
         \A k, x : <<k, x>> # <<k0, x0>> => (Ref(f, <<k, x>>)' <=> Ref(f, <<k, x>>)),
         next = "drain_node" =>
             used[s] = UNAVAILABLE /\ node'[s] \in Nodes /\ dest[node'[s]] = s
  PROVE  /\ FramesCounted' /\ SharedIsOut'
         /\ \A g \in Frames : FramePlaced(g)' /\ Filled(g)'
         /\ TaskInv' /\ RecycledOnce'
<1>1. /\ Cardinality(Refs(f)') = Cardinality(Refs(f)) - 1
      /\ Refs(f)' = {} <=> Cardinality(Refs(f)) = 1
  BY RefsLoss DEF IInv
<1>2. ref' = [ref EXCEPT ![f] = @ - 1] /\ ref[f] = Cardinality(Refs(f))
  BY DEF Drop, IInv, FramesCounted
<1>3. f \in src_d_list_u /\ Refs(f) # {}
  BY DEF IInv, SharedIsOut, Ref
<1>4. FramesCounted'
  <2>1. \A g \in Frames : ref'[g] = Cardinality(Refs(g)')
    BY <1>1, <1>2 DEF TypeOK, IInv, FramesCounted
  <2> QED BY <2>1 DEF FramesCounted
<1>5. SharedIsOut'
  BY <1>3 DEF IInv, SharedIsOut
<1>6. \A g \in Frames : FramePlaced(g)' /\ Filled(g)'
  BY DEF IInv, PlaceInv, FramePlaced, Filled
<1>7. \A x \in Streams \ {s} : Sends(x)' /\ Takes(x)' /\ Drains(x)'
  <2>1. \A g \in src_d_list_u : Refs(g) = {} => Refs(g)' = {}
    BY <1>3
  <2> QED BY <2>1, OthersQuiet
<1>8. \/ /\ pc'[s] = "recycle" /\ frm'[s] = f /\ cont'[s] = next /\ ref[f] = 1
      \/ pc'[s] = next
  BY DEF Drop, Go, Last, TypeOK
<1>9. Sends(s)' /\ Takes(s)'
  BY <1>8 DEF Sends, Takes, SendPcs, ToPcs, SendNode
<1>10. Drains(s)'
  <2>1. CASE pc'[s] = next
    BY <2>1 DEF Drains, InHand, NodePcs
  <2>2. CASE pc'[s] = "recycle" /\ frm'[s] = f /\ cont'[s] = next /\ ref[f] = 1
    <3>1. Refs(f)' = {}
      BY <1>1, <1>2, <2>2
    <3>2. Refs(frm[s])' = {}
      BY <2>2, <3>1
    <3> QED BY <1>3, <2>2, <3>2 DEF Drains, InHand, NodePcs
  <2> QED BY <1>8, <2>1, <2>2
<1>11. RecycledOnce'
  <2>1. \A x \in Streams \ {s} : pc'[x] = "recycle" => frm'[x] # f
    BY <1>3 DEF OnlyTask, Stays, IInv, TaskInv, Drains
  <2> QED BY <1>8, <2>1 DEF RecycledOnce, IInv, OnlyTask, Stays
<1> QED BY <1>4, <1>5, <1>6, <1>7, <1>9, <1>10, <1>11 DEF TaskInv

-----------------------------------------------------------------------------
(* Receiving.                                                               *)

(* A node leaves the hand of a receiving task. *)
LEMMA LeavesHand ==
  ASSUME TypeOK, IInv, NEW s \in Streams, OnlyTask(s), UNCHANGED d_list_u,
         NEW n \in Nodes, node[s] = n, dest[n] = s, pc[s] = "recv",
         pc'[s] \notin {"send_append", "recv"}
  PROVE  n \in Carrying /\ \A m : m \in Carrying' <=> m \in Carrying /\ m # n
<1>1. \A x \in Streams : \A m : Hands(x, m)' <=> x # s /\ Hands(x, m)
  BY DEF Hands, OnlyTask, Stays
<1>2. \A x \in Streams : InQueue(x)' = InQueue(x)
  BY DEF InQueue
<1>3. HasNode(s, n)
  BY DEF HasNode, InHand, NodePcs
<1>4. \A x \in Streams : n \notin InQueue(x)
  BY <1>3 DEF IInv, PlaceInv, NodePlaced, Queues, NodesOf
<1>5. \A x \in Streams : Hands(x, n) => x = s
  BY <1>3 DEF IInv, PlaceInv, NodePlaced, HasNode, InHand, NodePcs, Hands
<1>6. \A m : Hands(s, m) <=> m = n
  BY DEF Hands
<1> QED BY <1>1, <1>2, <1>4, <1>5, <1>6, CarryingIs, CarryingNext

LEMMA RecvKeep ==
  ASSUME TypeOK, TypeOK', IInv, NEW s \in Streams, recv_keep(s)
  PROVE  IInv'
<1>1. /\ pc[s] = "recv" /\ pc'[s] = "idle"
      /\ got' = [got EXCEPT ![s] = @ \cup {data[node[s]]}]
      /\ d_list_f' = d_list_f \cup {node[s]}
      /\ OnlyTask(s)
  BY DEF recv_keep, At, OnlyTask, Stays, Go, TypeOK, NodeBack
<1>2. UNCHANGED <<src_d_list_f, src_d_list_u, d_list_u, used, ref, data, filling, held, frm, todo>>
  BY DEF recv_keep, state, count
<1>3. PICK n \in Nodes : n = node[s] /\ dest[n] = s /\ used[s] = ISUED /\ HasNode(s, n)
  BY <1>1 DEF IInv, TaskInv, Takes, HasNode, InHand, NodePcs
<1>4. n \in Carrying /\ \A m : m \in Carrying' <=> m \in Carrying /\ m # n
  BY <1>1, <1>2, <1>3, LeavesHand
<1>5. PICK f \in Frames : f = data[n] /\ f \notin got[s]
  BY <1>3, <1>4 DEF IInv, Once
<1>6. \A x \in Streams : \A g : TaskRef(x, g)' <=> TaskRef(x, g)
  BY <1>1, <1>2 DEF TaskRef, SendPcs, OnlyTask, Stays
<1>7. \A g : g # f => Refs(g)' = Refs(g)
  <2> SUFFICES ASSUME NEW g, g # f PROVE Refs(g)' = Refs(g)
    OBVIOUS
  <2>1. \A x : NodeRef(x, g)' <=> NodeRef(x, g)
    BY <1>2, <1>4, <1>5 DEF NodeRef
  <2>2. \A x \in Streams : g \in got'[x] <=> g \in got[x]
    BY <1>1, <1>3, <1>5 DEF TypeOK
  <2> QED BY <1>2, <1>6, <2>1, <2>2, PartsSame
<1>8. Cardinality(Refs(f)') = Cardinality(Refs(f)) /\ <<"node", n>> \in Refs(f)
  <2>1. NodeRef(n, f) /\ \A x : NodeRef(x, f)' <=> NodeRef(x, f) /\ x # n
    BY <1>2, <1>4, <1>5 DEF NodeRef
  <2>2. \A x \in Streams : f \in got'[x] <=> f \in got[x] \/ x = s
    BY <1>1, <1>3, <1>5 DEF TypeOK
  <2>3. \A k, x : <<k, x>> \notin {<<"node", n>>, <<"got", s>>}
                     => (Ref(f, <<k, x>>)' <=> Ref(f, <<k, x>>))
    BY <1>2, <1>6, <2>1, <2>2, RefsIs, RefsNext DEF RefsAre, Ref
  <2>4. /\ Ref(f, <<"node", n>>) /\ ~Ref(f, <<"node", n>>)'
        /\ ~Ref(f, <<"got", s>>) /\ Ref(f, <<"got", s>>)'
    BY <1>5, <2>1, <2>2, RefsIs, RefsNext DEF RefsAre, Ref
  <2> QED BY <2>3, <2>4, RefsMove DEF Ref, IInv
<1>9. f \notin filling /\ Refs(f) # {}
  BY <1>8 DEF IInv, PlaceInv, Filled
<1>10. FramesCounted' /\ SharedIsOut'
  BY <1>2, <1>7, <1>8, <1>9 DEF FramesCounted, SharedIsOut, IInv
<1>11. TaskInv'
  <2>1. \A g \in src_d_list_u : Refs(g) = {} => Refs(g)' = {}
    BY <1>7, <1>9
  <2>2. Sends(s)' /\ Takes(s)' /\ Drains(s)'
    BY <1>1 DEF Sends, Takes, Drains, SendPcs, ToPcs, SendNode, InHand, NodePcs
  <2> QED BY <1>1, <1>2, <2>1, <2>2, OthersQuiet DEF TaskInv
<1>12. Queues' /\ \A m \in Nodes : NodePlaced(m)'
  <2>1. s \notin InHand'
    BY <1>1 DEF InHand, NodePcs
  <2> QED BY <1>1, <1>2, <1>3, <2>1, NodeGoesBack DEF ISUED, AVAILABLE_AGAIN
<1>13. \A g \in Frames : FramePlaced(g)' /\ Filled(g)'
  BY <1>2, <1>7, <1>9 DEF IInv, PlaceInv, FramePlaced, Filled
<1>14. Once'
  <2>1. \A x \in Streams : Owed(x)' = Owed(x)
    BY <1>1 DEF Owed, SendPcs, OnlyTask, Stays
  <2>2. \A d \in Streams : \A g : Has(d, g)' <=> Has(d, g)
    BY <1>1, <1>2, <1>3, <1>4, <1>5 DEF Has, TypeOK
  <2>3. \A m \in Carrying' : data'[m] \in Frames /\ data'[m] \notin got'[dest[m]]
    <3> SUFFICES ASSUME NEW m \in Carrying, m # n
                 PROVE  data[m] \in Frames /\ data[m] \notin got'[dest[m]]
      BY <1>2, <1>4
    <3>1. data[m] \in Frames /\ data[m] \notin got[dest[m]] /\ (dest[m] = s => data[m] # f)
      BY <1>3, <1>4, <1>5 DEF IInv, Once
    <3> QED BY <1>1, <1>3, <1>5, <3>1 DEF TypeOK
  <2>4. \A m, l \in Carrying' : dest[m] = dest[l] /\ data'[m] = data'[l] => m = l
    BY <1>2, <1>4 DEF Once, IInv
  <2>5. \A x \in Streams : \A d \in Owed(x)' : ~Has(d, frm[x])'
    <3> SUFFICES ASSUME NEW x \in Streams, NEW d \in Owed(x) PROVE ~Has(d, frm[x])'
      BY <2>1
    <3>1. d \in Streams
      BY DEF Owed, TypeOK, IInv, TaskInv, Sends, ToPcs
    <3> QED BY <1>2, <2>2, <3>1 DEF Once, IInv
  <2> QED BY <2>3, <2>4, <2>5 DEF Once
<1>15. RecycledOnce'
  BY <1>1, <1>2 DEF RecycledOnce, IInv, OnlyTask, Stays
<1> QED BY <1>10, <1>11, <1>12, <1>13, <1>14, <1>15 DEF IInv, PlaceInv

LEMMA RecvFilter ==
  ASSUME TypeOK, TypeOK', IInv, NEW s \in Streams, recv_filter(s)
  PROVE  IInv'
<1>1. /\ pc[s] = "recv" /\ pc'[s] = "recv_free" /\ node'[s] = node[s]
      /\ frm' = [frm EXCEPT ![s] = data[node[s]]]
      /\ d_list_f' = d_list_f \cup {node[s]}
      /\ OnlyTask(s)
  BY DEF recv_filter, At, OnlyTask, Stays, Go, TypeOK, NodeBack
<1>2. UNCHANGED <<src_d_list_f, src_d_list_u, d_list_u, used, ref, data, filling, got, held>>
  BY DEF recv_filter, state, count, keeps
<1>3. PICK n \in Nodes : n = node[s] /\ dest[n] = s /\ used[s] = ISUED /\ HasNode(s, n)
  BY <1>1 DEF IInv, TaskInv, Takes, HasNode, InHand, NodePcs
<1>4. n \in Carrying /\ \A m : m \in Carrying' <=> m \in Carrying /\ m # n
  BY <1>1, <1>2, <1>3, LeavesHand
<1>5. PICK f \in Frames : f = data[n]
  BY <1>3, <1>4 DEF IInv, Once
<1>6. frm'[s] = f
  BY <1>1, <1>3, <1>5 DEF TypeOK
<1>7. \A x \in Streams : \A g : TaskRef(x, g)' <=> TaskRef(x, g) \/ (x = s /\ g = f)
  BY <1>1, <1>6 DEF TaskRef, SendPcs, OnlyTask, Stays
<1>8. \A g : g # f => Refs(g)' = Refs(g)
  <2> SUFFICES ASSUME NEW g, g # f PROVE Refs(g)' = Refs(g)
    OBVIOUS
  <2>1. \A x : NodeRef(x, g)' <=> NodeRef(x, g)
    BY <1>2, <1>4, <1>5 DEF NodeRef
  <2> QED BY <1>2, <1>7, <2>1, PartsSame
<1>9. Cardinality(Refs(f)') = Cardinality(Refs(f)) /\ <<"node", n>> \in Refs(f)
  <2>1. NodeRef(n, f) /\ \A x : NodeRef(x, f)' <=> NodeRef(x, f) /\ x # n
    BY <1>2, <1>4, <1>5 DEF NodeRef
  <2>2. ~TaskRef(s, f)
    BY <1>1 DEF TaskRef, SendPcs
  <2>3. \A k, x : <<k, x>> \notin {<<"node", n>>, <<"task", s>>}
                     => (Ref(f, <<k, x>>)' <=> Ref(f, <<k, x>>))
    BY <1>2, <1>7, <2>1, RefsIs, RefsNext DEF RefsAre, Ref
  <2>4. /\ Ref(f, <<"node", n>>) /\ ~Ref(f, <<"node", n>>)'
        /\ ~Ref(f, <<"task", s>>) /\ Ref(f, <<"task", s>>)'
    BY <1>7, <2>1, <2>2, RefsIs, RefsNext DEF RefsAre, Ref
  <2> QED BY <2>3, <2>4, RefsMove DEF Ref, IInv
<1>10. f \notin filling /\ Refs(f) # {}
  BY <1>9 DEF IInv, PlaceInv, Filled
<1>11. FramesCounted' /\ SharedIsOut'
  BY <1>2, <1>8, <1>9, <1>10 DEF FramesCounted, SharedIsOut, IInv
<1>12. TaskInv'
  <2>1. \A g \in src_d_list_u : Refs(g) = {} => Refs(g)' = {}
    BY <1>8, <1>10
  <2>2. Sends(s)' /\ Takes(s)' /\ Drains(s)'
    BY <1>1, <1>2, <1>3, <1>5, <1>6
       DEF Sends, Takes, Drains, SendPcs, ToPcs, SendNode, InHand, NodePcs
  <2> QED BY <1>1, <1>2, <2>1, <2>2, OthersQuiet DEF TaskInv
<1>13. Queues' /\ \A m \in Nodes : NodePlaced(m)'
  <2>1. s \notin InHand'
    BY <1>1 DEF InHand, NodePcs
  <2> QED BY <1>1, <1>2, <1>3, <2>1, NodeGoesBack DEF ISUED, AVAILABLE_AGAIN
<1>14. \A g \in Frames : FramePlaced(g)' /\ Filled(g)'
  BY <1>2, <1>8, <1>10 DEF IInv, PlaceInv, FramePlaced, Filled
<1>15. Once'
  <2>1. \A x \in Streams : Owed(x)' # {} => Owed(x)' \subseteq Owed(x) /\ frm'[x] = frm[x]
    BY <1>1 DEF Owed, SendPcs, OnlyTask, Stays
  <2> QED BY <1>2, <1>4, <2>1, OnceKept
<1>16. RecycledOnce'
  BY <1>1, <1>2 DEF RecycledOnce, IInv, OnlyTask, Stays
<1> QED BY <1>11, <1>12, <1>13, <1>14, <1>15, <1>16 DEF IInv, PlaceInv

LEMMA RecvRealData ==
  ASSUME TypeOK, TypeOK', IInv, NEW s \in Streams, recv_real_data(s)
  PROVE  IInv'
<1>1. /\ pc[s] = "idle" /\ pc'[s] = "recv" /\ used[s] = ISUED
      /\ Dequeue(s)
      /\ OnlyTask(s)
  BY DEF recv_real_data, At, OnlyTask, Stays, Go, TypeOK, Dequeue
<1>2. UNCHANGED <<src_d_list_f, src_d_list_u, d_list_f, used, ref, data, filling, got, held, frm>>
  BY DEF recv_real_data, state, count, keeps
<1>3. PICK n : n = Head(d_list_u[s])
  OBVIOUS
<1>4. /\ Queues' /\ \A m \in Nodes : NodePlaced(m)'
      /\ n \in InQueue(s) /\ n \in Nodes /\ node'[s] = n /\ dest[n] = s
      /\ \A x \in Streams : InQueue(x)' = InQueue(x) \ {n}
  <2>1. s \notin InHand /\ s \in InHand'
    BY <1>1 DEF InHand, NodePcs
  <2> QED BY <1>1, <1>2, <1>3, <2>1, NodeDequeued
<1>5. \A x \in Streams : \A m : Hands(x, m)' <=> Hands(x, m) \/ (x = s /\ m = n)
  BY <1>1, <1>4 DEF Hands, OnlyTask, Stays
<1>6. Carrying' = Carrying
  <2>1. ASSUME NEW m, m \in Carrying PROVE m \in Carrying'
    <3>1. PICK x \in Streams : m \in InQueue(x) \/ Hands(x, m)
      BY <2>1, CarryingIs
    <3>2. m # n => m \in InQueue(x)' \/ Hands(x, m)'
      BY <1>4, <1>5, <3>1
    <3>3. m = n => Hands(s, m)'
      BY <1>5
    <3> QED BY <3>2, <3>3, CarryingNext
  <2>2. ASSUME NEW m, m \in Carrying' PROVE m \in Carrying
    <3>1. PICK x \in Streams : m \in InQueue(x)' \/ Hands(x, m)'
      BY <2>2, CarryingNext
    <3>2. m \in InQueue(x) \/ Hands(x, m) \/ m \in InQueue(s)
      BY <1>4, <1>5, <3>1
    <3> QED BY <3>2, CarryingIs
  <2> QED BY <2>1, <2>2
<1>7. \A g : Refs(g)' = Refs(g)
  <2>1. \A x \in Streams : \A g : TaskRef(x, g)' <=> TaskRef(x, g)
    BY <1>1, <1>2 DEF TaskRef, SendPcs, OnlyTask, Stays
  <2> QED BY <1>2, <1>6, <2>1, RefsUntouched
<1>8. FramesCounted' /\ SharedIsOut' /\ \A g \in Frames : FramePlaced(g)' /\ Filled(g)'
  BY <1>2, <1>7, FramesUntouched
<1>9. TaskInv'
  <2>1. Sends(s)' /\ Takes(s)' /\ Drains(s)'
    BY <1>1, <1>2, <1>4 DEF Sends, Takes, Drains, SendPcs, ToPcs, SendNode, InHand, NodePcs
  <2>2. \A x \in Streams \ {s} : d_list_u'[x] = d_list_u[x]
    BY <1>1 DEF Dequeue, TypeOK
  <2> QED BY <1>1, <1>2, <1>7, <2>1, <2>2, OthersQuiet DEF TaskInv
<1>10. Once'
  <2>1. \A x \in Streams : Owed(x)' # {} => Owed(x)' \subseteq Owed(x) /\ frm'[x] = frm[x]
    BY <1>1 DEF Owed, SendPcs, OnlyTask, Stays
  <2> QED BY <1>2, <1>6, <2>1, OnceKept
<1>11. RecycledOnce'
  BY <1>1, <1>2 DEF RecycledOnce, IInv, OnlyTask, Stays
<1> QED BY <1>4, <1>8, <1>9, <1>10, <1>11 DEF IInv, PlaceInv

LEMMA RecvFree ==
  ASSUME TypeOK, TypeOK', IInv, raced' = {}, NEW s \in Streams, recv_free(s)
  PROVE  IInv'
<1>1. pc[s] = "recv_free" /\ OnlyTask(s)
  BY DEF recv_free, At, OnlyTask, Stays, Go, TypeOK, Free, Drop, locals
<1>2. UNCHANGED <<src_d_list_f, src_d_list_u, d_list_f, d_list_u, used, data, filling, got, held>>
  BY DEF recv_free, state, keeps, lists
<1>3. node[s] \in Nodes
  BY <1>1 DEF IInv, TaskInv, Takes
<1>4. PICK f \in Frames : f = frm[s] /\ f = data[node[s]]
  BY <1>1, NotReused DEF IInv, TaskInv, Takes
<1>5. Drop(s, f, "idle")
  BY <1>4, NullAssumption DEF recv_free, Free
<1>6. pc'[s] \in {"idle", "recycle"} /\ (pc'[s] = "recycle" => cont'[s] = "idle")
  BY <1>5 DEF Drop, Go, TypeOK
<1>7. \A x \in Streams : \A g : TaskRef(x, g)' <=> x # s /\ TaskRef(x, g)
  BY <1>1, <1>6 DEF TaskRef, SendPcs, OnlyTask, Stays
<1>8. TaskRef(s, f) /\ \A g : TaskRef(s, g) => g = f
  BY <1>1, <1>4 DEF TaskRef
<1>9. Carrying' = Carrying
  <2>1. \A x \in Streams : \A m : Hands(x, m)' <=> Hands(x, m)
    BY <1>1, <1>6 DEF Hands, OnlyTask, Stays
  <2> QED BY <1>2, <2>1, CarryingSame DEF InQueue
<1>10. \A n, g : NodeRef(n, g)' <=> NodeRef(n, g)
  BY <1>2, <1>9 DEF NodeRef
<1>11. \A g : g # f => Refs(g)' = Refs(g)
  BY <1>2, <1>7, <1>8, <1>10, PartsSame
<1>12. /\ Ref(f, <<"task", s>>) /\ ~Ref(f, <<"task", s>>)'
       /\ \A k, x : <<k, x>> # <<"task", s>> => (Ref(f, <<k, x>>)' <=> Ref(f, <<k, x>>))
  BY <1>2, <1>7, <1>8, <1>10, RefsIs, RefsNext DEF RefsAre, Ref
<1>13. f \notin filling
  BY <1>12 DEF IInv, PlaceInv, Filled, Ref
<1>14. /\ FramesCounted' /\ SharedIsOut' /\ TaskInv' /\ RecycledOnce'
       /\ \A g \in Frames : FramePlaced(g)' /\ Filled(g)'
  BY <1>1, <1>2, <1>5, <1>11, <1>12, <1>13, Dropped
<1>15. Queues' /\ \A m \in Nodes : NodePlaced(m)'
  <2>1. \A x \in Streams, m \in Nodes : HasNode(x, m)' <=> HasNode(x, m)
    BY <1>1, <1>6 DEF HasNode, InHand, NodePcs, OnlyTask, Stays
  <2> QED BY <1>2, <2>1, NodesUntouched
<1>16. Once'
  <2>1. \A x \in Streams : Owed(x)' # {} => Owed(x)' \subseteq Owed(x) /\ frm'[x] = frm[x]
    BY <1>1, <1>6 DEF Owed, SendPcs, OnlyTask, Stays
  <2> QED BY <1>2, <1>9, <2>1, OnceKept
<1> QED BY <1>14, <1>15, <1>16 DEF IInv, PlaceInv

LEMMA SendFinish ==
  ASSUME TypeOK, TypeOK', IInv, NEW s \in Streams, send_finish(s)
  PROVE  IInv'
<1>1. pc[s] = "send" /\ OnlyTask(s)
  BY DEF send_finish, At, OnlyTask, Stays, Go, TypeOK, Drop
<1>2. UNCHANGED <<src_d_list_f, src_d_list_u, d_list_f, d_list_u, used, data, filling, got, held>>
  BY DEF send_finish, state, keeps, lists
<1>3. PICK f \in Frames : f = frm[s]
  BY <1>1 DEF IInv, TaskInv, Sends, SendPcs, TypeOK
<1>4. Drop(s, f, "idle")
  BY <1>3 DEF send_finish
<1>5. pc'[s] \in {"idle", "recycle"} /\ (pc'[s] = "recycle" => cont'[s] = "idle")
  BY <1>4 DEF Drop, Go, TypeOK
<1>6. \A x \in Streams : \A g : TaskRef(x, g)' <=> x # s /\ TaskRef(x, g)
  BY <1>1, <1>5 DEF TaskRef, SendPcs, OnlyTask, Stays
<1>7. TaskRef(s, f) /\ \A g : TaskRef(s, g) => g = f
  BY <1>1, <1>3 DEF TaskRef, SendPcs
<1>8. Carrying' = Carrying
  <2>1. \A x \in Streams : \A m : Hands(x, m)' <=> Hands(x, m)
    BY <1>1, <1>5 DEF Hands, OnlyTask, Stays
  <2> QED BY <1>2, <2>1, CarryingSame DEF InQueue
<1>9. \A n, g : NodeRef(n, g)' <=> NodeRef(n, g)
  BY <1>2, <1>8 DEF NodeRef
<1>10. \A g : g # f => Refs(g)' = Refs(g)
  BY <1>2, <1>6, <1>7, <1>9, PartsSame
<1>11. /\ Ref(f, <<"task", s>>) /\ ~Ref(f, <<"task", s>>)'
       /\ \A k, x : <<k, x>> # <<"task", s>> => (Ref(f, <<k, x>>)' <=> Ref(f, <<k, x>>))
  BY <1>2, <1>6, <1>7, <1>9, RefsIs, RefsNext DEF RefsAre, Ref
<1>12. f \notin filling
  BY <1>11 DEF IInv, PlaceInv, Filled, Ref
<1>13. /\ FramesCounted' /\ SharedIsOut' /\ TaskInv' /\ RecycledOnce'
       /\ \A g \in Frames : FramePlaced(g)' /\ Filled(g)'
  BY <1>1, <1>2, <1>4, <1>10, <1>11, <1>12, Dropped
<1>14. Queues' /\ \A m \in Nodes : NodePlaced(m)'
  <2>1. \A x \in Streams, m \in Nodes : HasNode(x, m)' <=> HasNode(x, m)
    BY <1>1, <1>5 DEF HasNode, InHand, NodePcs, OnlyTask, Stays
  <2> QED BY <1>2, <2>1, NodesUntouched
<1>15. Once'
  <2>1. \A x \in Streams : Owed(x)' # {} => Owed(x)' \subseteq Owed(x) /\ frm'[x] = frm[x]
    BY <1>1, <1>5 DEF Owed, SendPcs, OnlyTask, Stays
  <2> QED BY <1>2, <1>8, <2>1, OnceKept
<1> QED BY <1>13, <1>14, <1>15 DEF IInv, PlaceInv

(* A task that is in no call frees a frame it received or one it holds. *)
LEMMA FreeKept ==
  ASSUME TypeOK, TypeOK', IInv, NEW s \in Streams, NEW f \in Frames,
         free_got(s, f) \/ free_held(s, f)
  PROVE  IInv'
<1>1. pc[s] = "idle" /\ Drop(s, f, "idle")
  BY DEF free_got, free_held, At
<1>2. OnlyTask(s)
  BY DEF free_got, free_held, At, OnlyTask, Stays, Go, TypeOK, Drop
<1>3. UNCHANGED <<src_d_list_f, src_d_list_u, d_list_f, d_list_u, used, data, filling>>
  BY DEF free_got, free_held, state, lists
<1>4. pc'[s] \in {"idle", "recycle"} /\ (pc'[s] = "recycle" => cont'[s] = "idle")
  BY <1>1 DEF Drop, Go, TypeOK
<1>5. \A x \in Streams : \A g : TaskRef(x, g)' <=> TaskRef(x, g)
  BY <1>1, <1>2, <1>4 DEF TaskRef, SendPcs, OnlyTask, Stays
<1>6. Carrying' = Carrying
  <2>1. \A x \in Streams : \A m : Hands(x, m)' <=> Hands(x, m)
    BY <1>1, <1>2, <1>4 DEF Hands, OnlyTask, Stays
  <2> QED BY <1>3, <2>1, CarryingSame DEF InQueue
<1>7. \A n, g : NodeRef(n, g)' <=> NodeRef(n, g)
  BY <1>3, <1>6 DEF NodeRef
<1>8. PICK kind \in {"got", "held"} :
        /\ kind = "got" => /\ f \in got[s] /\ got' = [got EXCEPT ![s] = @ \ {f}]
                           /\ held' = held
        /\ kind = "held" => /\ f \in held[s] /\ held' = [held EXCEPT ![s] = @ \ {f}]
                            /\ got' = got /\ f \notin filling
  BY DEF free_got, free_held
<1>9. \A x \in Streams : \A g : g # f \/ x # s =>
         /\ g \in got'[x] <=> g \in got[x]
         /\ g \in held'[x] <=> g \in held[x]
  BY <1>8 DEF TypeOK
<1>10. \A g : g # f => Refs(g)' = Refs(g)
  BY <1>5, <1>7, <1>9, PartsSame
<1>11. /\ Ref(f, <<kind, s>>) /\ ~Ref(f, <<kind, s>>)'
       /\ \A k, x : <<k, x>> # <<kind, s>> => (Ref(f, <<k, x>>)' <=> Ref(f, <<k, x>>))
  <2>1. CASE kind = "got"
    <3>1. f \in got[s] /\ f \notin got'[s] /\ held' = held
      BY <1>8, <2>1 DEF TypeOK
    <3> QED BY <1>5, <1>7, <1>9, <2>1, <3>1, RefsIs, RefsNext DEF RefsAre, Ref
  <2>2. CASE kind = "held"
    <3>1. f \in held[s] /\ f \notin held'[s] /\ got' = got
      BY <1>8, <2>2 DEF TypeOK
    <3> QED BY <1>5, <1>7, <1>9, <2>2, <3>1, RefsIs, RefsNext DEF RefsAre, Ref
  <2> QED BY <2>1, <2>2
<1>12. f \notin filling
  <2>1. kind = "got" => <<"got", s>> \in Refs(f)
    BY <1>11 DEF Ref
  <2> QED BY <1>8, <2>1 DEF IInv, PlaceInv, Filled
<1>13. /\ FramesCounted' /\ SharedIsOut' /\ TaskInv' /\ RecycledOnce'
       /\ \A g \in Frames : FramePlaced(g)' /\ Filled(g)'
  BY <1>1, <1>2, <1>3, <1>10, <1>11, <1>12, Dropped
<1>14. Queues' /\ \A m \in Nodes : NodePlaced(m)'
  <2>1. \A x \in Streams, m \in Nodes : HasNode(x, m)' <=> HasNode(x, m)
    BY <1>1, <1>2, <1>4 DEF HasNode, InHand, NodePcs, OnlyTask, Stays
  <2> QED BY <1>3, <2>1, NodesUntouched
<1>15. Once'
  <2>1. \A x \in Streams : Owed(x)' # {} => Owed(x)' \subseteq Owed(x) /\ frm'[x] = frm[x]
    BY <1>1, <1>2, <1>4 DEF Owed, SendPcs, OnlyTask, Stays
  <2>2. CASE kind = "got"
    <3>1. \A x \in Streams : got'[x] \subseteq got[x]
      <4>1. got' = [got EXCEPT ![s] = got[s] \ {f}]
        BY <1>8, <2>2
      <4>2. \A x \in Streams : got'[x] = IF x = s THEN got[s] \ {f} ELSE got[x]
        BY <4>1 DEF TypeOK
      <4> QED BY <4>2
    <3> QED BY <1>3, <1>6, <2>1, <3>1, OnceKept
  <2>3. CASE kind = "held"
    BY <1>3, <1>6, <1>8, <2>1, <2>3, OnceKept
  <2> QED BY <2>2, <2>3
<1> QED BY <1>13, <1>14, <1>15 DEF IInv, PlaceInv

LEMMA CloseDrain ==
  ASSUME TypeOK, TypeOK', IInv, raced' = {}, NEW s \in Streams, close_drain(s)
  PROVE  IInv'
<1>0. pc[s] = "drain_head" /\ used[s] = UNAVAILABLE /\ d_list_u[s] # <<>>
  BY DEF close_drain, At, IInv, TaskInv, Drains
<1>1. /\ pc[s] = "drain_head" /\ Dequeue(s) /\ used[s] = UNAVAILABLE
      /\ \A x \in Streams \ {s} : d_list_u'[x] = d_list_u[x]
  BY <1>0, NotCut DEF Dequeue, TypeOK
<1>2. OnlyTask(s)
  BY DEF close_drain, At, OnlyTask, Stays, Go, TypeOK, Drop, Free, Dequeue
<1>3. UNCHANGED <<src_d_list_f, src_d_list_u, d_list_f, used, data, filling, got, held>>
  BY DEF close_drain, state, keeps
<1>4. PICK n : n = Head(d_list_u[s])
  OBVIOUS
<1>5. pc'[s] \in {"drain_node", "recycle"} /\ (pc'[s] = "recycle" => cont'[s] = "drain_node")
  BY DEF close_drain, Free, Drop, Go, TypeOK
<1>6. /\ Queues' /\ \A m \in Nodes : NodePlaced(m)'
      /\ n \in InQueue(s) /\ n \in Nodes /\ node'[s] = n /\ dest[n] = s
      /\ \A x \in Streams : InQueue(x)' = InQueue(x) \ {n}
  <2>1. s \notin InHand /\ s \in InHand'
    BY <1>1, <1>5 DEF InHand, NodePcs
  <2> QED BY <1>1, <1>2, <1>3, <1>4, <2>1, NodeDequeued
<1>7. n \in Carrying
  BY <1>6, CarryingIs
<1>8. PICK f \in Frames : f = data[n]
  BY <1>7 DEF IInv, Once
<1>9. Drop(s, f, "drain_node")
  BY <1>0, <1>4, <1>8, NotCut, NullAssumption DEF Free
<1>10. \A m : m \in Carrying' <=> m \in Carrying /\ m # n
  <2>1. \A x \in Streams : \A m : Hands(x, m)' <=> Hands(x, m)
    BY <1>1, <1>2, <1>5 DEF Hands, OnlyTask, Stays
  <2>2. \A x \in Streams : ~Hands(x, n)
    BY <1>6 DEF IInv, PlaceInv, NodePlaced, HasNode, InHand, NodePcs, Hands
  <2>3. ASSUME NEW m, m \in Carrying, m # n PROVE m \in Carrying'
    <3>1. PICK x \in Streams : m \in InQueue(x) \/ Hands(x, m)
      BY <2>3, CarryingIs
    <3>2. (m \in InQueue(x))' \/ Hands(x, m)'
      BY <1>6, <2>1, <2>3, <3>1
    <3> QED BY <3>2, CarryingNext
  <2>4. ASSUME NEW m, m \in Carrying' PROVE m \in Carrying /\ m # n
    <3>1. PICK x \in Streams : (m \in InQueue(x))' \/ Hands(x, m)'
      BY <2>4, CarryingNext
    <3>2. (m \in InQueue(x) \/ Hands(x, m)) /\ m # n
      BY <1>6, <2>1, <2>2, <3>1
    <3> QED BY <3>2, CarryingIs
  <2> QED BY <2>3, <2>4
<1>11. \A x \in Streams : \A g : TaskRef(x, g)' <=> TaskRef(x, g)
  BY <1>1, <1>2, <1>5 DEF TaskRef, SendPcs, OnlyTask, Stays
<1>12. \A g : g # f => Refs(g)' = Refs(g)
  <2> SUFFICES ASSUME NEW g, g # f PROVE Refs(g)' = Refs(g)
    OBVIOUS
  <2>1. \A x : NodeRef(x, g)' <=> NodeRef(x, g)
    BY <1>3, <1>8, <1>10 DEF NodeRef
  <2> QED BY <1>3, <1>11, <2>1, PartsSame
<1>13. /\ Ref(f, <<"node", n>>) /\ ~Ref(f, <<"node", n>>)'
       /\ \A k, x : <<k, x>> # <<"node", n>> => (Ref(f, <<k, x>>)' <=> Ref(f, <<k, x>>))
  <2>1. NodeRef(n, f) /\ \A x : NodeRef(x, f)' <=> NodeRef(x, f) /\ x # n
    BY <1>3, <1>7, <1>8, <1>10 DEF NodeRef
  <2> QED BY <1>3, <1>11, <2>1, RefsIs, RefsNext DEF RefsAre, Ref
<1>14. f \notin filling
  BY <1>13 DEF IInv, PlaceInv, Filled, Ref
<1>15. /\ FramesCounted' /\ SharedIsOut' /\ TaskInv' /\ RecycledOnce'
       /\ \A g \in Frames : FramePlaced(g)' /\ Filled(g)'
  BY <1>1, <1>2, <1>3, <1>6, <1>9, <1>12, <1>13, <1>14, Dropped
<1>16. Once'
  <2>1. \A x \in Streams : Owed(x)' # {} => Owed(x)' \subseteq Owed(x) /\ frm'[x] = frm[x]
    BY <1>1, <1>2, <1>5 DEF Owed, SendPcs, OnlyTask, Stays
  <2> QED BY <1>3, <1>10, <2>1, OnceKept
<1> QED BY <1>6, <1>15, <1>16 DEF IInv, PlaceInv

-----------------------------------------------------------------------------
(* Sending.                                                                 *)
LEMMA GetSrcDataF ==
  ASSUME TypeOK, TypeOK', IInv, NEW s \in Streams, NEW f \in Frames,
         get_src_data_f(s, f)
  PROVE  IInv'
<1>1. /\ pc[s] = "idle" /\ used[s] = ISUED /\ src[f] = s /\ f \in src_d_list_f
      /\ src_d_list_f' = src_d_list_f \ {f} /\ filling' = filling \cup {f}
      /\ OnlyTask(s)
  BY DEF get_src_data_f, At, OnlyTask, Stays, locals
<1>2. UNCHANGED <<src_d_list_u, d_list_f, d_list_u, used, ref, data, got, held, pc, cont,
                  frm, node, to, todo, tmp>>
  BY DEF get_src_data_f, state, count, locals
<1>3. Carrying' = Carrying
  BY <1>2, CarryingSame DEF InQueue, Hands
<1>4. \A g : Refs(g)' = Refs(g)
  BY <1>2, <1>3, RefsUntouched DEF TaskRef
<1>5. Refs(f) = {} /\ f \notin src_d_list_u /\ f \notin filling
  BY <1>1 DEF IInv, SharedIsOut, PlaceInv, FramePlaced
<1>6. FramesCounted' /\ SharedIsOut'
  BY <1>1, <1>2, <1>4 DEF IInv, FramesCounted, SharedIsOut
<1>7. \A g \in Frames : FramePlaced(g)' /\ Filled(g)'
  BY <1>1, <1>2, <1>4, <1>5 DEF IInv, PlaceInv, FramePlaced, Filled, ISUED, AVAILABLE_AGAIN
<1>8. TaskInv'
  <2>1. Sends(s)' /\ Takes(s)' /\ Drains(s)'
    BY <1>1, <1>2 DEF Sends, Takes, Drains, SendPcs, ToPcs, SendNode, InHand, NodePcs
  <2> QED BY <1>1, <1>2, <1>4, <2>1, OthersQuiet DEF TaskInv
<1>9. Queues' /\ \A m \in Nodes : NodePlaced(m)'
  BY <1>2, NodesUntouched DEF HasNode, InHand
<1>10. Once'
  BY <1>2, <1>3, OnceKept DEF Owed
<1>11. RecycledOnce'
  BY <1>2 DEF RecycledOnce, IInv
<1> QED BY <1>6, <1>7, <1>8, <1>9, <1>10, <1>11 DEF IInv, PlaceInv

LEMMA HoldData ==
  ASSUME TypeOK, TypeOK', IInv, NEW s \in Streams, NEW f \in Frames,
         hold_data(s, f)
  PROVE  IInv'
<1>1. /\ pc[s] = "idle" /\ (f \in got[s] \/ f \in filling) /\ f \notin held[s]
      /\ ref' = [ref EXCEPT ![f] = @ + 1] /\ held' = [held EXCEPT ![s] = @ \cup {f}]
      /\ OnlyTask(s)
  BY DEF hold_data, At, OnlyTask, Stays, locals
<1>2. UNCHANGED <<src_d_list_f, src_d_list_u, d_list_f, d_list_u, used, data, filling, got,
                  pc, cont, frm, node, to, todo, tmp>>
  BY DEF hold_data, lists, state, locals
<1>3. Carrying' = Carrying
  BY <1>2, CarryingSame DEF InQueue, Hands
<1>4. /\ \A x \in Streams : \A g : TaskRef(x, g)' <=> TaskRef(x, g)
      /\ \A n, g : NodeRef(n, g)' <=> NodeRef(n, g)
      /\ \A x \in Streams : \A g : g \in held'[x] <=> g \in held[x] \/ (x = s /\ g = f)
  BY <1>1, <1>2, <1>3 DEF TaskRef, NodeRef, TypeOK
<1>5. \A g : g # f => Refs(g)' = Refs(g)
  BY <1>2, <1>4, PartsSame
<1>6. /\ ~Ref(f, <<"held", s>>) /\ Ref(f, <<"held", s>>)'
      /\ \A k, x : <<k, x>> # <<"held", s>> => (Ref(f, <<k, x>>)' <=> Ref(f, <<k, x>>))
  BY <1>1, <1>2, <1>4, RefsIs, RefsNext DEF RefsAre, Ref
<1>7. Cardinality(Refs(f)') = Cardinality(Refs(f)) + 1
  BY <1>6, RefsGain DEF IInv
<1>8. f \in src_d_list_u \cup filling /\ (f \in src_d_list_u => Refs(f) # {})
  <2>1. CASE f \in got[s]
    <3>1. Refs(f) # {}
      BY <2>1, RefsIs DEF RefsAre
    <3> QED BY <3>1 DEF IInv, SharedIsOut
  <2>2. CASE f \in filling
    BY <2>2 DEF IInv, PlaceInv, FramePlaced
  <2> QED BY <1>1, <2>1, <2>2
<1>9. FramesCounted'
  <2>1. \A g \in Frames : ref'[g] = Cardinality(Refs(g)')
    BY <1>1, <1>5, <1>7 DEF TypeOK, IInv, FramesCounted
  <2> QED BY <2>1 DEF FramesCounted
<1>10. SharedIsOut'
  BY <1>2, <1>5, <1>8 DEF IInv, SharedIsOut
<1>11. \A g \in Frames : FramePlaced(g)' /\ Filled(g)'
  <2>1. f \in filling => Refs(f)' \subseteq {"held"} \X Streams
    <3> SUFFICES ASSUME f \in filling, NEW r \in Refs(f)' PROVE r \in {"held"} \X Streams
      OBVIOUS
    <3>1. r = <<r[1], r[2]>>
      BY RefsPairsNext DEF RefsPairs
    <3>2. Ref(f, r) => r \in {"held"} \X Streams
      BY DEF Ref, IInv, PlaceInv, Filled
    <3>3. r # <<"held", s>> => Ref(f, r)
      BY <1>6, <3>1 DEF Ref
    <3> QED BY <3>2, <3>3
  <2> QED BY <1>2, <1>5, <2>1 DEF IInv, PlaceInv, FramePlaced, Filled
<1>12. TaskInv'
  <2>1. \A g \in src_d_list_u : Refs(g) = {} => Refs(g)' = {}
    BY <1>5, <1>8
  <2>2. Sends(s)' /\ Takes(s)' /\ Drains(s)'
    BY <1>1, <1>2 DEF Sends, Takes, Drains, SendPcs, ToPcs, SendNode, InHand, NodePcs
  <2> QED BY <1>1, <1>2, <2>1, <2>2, OthersQuiet DEF TaskInv
<1>13. Queues' /\ \A m \in Nodes : NodePlaced(m)'
  BY <1>2, NodesUntouched DEF HasNode, InHand
<1>14. Once'
  BY <1>2, <1>3, OnceKept DEF Owed
<1>15. RecycledOnce'
  BY <1>2 DEF RecycledOnce, IInv
<1> QED BY <1>9, <1>10, <1>11, <1>12, <1>13, <1>14, <1>15 DEF IInv, PlaceInv

LEMMA IssueStep ==
  ASSUME TypeOK, TypeOK', IInv, NEW s \in Streams, NEW f \in Frames,
         NEW dests \in SUBSET Streams, Issue(s, f, dests)
  PROVE  IInv'
<1>1. /\ pc[s] = "idle" /\ pc'[s] = "send" /\ src[f] = s /\ f \in filling
      /\ filling' = filling \ {f} /\ ref' = [ref EXCEPT ![f] = @ + 1]
      /\ src_d_list_u' = src_d_list_u \cup {f}
      /\ frm'[s] = f /\ todo'[s] = dests
      /\ OnlyTask(s)
  BY DEF Issue, At, OnlyTask, Stays, Go, TypeOK
<1>2. UNCHANGED <<src_d_list_f, d_list_f, d_list_u, used, data, got, held, cont, node, to, tmp>>
  BY DEF Issue, state
<1>3. Carrying' = Carrying
  <2>1. \A x \in Streams : \A m : Hands(x, m)' <=> Hands(x, m)
    BY <1>1 DEF Hands, OnlyTask, Stays
  <2> QED BY <1>2, <2>1, CarryingSame DEF InQueue
<1>4. /\ \A x \in Streams : \A g : TaskRef(x, g)' <=> TaskRef(x, g) \/ (x = s /\ g = f)
      /\ ~TaskRef(s, f)
      /\ \A n, g : NodeRef(n, g)' <=> NodeRef(n, g)
  BY <1>1, <1>2, <1>3 DEF TaskRef, NodeRef, SendPcs, OnlyTask, Stays
<1>5. \A g : g # f => Refs(g)' = Refs(g)
  BY <1>2, <1>4, PartsSame
<1>6. /\ ~Ref(f, <<"task", s>>) /\ Ref(f, <<"task", s>>)'
      /\ \A k, x : <<k, x>> # <<"task", s>> => (Ref(f, <<k, x>>)' <=> Ref(f, <<k, x>>))
  BY <1>2, <1>4, RefsIs, RefsNext DEF RefsAre, Ref
<1>7. Cardinality(Refs(f)') = Cardinality(Refs(f)) + 1
  BY <1>6, RefsGain DEF IInv
<1>8. /\ f \notin src_d_list_u /\ f \notin src_d_list_f /\ used[s] = ISUED
      /\ Refs(f) \subseteq {"held"} \X Streams
  BY <1>1 DEF IInv, PlaceInv, FramePlaced, Filled
<1>9. FramesCounted'
  <2>1. \A g \in Frames : ref'[g] = Cardinality(Refs(g)')
    BY <1>1, <1>5, <1>7 DEF TypeOK, IInv, FramesCounted
  <2> QED BY <2>1 DEF FramesCounted
<1>10. SharedIsOut'
  BY <1>1, <1>5 DEF IInv, SharedIsOut
<1>11. \A g \in Frames : FramePlaced(g)' /\ Filled(g)'
  BY <1>1, <1>2, <1>5, <1>8 DEF IInv, PlaceInv, FramePlaced, Filled
<1>12. TaskInv'
  <2>1. \A g \in src_d_list_u : Refs(g) = {} => Refs(g)' = {}
    BY <1>5, <1>8
  <2>2. Sends(s)' /\ Takes(s)' /\ Drains(s)'
    BY <1>1 DEF Sends, Takes, Drains, SendPcs, ToPcs, SendNode, InHand, NodePcs
  <2> QED BY <1>1, <1>2, <2>1, <2>2, OthersQuiet DEF TaskInv
<1>13. Queues' /\ \A m \in Nodes : NodePlaced(m)'
  <2>1. \A x \in Streams, m \in Nodes : HasNode(x, m)' <=> HasNode(x, m)
    BY <1>1, <1>2 DEF HasNode, InHand, NodePcs, OnlyTask, Stays
  <2> QED BY <1>2, <2>1, NodesUntouched
<1>14. Once'
  <2>1. \A n \in Carrying' : data'[n] \in Frames /\ data'[n] \notin got'[dest[n]]
    BY <1>2, <1>3 DEF IInv, Once
  <2>2. \A n, m \in Carrying' : dest[n] = dest[m] /\ data'[n] = data'[m] => n = m
    BY <1>2, <1>3 DEF IInv, Once
  <2>3. \A d \in Streams : \A g : Has(d, g)' <=> Has(d, g)
    BY <1>2, <1>3 DEF Has
  <2>4. ASSUME NEW d \in Streams PROVE ~Has(d, f)
    <3>1. f \notin got[d]
      <4>1. <<"got", d>> \notin Refs(f)
        BY <1>8
      <4> QED BY <4>1, RefsIs DEF RefsAre
    <3>2. \A n \in Carrying : data[n] # f
      <4>1. \A n : <<"node", n>> \notin Refs(f)
        BY <1>8
      <4> QED BY <4>1, RefsIs DEF RefsAre, NodeRef
    <3> QED BY <3>1, <3>2 DEF Has
  <2>5. ASSUME NEW x \in Streams, NEW d \in Owed(x)' PROVE ~Has(d, frm[x])'
    <3>1. CASE x = s
      <4>1. d \in Streams
        BY <1>1, <3>1 DEF Owed, ToPcs
      <4> QED BY <1>1, <2>3, <2>4, <3>1, <4>1
    <3>2. CASE x # s
      <4>1. d \in Owed(x) /\ frm'[x] = frm[x]
        BY <1>1, <3>2 DEF Owed, OnlyTask, Stays
      <4>2. d \in Streams
        BY <4>1 DEF Owed, TypeOK, IInv, TaskInv, Sends, ToPcs
      <4> QED BY <2>3, <4>1, <4>2 DEF IInv, Once
    <3> QED BY <3>1, <3>2
  <2> QED BY <2>1, <2>2, <2>5 DEF Once
<1>15. RecycledOnce'
  BY <1>1, <1>2 DEF RecycledOnce, IInv, OnlyTask, Stays
<1> QED BY <1>9, <1>10, <1>11, <1>12, <1>13, <1>14, <1>15 DEF IInv, PlaceInv

LEMMA SendEach ==
  ASSUME TypeOK, TypeOK', IInv, NEW s \in Streams, send_each(s)
  PROVE  IInv'
<1>1. PICK d \in todo[s] :
        /\ todo' = [todo EXCEPT ![s] = @ \ {d}]
        /\ \/ UNCHANGED <<pc, to>>
           \/ to' = [to EXCEPT ![s] = d] /\ pc' = [pc EXCEPT ![s] = "send_pop"]
  BY DEF send_each, Go
<1>2. pc[s] = "send" /\ todo'[s] = todo[s] \ {d} /\ d \in Streams
  BY <1>1 DEF send_each, At, TypeOK
<1>3. /\ pc'[s] = "send" \/ (pc'[s] = "send_pop" /\ to'[s] = d)
      /\ OnlyTask(s)
  BY <1>1, <1>2 DEF send_each, At, OnlyTask, Stays, TypeOK
<1>4. UNCHANGED <<src_d_list_f, src_d_list_u, d_list_f, d_list_u, used, ref, data, filling,
                  got, held, cont, frm, node, tmp>>
  BY DEF send_each, lists, state, count, keeps
<1>5. Carrying' = Carrying
  <2>1. \A x \in Streams : \A m : Hands(x, m)' <=> Hands(x, m)
    BY <1>2, <1>3, <1>4 DEF Hands, OnlyTask, Stays
  <2> QED BY <1>4, <2>1, CarryingSame DEF InQueue
<1>6. \A g : Refs(g)' = Refs(g)
  <2>1. \A x \in Streams : \A g : TaskRef(x, g)' <=> TaskRef(x, g)
    BY <1>2, <1>3, <1>4 DEF TaskRef, SendPcs, OnlyTask, Stays
  <2> QED BY <1>4, <1>5, <2>1, RefsUntouched
<1>7. FramesCounted' /\ SharedIsOut' /\ \A g \in Frames : FramePlaced(g)' /\ Filled(g)'
  BY <1>4, <1>6, FramesUntouched
<1>8. TaskInv'
  <2>1. Sends(s)' /\ Takes(s)' /\ Drains(s)'
    BY <1>2, <1>3, <1>4
       DEF Sends, Takes, Drains, SendPcs, ToPcs, SendNode, InHand, NodePcs, IInv, TaskInv
  <2> QED BY <1>3, <1>4, <1>6, <2>1, OthersQuiet DEF TaskInv
<1>9. Queues' /\ \A m \in Nodes : NodePlaced(m)'
  <2>1. \A x \in Streams, m \in Nodes : HasNode(x, m)' <=> HasNode(x, m)
    BY <1>2, <1>3, <1>4 DEF HasNode, InHand, NodePcs, OnlyTask, Stays
  <2> QED BY <1>4, <2>1, NodesUntouched
<1>10. Once'
  <2>1. \A x \in Streams : Owed(x)' # {} => Owed(x)' \subseteq Owed(x) /\ frm'[x] = frm[x]
    BY <1>2, <1>3, <1>4 DEF Owed, SendPcs, ToPcs, OnlyTask, Stays
  <2> QED BY <1>4, <1>5, <2>1, OnceKept
<1>11. RecycledOnce'
  BY <1>2, <1>3, <1>4 DEF RecycledOnce, IInv, OnlyTask, Stays
<1> QED BY <1>7, <1>8, <1>9, <1>10, <1>11 DEF IInv, PlaceInv

LEMMA SendPop ==
  ASSUME TypeOK, TypeOK', IInv, NEW s \in Streams, send_pop(s)
  PROVE  IInv'
<1>1. pc[s] = "send_pop" /\ OnlyTask(s) /\ to[s] \in Streams
  BY DEF send_pop, At, OnlyTask, Stays, Go, TypeOK, IInv, TaskInv, Sends, ToPcs
<1>2. UNCHANGED <<src_d_list_f, src_d_list_u, d_list_u, used, ref, data, filling,
                  got, held, cont, frm, todo, tmp>>
  BY DEF send_pop, state, count, keeps
<1>3. PICK n : /\ n = node'[s]
               /\ \/ /\ n \in d_list_f /\ n \in Nodes /\ dest[n] = to[s]
                     /\ d_list_f' = d_list_f \ {n}
                     /\ pc'[s] = "send_load" /\ to'[s] = to[s]
                  \/ /\ UNCHANGED <<d_list_f, node>> /\ pc'[s] = "send"
  BY DEF send_pop, Go, TypeOK, NodesOf
<1>4. Carrying' = Carrying
  <2>1. \A x \in Streams : \A m : Hands(x, m)' <=> Hands(x, m)
    BY <1>1, <1>3 DEF Hands, OnlyTask, Stays
  <2> QED BY <1>2, <2>1, CarryingSame DEF InQueue
<1>5. \A g : Refs(g)' = Refs(g)
  <2>1. \A x \in Streams : \A g : TaskRef(x, g)' <=> TaskRef(x, g)
    BY <1>1, <1>2, <1>3 DEF TaskRef, SendPcs, OnlyTask, Stays
  <2> QED BY <1>2, <1>4, <2>1, RefsUntouched
<1>6. FramesCounted' /\ SharedIsOut' /\ \A g \in Frames : FramePlaced(g)' /\ Filled(g)'
  BY <1>2, <1>5, FramesUntouched
<1>7. TaskInv'
  <2>1. Sends(s)' /\ Takes(s)' /\ Drains(s)'
    BY <1>1, <1>2, <1>3
       DEF Sends, Takes, Drains, SendPcs, ToPcs, SendNode, InHand, NodePcs, IInv, TaskInv
  <2> QED BY <1>1, <1>2, <1>5, <2>1, OthersQuiet DEF TaskInv
<1>8. \A x \in Streams : InQueue(x)' = InQueue(x)
  BY <1>2 DEF InQueue
<1>9. Queues'
  BY <1>2, <1>8 DEF IInv, PlaceInv, Queues, NodesOf
<1>10. \A x \in Streams : \A m : x # s => (HasNode(x, m)' <=> HasNode(x, m))
  BY <1>1 DEF HasNode, InHand, OnlyTask, Stays
<1>11. \A m : ~HasNode(s, m)
  BY <1>1 DEF HasNode, InHand, NodePcs
<1>12. \A m \in Nodes : NodePlaced(m)'
  <2>1. CASE UNCHANGED <<d_list_f, node>> /\ pc'[s] = "send"
    <3>1. \A m : ~HasNode(s, m)'
      BY <2>1 DEF HasNode, InHand, NodePcs
    <3> QED BY <1>2, <1>10, <1>11, <2>1, <3>1, NodesUntouched
  <2>2. CASE n \in d_list_f /\ n \in Nodes /\ dest[n] = to[s] /\ d_list_f' = d_list_f \ {n}
             /\ pc'[s] = "send_load"
    <3>1. \A m : HasNode(s, m)' <=> m = n
      BY <1>3, <2>2 DEF HasNode, InHand, NodePcs
    <3>2. ASSUME NEW m \in Nodes, m # n PROVE NodePlaced(m)'
      <4>1. dest[m] \in Streams /\ NodePlaced(m)
        BY OwnersAssumption DEF IInv, PlaceInv
      <4>2. \A x \in Streams : HasNode(x, m)' <=> HasNode(x, m)
        BY <1>10, <1>11, <3>1, <3>2
      <4> QED BY <1>2, <1>8, <2>2, <3>2, <4>1, <4>2, NodeElsewhere
    <3>3. NodePlaced(n)'
      <4>1. NodePlaced(n)
        BY <2>2 DEF IInv, PlaceInv
      <4>2. \A x \in Streams : HasNode(x, n)' <=> x = s
        BY <1>10, <2>2, <3>1, <4>1 DEF NodePlaced
      <4> QED BY <1>1, <1>2, <1>8, <2>2, <4>1, <4>2 DEF NodePlaced
    <3> QED BY <3>2, <3>3
  <2> QED BY <1>3, <2>1, <2>2
<1>13. Once'
  <2>1. \A x \in Streams : Owed(x)' # {} => Owed(x)' \subseteq Owed(x) /\ frm'[x] = frm[x]
    BY <1>1, <1>2, <1>3 DEF Owed, SendPcs, ToPcs, OnlyTask, Stays
  <2> QED BY <1>2, <1>4, <2>1, OnceKept
<1>14. RecycledOnce'
  BY <1>1, <1>2, <1>3 DEF RecycledOnce, IInv, OnlyTask, Stays
<1> QED BY <1>6, <1>7, <1>9, <1>12, <1>13, <1>14 DEF IInv, PlaceInv

LEMMA SendLoad ==
  ASSUME TypeOK, TypeOK', IInv, NEW s \in Streams, send_load(s)
  PROVE  IInv'
<1>1. /\ pc[s] = "send_load" /\ pc'[s] = "send_store" /\ tmp'[s] = ref[frm[s]]
      /\ OnlyTask(s)
  BY DEF send_load, At, OnlyTask, Stays, Go, TypeOK
<1>2. UNCHANGED <<src_d_list_f, src_d_list_u, d_list_f, d_list_u, used, ref, data, filling,
                  got, held, cont, frm, node, to, todo>>
  BY DEF send_load, lists, state, count, keeps
<1>3. Carrying' = Carrying
  <2>1. \A x \in Streams : \A m : Hands(x, m)' <=> Hands(x, m)
    BY <1>1, <1>2 DEF Hands, OnlyTask, Stays
  <2> QED BY <1>2, <2>1, CarryingSame DEF InQueue
<1>4. \A g : Refs(g)' = Refs(g)
  <2>1. \A x \in Streams : \A g : TaskRef(x, g)' <=> TaskRef(x, g)
    BY <1>1, <1>2 DEF TaskRef, SendPcs, OnlyTask, Stays
  <2> QED BY <1>2, <1>3, <2>1, RefsUntouched
<1>5. FramesCounted' /\ SharedIsOut' /\ \A g \in Frames : FramePlaced(g)' /\ Filled(g)'
  BY <1>2, <1>4, FramesUntouched
<1>6. TaskInv'
  <2>1. Sends(s)' /\ Takes(s)' /\ Drains(s)'
    BY <1>1, <1>2
       DEF Sends, Takes, Drains, SendPcs, ToPcs, SendNode, InHand, NodePcs, IInv, TaskInv
  <2> QED BY <1>1, <1>2, <1>4, <2>1, OthersQuiet DEF TaskInv
<1>7. Queues' /\ \A m \in Nodes : NodePlaced(m)'
  <2>1. \A x \in Streams, m \in Nodes : HasNode(x, m)' <=> HasNode(x, m)
    BY <1>1, <1>2 DEF HasNode, InHand, NodePcs, OnlyTask, Stays
  <2> QED BY <1>2, <2>1, NodesUntouched
<1>8. Once'
  <2>1. \A x \in Streams : Owed(x)' # {} => Owed(x)' \subseteq Owed(x) /\ frm'[x] = frm[x]
    BY <1>1, <1>2 DEF Owed, SendPcs, ToPcs, OnlyTask, Stays
  <2> QED BY <1>2, <1>3, <2>1, OnceKept
<1>9. RecycledOnce'
  BY <1>1, <1>2 DEF RecycledOnce, IInv, OnlyTask, Stays
<1> QED BY <1>5, <1>6, <1>7, <1>8, <1>9 DEF IInv, PlaceInv

(* The destination now has the frame and its node a reference to it. *)
LEMMA SendStore ==
  ASSUME TypeOK, TypeOK', IInv, raced' = {}, NEW s \in Streams, send_store(s)
  PROVE  IInv'
<1>1. pc[s] = "send_store" /\ pc'[s] = "send_append" /\ OnlyTask(s)
  BY DEF send_store, At, OnlyTask, Stays, Go, TypeOK
<1>2. UNCHANGED <<src_d_list_f, src_d_list_u, d_list_f, d_list_u, used, filling,
                  got, held, cont, frm, node, to, todo>>
  BY DEF send_store, lists, state, keeps
<1>3. PICK f \in Frames : f = frm[s] /\ f \in src_d_list_u /\ src[f] = s
  BY <1>1 DEF IInv, TaskInv, Sends, SendPcs, TypeOK
<1>4. PICK n \in Nodes : n = node[s] /\ dest[n] = to[s]
  BY <1>1 DEF IInv, TaskInv, Sends, SendNode
<1>5. to[s] \in Streams \ todo[s] /\ tmp[s] = ref[f]
  BY <1>1, <1>3, NotTorn DEF IInv, TaskInv, Sends, ToPcs
<1>6. ref' = [ref EXCEPT ![f] = ref[f] + 1] /\ data' = [data EXCEPT ![n] = f]
  BY <1>3, <1>4, <1>5 DEF send_store, Counted, Point
<1>7. data'[n] = f /\ \A m \in Nodes \ {n} : data'[m] = data[m]
  BY <1>6 DEF TypeOK
<1>8. HasNode(s, n) /\ NodePlaced(n)
  BY <1>1, <1>4 DEF HasNode, InHand, NodePcs, IInv, PlaceInv
<1>9. n \notin Carrying
  <2>1. \A x \in Streams : n \in InQueue(x) => n \in InQueue(dest[n])
    BY DEF IInv, PlaceInv, Queues, NodesOf
  <2>2. \A x \in Streams : Hands(x, n) => HasNode(x, n)
    BY DEF Hands, HasNode, InHand, NodePcs
  <2> QED BY <1>1, <1>8, <2>1, <2>2, CarryingIs DEF NodePlaced, Hands
<1>10. \A m : m \in Carrying' <=> m \in Carrying \/ m = n
  <2>1. \A x \in Streams : \A m : Hands(x, m)' <=> Hands(x, m) \/ (x = s /\ m = n)
    BY <1>1, <1>2, <1>4 DEF Hands, OnlyTask, Stays
  <2>2. \A x : InQueue(x)' = InQueue(x)
    BY <1>2 DEF InQueue
  <2> QED BY <2>1, <2>2, CarryingIs, CarryingNext
<1>11. Carrying \subseteq Nodes
  BY CarryingAreNodes DEF IInv
<1>12. /\ \A x \in Streams : \A g : TaskRef(x, g)' <=> TaskRef(x, g)
       /\ \A m, g : NodeRef(m, g)' <=> NodeRef(m, g) \/ (m = n /\ g = f)
       /\ ~NodeRef(n, f)
  BY <1>1, <1>2, <1>7, <1>9, <1>10, <1>11
     DEF TaskRef, NodeRef, SendPcs, OnlyTask, Stays
<1>13. \A g : g # f => Refs(g)' = Refs(g)
  BY <1>2, <1>12, PartsSame
<1>14. /\ ~Ref(f, <<"node", n>>) /\ Ref(f, <<"node", n>>)'
       /\ \A k, x : <<k, x>> # <<"node", n>> => (Ref(f, <<k, x>>)' <=> Ref(f, <<k, x>>))
  BY <1>2, <1>12, RefsIs, RefsNext DEF RefsAre, Ref
<1>15. Cardinality(Refs(f)') = Cardinality(Refs(f)) + 1
  BY <1>14, RefsGain DEF IInv
<1>16. Refs(f) # {}
  BY <1>1, <1>3, RefsIs DEF RefsAre, TaskRef, SendPcs
<1>17. FramesCounted'
  <2>1. \A g \in Frames : ref'[g] = Cardinality(Refs(g)')
    BY <1>6, <1>13, <1>15 DEF TypeOK, IInv, FramesCounted
  <2> QED BY <2>1 DEF FramesCounted
<1>18. SharedIsOut'
  BY <1>2, <1>3, <1>13 DEF IInv, SharedIsOut
<1>19. \A g \in Frames : FramePlaced(g)' /\ Filled(g)'
  BY <1>2, <1>3, <1>13 DEF IInv, PlaceInv, FramePlaced, Filled
<1>20. TaskInv'
  <2>0. \A x \in Streams \ {s} : pc[x] = "send_append" => data'[node[x]] = data[node[x]]
    <3> SUFFICES ASSUME NEW x \in Streams \ {s}, pc[x] = "send_append"
                 PROVE  data'[node[x]] = data[node[x]]
      OBVIOUS
    <3>1. node[x] \in Nodes /\ HasNode(x, node[x])
      BY DEF IInv, TaskInv, Sends, SendNode, HasNode, InHand, NodePcs
    <3>2. node[x] # n
      BY <1>8, <3>1 DEF NodePlaced
    <3> QED BY <1>7, <3>1, <3>2
  <2>1. \A g \in src_d_list_u : Refs(g) = {} => Refs(g)' = {}
    BY <1>13, <1>16
  <2>2. Sends(s)' /\ Takes(s)' /\ Drains(s)'
    BY <1>1, <1>2, <1>3, <1>4, <1>7
       DEF Sends, Takes, Drains, SendPcs, ToPcs, SendNode, InHand, NodePcs, IInv, TaskInv
  <2> QED BY <1>1, <1>2, <2>0, <2>1, <2>2, OthersQuiet DEF TaskInv
<1>21. Queues' /\ \A m \in Nodes : NodePlaced(m)'
  <2>1. \A x \in Streams, m \in Nodes : HasNode(x, m)' <=> HasNode(x, m)
    BY <1>1, <1>2 DEF HasNode, InHand, NodePcs, OnlyTask, Stays
  <2> QED BY <1>2, <2>1, NodesUntouched
<1>22. ~Has(to[s], f)
  BY <1>1, <1>3 DEF IInv, Once, Owed, SendPcs, ToPcs
<1>23. \A m \in Carrying' : data'[m] \in Frames /\ data'[m] \notin got'[dest[m]]
  <2> SUFFICES ASSUME NEW m \in Carrying' PROVE data'[m] \in Frames /\ data'[m] \notin got[dest[m]]
    BY <1>2
  <2>1. CASE m = n
    BY <1>4, <1>7, <1>22, <2>1 DEF Has
  <2>2. CASE m # n
    BY <1>7, <1>10, <1>11, <2>2 DEF IInv, Once
  <2> QED BY <2>1, <2>2
<1>24. \A m, p \in Carrying' : dest[m] = dest[p] /\ data'[m] = data'[p] => m = p
  <2>1. \A m \in Carrying : ~(dest[m] = dest[n] /\ data'[m] = data'[n])
    BY <1>4, <1>7, <1>9, <1>11, <1>22 DEF Has
  <2>2. \A m, p \in Carrying : dest[m] = dest[p] /\ data'[m] = data'[p] => m = p
    BY <1>7, <1>9, <1>11 DEF IInv, Once
  <2> QED BY <1>10, <2>1, <2>2
<1>25. ASSUME NEW x \in Streams, NEW d \in Owed(x)' PROVE ~Has(d, frm[x])'
  <2>1. d \in Owed(x) /\ frm'[x] = frm[x] /\ ~Has(d, frm[x])
    BY <1>1, <1>2, <1>25 DEF Owed, SendPcs, ToPcs, OnlyTask, Stays, IInv, Once
  <2>2. frm[x] = f => x = s
    BY <1>3, <2>1 DEF Owed, IInv, TaskInv, Sends
  <2>3. x = s => d # to[s]
    BY <1>1, <1>2, <1>5, <1>25 DEF Owed, ToPcs
  <2>4. frm[x] # f \/ dest[n] # d
    BY <1>4, <2>2, <2>3
  <2>5. \A m \in Carrying' : ~(dest[m] = d /\ data'[m] = frm[x])
    BY <1>7, <1>10, <1>11, <2>1, <2>4 DEF Has
  <2> QED BY <1>2, <2>1, <2>5 DEF Has
<1>26. Once'
  BY <1>23, <1>24, <1>25 DEF Once
<1>27. RecycledOnce'
  BY <1>1, <1>2 DEF RecycledOnce, IInv, OnlyTask, Stays
<1> QED BY <1>17, <1>18, <1>19, <1>20, <1>21, <1>26, <1>27 DEF IInv, PlaceInv

LEMMA SendAppend ==
  ASSUME TypeOK, TypeOK', IInv, NEW s \in Streams, send_append(s)
  PROVE  IInv'
<1>1. pc[s] = "send_append" /\ pc'[s] = "send" /\ OnlyTask(s)
  BY DEF send_append, At, OnlyTask, Stays, Go, TypeOK
<1>2. UNCHANGED <<src_d_list_f, src_d_list_u, d_list_f, used, ref, data, filling,
                  got, held, cont, frm, todo, tmp>>
  BY DEF send_append, state, count, keeps
<1>3. PICK d \in Streams : d = to[s]
  BY <1>1 DEF IInv, TaskInv, Sends, ToPcs
<1>4. PICK n \in Nodes : n = node[s] /\ dest[n] = d
  BY <1>1, <1>3 DEF IInv, TaskInv, Sends, SendNode
<1>5. d_list_u' = [d_list_u EXCEPT ![d] = Append(@, n)]
  BY <1>3, <1>4 DEF send_append
<1>6. HasNode(s, n) /\ NodePlaced(n) /\ n \notin d_list_f /\ n \notin InQueue(d)
  BY <1>1, <1>4 DEF HasNode, InHand, NodePcs, IInv, PlaceInv, NodePlaced
<1>7. d_list_u[d] \in Seq(Nodes) /\ NoRepeats(d_list_u[d])
  BY DEF TypeOK, IInv, PlaceInv, Queues
<1>8. NoRepeats(d_list_u'[d]) /\ Contents(d_list_u'[d]) = Contents(d_list_u[d]) \cup {n}
  BY <1>5, <1>6, <1>7, QueueAppend, InQueueIs DEF TypeOK
<1>9. \A x : InQueue(x) = Contents(d_list_u[x]) /\ InQueue(x)' = Contents(d_list_u'[x])
  BY DEF InQueue, Contents
<1>10. \A x \in Streams \ {d} : d_list_u'[x] = d_list_u[x]
  BY <1>5 DEF TypeOK
<1>11. \A x \in Streams : \A m : m \in InQueue(x)' <=> m \in InQueue(x) \/ (x = d /\ m = n)
  BY <1>8, <1>9, <1>10
<1>12. Queues'
  BY <1>4, <1>8, <1>10, <1>11 DEF IInv, PlaceInv, Queues, NodesOf
<1>13. \A x \in Streams : \A m : HasNode(x, m)' <=> x # s /\ HasNode(x, m)
  BY <1>1 DEF HasNode, InHand, NodePcs, OnlyTask, Stays
<1>14. ASSUME NEW m \in Nodes, m # n PROVE NodePlaced(m)'
  <2>1. dest[m] \in Streams /\ NodePlaced(m)
    BY OwnersAssumption DEF IInv, PlaceInv
  <2>2. \A x \in Streams : HasNode(x, m)' <=> HasNode(x, m)
    BY <1>4, <1>13, <1>14 DEF HasNode
  <2> QED BY <1>2, <1>11, <1>14, <2>1, <2>2, NodeElsewhere
<1>15. NodePlaced(n)'
  <2>1. \A x \in Streams : ~HasNode(x, n)'
    BY <1>6, <1>13 DEF NodePlaced
  <2>2. used[d] # AVAILABLE_AGAIN
    BY <1>4, <1>6 DEF NodePlaced
  <2> QED BY <1>2, <1>3, <1>4, <1>6, <1>11, <2>1, <2>2 DEF NodePlaced
<1>16. Carrying' = Carrying
  <2>1. \A x \in Streams : \A m : Hands(x, m) <=> Hands(x, m)' \/ (x = s /\ m = n)
    BY <1>1, <1>4 DEF Hands, OnlyTask, Stays
  <2>2. ASSUME NEW m, m \in Carrying PROVE m \in Carrying'
    <3>1. PICK x \in Streams : m \in InQueue(x) \/ Hands(x, m)
      BY <2>2, CarryingIs
    <3>2. \E y \in Streams : (m \in InQueue(y))' \/ Hands(y, m)'
      BY <1>11, <2>1, <3>1
    <3> QED BY <3>2, CarryingNext
  <2>3. ASSUME NEW m, m \in Carrying' PROVE m \in Carrying
    <3>1. PICK x \in Streams : (m \in InQueue(x))' \/ Hands(x, m)'
      BY <2>3, CarryingNext
    <3>2. \E y \in Streams : m \in InQueue(y) \/ Hands(y, m)
      BY <1>11, <2>1, <3>1
    <3> QED BY <3>2, CarryingIs
  <2> QED BY <2>2, <2>3
<1>17. \A g : Refs(g)' = Refs(g)
  <2>1. \A x \in Streams : \A g : TaskRef(x, g)' <=> TaskRef(x, g)
    BY <1>1, <1>2 DEF TaskRef, SendPcs, OnlyTask, Stays
  <2> QED BY <1>2, <1>16, <2>1, RefsUntouched
<1>18. FramesCounted' /\ SharedIsOut' /\ \A g \in Frames : FramePlaced(g)' /\ Filled(g)'
  BY <1>2, <1>17, FramesUntouched
<1>19. TaskInv'
  <2>1. Sends(s)' /\ Takes(s)' /\ Drains(s)'
    BY <1>1, <1>2
       DEF Sends, Takes, Drains, SendPcs, ToPcs, SendNode, InHand, NodePcs, IInv, TaskInv
  <2>2. \A x \in Streams : d_list_u[x] # <<>> => d_list_u'[x] # <<>>
    BY <1>5, <1>7, <1>10 DEF TypeOK
  <2> QED BY <1>1, <1>2, <1>17, <2>1, <2>2, OthersQuiet DEF TaskInv
<1>20. Once'
  <2>1. \A x \in Streams : Owed(x)' # {} => Owed(x)' \subseteq Owed(x) /\ frm'[x] = frm[x]
    BY <1>1, <1>2 DEF Owed, SendPcs, ToPcs, OnlyTask, Stays
  <2> QED BY <1>2, <1>16, <2>1, OnceKept
<1>21. RecycledOnce'
  BY <1>1, <1>2 DEF RecycledOnce, IInv, OnlyTask, Stays
<1> QED BY <1>12, <1>14, <1>15, <1>18, <1>19, <1>20, <1>21 DEF IInv, PlaceInv

-----------------------------------------------------------------------------
(* Giving back, opening and closing.                                        *)
LEMMA Recycle ==
  ASSUME TypeOK, TypeOK', IInv, NEW s \in Streams, recycle(s)
  PROVE  IInv'
<1>1. pc[s] = "recycle" /\ pc'[s] = "free_end" /\ OnlyTask(s)
  BY DEF recycle, At, OnlyTask, Stays, Go, TypeOK, locals
<1>2. UNCHANGED <<d_list_f, d_list_u, used, ref, data, filling, got, held, cont, frm, node, to,
                  todo, tmp>>
  BY DEF recycle, state, count, keeps, locals
<1>3. PICK f \in Frames : f = frm[s] /\ f \in src_d_list_u /\ Refs(f) = {}
  BY <1>1 DEF IInv, TaskInv, Drains, TypeOK
<1>4. src_d_list_u' = src_d_list_u \ {f} /\ src_d_list_f' = src_d_list_f \cup {f}
  BY <1>3 DEF recycle, Restore
<1>5. Carrying' = Carrying
  <2>1. \A x \in Streams : \A m : Hands(x, m)' <=> Hands(x, m)
    BY <1>1, <1>2 DEF Hands, OnlyTask, Stays
  <2> QED BY <1>2, <2>1, CarryingSame DEF InQueue
<1>6. \A g : Refs(g)' = Refs(g)
  <2>1. \A x \in Streams : \A g : TaskRef(x, g)' <=> TaskRef(x, g)
    BY <1>1, <1>2 DEF TaskRef, SendPcs, OnlyTask, Stays
  <2> QED BY <1>2, <1>5, <2>1, RefsUntouched
<1>7. FramesCounted' /\ SharedIsOut'
  BY <1>2, <1>3, <1>4, <1>6 DEF IInv, FramesCounted, SharedIsOut
<1>8. \A g \in Frames : FramePlaced(g)' /\ Filled(g)'
  BY <1>2, <1>3, <1>4, <1>6 DEF IInv, PlaceInv, FramePlaced, Filled
<1>9. \A x \in Streams \ {s} : Sends(x)' /\ Takes(x)' /\ Drains(x)'
  <2> TAKE x \in Streams \ {s}
  <2>1. PICK g : g = frm[x] /\ g = frm'[x]
    BY <1>1 DEF OnlyTask, Stays
  <2>2. CASE pc[x] \in SendPcs
    <3>1. TaskRef(x, g) /\ g \in src_d_list_u
      BY <2>1, <2>2 DEF TaskRef, SendPcs, IInv, TaskInv, Sends
    <3>2. g # f
      BY <1>3, <3>1, RefsIs DEF RefsAre
    <3>3. pc[x] # "recycle"
      BY <2>2 DEF SendPcs
    <3> QED BY <1>1, <1>2, <1>4, <2>1, <2>2, <3>1, <3>2, <3>3, OthersKeep
  <2>3. CASE pc[x] = "recycle"
    <3>1. g # f /\ g \in src_d_list_u /\ Refs(g) = {}
      BY <1>1, <1>3, <2>1, <2>3 DEF IInv, TaskInv, RecycledOnce, Drains
    <3>2. Refs(frm[x])' = {}
      BY <1>6, <2>1, <3>1
    <3> QED BY <1>1, <1>2, <1>4, <2>1, <2>3, <3>1, <3>2, OthersKeep
  <2>4. CASE pc[x] \notin SendPcs \cup {"recycle"}
    BY <1>1, <1>2, <2>4, OthersKeep
  <2> QED BY <2>2, <2>3, <2>4
<1>10. Sends(s)' /\ Takes(s)' /\ Drains(s)'
  BY <1>1, <1>2
     DEF Sends, Takes, Drains, SendPcs, ToPcs, SendNode, InHand, NodePcs, IInv, TaskInv
<1>11. TaskInv'
  BY <1>9, <1>10 DEF TaskInv
<1>12. Queues' /\ \A m \in Nodes : NodePlaced(m)'
  <2>1. \A x \in Streams, m \in Nodes : HasNode(x, m)' <=> HasNode(x, m)
    BY <1>1, <1>2 DEF HasNode, InHand, NodePcs, OnlyTask, Stays
  <2> QED BY <1>2, <2>1, NodesUntouched
<1>13. Once'
  <2>1. \A x \in Streams : Owed(x)' # {} => Owed(x)' \subseteq Owed(x) /\ frm'[x] = frm[x]
    BY <1>1, <1>2 DEF Owed, SendPcs, ToPcs, OnlyTask, Stays
  <2> QED BY <1>2, <1>5, <2>1, OnceKept
<1>14. RecycledOnce'
  BY <1>1, <1>2 DEF RecycledOnce, IInv, OnlyTask, Stays
<1> QED BY <1>7, <1>8, <1>11, <1>12, <1>13, <1>14 DEF IInv, PlaceInv

(* The source is told which frame came back: nothing depends on it here.    *)
LEMMA FreeEnd ==
  ASSUME TypeOK, TypeOK', IInv, NEW s \in Streams, free_end(s)
  PROVE  IInv'
<1>1. /\ pc[s] = "free_end" /\ pc'[s] = cont[s] /\ cont[s] \in {"idle", "drain_node"}
      /\ OnlyTask(s)
  BY DEF free_end, At, OnlyTask, Stays, Go, TypeOK
<1>2. UNCHANGED <<src_d_list_f, src_d_list_u, d_list_f, d_list_u, used, ref, data, filling,
                  got, held, node, to, todo, tmp>>
  BY DEF free_end, lists, state, count, keeps
<1>3. Carrying' = Carrying
  <2>1. \A x \in Streams : \A m : Hands(x, m)' <=> Hands(x, m)
    BY <1>1, <1>2 DEF Hands, OnlyTask, Stays
  <2> QED BY <1>2, <2>1, CarryingSame DEF InQueue
<1>4. \A g : Refs(g)' = Refs(g)
  <2>1. \A x \in Streams : \A g : TaskRef(x, g)' <=> TaskRef(x, g)
    BY <1>1, <1>2 DEF TaskRef, SendPcs, OnlyTask, Stays
  <2> QED BY <1>2, <1>3, <2>1, RefsUntouched
<1>5. FramesCounted' /\ SharedIsOut' /\ \A g \in Frames : FramePlaced(g)' /\ Filled(g)'
  BY <1>2, <1>4, FramesUntouched
<1>6. TaskInv'
  <2>1. Sends(s)' /\ Takes(s)' /\ Drains(s)'
    BY <1>1, <1>2
       DEF Sends, Takes, Drains, SendPcs, ToPcs, SendNode, InHand, NodePcs, IInv, TaskInv
  <2> QED BY <1>1, <1>2, <1>4, <2>1, OthersQuiet DEF TaskInv
<1>7. Queues' /\ \A m \in Nodes : NodePlaced(m)'
  <2>1. \A x \in Streams, m \in Nodes : HasNode(x, m)' <=> HasNode(x, m)
    BY <1>1, <1>2 DEF HasNode, InHand, NodePcs, OnlyTask, Stays
  <2> QED BY <1>2, <2>1, NodesUntouched
<1>8. Once'
  <2>1. \A x \in Streams : Owed(x)' # {} => Owed(x)' \subseteq Owed(x) /\ frm'[x] = frm[x]
    BY <1>1, <1>2 DEF Owed, SendPcs, ToPcs, OnlyTask, Stays
  <2> QED BY <1>2, <1>3, <2>1, OnceKept
<1>9. RecycledOnce'
  BY <1>1, <1>2 DEF RecycledOnce, IInv, OnlyTask, Stays
<1> QED BY <1>5, <1>6, <1>7, <1>8, <1>9 DEF IInv, PlaceInv

(* The drain only looks at its queue. *)
LEMMA CloseHead ==
  ASSUME TypeOK, TypeOK', IInv, NEW s \in Streams, close_head(s)
  PROVE  IInv'
<1>1. /\ pc[s] = "drain" /\ pc'[s] = "drain_head" /\ d_list_u[s] # <<>>
      /\ OnlyTask(s)
  BY DEF close_head, At, OnlyTask, Stays, Go, TypeOK
<1>2. UNCHANGED <<src_d_list_f, src_d_list_u, d_list_f, d_list_u, used, ref, data, filling,
                  got, held, cont, frm, node, to, todo>>
  BY DEF close_head, lists, state, count, keeps
<1>3. Carrying' = Carrying
  <2>1. \A x \in Streams : \A m : Hands(x, m)' <=> Hands(x, m)
    BY <1>1, <1>2 DEF Hands, OnlyTask, Stays
  <2> QED BY <1>2, <2>1, CarryingSame DEF InQueue
<1>4. \A g : Refs(g)' = Refs(g)
  <2>1. \A x \in Streams : \A g : TaskRef(x, g)' <=> TaskRef(x, g)
    BY <1>1, <1>2 DEF TaskRef, SendPcs, OnlyTask, Stays
  <2> QED BY <1>2, <1>3, <2>1, RefsUntouched
<1>5. FramesCounted' /\ SharedIsOut' /\ \A g \in Frames : FramePlaced(g)' /\ Filled(g)'
  BY <1>2, <1>4, FramesUntouched
<1>6. TaskInv'
  <2>1. Sends(s)' /\ Takes(s)' /\ Drains(s)'
    BY <1>1, <1>2
       DEF Sends, Takes, Drains, SendPcs, ToPcs, SendNode, InHand, NodePcs, IInv, TaskInv
  <2> QED BY <1>1, <1>2, <1>4, <2>1, OthersQuiet DEF TaskInv
<1>7. Queues' /\ \A m \in Nodes : NodePlaced(m)'
  <2>1. \A x \in Streams, m \in Nodes : HasNode(x, m)' <=> HasNode(x, m)
    BY <1>1, <1>2 DEF HasNode, InHand, NodePcs, OnlyTask, Stays
  <2> QED BY <1>2, <2>1, NodesUntouched
<1>8. Once'
  <2>1. \A x \in Streams : Owed(x)' # {} => Owed(x)' \subseteq Owed(x) /\ frm'[x] = frm[x]
    BY <1>1, <1>2 DEF Owed, SendPcs, ToPcs, OnlyTask, Stays
  <2> QED BY <1>2, <1>3, <2>1, OnceKept
<1>9. RecycledOnce'
  BY <1>1, <1>2 DEF RecycledOnce, IInv, OnlyTask, Stays
<1> QED BY <1>5, <1>6, <1>7, <1>8, <1>9 DEF IInv, PlaceInv

LEMMA EnableStream ==
  ASSUME TypeOK, TypeOK', IInv, NEW s \in Streams, enable_stream(s)
  PROVE  IInv'
<1>1. pc[s] = "idle" /\ OnlyTask(s)
  BY DEF enable_stream, At, OnlyTask, Stays, locals
<1>2. UNCHANGED <<src_d_list_f, src_d_list_u, d_list_f, d_list_u, used, ref, data, filling,
                  got, held, pc, cont, frm, node, to, todo, tmp>>
  BY DEF enable_stream, lists, count, keeps, locals
<1>3. Carrying' = Carrying
  BY <1>2, CarryingSame DEF InQueue, Hands
<1>4. \A g : Refs(g)' = Refs(g)
  BY <1>2, <1>3, RefsUntouched DEF TaskRef
<1>5. FramesCounted' /\ SharedIsOut' /\ \A g \in Frames : FramePlaced(g)' /\ Filled(g)'
  BY <1>2, <1>4, FramesUntouched
<1>6. TaskInv'
  <2>1. Sends(s)' /\ Takes(s)' /\ Drains(s)'
    BY <1>1, <1>2 DEF Sends, Takes, Drains, SendPcs, ToPcs, SendNode, InHand, NodePcs
  <2> QED BY <1>1, <1>2, <1>4, <2>1, OthersQuiet DEF TaskInv
<1>7. Queues' /\ \A m \in Nodes : NodePlaced(m)'
  BY <1>2, NodesUntouched DEF HasNode, InHand
<1>8. Once'
  BY <1>2, <1>3, OnceKept DEF Owed
<1>9. RecycledOnce'
  BY <1>2 DEF RecycledOnce, IInv
<1> QED BY <1>5, <1>6, <1>7, <1>8, <1>9 DEF IInv, PlaceInv

LEMMA CloseStream ==
  ASSUME TypeOK, TypeOK', IInv, NEW s \in Streams, close_stream(s)
  PROVE  IInv'
<1>1. /\ pc[s] = "idle" /\ pc'[s] = "drain" /\ used[s] = ISUED
      /\ used' = [used EXCEPT ![s] = UNAVAILABLE]
      /\ \A g \in filling : g \in Frames /\ src[g] # s
      /\ OnlyTask(s)
  BY DEF close_stream, At, OnlyTask, Stays, Go, TypeOK, FramesOf, locals
<1>2. UNCHANGED <<src_d_list_f, src_d_list_u, d_list_f, d_list_u, ref, data, filling,
                  got, held, cont, frm, node, to, todo, tmp>>
  BY DEF close_stream, lists, count, keeps, locals
<1>3. used'[s] = UNAVAILABLE /\ \A x \in Streams \ {s} : used'[x] = used[x]
  BY <1>1 DEF TypeOK
<1>4. Carrying' = Carrying
  <2>1. \A x \in Streams : \A m : Hands(x, m)' <=> Hands(x, m)
    BY <1>1, <1>2 DEF Hands, OnlyTask, Stays
  <2> QED BY <1>2, <2>1, CarryingSame DEF InQueue
<1>5. \A g : Refs(g)' = Refs(g)
  <2>1. \A x \in Streams : \A g : TaskRef(x, g)' <=> TaskRef(x, g)
    BY <1>1, <1>2 DEF TaskRef, SendPcs, OnlyTask, Stays
  <2> QED BY <1>2, <1>4, <2>1, RefsUntouched
<1>6. \A d \in Streams : \/ used'[d] = used[d]
                         \/ /\ AVAILABLE_AGAIN \notin {used'[d], used[d]}
                            /\ \A g \in filling : src[g] # d
  BY <1>1, <1>3 DEF ISUED, UNAVAILABLE, AVAILABLE_AGAIN
<1>7. FramesCounted' /\ SharedIsOut' /\ \A g \in Frames : FramePlaced(g)' /\ Filled(g)'
  BY <1>2, <1>5, <1>6, FramesUntouched
<1>8. TaskInv'
  <2>1. Sends(s)' /\ Takes(s)' /\ Drains(s)'
    BY <1>1, <1>2, <1>3 DEF Sends, Takes, Drains, SendPcs, ToPcs, SendNode, InHand, NodePcs
  <2> QED BY <1>1, <1>2, <1>3, <1>5, <2>1, OthersQuiet DEF TaskInv
<1>9. Queues' /\ \A m \in Nodes : NodePlaced(m)'
  <2>1. \A x \in Streams, m \in Nodes : HasNode(x, m)' <=> HasNode(x, m)
    BY <1>1, <1>2 DEF HasNode, InHand, NodePcs, OnlyTask, Stays
  <2>2. \A d \in Streams : used'[d] = AVAILABLE_AGAIN <=> used[d] = AVAILABLE_AGAIN
    BY <1>6
  <2> QED BY <1>2, <2>1, <2>2, NodesUntouched
<1>10. Once'
  <2>1. \A x \in Streams : Owed(x)' # {} => Owed(x)' \subseteq Owed(x) /\ frm'[x] = frm[x]
    BY <1>1, <1>2 DEF Owed, SendPcs, ToPcs, OnlyTask, Stays
  <2> QED BY <1>2, <1>4, <2>1, OnceKept
<1>11. RecycledOnce'
  BY <1>1, <1>2 DEF RecycledOnce, IInv, OnlyTask, Stays
<1> QED BY <1>7, <1>8, <1>9, <1>10, <1>11 DEF IInv, PlaceInv

LEMMA CloseDrainNode ==
  ASSUME TypeOK, TypeOK', IInv, NEW s \in Streams, close_drain_node(s)
  PROVE  IInv'
<1>1. pc[s] = "drain_node" /\ pc'[s] \in {"drain", "drain_end"} /\ OnlyTask(s)
  BY DEF close_drain_node, At, OnlyTask, Stays, Go, TypeOK
<1>2. UNCHANGED <<src_d_list_f, src_d_list_u, d_list_u, used, ref, data, filling,
                  got, held, cont, frm, to, todo>>
  BY DEF close_drain_node, state, count, keeps
<1>3. /\ used[s] = UNAVAILABLE /\ node[s] \in Nodes /\ dest[node[s]] = s
      /\ HasNode(s, node[s]) /\ d_list_f' = d_list_f \cup {node[s]}
  BY <1>1 DEF IInv, TaskInv, Drains, HasNode, InHand, NodePcs, close_drain_node, NodeBack
<1>4. Carrying' = Carrying
  <2>1. \A x \in Streams : \A m : Hands(x, m)' <=> Hands(x, m)
    BY <1>1, <1>2 DEF Hands, OnlyTask, Stays
  <2> QED BY <1>2, <2>1, CarryingSame DEF InQueue
<1>5. \A g : Refs(g)' = Refs(g)
  <2>1. \A x \in Streams : \A g : TaskRef(x, g)' <=> TaskRef(x, g)
    BY <1>1, <1>2 DEF TaskRef, SendPcs, OnlyTask, Stays
  <2> QED BY <1>2, <1>4, <2>1, RefsUntouched
<1>6. FramesCounted' /\ SharedIsOut' /\ \A g \in Frames : FramePlaced(g)' /\ Filled(g)'
  BY <1>2, <1>5, FramesUntouched
<1>7. TaskInv'
  <2>1. Sends(s)' /\ Takes(s)' /\ Drains(s)'
    BY <1>1, <1>2, <1>3 DEF Sends, Takes, Drains, SendPcs, ToPcs, SendNode, InHand, NodePcs
  <2> QED BY <1>1, <1>2, <1>5, <2>1, OthersQuiet DEF TaskInv
<1>8. Queues' /\ \A m \in Nodes : NodePlaced(m)'
  <2>1. s \notin InHand'
    BY <1>1 DEF InHand, NodePcs
  <2>2. used[s] # AVAILABLE_AGAIN
    BY <1>3 DEF UNAVAILABLE, AVAILABLE_AGAIN
  <2> QED BY <1>1, <1>2, <1>3, <2>1, <2>2, NodeGoesBack
<1>9. Once'
  <2>1. \A x \in Streams : Owed(x)' # {} => Owed(x)' \subseteq Owed(x) /\ frm'[x] = frm[x]
    BY <1>1, <1>2 DEF Owed, SendPcs, ToPcs, OnlyTask, Stays
  <2> QED BY <1>2, <1>4, <2>1, OnceKept
<1>10. RecycledOnce'
  BY <1>1, <1>2 DEF RecycledOnce, IInv, OnlyTask, Stays
<1> QED BY <1>6, <1>7, <1>8, <1>9, <1>10 DEF IInv, PlaceInv

LEMMA CloseEnd ==
  ASSUME TypeOK, TypeOK', IInv, NEW s \in Streams, close_end(s)
  PROVE  IInv'
<1>1. /\ pc[s] \in {"drain", "drain_end"} /\ pc'[s] = "idle" /\ used[s] = UNAVAILABLE
      /\ used' = [used EXCEPT ![s] = WAIT_GC_MARKER]
      /\ OnlyTask(s)
  BY DEF close_end, At, OnlyTask, Stays, Go, TypeOK, locals, IInv, TaskInv, Drains
<1>2. UNCHANGED <<src_d_list_f, src_d_list_u, d_list_f, d_list_u, ref, data, filling,
                  got, held, cont, frm, node, to, todo, tmp>>
  BY DEF close_end, lists, count, keeps, locals
<1>3. used'[s] = WAIT_GC_MARKER /\ \A x \in Streams \ {s} : used'[x] = used[x]
  BY <1>1 DEF TypeOK
<1>4. Carrying' = Carrying
  <2>1. \A x \in Streams : \A m : Hands(x, m)' <=> Hands(x, m)
    BY <1>1, <1>2 DEF Hands, OnlyTask, Stays
  <2> QED BY <1>2, <2>1, CarryingSame DEF InQueue
<1>5. \A g : Refs(g)' = Refs(g)
  <2>1. \A x \in Streams : \A g : TaskRef(x, g)' <=> TaskRef(x, g)
    BY <1>1, <1>2 DEF TaskRef, SendPcs, OnlyTask, Stays
  <2> QED BY <1>2, <1>4, <2>1, RefsUntouched
<1>6. \A d \in Streams : \/ used'[d] = used[d]
                         \/ /\ AVAILABLE_AGAIN \notin {used'[d], used[d]}
                            /\ \A g \in filling : src[g] # d
  <2>1. \A g \in filling : used[src[g]] = ISUED
    BY DEF TypeOK, IInv, PlaceInv, Filled
  <2> QED BY <1>1, <1>3, <2>1 DEF ISUED, UNAVAILABLE, WAIT_GC_MARKER, AVAILABLE_AGAIN
<1>7. FramesCounted' /\ SharedIsOut' /\ \A g \in Frames : FramePlaced(g)' /\ Filled(g)'
  BY <1>2, <1>5, <1>6, FramesUntouched
<1>8. TaskInv'
  <2>1. Sends(s)' /\ Takes(s)' /\ Drains(s)'
    BY <1>1 DEF Sends, Takes, Drains, SendPcs, ToPcs, SendNode, InHand, NodePcs
  <2> QED BY <1>1, <1>2, <1>3, <1>5, <2>1, OthersQuiet DEF TaskInv
<1>9. Queues' /\ \A m \in Nodes : NodePlaced(m)'
  <2>1. \A x \in Streams, m \in Nodes : HasNode(x, m)' <=> HasNode(x, m)
    BY <1>1, <1>2 DEF HasNode, InHand, NodePcs, OnlyTask, Stays
  <2>2. \A d \in Streams : used'[d] = AVAILABLE_AGAIN <=> used[d] = AVAILABLE_AGAIN
    BY <1>6
  <2> QED BY <1>2, <2>1, <2>2, NodesUntouched
<1>10. Once'
  <2>1. \A x \in Streams : Owed(x)' # {} => Owed(x)' \subseteq Owed(x) /\ frm'[x] = frm[x]
    BY <1>1, <1>2 DEF Owed, SendPcs, ToPcs, OnlyTask, Stays
  <2> QED BY <1>2, <1>4, <2>1, OnceKept
<1>11. RecycledOnce'
  BY <1>1, <1>2, <1>3 DEF RecycledOnce, IInv, OnlyTask, Stays
<1> QED BY <1>7, <1>8, <1>9, <1>10, <1>11 DEF IInv, PlaceInv

(* Nobody has a frame or a node of a stream whose arrays are freed.         *)
LEMMA Mark ==
  ASSUME TypeOK, TypeOK', IInv, raced' = {}, NEW s \in Streams, mark(s)
  PROVE  IInv'
<1>1. /\ used[s] = WAIT_GC_MARKER /\ used' = [used EXCEPT ![s] = AVAILABLE_AGAIN]
      /\ d_list_u[s] = <<>>
      /\ \A x \in Streams : pc[x] \in SendNode => to[x] # s
      /\ \A g \in Frames : src[g] = s => g \notin src_d_list_u
  BY NotFreed DEF mark, StillUsed, FramesOf
<1>2. UNCHANGED <<ref, data, filling, got, held, pc, cont, frm, node, to, todo, tmp>>
  BY DEF mark, count, keeps, locals
<1>3. /\ used'[s] = AVAILABLE_AGAIN /\ \A x \in Streams \ {s} : used'[x] = used[x]
      /\ src_d_list_f' = src_d_list_f \ FramesOf(s)
      /\ d_list_f' = d_list_f \ NodesOf(s)
      /\ d_list_u' = [d_list_u EXCEPT ![s] = <<>>]
  BY <1>1 DEF mark, TypeOK
<1>4. src_d_list_u' = src_d_list_u /\ d_list_u' = d_list_u
  <2>1. src_d_list_u' = src_d_list_u
    BY <1>1 DEF mark, FramesOf
  <2> QED BY <1>1, <1>3, <2>1 DEF TypeOK
<1>5. \A g \in Frames : src[g] = s => g \notin filling
  BY <1>1 DEF IInv, PlaceInv, Filled, ISUED, WAIT_GC_MARKER
<1>6. \A x \in Streams, m \in Nodes : HasNode(x, m) => dest[m] # s
  <2> SUFFICES ASSUME NEW x \in Streams, NEW m \in Nodes, HasNode(x, m), dest[m] = s PROVE FALSE
    OBVIOUS
  <2>0. pc[x] \notin SendNode
    BY <1>1 DEF HasNode, IInv, TaskInv, Sends
  <2>1. /\ x \in InHand /\ pc[x] \in {"recv", "drain_node", "recycle", "free_end"}
        /\ node[x] = m
    BY <2>0 DEF HasNode, InHand, NodePcs, SendNode
  <2>2. used[x] \in {ISUED, UNAVAILABLE} /\ dest[node[x]] = x
    BY <2>1 DEF IInv, TaskInv, Takes, Drains
  <2> QED BY <1>1, <2>1, <2>2 DEF ISUED, UNAVAILABLE, WAIT_GC_MARKER
<1>7. Carrying' = Carrying
  BY <1>2, <1>4, CarryingSame DEF InQueue, Hands
<1>8. \A g : Refs(g)' = Refs(g)
  BY <1>2, <1>7, RefsUntouched DEF TaskRef
<1>9. FramesCounted' /\ SharedIsOut'
  BY <1>2, <1>4, <1>8 DEF IInv, FramesCounted, SharedIsOut
<1>10. ASSUME NEW g \in Frames PROVE FramePlaced(g)' /\ Filled(g)'
  <2>1. src[g] \in Streams
    BY OwnersAssumption
  <2>2. CASE src[g] = s
    BY <1>1, <1>2, <1>3, <1>4, <1>5, <2>2 DEF FramePlaced, Filled, FramesOf
  <2>3. CASE src[g] # s
    BY <1>2, <1>3, <1>4, <1>8, <2>1, <2>3 DEF IInv, PlaceInv, FramePlaced, Filled, FramesOf
  <2> QED BY <2>2, <2>3
<1>11. \A x \in Streams : InQueue(x)' = InQueue(x)
  BY <1>4 DEF InQueue
<1>12. Queues' /\ InQueue(s) = {}
  <2>1. Queues'
    BY <1>4, <1>11 DEF IInv, PlaceInv, Queues, NodesOf
  <2>2. d_list_u[s] = <<>> /\ d_list_u[s] \in Seq(Nodes)
    BY <1>1 DEF TypeOK
  <2> QED BY <2>1, <2>2, EmptyQueue, InQueueIs
<1>13. \A x, m : HasNode(x, m)' <=> HasNode(x, m)
  BY <1>2 DEF HasNode, InHand
<1>14. ASSUME NEW m \in Nodes PROVE NodePlaced(m)'
  <2>1. dest[m] \in Streams /\ NodePlaced(m)
    BY OwnersAssumption DEF IInv, PlaceInv
  <2>2. CASE dest[m] = s
    <3>1. m \notin d_list_f' /\ (m \notin InQueue(dest[m]))' /\ \A x \in Streams : ~HasNode(x, m)'
      BY <1>3, <1>6, <1>11, <1>12, <1>13, <2>2 DEF NodesOf
    <3> QED BY <1>3, <2>2, <3>1 DEF NodePlaced
  <2>3. CASE dest[m] # s
    <3>1. (m \in d_list_f)' <=> m \in d_list_f
      BY <1>3, <2>3 DEF NodesOf
    <3> QED BY <1>3, <1>11, <1>13, <2>1, <2>3, <3>1, NodeElsewhere
  <2> QED BY <2>2, <2>3
<1>15. ASSUME NEW x \in Streams PROVE Sends(x)' /\ Takes(x)' /\ Drains(x)'
  <2>1. Sends(x)'
    BY <1>2, <1>4 DEF IInv, TaskInv, Sends, SendPcs, ToPcs, SendNode
  <2>2. Takes(x)'
    BY <1>1, <1>2, <1>3 DEF IInv, TaskInv, Takes, ISUED, WAIT_GC_MARKER
  <2>3. Drains(x)'
    <3>1. used[x] = UNAVAILABLE => used'[x] = UNAVAILABLE
      BY <1>1, <1>3 DEF UNAVAILABLE, WAIT_GC_MARKER
    <3>2. PICK g : g = frm[x] /\ g = frm'[x]
      BY <1>2
    <3>3. pc[x] = "recycle" => Refs(frm[x])' = {}
      BY <1>8, <3>2 DEF IInv, TaskInv, Drains
    <3> QED BY <1>2, <1>4, <3>1, <3>3 DEF IInv, TaskInv, Drains, InHand
  <2> QED BY <2>1, <2>2, <2>3
<1>16. Once'
  BY <1>2, <1>7, OnceKept DEF Owed
<1>17. RecycledOnce'
  BY <1>1, <1>2, <1>3, <1>4 DEF RecycledOnce, IInv
<1> QED BY <1>9, <1>10, <1>12, <1>14, <1>15, <1>16, <1>17 DEF IInv, PlaceInv, TaskInv

LEMMA OpenStream ==
  ASSUME TypeOK, TypeOK', IInv, NEW s \in Streams, open_stream(s)
  PROVE  IInv'
<1>1. /\ pc[s] = "idle" /\ used[s] = AVAILABLE_AGAIN /\ used' = [used EXCEPT ![s] = ISUED]
      /\ src_d_list_f' = src_d_list_f \cup FramesOf(s)
      /\ d_list_f' = d_list_f \cup NodesOf(s)
      /\ OnlyTask(s)
  BY DEF open_stream, At, OnlyTask, Stays, locals
<1>2. UNCHANGED <<src_d_list_u, d_list_u, filling, got, held, pc, cont,
                  frm, node, to, todo, tmp>>
  BY DEF open_stream, keeps, locals
<1>3. used'[s] = ISUED /\ \A x \in Streams \ {s} : used'[x] = used[x]
  BY <1>1 DEF TypeOK
<1>4. \A g \in Frames : ref'[g] = IF src[g] = s THEN 0 ELSE ref[g]
  BY DEF open_stream
<1>5. \A m \in Nodes : dest[m] # s => data'[m] = data[m]
  BY DEF open_stream
<1>6. \A x, m : HasNode(x, m)' <=> HasNode(x, m)
  BY <1>2 DEF HasNode, InHand
<1>7. \A x : InQueue(x)' = InQueue(x)
  BY <1>2 DEF InQueue
<1>8. ASSUME NEW m \in Nodes, dest[m] = s
      PROVE  m \notin InQueue(s) /\ \A x \in Streams : ~HasNode(x, m)
  BY <1>1, <1>8 DEF IInv, PlaceInv, NodePlaced
<1>9. Carrying' = Carrying
  BY <1>2, CarryingSame DEF InQueue, Hands
<1>10. \A m \in Carrying : m \in Nodes /\ dest[m] # s
  <2> SUFFICES ASSUME NEW m \in Carrying, dest[m] = s PROVE FALSE
    BY CarryingAreNodes DEF IInv
  <2>1. m \in Nodes
    BY CarryingAreNodes DEF IInv
  <2>2. PICK x \in Streams : m \in InQueue(x) \/ Hands(x, m)
    BY CarryingIs
  <2>3. m \in InQueue(x) => x = s
    BY DEF IInv, PlaceInv, Queues, NodesOf
  <2>4. Hands(x, m) => HasNode(x, m)
    BY DEF Hands, HasNode, InHand, NodePcs
  <2> QED BY <1>8, <2>1, <2>2, <2>3, <2>4
<1>11. \A g : Refs(g)' = Refs(g)
  BY <1>2, <1>5, <1>9, <1>10, RefsUntouched DEF TaskRef
<1>12. ASSUME NEW g \in Frames, src[g] = s
       PROVE  /\ g \notin src_d_list_f /\ g \notin src_d_list_u /\ g \notin filling
              /\ Refs(g) = {}
  <2>1. g \notin src_d_list_f /\ g \notin src_d_list_u /\ g \notin filling
    BY <1>1, <1>12 DEF IInv, PlaceInv, FramePlaced
  <2> QED BY <2>1 DEF IInv, SharedIsOut
<1>13. FramesCounted'
  <2>1. ASSUME NEW g \in Frames PROVE ref'[g] = Cardinality(Refs(g)')
    <3>1. CASE src[g] = s
      BY <1>4, <1>11, <1>12, <3>1, FS_EmptySet
    <3>2. CASE src[g] # s
      BY <1>4, <1>11, <3>2 DEF IInv, FramesCounted
    <3> QED BY <3>1, <3>2
  <2> QED BY <2>1 DEF FramesCounted
<1>14. SharedIsOut'
  BY <1>2, <1>11 DEF IInv, SharedIsOut
<1>15. ASSUME NEW g \in Frames PROVE FramePlaced(g)' /\ Filled(g)'
  <2>1. src[g] \in Streams
    BY OwnersAssumption
  <2>2. CASE src[g] = s
    BY <1>1, <1>2, <1>3, <1>12, <2>2
       DEF FramePlaced, Filled, FramesOf, ISUED, AVAILABLE_AGAIN
  <2>3. CASE src[g] # s
    BY <1>1, <1>2, <1>3, <1>11, <2>1, <2>3 DEF IInv, PlaceInv, FramePlaced, Filled, FramesOf
  <2> QED BY <2>2, <2>3
<1>16. Queues'
  BY <1>2, <1>7 DEF IInv, PlaceInv, Queues, NodesOf
<1>17. ASSUME NEW m \in Nodes PROVE NodePlaced(m)'
  <2>1. dest[m] \in Streams /\ NodePlaced(m)
    BY OwnersAssumption DEF IInv, PlaceInv
  <2>2. CASE dest[m] = s
    <3>1. /\ m \in d_list_f' /\ (m \notin InQueue(dest[m]))'
          /\ \A x \in Streams : ~HasNode(x, m)'
      BY <1>1, <1>6, <1>7, <1>8, <2>2 DEF NodesOf
    <3> QED BY <1>3, <2>2, <3>1 DEF NodePlaced, ISUED, AVAILABLE_AGAIN
  <2>3. CASE dest[m] # s
    <3>1. (m \in d_list_f)' <=> m \in d_list_f
      BY <1>1, <2>3 DEF NodesOf
    <3> QED BY <1>3, <1>6, <1>7, <2>1, <2>3, <3>1, NodeElsewhere
  <2> QED BY <2>2, <2>3
<1>18. TaskInv'
  <2>1. Sends(s)' /\ Takes(s)' /\ Drains(s)'
    BY <1>1, <1>2 DEF Sends, Takes, Drains, SendPcs, ToPcs, SendNode, InHand, NodePcs
  <2>2. \A x \in Streams \ {s} : pc[x] = "send_append" => data'[node[x]] = data[node[x]]
    <3> SUFFICES ASSUME NEW x \in Streams \ {s}, pc[x] = "send_append"
                 PROVE  data'[node[x]] = data[node[x]]
      OBVIOUS
    <3>1. node[x] \in Nodes /\ HasNode(x, node[x])
      BY DEF IInv, TaskInv, Sends, SendNode, HasNode, InHand, NodePcs
    <3>2. dest[node[x]] # s
      BY <1>8, <3>1
    <3> QED BY <1>5, <3>1, <3>2
  <2> QED BY <1>1, <1>2, <1>3, <1>11, <2>1, <2>2, OthersQuiet DEF TaskInv
<1>19. Once'
  BY <1>2, <1>5, <1>9, <1>10, OnceKept DEF Owed
<1>20. RecycledOnce'
  BY <1>2 DEF RecycledOnce, IInv
<1> QED BY <1>13, <1>14, <1>15, <1>16, <1>17, <1>18, <1>19, <1>20 DEF IInv, PlaceInv

-----------------------------------------------------------------------------
(* The invariant holds at first and every step keeps it.                    *)
LEMMA InitInv == Init => IInv
<1> SUFFICES ASSUME Init PROVE IInv
  OBVIOUS
<1>1. /\ \A s \in Streams : /\ used[s] = ISUED /\ pc[s] = "idle" /\ d_list_u[s] = <<>>
                            /\ got[s] = {} /\ held[s] = {}
      /\ \A f \in Frames : ref[f] = 0 /\ src[f] \in Streams
      /\ src_d_list_f = Frames /\ src_d_list_u = {} /\ filling = {} /\ d_list_f = Nodes
      /\ \A n \in Nodes : dest[n] \in Streams
  BY OwnersAssumption DEF Init
<1>2. \A s \in Streams : InQueue(s) = {} /\ NoRepeats(d_list_u[s])
  BY <1>1 DEF InQueue, NoRepeats
<1>3. InHand = {}
  BY <1>1 DEF InHand, NodePcs
<1>4. \A n : n \notin Carrying
  BY <1>1, <1>2, CarryingIs DEF Hands
<1>5. ASSUME NEW f PROVE Refs(f) = {}
  <2> SUFFICES ASSUME NEW r \in Refs(f) PROVE FALSE
    OBVIOUS
  <2>1. <<r[1], r[2]>> \in Refs(f)
    BY RefsArePairs DEF RefsPairs
  <2> QED BY <1>1, <1>4, <2>1, RefsIs DEF RefsAre, TaskRef, NodeRef, SendPcs
<1>6. TaskInv
  BY <1>1, <1>3
     DEF TaskInv, Sends, Takes, Drains, SendPcs, ToPcs, SendNode
<1>7. Queues
  BY <1>2 DEF Queues
<1>8. \A n \in Nodes : NodePlaced(n)
  BY <1>1, <1>2, <1>3 DEF NodePlaced, HasNode, ISUED, AVAILABLE_AGAIN
<1>9. \A f \in Frames : FramePlaced(f) /\ Filled(f)
  BY <1>1 DEF FramePlaced, Filled, ISUED, AVAILABLE_AGAIN
<1>10. Once
  BY <1>1, <1>4 DEF Once, Owed, SendPcs
<1>11. RecycledOnce
  BY <1>1 DEF RecycledOnce
<1>12. FramesCounted /\ SharedIsOut
  BY <1>1, <1>5, FS_EmptySet DEF FramesCounted, SharedIsOut
<1> QED BY <1>6, <1>7, <1>8, <1>9, <1>10, <1>11, <1>12 DEF IInv, PlaceInv

LEMMA StepType == TypeOK /\ IInv /\ raced' = {} /\ [Next]_vars => TypeOK'
<1> SUFFICES ASSUME TypeOK, IInv, raced' = {}, [Next]_vars PROVE TypeOK'
  OBVIOUS
<1>1. ASSUME NEW s \in Streams, Inside(s) \/ Call(s) \/ mark(s) PROVE TypeOK'
  BY <1>1, TypeInside, TypeCall, TypeMark DEF IInv
<1>2. CASE UNCHANGED vars
  BY <1>2 DEF vars, lists, state, count, keeps, locals, TypeOK
<1> QED BY <1>1, <1>2 DEF Next

LEMMA Stutter == TypeOK /\ IInv /\ UNCHANGED vars => IInv'
<1> SUFFICES ASSUME TypeOK, IInv, UNCHANGED vars PROVE IInv'
  OBVIOUS
<1> USE DEF vars, lists, state, count, keeps, locals
<1>1. Carrying' = Carrying
  BY CarryingSame DEF InQueue, Hands
<1>2. \A g : Refs(g)' = Refs(g)
  BY <1>1, RefsUntouched DEF TaskRef
<1>3. FramesCounted' /\ SharedIsOut' /\ \A g \in Frames : FramePlaced(g)' /\ Filled(g)'
  BY <1>2, FramesUntouched
<1>4. Queues' /\ \A m \in Nodes : NodePlaced(m)'
  BY NodesUntouched DEF HasNode, InHand
<1>5. ASSUME NEW x \in Streams PROVE Sends(x)' /\ Takes(x)' /\ Drains(x)'
  <2>1. Sends(x)' /\ Takes(x)'
    BY DEF IInv, TaskInv, Sends, Takes
  <2>2. PICK g : g = frm[x] /\ g = frm'[x]
    OBVIOUS
  <2>3. pc[x] = "recycle" => Refs(frm[x])' = {}
    BY <1>2, <2>2 DEF IInv, TaskInv, Drains
  <2> QED BY <2>1, <2>3 DEF IInv, TaskInv, Drains, InHand
<1>6. Once'
  BY <1>1, OnceKept DEF Owed
<1>7. RecycledOnce'
  BY DEF RecycledOnce, IInv
<1> QED BY <1>3, <1>4, <1>5, <1>6, <1>7 DEF IInv, PlaceInv, TaskInv

LEMMA StepInv == TypeOK /\ IInv /\ raced' = {} /\ [Next]_vars => IInv'
<1> SUFFICES ASSUME TypeOK, IInv, raced' = {}, [Next]_vars PROVE IInv'
  OBVIOUS
<1>1. TypeOK'
  BY StepType
<1>2. ASSUME NEW s \in Streams, Inside(s) PROVE IInv'
  BY <1>1, <1>2, SendEach, SendPop, SendLoad, SendStore, SendAppend, SendFinish, RecvKeep,
     RecvFilter, RecvFree, CloseHead, CloseDrain, CloseDrainNode, CloseEnd, Recycle, FreeEnd
     DEF Inside
<1>3. ASSUME NEW s \in Streams, Call(s) PROVE IInv'
  <2>1. CASE recv_real_data(s) \/ enable_stream(s) \/ close_stream(s) \/ open_stream(s)
    BY <1>1, <2>1, RecvRealData, EnableStream, CloseStream, OpenStream
  <2>2. ASSUME NEW f \in Frames,
               free_got(s, f) \/ free_held(s, f) \/ get_src_data_f(s, f) \/ hold_data(s, f)
        PROVE  IInv'
    BY <1>1, <2>2, FreeKept, GetSrcDataF, HoldData
  <2>3. ASSUME NEW f \in Frames, send_data_to_stream(s, f) \/ force_del_data(s, f) PROVE IInv'
    <3>1. PICK D \in SUBSET Streams : Issue(s, f, D)
      BY <2>3, OwnersAssumption DEF send_data_to_stream, force_del_data
    <3> QED BY <1>1, <3>1, IssueStep
  <2> QED BY <1>3, <2>1, <2>2, <2>3 DEF Call, Giveback
<1>4. ASSUME NEW s \in Streams, mark(s) PROVE IInv'
  BY <1>1, <1>4, Mark
<1> QED BY <1>2, <1>3, <1>4, Stutter DEF Next

(* The inductive invariant holds in every reachable state before the first  *)
(* race.                                                                    *)
Sound == raced # {} \/ (TypeOK /\ IInv)

THEOREM Invariance == Spec => []Sound
<1>1. Init => Sound
  BY TypeInit, InitInv DEF Sound
<1>2. Sound /\ [Next]_vars => Sound'
  <2> SUFFICES ASSUME Sound, [Next]_vars, raced' = {} PROVE TypeOK' /\ IInv'
    BY DEF Sound
  <2>1. TypeOK /\ IInv
    BY RacesStay DEF Sound
  <2> QED BY <2>1, StepType, StepInv
<1> QED BY <1>1, <1>2, PTL DEF Spec

(* ref counts exactly the sending or filtering call, the nodes, the         *)
(* received and the held uses of a frame: no free_data comes once too often *)
(* or too rarely, in any interleaving of the calls up to the first race.    *)
THEOREM CountsExact == Spec => []FrameRefExact
<1>1. Sound => FrameRefExact
  BY DEF Sound, IInv, FrameRefExact
<1> QED BY <1>1, Invariance, PTL

(* A frame somebody may still read is neither on the free list of its       *)
(* source nor in freed memory: the four races are the only way in which one *)
(* is ever written under a reader.                                          *)
THEOREM ReadersAreSafe == Spec => []ReadersKeepTheirs
<1>1. Sound => ReadersKeepTheirs
  BY DEF Sound, IInv, ReadersKeepTheirs
<1> QED BY <1>1, Invariance, PTL

-----------------------------------------------------------------------------
(* Nothing is lost.  A queue without repetitions is never longer than there *)
(* are nodes.                                                               *)
LEMMA QueueLength ==
  ASSUME NEW q \in Seq(Nodes), NoRepeats(q)
  PROVE  Len(q) <= Cardinality(Nodes)
<1>1. Len(q) \in Nat /\ q \in [1 .. Len(q) -> Nodes]
  OBVIOUS
<1>2. q \in Injection(1 .. Len(q), Nodes)
  BY <1>1 DEF NoRepeats, Injection, IsInjective
<1>3. Cardinality(1 .. Len(q)) <= Cardinality(Nodes)
  BY <1>2, SizeAssumption, FS_Injection
<1>4. Cardinality(1 .. Len(q)) = Len(q)
  BY <1>1, FS_Interval
<1> QED BY <1>3, <1>4

LEMMA FramesConserved ==
  ASSUME NEW f \in Frames, FramePlaced(f)
  PROVE  FrameConserved(f)
<1> DEFINE P == {l \in {"f", "u", "fill"} : \/ l = "f" /\ f \in src_d_list_f
                                            \/ l = "u" /\ f \in src_d_list_u
                                            \/ l = "fill" /\ f \in filling}
<1>1. CASE used[src[f]] = AVAILABLE_AGAIN
  <2>1. P = {}
    BY <1>1 DEF FramePlaced
  <2> QED BY <1>1, <2>1, FS_EmptySet DEF FrameConserved
<1>2. CASE used[src[f]] # AVAILABLE_AGAIN
  <2>1. \E l : P = {l}
    <3>1. CASE f \in src_d_list_f
      <4>1. P = {"f"}
        BY <3>1 DEF FramePlaced
      <4> QED BY <4>1
    <3>2. CASE f \in src_d_list_u
      <4>1. P = {"u"}
        BY <3>2 DEF FramePlaced
      <4> QED BY <4>1
    <3>3. CASE f \in filling
      <4>1. P = {"fill"}
        BY <3>3 DEF FramePlaced
      <4> QED BY <4>1
    <3> QED BY <1>2, <3>1, <3>2, <3>3 DEF FramePlaced
  <2>2. Cardinality(P) = 1
    BY <2>1, FS_Singleton
  <2> QED BY <1>2, <2>2 DEF FrameConserved
<1> QED BY <1>1, <1>2

LEMMA NodesConserved ==
  ASSUME TypeOK, Queues, NEW n \in Nodes, NodePlaced(n)
  PROVE  NodeConserved(n)
<1> DEFINE Q == {p \in Streams \X (1 .. Cardinality(Nodes)) :
                   p[2] <= Len(d_list_u[p[1]]) /\ d_list_u[p[1]][p[2]] = n}
           H == {s \in InHand : node[s] = n}
           free == IF n \in d_list_f THEN 1 ELSE 0
           there == IF used[dest[n]] = AVAILABLE_AGAIN THEN 0 ELSE 1
<1>1. dest[n] \in Streams
  BY OwnersAssumption
<1>2. ASSUME NEW p \in Q
      PROVE  p[1] = dest[n] /\ n \in InQueue(dest[n]) /\ p = <<p[1], p[2]>>
             /\ p[2] \in 1 .. Len(d_list_u[dest[n]]) /\ d_list_u[dest[n]][p[2]] = n
  <2>1. /\ p[1] \in Streams /\ p[2] \in 1 .. Cardinality(Nodes) /\ p = <<p[1], p[2]>>
        /\ p[2] <= Len(d_list_u[p[1]]) /\ d_list_u[p[1]][p[2]] = n
        /\ Len(d_list_u[p[1]]) \in Nat
    BY <1>2 DEF TypeOK
  <2>2. p[2] \in 1 .. Len(d_list_u[p[1]])
    BY <2>1, SizeAssumption, FS_CardinalityType
  <2>3. n \in InQueue(p[1])
    BY <2>1, <2>2 DEF InQueue
  <2>4. p[1] = dest[n]
    BY <2>1, <2>3 DEF Queues, NodesOf
  <2> QED BY <2>1, <2>2, <2>3, <2>4
<1>3. n \notin InQueue(dest[n]) => Q = {}
  BY <1>2
<1>4. n \in InQueue(dest[n]) => \E p : Q = {p}
  <2> SUFFICES ASSUME n \in InQueue(dest[n]) PROVE \E p : Q = {p}
    OBVIOUS
  <2>1. PICK i \in 1 .. Len(d_list_u[dest[n]]) : d_list_u[dest[n]][i] = n
    BY DEF InQueue
  <2>2. /\ d_list_u[dest[n]] \in Seq(Nodes) /\ NoRepeats(d_list_u[dest[n]])
    BY <1>1 DEF TypeOK, Queues
  <2>3. Len(d_list_u[dest[n]]) <= Cardinality(Nodes) /\ Len(d_list_u[dest[n]]) \in Nat
    BY <2>2, QueueLength
  <2>4. i \in 1 .. Cardinality(Nodes) /\ i <= Len(d_list_u[dest[n]])
    BY <2>1, <2>3, SizeAssumption, FS_CardinalityType
  <2>5. <<dest[n], i>> \in Q
    BY <1>1, <2>1, <2>4
  <2>6. ASSUME NEW p \in Q PROVE p = <<dest[n], i>>
    <3>1. p[2] = i
      BY <1>2, <2>1, <2>2, <2>6 DEF NoRepeats
    <3> QED BY <1>2, <2>6, <3>1
  <2> HIDE DEF Q
  <2>7. Q = {<<dest[n], i>>}
    BY <2>5, <2>6
  <2> QED BY <2>7
<1>5. (\A s \in Streams : ~HasNode(s, n)) => H = {}
  BY DEF HasNode, InHand
<1>6. ASSUME NEW s \in Streams, HasNode(s, n) PROVE \E x : H = {x}
  <2>1. H = {s}
    BY <1>6 DEF HasNode, NodePlaced, InHand
  <2> QED BY <2>1
<1>7. NodeConserved(n) <=> free + Cardinality(Q) + Cardinality(H) = there
  BY DEF NodeConserved
<1> HIDE DEF Q, H
<1>8. (\A S : S = {} => Cardinality(S) = 0) /\ (\A S : (\E x : S = {x}) => Cardinality(S) = 1)
  BY FS_EmptySet, FS_Singleton
<1>9. CASE n \in d_list_f
  <2>1. Q = {} /\ H = {} /\ free = 1 /\ there = 1
    BY <1>3, <1>5, <1>9 DEF NodePlaced
  <2> QED BY <1>7, <1>8, <2>1
<1>10. CASE n \in InQueue(dest[n])
  <2>1. H = {} /\ free = 0 /\ there = 1
    BY <1>5, <1>10 DEF NodePlaced
  <2> QED BY <1>4, <1>7, <1>8, <1>10, <2>1
<1>11. CASE \E s \in Streams : HasNode(s, n)
  <2>1. Q = {} /\ free = 0 /\ there = 1 /\ \E x : H = {x}
    BY <1>3, <1>6, <1>11 DEF NodePlaced
  <2> QED BY <1>7, <1>8, <2>1
<1>12. CASE used[dest[n]] = AVAILABLE_AGAIN
  <2>1. Q = {} /\ H = {} /\ free = 0 /\ there = 0
    BY <1>3, <1>5, <1>12 DEF NodePlaced
  <2> QED BY <1>7, <1>8, <2>1
<1> QED BY <1>9, <1>10, <1>11, <1>12 DEF NodePlaced

(* Each node and each frame is in exactly one place of its stream, and in   *)
(* none after stream_gc_marker_timer freed the arrays, up to the first      *)
(* race.                                                                    *)
THEOREM NothingIsLost == Spec => []Conserved
<1>1. Sound => Conserved
  BY FramesConserved, NodesConserved DEF Sound, IInv, PlaceInv, Conserved, AllInPlace
<1> QED BY <1>1, Invariance, PTL

-----------------------------------------------------------------------------
(* The data path implements FrameOwnership.  What a frame is there:         *)
Phases == [f \in Frames |-> Phase(f)]
Shares == [f \in Frames |-> Cardinality(Refs(f))]

LEMMA PhaseIs ==
  ASSUME NEW f \in Frames, FramePlaced(f)
  PROVE  /\ f \in src_d_list_f => Phases[f] = "free"
         /\ f \in src_d_list_u => Phases[f] = "shared"
         /\ f \in filling => Phases[f] = "filling"
         /\ used[src[f]] = AVAILABLE_AGAIN => Phases[f] = "gone"
         /\ used[src[f]] # AVAILABLE_AGAIN => Phases[f] \in {"free", "shared", "filling"}
<1>1. Phases[f] = Phase(f)
  BY DEF Phases
<1>2. CASE f \in src_d_list_f
  BY <1>1, <1>2 DEF Phase, FramePlaced
<1>3. CASE f \in src_d_list_u
  BY <1>1, <1>3 DEF Phase, FramePlaced
<1>4. CASE f \in filling
  BY <1>1, <1>4 DEF Phase, FramePlaced
<1>5. CASE used[src[f]] = AVAILABLE_AGAIN
  BY <1>1, <1>5 DEF Phase, FramePlaced
<1> QED BY <1>2, <1>3, <1>4, <1>5 DEF FramePlaced

SharesExact == TypeOK /\ IInv => Shares = ref
LEMMA SharesIs == SharesExact
  BY DEF SharesExact, Shares, IInv, FramesCounted, TypeOK

LEMMA SharesNext == SharesExact'
  BY SharesIs, PTL

LEMMA PhaseSame ==
  ASSUME UNCHANGED <<src_d_list_f, src_d_list_u, filling>>
  PROVE  Phases' = Phases
  BY DEF Phases, Phase

LEMMA ShareStep ==
  ASSUME TypeOK, IInv, TypeOK', IInv', NEW f \in Frames,
         UNCHANGED <<src_d_list_f, src_d_list_u, filling>>,
         ref' = [ref EXCEPT ![f] = @ + 1],
         f \in filling \/ Refs(f) # {}
  PROVE  Ownership!Share(f)
<1>1. Phases' = Phases /\ Shares = ref /\ Shares' = ref'
  BY PhaseSame, SharesIs, SharesNext DEF SharesExact
<1>2. FramePlaced(f) /\ (Refs(f) # {} => f \in src_d_list_u \cup filling)
  BY DEF IInv, PlaceInv, SharedIsOut
<1>3. Refs(f) # {} => Shares[f] > 0
  BY RefsFinite, FS_EmptySet DEF IInv, Shares
<1>4. Phases[f] = "filling" \/ (Phases[f] = "shared" /\ Shares[f] > 0)
  BY <1>2, <1>3, PhaseIs
<1>5. Shares' = [Shares EXCEPT ![f] = @ + 1]
  BY <1>1
<1> QED BY <1>1, <1>4, <1>5 DEF Ownership!Share, Phases, Shares

LEMMA GiveUpStep ==
  ASSUME TypeOK, IInv, TypeOK', IInv', NEW f \in Frames,
         UNCHANGED <<src_d_list_f, src_d_list_u, filling>>,
         ref' = [ref EXCEPT ![f] = @ - 1],
         f \notin filling, Refs(f) # {}
  PROVE  Ownership!GiveUp(f)
<1>1. Phases' = Phases /\ Shares = ref /\ Shares' = ref'
  BY PhaseSame, SharesIs, SharesNext DEF SharesExact
<1>2. FramePlaced(f) /\ f \in src_d_list_u
  BY DEF IInv, PlaceInv, SharedIsOut
<1>3. Shares[f] > 0
  BY RefsFinite, FS_EmptySet DEF IInv, Shares
<1>4. Phases[f] = "shared"
  BY <1>2, PhaseIs
<1>5. Shares' = [Shares EXCEPT ![f] = @ - 1]
  BY <1>1
<1> QED BY <1>1, <1>3, <1>4, <1>5 DEF Ownership!GiveUp, Phases, Shares

LEMMA IdleStep ==
  ASSUME TypeOK, IInv, TypeOK', IInv',
         UNCHANGED <<src_d_list_f, src_d_list_u, filling, ref>>
  PROVE  UNCHANGED Ownership!vars
<1>1. Phases' = Phases /\ Shares' = Shares
  BY PhaseSame, SharesIs, SharesNext DEF SharesExact
<1> QED BY <1>1 DEF Ownership!vars, Phases, Shares

(* A frame that only changes its phase. *)
LEMMA PhaseStep ==
  ASSUME TypeOK, IInv, TypeOK', IInv', UNCHANGED ref
  PROVE  Shares' = Shares
  BY SharesIs, SharesNext DEF SharesExact

LEMMA TakeStep ==
  ASSUME TypeOK, IInv, TypeOK', IInv', NEW s \in Streams, NEW f \in Frames,
         get_src_data_f(s, f)
  PROVE  Ownership!Take(f)
<1>1. /\ f \in src_d_list_f /\ src_d_list_f' = src_d_list_f \ {f}
      /\ src_d_list_u' = src_d_list_u /\ filling' = filling \cup {f} /\ ref' = ref
  BY DEF get_src_data_f, count
<1>2. FramePlaced(f)
  BY DEF IInv, PlaceInv
<1>3. Phases[f] = "free" /\ Phases' = [Phases EXCEPT ![f] = "filling"]
  <2>1. \A g \in Frames : Phase(g)' = IF g = f THEN "filling" ELSE Phase(g)
    <3>1. Phase(f)' = "filling"
      BY <1>1, <1>2 DEF Phase, FramePlaced
    <3>2. \A g \in Frames \ {f} : Phase(g)' = Phase(g)
      BY <1>1 DEF Phase
    <3> QED BY <3>1, <3>2
  <2> QED BY <1>1, <1>2, <2>1, PhaseIs DEF Phases
<1>4. Shares' = Shares
  BY <1>1, PhaseStep
<1> QED BY <1>3, <1>4 DEF Ownership!Take, Phases, Shares

LEMMA PublishStep ==
  ASSUME TypeOK, IInv, TypeOK', IInv', NEW s \in Streams, NEW f \in Frames, NEW D,
         Issue(s, f, D)
  PROVE  Ownership!Publish(f)
<1>1. /\ f \in filling /\ src_d_list_u' = src_d_list_u \cup {f}
      /\ src_d_list_f' = src_d_list_f /\ filling' = filling \ {f}
      /\ ref' = [ref EXCEPT ![f] = @ + 1]
  BY DEF Issue
<1>2. FramePlaced(f)
  BY DEF IInv, PlaceInv
<1>3. Phases[f] = "filling" /\ Phases' = [Phases EXCEPT ![f] = "shared"]
  <2>1. \A g \in Frames : Phase(g)' = IF g = f THEN "shared" ELSE Phase(g)
    <3>1. Phase(f)' = "shared"
      BY <1>1, <1>2 DEF Phase, FramePlaced
    <3>2. \A g \in Frames \ {f} : Phase(g)' = Phase(g)
      BY <1>1 DEF Phase
    <3> QED BY <3>1, <3>2
  <2> QED BY <1>1, <1>2, <2>1, PhaseIs DEF Phases
<1>4. Shares' = [Shares EXCEPT ![f] = @ + 1]
  BY <1>1, SharesIs, SharesNext DEF SharesExact
<1> QED BY <1>3, <1>4 DEF Ownership!Publish, Phases, Shares

LEMMA RecycleStep ==
  ASSUME TypeOK, IInv, TypeOK', IInv', NEW s \in Streams, recycle(s)
  PROVE  \E f \in Frames : Ownership!Recycle(f)
<1>1. PICK f \in Frames : f = frm[s] /\ f \in src_d_list_u /\ Refs(f) = {}
  BY DEF recycle, At, IInv, TaskInv, Drains, TypeOK
<1>2. /\ src_d_list_u' = src_d_list_u \ {f} /\ src_d_list_f' = src_d_list_f \cup {f}
      /\ filling' = filling /\ ref' = ref
  BY <1>1 DEF recycle, Restore, keeps, count
<1>3. FramePlaced(f)
  BY DEF IInv, PlaceInv
<1>4. Phases[f] = "shared" /\ Phases' = [Phases EXCEPT ![f] = "free"]
  BY <1>1, <1>2, <1>3 DEF Phases, Phase, FramePlaced
<1>5. Shares' = Shares /\ Shares[f] = 0
  BY <1>1, <1>2, PhaseStep, FS_EmptySet DEF Shares
<1>6. Ownership!Recycle(f)
  BY <1>4, <1>5 DEF Ownership!Recycle, Phases, Shares
<1> QED BY <1>6

LEMMA DestroyStep ==
  ASSUME TypeOK, IInv, TypeOK', IInv', NEW s \in Streams, mark(s)
  PROVE  \E S \in SUBSET Frames : Ownership!Destroy(S)
<1>1. /\ used[s] = WAIT_GC_MARKER /\ used' = [used EXCEPT ![s] = AVAILABLE_AGAIN]
      /\ \A f \in FramesOf(s) : f \in Frames /\ src[f] = s /\ f \notin src_d_list_u
      /\ UNCHANGED <<filling, ref>>
      /\ src_d_list_f' = src_d_list_f \ FramesOf(s)
      /\ src_d_list_u' = src_d_list_u \ FramesOf(s)
  BY DEF mark, StillUsed, FramesOf, count, keeps
<1>2. \A f \in Frames : FramePlaced(f) /\ Filled(f)
  BY DEF IInv, PlaceInv
<1>3. \A f \in FramesOf(s) : f \in src_d_list_f /\ f \notin filling
  BY <1>1, <1>2 DEF FramePlaced, Filled, WAIT_GC_MARKER, AVAILABLE_AGAIN, ISUED
<1>4. \A f \in FramesOf(s) : Phases[f] = "free"
  BY <1>1, <1>2, <1>3, PhaseIs
<1>5. Phases' = [f \in Frames |-> IF f \in FramesOf(s) THEN "gone" ELSE Phases[f]]
  BY <1>1, <1>3 DEF Phases, Phase
<1>6. Shares' = Shares
  BY <1>1, PhaseStep
<1>7. Ownership!Destroy(FramesOf(s))
  BY <1>4, <1>5, <1>6 DEF Ownership!Destroy, Phases, Shares
<1> QED BY <1>7 DEF FramesOf

LEMMA CreateStep ==
  ASSUME TypeOK, IInv, TypeOK', IInv', NEW s \in Streams, open_stream(s)
  PROVE  \E S \in SUBSET Frames : Ownership!Create(S)
<1>1. /\ used[s] = AVAILABLE_AGAIN
      /\ UNCHANGED <<filling, src_d_list_u>>
      /\ src_d_list_f' = src_d_list_f \cup FramesOf(s)
      /\ ref' = [f \in Frames |-> IF src[f] = s THEN 0 ELSE ref[f]]
  BY DEF open_stream, keeps
<1>2. \A f \in Frames : FramePlaced(f)
  BY DEF IInv, PlaceInv
<1>3. \A f \in FramesOf(s) : /\ f \in Frames /\ src[f] = s
                             /\ f \notin src_d_list_f /\ f \notin src_d_list_u
                             /\ f \notin filling
  BY <1>1, <1>2 DEF FramePlaced, FramesOf
<1>4. \A f \in FramesOf(s) : Phases[f] = "gone"
  BY <1>1, <1>2, <1>3, PhaseIs
<1>5. Phases' = [f \in Frames |-> IF f \in FramesOf(s) THEN "free" ELSE Phases[f]]
  BY <1>1, <1>3 DEF Phases, Phase
<1>6. ref' = ref
  <2>1. \A f \in Frames : src[f] = s => ref[f] = 0
    BY <1>3, FS_EmptySet DEF FramesOf, IInv, SharedIsOut, FramesCounted
  <2> QED BY <1>1, <2>1 DEF TypeOK
<1>7. Shares' = Shares
  BY <1>6, PhaseStep
<1>8. Ownership!Create(FramesOf(s))
  BY <1>4, <1>5, <1>7 DEF Ownership!Create, Phases, Shares
<1> QED BY <1>8 DEF FramesOf

(* The steps that give up a reference. *)
LEMMA DropSteps ==
  ASSUME TypeOK, IInv, TypeOK', IInv', raced' = {}, NEW s \in Streams,
         \/ send_finish(s) \/ recv_free(s) \/ close_drain(s)
         \/ \E f \in Frames : free_got(s, f) \/ free_held(s, f)
  PROVE  \E f \in Frames : Ownership!GiveUp(f)
<1>1. UNCHANGED <<src_d_list_f, src_d_list_u, filling>>
  BY DEF send_finish, recv_free, close_drain, free_got, free_held, lists, keeps
<1>2. ASSUME NEW f \in Frames, NEW r, r \in Refs(f), r[1] # "held" \/ f \notin filling,
             NEW next, Drop(s, f, next)
      PROVE  Ownership!GiveUp(f)
  <2>1. f \notin filling
    BY <1>2 DEF IInv, PlaceInv, Filled
  <2> QED BY <1>1, <1>2, <2>1, GiveUpStep DEF Drop
<1>3. CASE send_finish(s)
  <2>1. PICK f \in Frames : f = frm[s]
    BY <1>3 DEF send_finish, At, IInv, TaskInv, Sends, SendPcs, TypeOK
  <2>2. <<"task", s>> \in Refs(f)
    BY <1>3, <2>1, RefsIs DEF send_finish, At, RefsAre, TaskRef, SendPcs
  <2>3. Drop(s, f, "idle")
    BY <1>3, <2>1 DEF send_finish
  <2> QED BY <1>2, <2>2, <2>3
<1>4. CASE recv_free(s)
  <2>1. PICK f \in Frames : f = frm[s] /\ f = data[node[s]]
    BY <1>4, NotReused DEF recv_free, At, IInv, TaskInv, Takes
  <2>2. <<"task", s>> \in Refs(f)
    BY <1>4, <2>1, RefsIs DEF recv_free, At, RefsAre, TaskRef
  <2>3. Drop(s, f, "idle")
    BY <1>4, <2>1, NullAssumption DEF recv_free, Free
  <2> QED BY <1>2, <2>2, <2>3
<1>5. CASE close_drain(s)
  <2>1. PICK n : n = Head(d_list_u[s])
    OBVIOUS
  <2>2. n \in InQueue(s)
    <3>1. d_list_u[s] \in Seq(Nodes) /\ NoRepeats(d_list_u[s]) /\ d_list_u[s] # <<>>
      BY <1>5 DEF close_drain, At, IInv, TaskInv, Drains, TypeOK, PlaceInv, Queues
    <3> QED BY <2>1, <3>1, QueueTail, InQueueIs
  <2>3. n \in Carrying
    BY <2>2, CarryingIs
  <2>4. PICK f \in Frames : f = data[n]
    BY <2>3 DEF IInv, Once
  <2>5. <<"node", n>> \in Refs(f)
    BY <2>3, <2>4, RefsIs DEF RefsAre, NodeRef
  <2>6. Drop(s, f, "drain_node")
    <3>1. d_list_u[s] # <<>>
      BY <1>5 DEF close_drain, At, IInv, TaskInv, Drains
    <3> QED BY <1>5, <2>1, <2>4, <3>1, NotCut, NullAssumption DEF Free
  <2> QED BY <1>2, <2>5, <2>6
<1>6. ASSUME NEW f \in Frames, free_got(s, f) PROVE Ownership!GiveUp(f)
  <2>1. <<"got", s>> \in Refs(f) /\ Drop(s, f, "idle")
    BY <1>6, RefsIs DEF free_got, RefsAre
  <2> QED BY <1>2, <2>1
<1>7. ASSUME NEW f \in Frames, free_held(s, f) PROVE Ownership!GiveUp(f)
  <2>1. <<"held", s>> \in Refs(f) /\ f \notin filling /\ Drop(s, f, "idle")
    BY <1>7, RefsIs DEF free_held, RefsAre
  <2> QED BY <1>2, <2>1
<1> QED BY <1>3, <1>4, <1>5, <1>6, <1>7

(* The steps that give somebody a reference. *)
LEMMA ShareSteps ==
  ASSUME TypeOK, IInv, TypeOK', IInv', raced' = {}, NEW s \in Streams,
         send_store(s) \/ \E f \in Frames : hold_data(s, f)
  PROVE  \E f \in Frames : Ownership!Share(f)
<1>1. UNCHANGED <<src_d_list_f, src_d_list_u, filling>>
  BY DEF send_store, hold_data, lists, keeps
<1>2. CASE send_store(s)
  <2>1. PICK f \in Frames : f = frm[s]
    BY <1>2 DEF send_store, At, IInv, TaskInv, Sends, SendPcs, TypeOK
  <2>2. <<"task", s>> \in Refs(f)
    BY <1>2, <2>1, RefsIs DEF send_store, At, RefsAre, TaskRef, SendPcs
  <2>3. ref' = [ref EXCEPT ![f] = @ + 1]
    BY <1>2, <2>1, NotTorn DEF send_store, Counted
  <2> QED BY <1>1, <2>2, <2>3, ShareStep
<1>3. ASSUME NEW f \in Frames, hold_data(s, f) PROVE Ownership!Share(f)
  <2>1. f \in filling \/ Refs(f) # {}
    BY <1>3, RefsIs DEF hold_data, RefsAre
  <2> QED BY <1>1, <1>3, <2>1, ShareStep DEF hold_data
<1> QED BY <1>2, <1>3

LEMMA RefinedStep ==
  TypeOK /\ IInv /\ raced' = {} /\ [Next]_vars => [Ownership!Next]_(Ownership!vars)
<1> SUFFICES ASSUME TypeOK, IInv, TypeOK', IInv', raced' = {}, [Next]_vars
             PROVE  Ownership!Next \/ UNCHANGED Ownership!vars
  BY StepType, StepInv
<1>1. CASE UNCHANGED vars
  BY <1>1, IdleStep DEF vars, lists, keeps, count
<1>2. ASSUME NEW s \in Streams,
             \/ send_each(s) \/ send_pop(s) \/ send_load(s) \/ send_append(s)
             \/ recv_keep(s) \/ recv_filter(s) \/ close_drain_node(s) \/ close_end(s)
             \/ close_head(s) \/ free_end(s) \/ recv_real_data(s) \/ enable_stream(s) \/ close_stream(s)
      PROVE  UNCHANGED Ownership!vars
  <2>1. UNCHANGED <<src_d_list_f, src_d_list_u, filling, ref>>
    BY <1>2 DEF send_each, send_pop, send_load, send_append, recv_keep, recv_filter,
                close_drain_node, close_end, close_head, free_end, recv_real_data,
                enable_stream, close_stream, lists, keeps, count
  <2> QED BY <2>1, IdleStep
<1>3. ASSUME NEW s \in Streams, NEW f \in Frames,
             send_data_to_stream(s, f) \/ force_del_data(s, f)
      PROVE  Ownership!Publish(f)
  BY <1>3, PublishStep DEF send_data_to_stream, force_del_data
<1>4. ASSUME NEW s \in Streams, Inside(s) \/ Call(s) \/ mark(s)
      PROVE  Ownership!Next \/ UNCHANGED Ownership!vars
  <2>1. CASE send_finish(s) \/ recv_free(s) \/ close_drain(s)
             \/ \E f \in Frames : free_got(s, f) \/ free_held(s, f)
    BY <2>1, DropSteps DEF Ownership!Next
  <2>2. CASE send_store(s) \/ \E f \in Frames : hold_data(s, f)
    BY <2>2, ShareSteps DEF Ownership!Next
  <2>3. CASE recycle(s)
    BY <2>3, RecycleStep DEF Ownership!Next
  <2>4. CASE mark(s)
    BY <2>4, DestroyStep DEF Ownership!Next
  <2>5. CASE open_stream(s)
    BY <2>5, CreateStep DEF Ownership!Next
  <2>6. ASSUME NEW f \in Frames, get_src_data_f(s, f) PROVE Ownership!Next
    BY <2>6, TakeStep DEF Ownership!Next
  <2>7. ASSUME NEW f \in Frames, send_data_to_stream(s, f) \/ force_del_data(s, f)
        PROVE  Ownership!Next
    BY <1>3, <2>7 DEF Ownership!Next
  <2> QED BY <1>2, <1>4, <2>1, <2>2, <2>3, <2>4, <2>5, <2>6, <2>7 DEF Inside, Call, Giveback
<1> QED BY <1>1, <1>4 DEF Next

LEMMA RefinedInit == Init => Ownership!Init
<1> SUFFICES ASSUME Init PROVE Ownership!Init
  OBVIOUS
<1>1. Shares = [f \in Frames |-> 0]
  BY TypeInit, InitInv, SharesIs DEF Init, SharesExact
<1>2. Phases = [f \in Frames |-> "free"]
  BY DEF Init, Phases, Phase
<1> QED BY <1>1, <1>2 DEF Ownership!Init, Phases, Shares

(* Every step of the data path before the first race is a step of           *)
(* FrameOwnership or leaves it alone: a frame is taken, sent, shared, given *)
(* up, recycled and freed only in the order that promise allows.            *)
THEOREM Refinement == Spec => Implements
<1>1. Init => Ownership!Init
  BY RefinedInit
<1>2. Sound /\ [Next]_vars => [raced' = {} => Ownership!Next]_(Ownership!vars)
  BY RefinedStep, RacesStay DEF Sound
<1> QED BY <1>1, <1>2, Invariance, PTL DEF Spec, Implements

=============================================================================
