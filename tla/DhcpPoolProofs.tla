--------------------------- MODULE DhcpPoolProofs ---------------------------
(***************************************************************************)
(* Two clients of the DHCP server never use the same address, whatever the *)
(* number of clients, the pool and the lease time.                         *)
(*                                                                         *)
(* The inductive invariant adds to the type what makes the lookups of       *)
(* dhcpd_find_ip, which stop at the first entry that fits, find the right   *)
(* one (UniqueMac, UniqueIp), and that the server knows of every lease in   *)
(* use (LeaseRecorded).  GetIpStep says what dhcpd_get_ip does to the       *)
(* entries; DISCOVER and REQUEST are then two uses of it.                   *)
(***************************************************************************)
EXTENDS DhcpPool, TLAPS

IInv == TypeOK /\ UniqueMac /\ UniqueIp /\ LeaseRecorded

(* The initial state: no entry, no lease. *)
LEMMA InitOK == Init => IInv
  <1> SUFFICES ASSUME Init PROVE IInv
    OBVIOUS
  <1>1. TypeOK
    BY PoolAssumption, LeaseAssumption DEF Init, TypeOK, Pool
  <1>2. UniqueMac /\ UniqueIp /\ LeaseRecorded
    BY DEF Init, UniqueMac, UniqueIp, LeaseRecorded
  <1> QED
    BY <1>1, <1>2 DEF IInv

(* The cursor stays in the pool. *)
LEMMA NextIpInPool == ASSUME NEW ip \in Pool PROVE next_ip(ip) \in Pool
  BY PoolAssumption DEF next_ip, Pool

LEMMA FreshEntry ==
    ASSUME NEW m \in Macs, NEW ip \in Net
    PROVE  /\ Fresh(m, ip) \in Entries
           /\ Fresh(m, ip).mac = m /\ Fresh(m, ip).ip = ip /\ Fresh(m, ip).age = 0
  BY LeaseAssumption DEF Fresh, Entries

(* An entry for an address nobody else has, replacing those of the client,   *)
(* keeps both keys unique.                                                   *)
LEMMA OneMoreEntry ==
    ASSUME NEW m \in Macs, NEW ip \in Net, NEW rest, rest \subseteq addr_list,
           addr_list \subseteq Entries, UniqueMac, UniqueIp,
           \A e \in rest : e.mac # m, \A e \in rest : e.ip # ip,
           addr_list' = rest \cup {Fresh(m, ip)}
    PROVE  addr_list' \subseteq Entries /\ UniqueMac' /\ UniqueIp'
  <1>1. /\ Fresh(m, ip) \in Entries
        /\ Fresh(m, ip).mac = m /\ Fresh(m, ip).ip = ip
    BY FreshEntry
  <1> DEFINE f == Fresh(m, ip)
  <1> HIDE DEF f
  <1>2. addr_list' = rest \cup {f} /\ f \in Entries /\ f.mac = m /\ f.ip = ip
    BY <1>1 DEF f
  <1>3. addr_list' \subseteq Entries
    BY <1>2
  <1>4. UniqueMac'
    BY <1>2 DEF UniqueMac
  <1>5. UniqueIp'
    BY <1>2 DEF UniqueIp
  <1> QED
    BY <1>3, <1>4, <1>5

(* What dhcpd_get_ip does, for an address nobody else has (or for none in    *)
(* particular): only the entry of the client changes, and it is then new.    *)
LEMMA GetIpStep ==
    ASSUME TypeOK, UniqueMac, UniqueIp,
           NEW m \in Macs, NEW ip \in Net \cup {0},
           ip # 0 => check_ip(ip, m),
           get_ip(ip, m)
    PROVE  /\ addr_list' \subseteq Entries
           /\ nextip' \in Pool
           /\ UniqueMac' /\ UniqueIp'
           /\ \A e \in addr_list : e.mac # m => e \in addr_list'
           /\ \A e \in addr_list' : e.mac = m => e.age = 0
           /\ (ip # 0 /\ ByMac(m) # {}) => Fresh(m, ip) \in addr_list'
  <1> DEFINE Goal == /\ addr_list' \subseteq Entries
                     /\ nextip' \in Pool
                     /\ UniqueMac' /\ UniqueIp'
                     /\ \A e \in addr_list : e.mac # m => e \in addr_list'
                     /\ \A e \in addr_list' : e.mac = m => e.age = 0
                     /\ (ip # 0 /\ ByMac(m) # {}) => Fresh(m, ip) \in addr_list'
  <1>0. /\ addr_list \subseteq Entries /\ nextip \in Pool
        /\ Pool \subseteq Net /\ 0 \notin Net
    BY PoolAssumption, NetAssumption DEF TypeOK, Pool
  <1>1. ASSUME NEW e \in ByMac(m), Renewed(m, e, ip), UNCHANGED nextip
        PROVE  Goal
    <2> DEFINE new == IF ip = 0 THEN e.ip ELSE ip
    <2>1. e \in addr_list /\ e.mac = m /\ e \in Entries
      BY <1>0, <1>1 DEF ByMac
    <2>2. new \in Net
      BY <1>0, <2>1 DEF Entries
    <2> DEFINE rest == addr_list \ {e}
    <2>3. \A d \in rest : d.mac # m
      BY <2>1 DEF UniqueMac
    <2>4. \A d \in rest : d.ip # new
      <3>1. CASE ip = 0
        BY <3>1, <2>1 DEF UniqueIp
      <3>2. CASE ip # 0
        BY <3>2, <2>3 DEF check_ip, ByIp
      <3> QED
        BY <3>1, <3>2
    <2> HIDE DEF new
    <2>5. addr_list' = rest \cup {Fresh(m, new)}
      BY <1>1 DEF Renewed, new
    <2>6. addr_list' \subseteq Entries /\ UniqueMac' /\ UniqueIp'
      BY <1>0, <2>2, <2>3, <2>4, <2>5, OneMoreEntry
    <2>7. nextip' \in Pool
      BY <1>0, <1>1
    <2>8. \A d \in addr_list : d.mac # m => d \in addr_list'
      BY <2>1, <2>5
    <2>9. \A d \in addr_list' : d.mac = m => d.age = 0
      BY <2>2, <2>3, <2>5, FreshEntry
    <2>10. ip # 0 => Fresh(m, ip) \in addr_list'
      BY <2>5 DEF new
    <2> QED
      BY <2>6, <2>7, <2>8, <2>9, <2>10
  <1>2. ASSUME NoEntry(m), NEW new \in Net, \A d \in addr_list : d.ip # new,
               Add(m, new), nextip' \in Pool
        PROVE  Goal
    <2>1. \A d \in addr_list : d.mac # m
      BY <1>2 DEF NoEntry, ByMac
    <2>2. addr_list' = addr_list \cup {Fresh(m, new)}
      BY <1>2 DEF Add
    <2>3. addr_list' \subseteq Entries /\ UniqueMac' /\ UniqueIp'
      BY <1>0, <1>2, <2>1, <2>2, OneMoreEntry
    <2>4. \A d \in addr_list' : d.mac = m => d.age = 0
      BY <2>1, <2>2, FreshEntry
    <2>5. ByMac(m) = {}
      BY <1>2 DEF NoEntry
    <2> QED
      BY <1>2, <2>2, <2>3, <2>4, <2>5
  <1>3. ASSUME NoEntry(m), addr_list' = addr_list, nextip' \in Pool
        PROVE  Goal
    <2>1. \A d \in addr_list : d.mac # m
      BY <1>3 DEF NoEntry, ByMac
    <2>2. UniqueMac' /\ UniqueIp'
      BY <1>3 DEF UniqueMac, UniqueIp
    <2> QED
      BY <1>0, <1>3, <2>1, <2>2 DEF NoEntry
  <1>4. CASE \E e \in ByMac(m) : Renewed(m, e, ip) /\ UNCHANGED nextip
    BY <1>1, <1>4
  <1>5. CASE /\ NoEntry(m) /\ ip # 0
             /\ \/ Add(m, ip) /\ nextip' = next_ip(nextip)
                \/ UNCHANGED <<addr_list, nextip>>
    <2>1. CASE Add(m, ip) /\ nextip' = next_ip(nextip)
      <3>1. \A d \in addr_list : d.ip # ip
        BY <1>5 DEF check_ip, ByIp, NoEntry, ByMac
      <3>2. nextip' \in Pool
        BY <1>0, <2>1, NextIpInPool
      <3> QED
        BY <1>2, <1>5, <2>1, <3>1, <3>2
    <2>2. CASE UNCHANGED <<addr_list, nextip>>
      BY <1>0, <1>3, <1>5, <2>2
    <2> QED
      BY <1>5, <2>1, <2>2
  <1>6. CASE /\ NoEntry(m) /\ ip = 0
             /\ \E found \in Pool :
                  /\ FirstFree(found)
                  /\ \/ Add(m, found) /\ nextip' = next_ip(found)
                     \/ nextip' = found /\ UNCHANGED addr_list
    <2>1. PICK found \in Pool :
                  /\ FirstFree(found)
                  /\ \/ Add(m, found) /\ nextip' = next_ip(found)
                     \/ nextip' = found /\ UNCHANGED addr_list
      BY <1>6
    <2>2. \A d \in addr_list : d.ip # found
      BY <2>1 DEF FirstFree, ByIp
    <2>3. nextip' \in Pool
      BY <2>1, NextIpInPool
    <2>4. found \in Net
      BY <1>0
    <2> QED
      BY <1>2, <1>3, <1>6, <2>1, <2>2, <2>3, <2>4
  <1>7. CASE NoEntry(m) /\ ip = 0 /\ PoolFull /\ UNCHANGED <<addr_list, nextip>>
    BY <1>0, <1>3, <1>7
  <1> QED
    BY <1>4, <1>5, <1>6, <1>7 DEF get_ip

-----------------------------------------------------------------------------
(* A DISCOVER asks for no address or for one that check_ip lets it have.     *)
LEMMA DiscoverOK ==
    ASSUME IInv, NEW m \in Macs, NEW r \in Net \cup {0}, discover(m, r)
    PROVE  IInv'
  <1> DEFINE ip == IF r \in Net /\ check_ip(r, m) THEN r ELSE 0
  <1>1. ip \in Net \cup {0} /\ (ip # 0 => check_ip(ip, m)) /\ get_ip(ip, m)
    BY DEF discover
  <1> HIDE DEF ip
  <1>2. /\ addr_list' \subseteq Entries /\ nextip' \in Pool
        /\ UniqueMac' /\ UniqueIp'
        /\ \A e \in addr_list : e.mac # m => e \in addr_list'
    BY <1>1, GetIpStep DEF IInv
  <1>3. leased' = [leased EXCEPT ![m] = 0] /\ since' = since
    BY DEF discover
  <1>4. TypeOK'
    BY <1>2, <1>3 DEF IInv, TypeOK
  <1>5. LeaseRecorded'
    <2> SUFFICES ASSUME NEW n \in Macs, leased'[n] # 0
                 PROVE  \E e \in addr_list' :
                            e.mac = n /\ e.ip = leased'[n] /\ e.age <= since'[n]
      BY DEF LeaseRecorded
    <2>1. n # m /\ leased'[n] = leased[n]
      BY <1>3 DEF IInv, TypeOK
    <2>2. PICK e \in addr_list : e.mac = n /\ e.ip = leased[n] /\ e.age <= since[n]
      BY <2>1 DEF IInv, LeaseRecorded
    <2> QED
      BY <1>2, <1>3, <2>1, <2>2
  <1> QED
    BY <1>2, <1>4, <1>5 DEF IInv

(* A REQUEST is refused, or acknowledged with the entry it just renewed; a   *)
(* lost acknowledgement leaves the client with the lease it asked for.       *)
LEMMA RequestOK ==
    ASSUME IInv, NEW m \in Macs, NEW r \in Net \cup {0}, request(m, r)
    PROVE  IInv'
  <1>0. r \in Net /\ r # 0 /\ leased[m] \in {0, r}
    BY NetAssumption DEF request
  <1>1. CASE /\ leased' = [leased EXCEPT ![m] = 0]
             /\ UNCHANGED <<addr_list, nextip, since>>
    <2>1. TypeOK'
      BY <1>1 DEF IInv, TypeOK
    <2>2. UniqueMac' /\ UniqueIp'
      BY <1>1 DEF IInv, UniqueMac, UniqueIp
    <2>3. LeaseRecorded'
      BY <1>1 DEF IInv, LeaseRecorded, TypeOK
    <2> QED
      BY <2>1, <2>2, <2>3 DEF IInv
  <1>2. CASE check_ip(r, m) /\ get_ip(r, m)
    <2>1. /\ addr_list' \subseteq Entries /\ nextip' \in Pool
          /\ UniqueMac' /\ UniqueIp'
          /\ \A e \in addr_list : e.mac # m => e \in addr_list'
          /\ \A e \in addr_list' : e.mac = m => e.age = 0
          /\ ByMac(m) # {} => Fresh(m, r) \in addr_list'
      BY <1>0, <1>2, GetIpStep DEF IInv
    <2>2. CASE \E e \in addr_list' : /\ e.mac = m
                                     /\ leased' = [leased EXCEPT ![m] = e.ip]
                                     /\ since' = [since EXCEPT ![m] = 0]
      <3>1. PICK e \in addr_list' : /\ e.mac = m
                                    /\ leased' = [leased EXCEPT ![m] = e.ip]
                                    /\ since' = [since EXCEPT ![m] = 0]
        BY <2>2
      <3>2. e.ip \in Net /\ e.age = 0
        BY <2>1, <3>1 DEF Entries
      <3>3. TypeOK'
        BY <2>1, <3>1, <3>2, LeaseAssumption DEF IInv, TypeOK
      <3>4. LeaseRecorded'
        <4> SUFFICES ASSUME NEW n \in Macs, leased'[n] # 0
                     PROVE  \E d \in addr_list' :
                                d.mac = n /\ d.ip = leased'[n] /\ d.age <= since'[n]
          BY DEF LeaseRecorded
        <4>1. CASE n = m
          BY <3>1, <3>2, <4>1 DEF IInv, TypeOK
        <4>2. CASE n # m
          <5>1. leased'[n] = leased[n] /\ since'[n] = since[n]
            BY <3>1, <4>2 DEF IInv, TypeOK
          <5>2. PICK d \in addr_list : d.mac = n /\ d.ip = leased[n] /\ d.age <= since[n]
            BY <5>1 DEF IInv, LeaseRecorded
          <5> QED
            BY <2>1, <4>2, <5>1, <5>2
        <4> QED
          BY <4>1, <4>2
      <3> QED
        BY <2>1, <3>3, <3>4 DEF IInv
    <2>3. CASE UNCHANGED <<leased, since>>
      <3>1. TypeOK'
        BY <2>1, <2>3 DEF IInv, TypeOK
      <3>2. LeaseRecorded'
        <4> SUFFICES ASSUME NEW n \in Macs, leased[n] # 0
                     PROVE  \E d \in addr_list' :
                                d.mac = n /\ d.ip = leased[n] /\ d.age <= since[n]
          BY <2>3 DEF LeaseRecorded
        <4>1. PICK d \in addr_list : d.mac = n /\ d.ip = leased[n] /\ d.age <= since[n]
          BY DEF IInv, LeaseRecorded
        <4>2. CASE n = m
          <5>1. leased[m] = r /\ ByMac(m) # {}
            BY <1>0, <4>1, <4>2 DEF ByMac
          <5>2. Fresh(m, r) \in addr_list'
            BY <2>1, <5>1
          <5>3. 0 <= since[m]
            BY DEF IInv, TypeOK
          <5>4. Fresh(m, r).mac = m /\ Fresh(m, r).ip = r /\ Fresh(m, r).age = 0
            BY <1>0, FreshEntry
          <5> QED
            BY <4>2, <5>1, <5>2, <5>3, <5>4
        <4>3. CASE n # m
          BY <2>1, <4>1, <4>3
        <4> QED
          BY <4>2, <4>3
      <3> QED
        BY <2>1, <3>1, <3>2 DEF IInv
    <2> QED
      BY <1>2, <2>2, <2>3 DEF request
  <1> QED
    BY <1>1, <1>2 DEF request

(* The timer deletes no entry of a lease in use: it is not older than the    *)
(* lease.                                                                    *)
LEMMA ExpiryOK == ASSUME IInv, check_expired PROVE IInv'
  <1>1. addr_list' = {e \in addr_list : ~Expired(e)} /\ UNCHANGED <<nextip, leased, since>>
    BY DEF check_expired
  <1>2. TypeOK'
    BY <1>1 DEF IInv, TypeOK
  <1>3. UniqueMac' /\ UniqueIp'
    BY <1>1 DEF IInv, UniqueMac, UniqueIp
  <1>4. LeaseRecorded'
    <2> SUFFICES ASSUME NEW n \in Macs, leased[n] # 0
                 PROVE  \E e \in addr_list' :
                            e.mac = n /\ e.ip = leased[n] /\ e.age <= since[n]
      BY <1>1 DEF LeaseRecorded
    <2>1. PICK e \in addr_list : e.mac = n /\ e.ip = leased[n] /\ e.age <= since[n]
      BY DEF IInv, LeaseRecorded
    <2>2. e.age \in Nat /\ since[n] \in 0 .. lease_time /\ lease_time \in Nat
      BY LeaseAssumption DEF IInv, TypeOK, Entries
    <2>3. ~Expired(e)
      BY <2>1, <2>2 DEF Expired
    <2> QED
      BY <1>1, <2>1, <2>3
  <1> QED
    BY <1>2, <1>3, <1>4 DEF IInv

LEMMA RestartOK == ASSUME IInv, start_eloop PROVE IInv'
  <1>1. TypeOK'
    BY PoolAssumption DEF IInv, TypeOK, start_eloop, Pool
  <1>2. UniqueMac' /\ UniqueIp' /\ LeaseRecorded'
    BY DEF start_eloop, UniqueMac, UniqueIp, LeaseRecorded
  <1> QED
    BY <1>1, <1>2 DEF IInv

(* Time passes for an entry and for the lease it records alike.              *)
LEMMA TickOK == ASSUME IInv, tick PROVE IInv'
  <1>1. \A e \in Entries : /\ Older(e) \in Entries
                           /\ Older(e).mac = e.mac /\ Older(e).ip = e.ip
                           /\ Older(e).age <= e.age + 1
    <2> TAKE e \in Entries
    <2>1. e.age \in 0 .. lease_time + 1 /\ lease_time \in Nat
      BY LeaseAssumption DEF Entries
    <2>2. CASE e.age <= lease_time
      BY <2>1, <2>2 DEF Older, Entries
    <2>3. CASE ~(e.age <= lease_time)
      BY <2>1, <2>3 DEF Older, Entries
    <2> QED
      BY <2>2, <2>3
  <1>2. /\ addr_list' = {Older(e) : e \in addr_list}
        /\ leased' = [m \in Macs |-> IF since[m] + 1 >= lease_time THEN 0 ELSE leased[m]]
        /\ since' = [m \in Macs |-> IF since[m] < lease_time THEN since[m] + 1 ELSE since[m]]
        /\ nextip' = nextip
    BY DEF tick
  <1>3. addr_list \subseteq Entries /\ since \in [Macs -> 0 .. lease_time] /\ lease_time \in Nat
    BY LeaseAssumption DEF IInv, TypeOK
  <1>4. TypeOK'
    <2>1. addr_list' \subseteq Entries /\ nextip' \in Pool
      BY <1>1, <1>2, <1>3 DEF IInv, TypeOK
    <2>2. leased' \in [Macs -> Net \cup {0}]
      BY <1>2 DEF IInv, TypeOK
    <2>3. since' \in [Macs -> 0 .. lease_time]
      BY <1>2, <1>3
    <2> QED
      BY <2>1, <2>2, <2>3 DEF TypeOK
  <1>5. UniqueMac' /\ UniqueIp'
    <2> SUFFICES ASSUME NEW d \in addr_list, NEW e \in addr_list,
                        Older(d).mac = Older(e).mac \/ Older(d).ip = Older(e).ip
                 PROVE  d = e
      BY <1>2 DEF UniqueMac, UniqueIp
    <2>1. d.mac = e.mac \/ d.ip = e.ip
      BY <1>1, <1>3
    <2> QED
      BY <2>1 DEF IInv, UniqueMac, UniqueIp
  <1>6. LeaseRecorded'
    <2> SUFFICES ASSUME NEW n \in Macs, leased'[n] # 0
                 PROVE  \E e \in addr_list' :
                            e.mac = n /\ e.ip = leased'[n] /\ e.age <= since'[n]
      BY DEF LeaseRecorded
    <2>1. /\ leased'[n] = leased[n] /\ ~(since[n] + 1 >= lease_time)
      BY <1>2
    <2>2. since[n] \in Nat /\ since'[n] = since[n] + 1
      BY <1>2, <1>3, <2>1
    <2>3. PICK e \in addr_list : e.mac = n /\ e.ip = leased[n] /\ e.age <= since[n]
      BY <2>1 DEF IInv, LeaseRecorded
    <2>4. e \in Entries /\ e.age \in Nat
      BY <1>3 DEF Entries
    <2>5. Older(e) \in Entries /\ Older(e).age \in Nat /\ Older(e).age <= since'[n]
      BY <1>1, <2>2, <2>3, <2>4 DEF Entries
    <2>6. Older(e) \in addr_list'
      BY <1>2
    <2> QED
      BY <1>1, <2>1, <2>3, <2>4, <2>5, <2>6
  <1> QED
    BY <1>4, <1>5, <1>6 DEF IInv

LEMMA StepOK == IInv /\ [Next]_vars => IInv'
  <1> SUFFICES ASSUME IInv, [Next]_vars PROVE IInv'
    OBVIOUS
  <1>1. ASSUME NEW m \in Macs, NEW ip \in Net \cup {0}, discover(m, ip) PROVE IInv'
    BY <1>1, DiscoverOK
  <1>2. ASSUME NEW m \in Macs, NEW ip \in Net \cup {0}, request(m, ip) PROVE IInv'
    BY <1>2, RequestOK
  <1>3. CASE check_expired
    BY <1>3, ExpiryOK
  <1>4. CASE start_eloop
    BY <1>4, RestartOK
  <1>5. CASE tick
    BY <1>5, TickOK
  <1>6. CASE UNCHANGED vars
    BY <1>6 DEF vars, IInv, TypeOK, UniqueMac, UniqueIp, LeaseRecorded
  <1> QED
    BY <1>1, <1>2, <1>3, <1>4, <1>5, <1>6 DEF Next

(* The invariant holds in every state of the server and its clients.         *)
THEOREM Invariance == Spec => []IInv
  <1> QED
    BY InitOK, StepOK, PTL DEF Spec

(* The variables of dhcpd keep their types, the cursor stays in the pool.    *)
THEOREM TypeCorrect == Spec => []TypeOK
  <1>1. IInv => TypeOK
    BY DEF IInv
  <1> QED
    BY <1>1, Invariance, PTL

(* dhcpd_find_ip has at most one entry to find by either key: one entry per  *)
(* client, one client per address.                                          *)
THEOREM KeysAreUnique == Spec => []KeysUnique
  <1>1. IInv => KeysUnique
    BY DEF IInv, KeysUnique
  <1> QED
    BY <1>1, Invariance, PTL

(* dhcpd_check_expired never deletes the entry of a lease in use.            *)
THEOREM LeasesRecorded == Spec => []LeaseRecorded
  <1>1. IInv => LeaseRecorded
    BY DEF IInv
  <1> QED
    BY <1>1, Invariance, PTL

(* The server never has two clients use the same address.                    *)
THEOREM AddressesAreExclusive == Spec => []NoSharedAddress
  <1>1. IInv => NoSharedAddress
    <2> SUFFICES ASSUME IInv, NEW m \in Macs, NEW n \in Macs, m # n,
                        leased[m] # 0, leased[m] = leased[n]
                 PROVE  FALSE
      BY DEF NoSharedAddress
    <2>1. PICK d \in addr_list : d.mac = m /\ d.ip = leased[m]
      BY DEF IInv, LeaseRecorded
    <2>2. PICK e \in addr_list : e.mac = n /\ e.ip = leased[n]
      BY DEF IInv, LeaseRecorded
    <2> QED
      BY <2>1, <2>2 DEF IInv, UniqueIp
  <1> QED
    BY <1>1, Invariance, PTL
=============================================================================
