------------------------------ MODULE DhcpPool ------------------------------
(***************************************************************************)
(* The address pool of the DHCP server, sdk/app/dhcpd_eloop, and what its   *)
(* clients believe.  The server keeps a list of entries (address, hardware *)
(* address, last use) and a cursor; everything runs in the event loop, one *)
(* datagram or one timer callback at a time, so each of them is one step.  *)
(*                                                                         *)
(* A client is the environment: it asks for an address, takes the one it   *)
(* was acknowledged, and gives it up when its lease time is over, counted  *)
(* from the request as RFC 2131 has it.  Datagrams and answers may be lost; *)
(* a client has one question out at a time, so none is answered late.      *)
(***************************************************************************)
EXTENDS Naturals, FiniteSets

CONSTANTS
    Macs,               \* the hardware addresses of the clients
    Net,                \* the addresses of the network of the server
    start_ip, end_ip,   \* the pool, in struct dhcpd_param
    lease_time          \* in ticks of the clock of this model

ASSUME NetAssumption   == Net \subseteq Nat \ {0}
ASSUME PoolAssumption  == /\ start_ip \in Nat /\ end_ip \in Nat
                          /\ start_ip <= end_ip
                          /\ start_ip .. end_ip \subseteq Net
ASSUME LeaseAssumption == lease_time \in Nat \ {0}

VARIABLES
    addr_list,  \* the entries: [mac, ip, age], age in ticks since lifetime
    nextip,     \* the cursor
    leased,     \* leased[m]: the address client m uses, or 0
    since       \* since[m]: ticks since client m asked for it

vars == <<addr_list, nextip, leased, since>>

Pool    == start_ip .. end_ip
Entries == [mac : Macs, ip : Net, age : 0 .. lease_time + 1]

TypeOK ==
    /\ addr_list \subseteq Entries
    /\ nextip \in Pool
    /\ leased \in [Macs -> Net \cup {0}]
    /\ since \in [Macs -> 0 .. lease_time]

Init ==
    /\ addr_list = {}
    /\ nextip = start_ip
    /\ leased = [m \in Macs |-> 0]
    /\ since = [m \in Macs |-> 0]

-----------------------------------------------------------------------------
(* dhcpd_find_ip, by address and by hardware address. *)
ByIp(ip) == {e \in addr_list : e.ip = ip}
ByMac(m) == {e \in addr_list : e.mac = m}

(* dhcpd_check_ip: nobody has the address, or only this client has. *)
AnyIp(ip, m)    == TRUE                                                \* mutant
check_ip(ip, m) == \A e \in ByIp(ip) : e.mac = m

(* dhcpd_next_ip: one further, and back to the start outside of the pool. *)
NoWrap(ip)  == ip + 1                                                  \* mutant
next_ip(ip) == IF ip + 1 \in Pool THEN ip + 1 ELSE start_ip

(* dhcpd_free_ipaddr: from the cursor on, the first address without entry. *)
Passed(ip) == IF nextip <= ip THEN nextip .. ip - 1
              ELSE (nextip .. end_ip) \cup (start_ip .. ip - 1)
AtCursor(ip)  == ip = nextip                                            \* mutant
FirstFree(ip) ==
    /\ ip \in Pool
    /\ ByIp(ip) = {}
    /\ \A x \in Passed(ip) : ByIp(x) # {}
PoolFull == \A ip \in Pool : ByIp(ip) # {}

NoEntry(m) == ByMac(m) = {}
Fresh(m, ip) == [mac |-> m, ip |-> ip, age |-> 0]
Add(m, ip)   == addr_list' = addr_list \cup {Fresh(m, ip)}

(* dhcpd_get_ip(ip, m), with ip = 0 for no particular address.  A client     *)
(* that has an entry keeps it; os_zalloc may fail for another.              *)
Renewed(m, e, ip) ==
    addr_list' = (addr_list \ {e}) \cup {Fresh(m, IF ip = 0 THEN e.ip ELSE ip)}

get_ip(ip, m) ==
    \/ \E e \in ByMac(m) :
         /\ Renewed(m, e, ip)
         /\ UNCHANGED nextip
    \/ /\ NoEntry(m)
       /\ ip # 0
       /\ \/ Add(m, ip) /\ nextip' = next_ip(nextip)
          \/ UNCHANGED <<addr_list, nextip>>
    \/ /\ NoEntry(m)
       /\ ip = 0
       /\ \E found \in Pool :
            /\ FirstFree(found)
            /\ \/ Add(m, found) /\ nextip' = next_ip(found)
               \/ nextip' = found /\ UNCHANGED addr_list
    \/ /\ NoEntry(m)
       /\ ip = 0
       /\ PoolFull
       /\ UNCHANGED <<addr_list, nextip>>

(* A DISCOVER reserves an address at once.  The client that sends one has    *)
(* no lease, or has forgotten it.                                           *)
discover(m, request_ip) ==
    /\ leased' = [leased EXCEPT ![m] = 0]
    /\ get_ip(IF request_ip \in Net /\ check_ip(request_ip, m) THEN request_ip ELSE 0, m)
    /\ UNCHANGED since

(* A REQUEST, for the address in the option or in ciaddr: a client without   *)
(* lease asks for any address, one with a lease for its own.  It is answered *)
(* by NAK when another client has the address or no memory is left, else by *)
(* ACK, which may be lost.                                                  *)
request(m, request_ip) ==
    /\ request_ip \in Net
    /\ leased[m] \in {0, request_ip}
    /\ \/ /\ ~check_ip(request_ip, m)
          /\ leased' = [leased EXCEPT ![m] = 0]
          /\ UNCHANGED <<addr_list, nextip, since>>
       \/ /\ check_ip(request_ip, m)
          /\ get_ip(request_ip, m)
          /\ \/ \E e \in addr_list' :
                  /\ e.mac = m
                  /\ leased' = [leased EXCEPT ![m] = e.ip]
                  /\ since' = [since EXCEPT ![m] = 0]
             \/ UNCHANGED <<leased, since>>

(* The timer deletes every entry not used for longer than the lease time. *)
ExpiredEarly(e) == e.age >= lease_time - 1                             \* mutant
NeverExpired(e) == FALSE                                               \* mutant
Expired(e)      == e.age > lease_time

check_expired ==
    /\ \E e \in addr_list : Expired(e)
    /\ addr_list' = {e \in addr_list : ~Expired(e)}
    /\ UNCHANGED <<nextip, leased, since>>

(* dhcpd_start_eloop again, when the Wi-Fi mode changes: the table is new    *)
(* and the clients have left the network.                                   *)
start_eloop ==
    /\ addr_list' = {}
    /\ nextip' = start_ip
    /\ leased' = [m \in Macs |-> 0]
    /\ UNCHANGED since

(* Time passes.  Bound: ages are not told apart beyond lease_time + 1. *)
Older(e) == [e EXCEPT !.age = IF @ <= lease_time THEN @ + 1 ELSE @]
tick ==
    /\ addr_list' = {Older(e) : e \in addr_list}
    /\ leased' = [m \in Macs |-> IF since[m] + 1 >= lease_time THEN 0 ELSE leased[m]]
    /\ since' = [m \in Macs |-> IF since[m] < lease_time THEN since[m] + 1 ELSE since[m]]
    /\ UNCHANGED nextip

Next ==
    \/ \E m \in Macs, ip \in Net \cup {0} : discover(m, ip) \/ request(m, ip)
    \/ check_expired \/ start_eloop \/ tick

Spec == Init /\ [][Next]_vars

(* The event loop runs the 500 ms timer for ever. *)
FairSpec == Spec /\ WF_vars(check_expired) /\ WF_vars(tick)

-----------------------------------------------------------------------------
(* A client has one entry, so a renewal finds the entry of its lease.       *)
UniqueMac == \A d, e \in addr_list : d.mac = e.mac => d = e

(* An address is in one entry: it is never reserved for two clients.        *)
UniqueIp == \A d, e \in addr_list : d.ip = e.ip => d = e

(* dhcpd_find_ip, which stops at the first entry it meets, has at most one  *)
(* to find by either key.                                                   *)
KeysUnique == UniqueMac /\ UniqueIp

(* As long as a client uses an address the server has it on record as that  *)
(* client's, used no longer ago than the client asked for it.               *)
LeaseRecorded ==
    \A m \in Macs : leased[m] # 0 =>
        \E e \in addr_list : e.mac = m /\ e.ip = leased[m] /\ e.age <= since[m]

(* Two clients never use the same address.                                  *)
NoSharedAddress ==
    \A m, n \in Macs : m # n /\ leased[m] # 0 => leased[m] # leased[n]

(* The address of a client that is heard of no more is free for others in   *)
(* the end, and stays so: the timer deletes the entry, whatever the others  *)
(* ask for meanwhile.                                                       *)
HeardOf(m) == \E ip \in Net \cup {0} : discover(m, ip) \/ request(m, ip)
AbandonedComesBack ==
    \A m \in Macs : <>[][~HeardOf(m)]_vars => <>[](ByMac(m) = {})
=============================================================================
