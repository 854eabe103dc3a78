------------------------------- MODULE IpPool -------------------------------
(***************************************************************************)
(* The address pool of the DHCP server, class IPPool of                    *)
(* dhcp/dhcp_server.py.  Its methods hold one lock from the first          *)
(* statement to the last, so each is one step whichever threads call them. *)
(* An address subnet.i is the number i.                                    *)
(***************************************************************************)
EXTENDS Integers, Sequences, PyDict

CONSTANTS
  Mac,     \* hardware addresses
  Start,   \* start and end of the range of addresses (100 and 200)
  End

ASSUME PoolAssumption == Start \in Nat \ {0} /\ End \in Nat

VARIABLES
  available,  \* _available: the free addresses, in the order they are lent
  assigned    \* _assigned: dictionary hardware address -> address

poolVars == <<available, assigned>>

Ip == Start .. End

\* range(start, end + 1), as a list (mutant: one address too many)
LongList ==
  [i \in 1 .. (IF Start <= End THEN End - Start + 2 ELSE 0) |-> Start + i - 1]
FreshList ==
  [i \in 1 .. (IF Start <= End THEN End - Start + 1 ELSE 0) |-> Start + i - 1]

\* IPPool(): every address is free
PoolInit == available = FreshList /\ assigned = EmptyDict

-----------------------------------------------------------------------------
(* The methods.                                                            *)

\* m has a lease, or nothing is left: allocate changes nothing
\* (mutant: the lease m has is not looked up)
NothingLeft(m) == available = <<>>
NothingToAllocate(m) == m \in DOMAIN assigned \/ available = <<>>

\* _available.pop(0), and the list that remains (mutant: it is only read)
ReadFirst == available
PopFirst == Tail(available)

\* allocate; what it returns is assigned'[m], or None when there is none
Allocate(m) ==
  \/ /\ NothingToAllocate(m)
     /\ UNCHANGED poolVars
  \/ /\ ~NothingToAllocate(m)
     /\ assigned' = Put(assigned, m, Head(available))
     /\ available' = PopFirst

\* release; without a lease it changes nothing (mutant: the address is not
\* appended to the list)
Forget(m) == assigned' = Pop(assigned, m) /\ UNCHANGED available
Release(m) ==
  /\ assigned' = Pop(assigned, m)
  /\ available' = IF m \in DOMAIN assigned
                  THEN Append(available, assigned[m]) ELSE available

PoolNext == \E m \in Mac : Allocate(m) \/ Release(m)

PoolSpec == PoolInit /\ [][PoolNext]_poolVars

-----------------------------------------------------------------------------
(* Properties.                                                             *)

Listed(i) == \E n \in 1 .. Len(available) : available[n] = i

Leased(i) == \E m \in DOMAIN assigned : assigned[m] = i

\* The list and the dictionary hold addresses of the range.
PoolTypeOK ==
  /\ available \in Seq(Ip)
  /\ DictType(assigned, Mac, Ip)

\* Two clients never have the same address.
NoSharedLease ==
  \A m, n \in DOMAIN assigned : assigned[m] = assigned[n] => m = n

\* No address is lost and none is in the pool twice: each is either listed
\* once as free or leased.
PoolConserved ==
  /\ \A i \in Ip : Listed(i) <=> ~Leased(i)
  /\ \A j, k \in 1 .. Len(available) : available[j] = available[k] => j = k

\* the dictionary as a table of leases
Leases == {<<m, assigned[m]>> : m \in DOMAIN assigned}

Table == INSTANCE LeaseTable WITH lent <- Leases

\* The pool implements the lease table: an address changes hands only by being
\* returned first, or when all are.
ImplementsLeaseTable == Table!Spec

=============================================================================
