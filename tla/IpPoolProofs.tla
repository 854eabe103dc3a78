---------------------------- MODULE IpPoolProofs ----------------------------
(***************************************************************************)
(* The address pool keeps its invariants, and implements the lease table,  *)
(* for every set of clients and every range of addresses.                  *)
(***************************************************************************)
EXTENDS IpPool, SequenceTheorems, TLAPS

\* The three invariants together are inductive: a lease is not shared
\* because a free address is not leased, and the reverse.
PoolInv == PoolTypeOK /\ NoSharedLease /\ PoolConserved

-----------------------------------------------------------------------------
(* The list after pop(0) and after append.                                 *)

\* pop(0) of a list without repetitions takes its first element out of it,
\* and no other.
LEMMA PopFirstLists ==
  ASSUME PoolTypeOK, PoolConserved, available # <<>>
  PROVE  /\ Head(available) \in Ip /\ Listed(Head(available))
         /\ Tail(available) \in Seq(Ip)
         /\ \A i \in Ip : (\E n \in 1 .. Len(Tail(available)) : Tail(available)[n] = i)
                            <=> Listed(i) /\ i # Head(available)
         /\ \A j, k \in 1 .. Len(Tail(available)) :
              Tail(available)[j] = Tail(available)[k] => j = k
<1> DEFINE s == available
           t == Tail(available)
<1>1. /\ s \in Seq(Ip) /\ s # <<>>
      /\ \A j, k \in 1 .. Len(s) : s[j] = s[k] => j = k
  BY DEF PoolTypeOK, PoolConserved
<1>2. /\ t \in Seq(Ip) /\ Len(t) = Len(s) - 1 /\ Len(s) \in Nat /\ Len(s) > 0
      /\ Head(s) = s[1] /\ Head(s) \in Ip
      /\ \A n \in 1 .. Len(t) : t[n] = s[n + 1]
  BY <1>1
<1> HIDE DEF s, t
<1>3. \A i \in Ip : (\E n \in 1 .. Len(t) : t[n] = i)
                      <=> (\E n \in 1 .. Len(s) : s[n] = i) /\ i # Head(s)
  <2> TAKE i \in Ip
  <2>1. ASSUME NEW n \in 1 .. Len(t), t[n] = i
        PROVE  (\E k \in 1 .. Len(s) : s[k] = i) /\ i # Head(s)
    <3>1. n + 1 \in 1 .. Len(s) /\ s[n + 1] = i /\ n + 1 # 1 /\ 1 \in 1 .. Len(s)
      BY <1>2, <2>1
    <3> QED BY <3>1, <1>1, <1>2
  <2>2. ASSUME NEW n \in 1 .. Len(s), s[n] = i, i # Head(s)
        PROVE  \E k \in 1 .. Len(t) : t[k] = i
    <3>1. n # 1
      BY <2>2, <1>2
    <3>2. n - 1 \in 1 .. Len(t) /\ (n - 1) + 1 = n
      BY <3>1, <1>2
    <3> QED BY <3>2, <1>2, <2>2
  <2> QED BY <2>1, <2>2
<1>4. \A j, k \in 1 .. Len(t) : t[j] = t[k] => j = k
  BY <1>1, <1>2
<1>5. \E n \in 1 .. Len(s) : s[n] = Head(s)
  BY <1>2
<1> QED BY <1>2, <1>3, <1>4, <1>5 DEF s, t, Listed

\* append puts an address that was not in the list into it.
LEMMA AppendLists ==
  ASSUME PoolTypeOK, PoolConserved, NEW e \in Ip, ~Listed(e)
  PROVE  LET t == Append(available, e) IN
         /\ t \in Seq(Ip)
         /\ \A i \in Ip : (\E n \in 1 .. Len(t) : t[n] = i) <=> Listed(i) \/ i = e
         /\ \A j, k \in 1 .. Len(t) : t[j] = t[k] => j = k
<1> DEFINE s == available
           t == Append(available, e)
<1>1. s \in Seq(Ip) /\ \A j, k \in 1 .. Len(s) : s[j] = s[k] => j = k
  BY DEF PoolTypeOK, PoolConserved
<1>2. /\ t \in Seq(Ip) /\ Len(t) = Len(s) + 1 /\ Len(s) \in Nat
      /\ t[Len(s) + 1] = e
      /\ \A n \in 1 .. Len(s) : t[n] = s[n]
  BY <1>1
<1>3. \A n \in 1 .. Len(s) : s[n] # e
  BY DEF Listed
<1> HIDE DEF s, t
<1>4. \A n \in 1 .. Len(t) : n \in 1 .. Len(s) \/ n = Len(s) + 1
  BY <1>2
<1>5. 1 .. Len(s) \subseteq 1 .. Len(t) /\ Len(s) + 1 \in 1 .. Len(t)
  BY <1>2
<1>6. \A i \in Ip : (\E n \in 1 .. Len(t) : t[n] = i)
                      <=> (\E n \in 1 .. Len(s) : s[n] = i) \/ i = e
  <2> TAKE i \in Ip
  <2>1. ASSUME NEW n \in 1 .. Len(t), t[n] = i
        PROVE  (\E k \in 1 .. Len(s) : s[k] = i) \/ i = e
    BY <1>2, <1>4, <2>1
  <2>2. ASSUME NEW n \in 1 .. Len(s), s[n] = i
        PROVE  \E k \in 1 .. Len(t) : t[k] = i
    BY <1>2, <1>5, <2>2
  <2>3. i = e => \E k \in 1 .. Len(t) : t[k] = i
    BY <1>2, <1>5
  <2> QED BY <2>1, <2>2, <2>3
<1>7. \A j, k \in 1 .. Len(t) : t[j] = t[k] => j = k
  BY <1>1, <1>2, <1>3, <1>4
<1> QED BY <1>2, <1>6, <1>7 DEF s, t, Listed

-----------------------------------------------------------------------------
(* The steps.                                                              *)

LEMMA PoolInitInv == PoolInit => PoolInv
<1> SUFFICES ASSUME PoolInit PROVE PoolInv
  OBVIOUS
<1> DEFINE N == IF Start <= End THEN End - Start + 1 ELSE 0
<1>1. /\ N \in Nat /\ available = [i \in 1 .. N |-> Start + i - 1]
      /\ assigned = EmptyDict /\ DOMAIN assigned = {}
  BY PoolAssumption DEF PoolInit, FreshList, EmptyDict
<1>2. \A i \in 1 .. N : Start + i - 1 \in Ip
  BY PoolAssumption DEF Ip
<1>3. available \in Seq(Ip) /\ Len(available) = N
  BY <1>1, <1>2, Z3
<1>4. \A n \in 1 .. N : available[n] = Start + n - 1
  BY <1>1
<1>5. \A i \in Ip : Listed(i)
  <2> TAKE i \in Ip
  <2>1. i - Start + 1 \in 1 .. N /\ Start + (i - Start + 1) - 1 = i
    BY PoolAssumption DEF Ip
  <2> HIDE DEF N
  <2> QED BY <2>1, <1>3, <1>4 DEF Listed
<1>6. \A j, k \in 1 .. Len(available) : available[j] = available[k] => j = k
  <2> HIDE DEF N
  <2> QED BY <1>1, <1>3, <1>4, PoolAssumption
<1> QED BY <1>1, <1>3, <1>5, <1>6
        DEF PoolInv, PoolTypeOK, NoSharedLease, PoolConserved, DictType, Leased

LEMMA AllocateInv ==
  ASSUME PoolInv, NEW m \in Mac, Allocate(m)
  PROVE  PoolInv'
<1>1. CASE NothingToAllocate(m)
  BY <1>1 DEF Allocate, poolVars, PoolInv, PoolTypeOK, NoSharedLease,
     PoolConserved, Listed, Leased
<1>2. CASE ~NothingToAllocate(m)
  <2> DEFINE e == Head(available)
  <2>1. /\ m \notin DOMAIN assigned /\ available # <<>>
        /\ assigned' = Put(assigned, m, e) /\ available' = Tail(available)
    BY <1>2 DEF Allocate, NothingToAllocate, PopFirst
  <2>2. PoolTypeOK /\ PoolConserved /\ NoSharedLease
    BY DEF PoolInv
  <2>3. /\ e \in Ip /\ Listed(e) /\ ~Leased(e)
        /\ available' \in Seq(Ip)
        /\ \A i \in Ip : Listed(i)' <=> Listed(i) /\ i # e
        /\ \A j, k \in 1 .. Len(available') : available'[j] = available'[k] => j = k
    BY <2>1, <2>2, PopFirstLists DEF PoolConserved, Listed
  <2> HIDE DEF e
  <2>4. /\ DOMAIN assigned' = DOMAIN assigned \cup {m}
        /\ assigned'[m] = e
        /\ \A n \in DOMAIN assigned : assigned'[n] = assigned[n]
    BY <2>1 DEF Put
  <2>5. \A i : Leased(i)' <=> Leased(i) \/ i = e
    BY <2>1, <2>4 DEF Leased
  <2>6. PoolTypeOK'
    BY <2>2, <2>3, <2>4 DEF PoolTypeOK, DictType, Ip
  <2>7. NoSharedLease'
    BY <2>2, <2>3, <2>4 DEF NoSharedLease, Leased
  <2>8. PoolConserved'
    BY <2>2, <2>3, <2>5 DEF PoolConserved, Ip
  <2> QED BY <2>6, <2>7, <2>8 DEF PoolInv
<1> QED BY <1>1, <1>2

LEMMA ReleaseInv ==
  ASSUME PoolInv, NEW m \in Mac, Release(m)
  PROVE  PoolInv'
<1>1. PoolTypeOK /\ PoolConserved /\ NoSharedLease
  BY DEF PoolInv
<1>2. CASE m \notin DOMAIN assigned
  <2>1. available' = available
    BY <1>2 DEF Release
  <2>2. /\ DOMAIN assigned' = DOMAIN assigned
        /\ \A n \in DOMAIN assigned : assigned'[n] = assigned[n]
    BY <1>2 DEF Release, Pop
  <2> QED BY <1>1, <2>1, <2>2 DEF PoolInv, PoolTypeOK, NoSharedLease,
             PoolConserved, Listed, Leased, DictType, Ip
<1>3. CASE m \in DOMAIN assigned
  <2> DEFINE e == assigned[m]
  <2>1. e \in Ip /\ Leased(e) /\ ~Listed(e)
    BY <1>1, <1>3 DEF PoolTypeOK, DictType, PoolConserved, Leased
  <2>2. available' = Append(available, e)
    BY <1>3 DEF Release
  <2>3. /\ available' \in Seq(Ip)
        /\ \A i \in Ip : Listed(i)' <=> Listed(i) \/ i = e
        /\ \A j, k \in 1 .. Len(available') : available'[j] = available'[k] => j = k
    BY <1>1, <2>1, <2>2, AppendLists DEF Listed
  <2>4. /\ DOMAIN assigned' = DOMAIN assigned \ {m}
        /\ \A n \in DOMAIN assigned' : assigned'[n] = assigned[n]
    BY DEF Release, Pop
  <2>5. \A i : Leased(i)' <=> Leased(i) /\ i # e
    BY <1>1, <1>3, <2>4 DEF Leased, NoSharedLease
  <2> HIDE DEF e
  <2>6. PoolTypeOK'
    BY <1>1, <2>3, <2>4 DEF PoolTypeOK, DictType, Ip
  <2>7. NoSharedLease'
    BY <1>1, <2>4 DEF NoSharedLease
  <2>8. PoolConserved'
    BY <1>1, <2>1, <2>3, <2>5 DEF PoolConserved, Ip
  <2> QED BY <2>6, <2>7, <2>8 DEF PoolInv
<1> QED BY <1>2, <1>3

\* Whatever the order of allocations and releases, PoolInv holds.
THEOREM PoolInvariance == PoolSpec => []PoolInv
<1>1. PoolInv /\ [PoolNext]_poolVars => PoolInv'
  <2> SUFFICES ASSUME PoolInv, [PoolNext]_poolVars PROVE PoolInv'
    OBVIOUS
  <2>1. CASE UNCHANGED poolVars
    BY <2>1 DEF poolVars, PoolInv, PoolTypeOK, NoSharedLease, PoolConserved,
       Listed, Leased
  <2>2. CASE PoolNext
    BY <2>2, AllocateInv, ReleaseInv DEF PoolNext
  <2> QED BY <2>1, <2>2
<1> QED BY <1>1, PoolInitInv, PTL DEF PoolSpec

\* The free list and the lease dictionary hold addresses of the range only.
THEOREM PoolTypeCorrect == PoolSpec => []PoolTypeOK
<1>1. PoolInv => PoolTypeOK
  BY DEF PoolInv
<1> QED BY <1>1, PoolInvariance, PTL

\* Two clients never have the same address: IPPool's two tables agree.
THEOREM LeasesDisjoint == PoolSpec => []NoSharedLease
<1>1. PoolInv => NoSharedLease
  BY DEF PoolInv
<1> QED BY <1>1, PoolInvariance, PTL

\* No address of the range is lost by allocate or release, or listed twice.
THEOREM NothingLost == PoolSpec => []PoolConserved
<1>1. PoolInv => PoolConserved
  BY DEF PoolInv
<1> QED BY <1>1, PoolInvariance, PTL

-----------------------------------------------------------------------------
(* The refinement.                                                         *)

\* allocate grants the first free address, or does nothing.
LEMMA AllocateRefines ==
  ASSUME PoolInv, NEW m \in Mac, Allocate(m)
  PROVE  [Table!Next]_Leases
<1>1. CASE NothingToAllocate(m)
  BY <1>1 DEF Allocate, poolVars, Leases
<1>2. CASE ~NothingToAllocate(m)
  <2>1. PICK e : e = Head(available)
    OBVIOUS
  <2>2. /\ m \notin DOMAIN assigned /\ available # <<>>
        /\ assigned' = Put(assigned, m, e)
    BY <1>2, <2>1 DEF Allocate, NothingToAllocate
  <2>3. e \in Ip /\ ~Leased(e)
    BY <2>1, <2>2, PopFirstLists DEF PoolInv, PoolConserved
  <2>4. /\ DOMAIN assigned' = DOMAIN assigned \cup {m}
        /\ assigned'[m] = e
        /\ \A n \in DOMAIN assigned : assigned'[n] = assigned[n]
    BY <2>2 DEF Put
  <2>5. Leases' = Leases \cup {<<m, e>>}
    BY <2>4 DEF Leases
  <2>6. \A l \in Leases : l[1] # m /\ l[2] # e
    BY <2>2, <2>3 DEF Leases, Leased
  <2> QED BY <2>3, <2>5, <2>6 DEF Table!Next, Table!Grant
<1> QED BY <1>1, <1>2

\* release returns the client's address, or does nothing.
LEMMA ReleaseRefines ==
  ASSUME PoolInv, NEW m \in Mac, Release(m)
  PROVE  [Table!Next]_Leases
<1>1. /\ DOMAIN assigned' = DOMAIN assigned \ {m}
      /\ \A n \in DOMAIN assigned' : assigned'[n] = assigned[n]
  BY DEF Release, Pop
<1>2. CASE m \notin DOMAIN assigned
  BY <1>1, <1>2 DEF Leases
<1>3. CASE m \in DOMAIN assigned
  <2>1. assigned[m] \in Ip
    BY <1>3 DEF PoolInv, PoolTypeOK, DictType
  <2>2. <<m, assigned[m]>> \in Leases
    BY <1>3 DEF Leases
  <2>3. Leases' = Leases \ {<<m, assigned[m]>>}
    BY <1>1 DEF Leases
  <2> QED BY <2>1, <2>2, <2>3 DEF Table!Next, Table!Return
<1> QED BY <1>2, <1>3

\* IPPool implements the lease table: an address changes hands only by being
\* returned first, and a client borrows at most one.
THEOREM PoolRefinesTable == PoolSpec => ImplementsLeaseTable
<1>1. PoolInit => Table!Init
  BY DEF PoolInit, EmptyDict, Leases, Table!Init
<1>2. PoolInv /\ [PoolNext]_poolVars => [Table!Next]_Leases
  <2> SUFFICES ASSUME PoolInv, [PoolNext]_poolVars PROVE [Table!Next]_Leases
    OBVIOUS
  <2>1. CASE UNCHANGED poolVars
    BY <2>1 DEF poolVars, Leases
  <2>2. CASE PoolNext
    BY <2>2, AllocateRefines, ReleaseRefines DEF PoolNext
  <2> QED BY <2>1, <2>2
<1> QED BY <1>1, <1>2, PoolInvariance, PTL DEF PoolSpec, Table!Spec, ImplementsLeaseTable

=============================================================================
