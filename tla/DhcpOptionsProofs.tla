-------------------------- MODULE DhcpOptionsProofs --------------------------
(***************************************************************************)
(* Theorems about DhcpOptions: the loop over the options of a packet is    *)
(* right for packets of every length and of any bytes.                     *)
(***************************************************************************)
EXTENDS DhcpOptions, TLAPS

USE DEF First

-----------------------------------------------------------------------------
(* Packets.                                                                *)

LEMMA PacketFields ==
  ASSUME NEW p \in Packet
  PROVE  /\ p.len \in Nat
         /\ p.cookie \in BOOLEAN
         /\ p.at \in [First .. p.len - 1 -> Byte]
BY DEF Packet

LEMMA Bytes == Byte \subseteq 0 .. 255 /\ None \notin Byte
BY OptionsAssumption DEF None

LEMMA NoPacketType == NoPacket \in Packet
<1>1. NoPacket \in [len: {0}, cookie: BOOLEAN, at: [First .. 0 - 1 -> Byte]]
  <2>1. First .. 0 - 1 = {}
    OBVIOUS
  <2>2. NoPacket.at \in [{} -> Byte]
    BY DEF NoPacket
  <2> QED
    BY <2>1, <2>2 DEF NoPacket
<1> QED
  BY <1>1, OptionsAssumption DEF Packet

-----------------------------------------------------------------------------
(* The offsets at which options begin.                                     *)

Offsets(p) == First .. p.len - 1

\* The offset after an option is a later one.
LEMMA FollowerType ==
  ASSUME NEW p \in Packet, NEW k \in Offsets(p), OtherAt(p, k)
  PROVE  Follower(p, k) \in Nat /\ Follower(p, k) > k
<1>1. p.at[k] \in 0 .. 255
  BY PacketFields, Bytes DEF Offsets
<1>2. ASSUME p.at[k] # 0 PROVE p.at[k + 1] \in 0 .. 255
  <2>1. k + 1 < p.len /\ p.len \in Nat /\ k \in Nat /\ k >= First
    BY <1>2, PacketFields DEF Offsets, OtherAt
  <2>2. k + 1 \in First .. p.len - 1
    BY <2>1
  <2> QED
    BY <2>2, PacketFields, Bytes
<1> QED
  BY <1>1, <1>2 DEF Follower, Offsets

\* The first option begins at its place.
LEMMA FirstBegins ==
  ASSUME NEW p \in Packet, First < p.len
  PROVE  BeginsAt(p, First)
BY DEF BeginsAt, Closed

\* After an option that begins, another one does.
LEMMA NextBegins ==
  ASSUME NEW p \in Packet, NEW k \in Offsets(p), BeginsAt(p, k),
         OtherAt(p, k), Follower(p, k) < p.len
  PROVE  BeginsAt(p, Follower(p, k))
BY DEF BeginsAt, Closed

\* The options before o, all passed over, lead to o and no further.
Passed(p, o) ==
  \A k \in Offsets(p) : k < o /\ BeginsAt(p, k) =>
    ~TypeAt(p, k) /\ (OtherAt(p, k) => Follower(p, k) <= o)

\* No option begins between o and the next one, or after o when none follows.
LEMMA NothingBetween ==
  ASSUME NEW p \in Packet, NEW o \in Offsets(p), NEW n \in Nat,
         BeginsAt(p, o), Passed(p, o), o < n,
         OtherAt(p, o) => Follower(p, o) = n,
         NEW k \in Offsets(p), BeginsAt(p, k)
  PROVE  k <= o \/ k >= n
<1> DEFINE S == {j \in Offsets(p) : BeginsAt(p, j) /\ (j <= o \/ j >= n)}
<1>1. p.len \in Nat
  BY PacketFields
<1>2. S \subseteq Offsets(p)
  OBVIOUS
<1>3. First < p.len => First \in S
  BY <1>1, FirstBegins DEF Offsets
<1>4. ASSUME NEW j \in S, OtherAt(p, j), Follower(p, j) < p.len
      PROVE  Follower(p, j) \in S
  <2>1. j \in Offsets(p) /\ BeginsAt(p, j) /\ (j <= o \/ j >= n)
    OBVIOUS
  <2>2. Follower(p, j) \in Nat /\ Follower(p, j) > j
    BY <1>4, <2>1, FollowerType
  <2>3. BeginsAt(p, Follower(p, j))
    BY <1>4, <2>1, NextBegins
  <2>4. Follower(p, j) \in Offsets(p)
    BY <1>1, <1>4, <2>1, <2>2 DEF Offsets
  <2>5. Follower(p, j) <= o \/ Follower(p, j) >= n
    <3>1. CASE j < o
      BY <1>4, <2>1, <3>1 DEF Passed
    <3>2. CASE j = o
      BY <1>4, <2>2, <3>2
    <3>3. CASE j > o
      BY <2>1, <2>2, <3>3 DEF Offsets
    <3> QED
      BY <1>1, <2>1, <3>1, <3>2, <3>3 DEF Offsets
  <2> QED
    BY <2>3, <2>4, <2>5
<1>5. Closed(p, S)
  BY <1>3, <1>4 DEF Closed
<1>6. k \in S
  BY <1>2, <1>5 DEF BeginsAt, Offsets
<1> QED
  BY <1>6

-----------------------------------------------------------------------------
(* The invariant.                                                          *)

InOption == pc \in {"tag", "option", "length", "sized", "value", "found"}

\* The loop stands where an option begins, or beyond the packet, and has passed
\* over all before.
LoopInv ==
  pc = "parse" \/ InOption =>
    /\ data.len >= First /\ data.cookie
    /\ offset < data.len => BeginsAt(data, offset)
    /\ Passed(data, offset)

\* What the tests made before a read, some of them several reads ago, leave
\* true until it: the read stays in the packet.
ReadsInv ==
  /\ pc = "head" => data.len >= 34
  /\ pc \in {"cookie", "compare"} => data.len >= First
  /\ InOption => offset < data.len
  /\ pc \in {"length", "sized"} => offset + 1 < data.len /\ Tag \notin {Pad, EndTag}
  /\ pc \in {"value", "found"} => offset + 2 < data.len /\ TypeAt(data, offset)

\* Between packets there is none.
IdleInv == pc = "recv" => data.len = 0

Inv == TypeOK /\ NeverCrashes /\ TypeFound /\ LoopInv /\ ReadsInv /\ IdleInv

\* What the thread waits with.
LEMMA IdleTypes ==
  /\ NoPacket \in Packet /\ NoPacket.len = 0
  /\ First \in First .. NoPacket.len + 255
BY NoPacketType DEF NoPacket

LEMMA InitInv == Init => Inv
BY IdleTypes DEF Init, Inv, TypeOK, NeverCrashes, TypeFound, LoopInv, ReadsInv, InOption, IdleInv

\* What the steps of the loop work with.
LEMMA LoopTypes ==
  ASSUME Inv
  PROVE  /\ data \in Packet /\ data.len \in Nat /\ offset \in Nat
         /\ data.at \in [First .. data.len - 1 -> 0 .. 255]
         /\ offset >= First /\ offset <= data.len + 255
<1>1. data \in Packet /\ offset \in First .. data.len + 255
  BY DEF Inv, TypeOK
<1>2. data.len \in Nat /\ data.at \in [First .. data.len - 1 -> Byte]
  BY <1>1, PacketFields
<1>3. data.at \in [First .. data.len - 1 -> 0 .. 255]
  BY <1>2, Bytes
<1>4. offset \in Nat /\ offset >= First /\ offset <= data.len + 255
  BY <1>1, <1>2
<1> QED
  BY <1>1, <1>2, <1>3, <1>4

\* The thread is ready for the next packet.
LEMMA DoneInv == ASSUME Inv, Done PROVE Inv'
<1>1. pc' = "recv" /\ data' = NoPacket /\ offset' = First /\ type' = None
  BY DEF Done
<1>2. TypeOK'
  BY <1>1, IdleTypes DEF TypeOK
<1>3. IdleInv'
  BY <1>1, IdleTypes DEF IdleInv
<1> QED
  BY <1>1, <1>2, <1>3 DEF Inv, NeverCrashes, TypeFound, LoopInv, ReadsInv, InOption

\* The types are a matter of the packet alone.
LEMMA SameTypes == ASSUME data' = data PROVE Types(data)' = Types(data)
BY DEF Types, BeginsAt, TypeAt, Closed, OtherAt, Follower

\* A result that agrees with the options may be returned.
LEMMA ReturnInv ==
  ASSUME Inv, NEW t \in Byte \cup {None}, Return(t),
         LET types == IF data.cookie THEN Types(data) ELSE {}
         IN  IF t = None THEN types = {} ELSE types = {t}
  PROVE  Inv'
<1>1. pc' = "dispatch" /\ type' = t /\ data' = data /\ offset' = offset
  BY DEF Return
<1>2. TypeOK'
  BY <1>1 DEF Inv, TypeOK
<1>3. TypeFound'
  <2>1. Types(data)' = Types(data)
    BY <1>1, SameTypes
  <2>2. data'.cookie = data.cookie
    BY <1>1
  <2> QED
    BY <1>1, <2>1, <2>2 DEF TypeFound
<1> QED
  BY <1>1, <1>2, <1>3 DEF Inv, NeverCrashes, LoopInv, ReadsInv, InOption, IdleInv

\* When no option after the current one begins, and the current one is no
\* message type, there is none.
LEMMA EndOfOptions ==
  ASSUME Inv, pc = "parse" \/ InOption,
         InLoop => ~TypeAt(data, offset) /\ ~OtherAt(data, offset)
  PROVE  Types(data) = {}
<1>1. ASSUME NEW k \in Offsets(data), BeginsAt(data, k)
      PROVE  ~TypeAt(data, k)
  <2>1. k \in Nat /\ k < data.len
    BY LoopTypes DEF Offsets
  <2>2. CASE k < offset
    BY <1>1, <2>2 DEF Inv, LoopInv, Passed
  <2>3. CASE k >= offset
    <3>1. InLoop /\ offset \in Offsets(data) /\ offset < data.len
      BY <2>1, <2>3, LoopTypes DEF InLoop, Offsets
    <3>2. k <= offset \/ k >= data.len
      BY <1>1, <3>1, LoopTypes, NothingBetween DEF Inv, LoopInv
    <3> QED
      BY <2>1, <2>3, <3>1, <3>2, LoopTypes
  <2> QED
    BY <2>1, <2>2, <2>3, LoopTypes
<1> QED
  BY <1>1 DEF Types, Offsets

\* A step of the loop that only moves the thread on: the packet, the offset and
\* the type stay.
LEMMA GoOnInv ==
  ASSUME Inv, NEW from, NEW to, GoOn(from, to), to \notin {"recv", "dispatch", "dead"},
         TypeOK', ReadsInv', (to = "parse" \/ InOption') => (pc = "parse" \/ InOption)
  PROVE  Inv'
<1>1. /\ pc = from /\ pc' = to /\ data' = data /\ offset' = offset /\ type' = type
  BY DEF GoOn
<1>2. LoopInv'
  <2>1. BeginsAt(data, offset)' <=> BeginsAt(data, offset)
    BY <1>1 DEF BeginsAt, Closed, OtherAt, TypeAt, Follower
  <2>2. Passed(data, offset)' <=> Passed(data, offset)
    BY <1>1 DEF Passed, Offsets, BeginsAt, Closed, OtherAt, TypeAt, Follower
  <2> QED
    BY <1>1, <2>1, <2>2 DEF Inv, LoopInv
<1>3. NeverCrashes' /\ TypeFound' /\ IdleInv'
  BY <1>1 DEF NeverCrashes, TypeFound, IdleInv
<1> QED
  BY <1>2, <1>3 DEF Inv

\* The loop moves on over an option that is no message type.
LEMMA MoveInv ==
  ASSUME Inv, InOption, OtherAt(data, offset), ~TypeAt(data, offset),
         offset' = Follower(data, offset), offset' <= data.len + 255,
         pc' = "parse", UNCHANGED <<data, type>>
  PROVE  Inv'
<1>1. /\ offset \in Offsets(data) /\ BeginsAt(data, offset)
      /\ data \in Packet /\ Passed(data, offset)
      /\ data.len \in Nat /\ offset \in Nat
  BY LoopTypes DEF Offsets, Inv, LoopInv, ReadsInv
<1>2. offset' \in Nat /\ offset' > offset
  BY <1>1, FollowerType
<1>3. offset' < data.len => BeginsAt(data, offset')
  BY <1>1, NextBegins
<1>4. ASSUME NEW k \in Offsets(data), k < offset', BeginsAt(data, k)
      PROVE  ~TypeAt(data, k) /\ (OtherAt(data, k) => Follower(data, k) <= offset')
  <2>1. k \in Nat
    BY <1>1 DEF Offsets
  <2>2. k <= offset
    BY <1>1, <1>2, <1>4, <2>1, NothingBetween
  <2>3. CASE k = offset
    BY <1>2, <2>3
  <2>4. CASE k < offset
    <3>1. ~TypeAt(data, k) /\ (OtherAt(data, k) => Follower(data, k) <= offset)
      BY <1>1, <1>4, <2>4 DEF Passed
    <3> QED
      BY <1>1, <1>2, <1>4, <3>1, FollowerType
  <2> QED
    BY <1>1, <2>1, <2>2, <2>3, <2>4
<1>5. Passed(data, offset')
  BY <1>4 DEF Passed
<1>6. LoopInv'
  <2>1. data' = data
    OBVIOUS
  <2>2. BeginsAt(data, offset)' <=> BeginsAt(data, offset')
    BY <2>1 DEF BeginsAt, Closed, OtherAt, TypeAt, Follower
  <2>3. Passed(data, offset)' <=> Passed(data, offset')
    BY <2>1 DEF Passed, Offsets, BeginsAt, Closed, OtherAt, TypeAt, Follower
  <2> QED
    BY <1>1, <1>3, <1>5, <2>1, <2>2, <2>3 DEF LoopInv, Inv
<1>7. TypeOK'
  <2>1. offset' \in First .. data.len + 255
    BY <1>1, <1>2 DEF Offsets
  <2> QED
    BY <2>1 DEF Inv, TypeOK
<1> QED
  BY <1>1, <1>6, <1>7 DEF Inv, NeverCrashes, TypeFound, ReadsInv, InOption, IdleInv

\* What unpack_from reads is in the packet, and what it has read is known.
LEMMA UnpackInv == ASSUME Inv, Unpack PROVE Inv'
<1>1. /\ pc \in {"head", "cookie", "tag", "length", "value"}
      /\ GoOn(pc, IF ReadEnd <= data.len THEN Seen ELSE "dead")
  BY DEF Unpack
<1>2. data.len \in Nat /\ offset \in Nat
  BY LoopTypes
<1>3. ReadEnd <= data.len
  BY <1>1, <1>2 DEF Inv, ReadsInv, InOption, ReadEnd
<1>4. pc' = Seen /\ data' = data /\ offset' = offset /\ type' = type /\ GoOn(pc, Seen)
  BY <1>1, <1>3 DEF GoOn
<1>5. TypeOK'
  BY <1>1, <1>4 DEF Inv, TypeOK, Seen
<1>6. ReadsInv'
  BY <1>1, <1>4 DEF Inv, ReadsInv, InOption, Seen, Tag, TypeAt
<1>7. (Seen = "parse" \/ InOption') => (pc = "parse" \/ InOption)
  BY <1>1, <1>4 DEF InOption, Seen
<1>8. Seen \notin {"recv", "dispatch", "dead"}
  BY <1>1 DEF Seen
<1> QED
  BY <1>4, <1>5, <1>6, <1>7, <1>8, GoOnInv

\* The tests before the reads.
LEMMA TestInv == ASSUME Inv, Handle \/ Extract \/ Round \/ Option \/ Value PROVE Inv'
<1>1. /\ data.len \in Nat /\ offset \in Nat
      /\ data' = data /\ offset' = offset /\ type' = type
  BY LoopTypes DEF Handle, Extract, Round, Option, Value, GoOn
<1>2. PICK from, to :
        /\ GoOn(from, to)
        /\ \/ from = "check" /\ to = "head" /\ LongEnough
           \/ from = "extract" /\ to = "cookie" /\ data.len >= First
           \/ from = "parse" /\ to = "tag" /\ InLoop
           \/ from = "option" /\ to = "length" /\ Tag \notin {Pad, EndTag} /\ ~NoLength
           \/ from = "sized" /\ to = "value" /\ HasType
  BY DEF Handle, Extract, Round, Option, Value
<1>3. pc = from /\ pc' = to
  BY <1>2 DEF GoOn
<1>4. TypeOK'
  BY <1>1, <1>2, <1>3 DEF Inv, TypeOK
<1>5. ReadsInv'
  <2>1. to = "head" => data.len >= 34
    BY <1>2 DEF LongEnough
  <2>2. to = "cookie" => data.len >= First
    BY <1>2
  <2>3. to \in {"tag", "length", "value"} => offset < data.len
    BY <1>2, <1>3 DEF Inv, ReadsInv, InOption, InLoop
  <2>4. to = "length" => offset + 1 < data.len /\ Tag \notin {Pad, EndTag}
    BY <1>1, <1>2 DEF NoLength
  <2>5. to = "value" => offset + 2 < data.len /\ TypeAt(data, offset)
    BY <1>1, <1>2 DEF HasType, Tag, TypeTag, Length, TypeAt
  <2>6. to \in {"head", "cookie", "tag", "length", "value"}
    BY <1>2
  <2> QED
    BY <1>1, <1>3, <2>1, <2>2, <2>3, <2>4, <2>5, <2>6 DEF ReadsInv, InOption, Tag, TypeAt
<1>6. (to = "parse" \/ InOption') => (pc = "parse" \/ InOption)
  BY <1>2, <1>3 DEF InOption
<1> QED
  BY <1>2, <1>4, <1>5, <1>6, GoOnInv

\* Every step keeps the invariant.
LEMMA NextInv == Inv /\ [Next]_vars => Inv'
<1> SUFFICES ASSUME Inv, [Next]_vars PROVE Inv'
  OBVIOUS
<1>1. CASE UNCHANGED vars
  <2>1. pc' = pc /\ data' = data /\ offset' = offset /\ type' = type
    BY <1>1 DEF vars
  <2>2. TypeOK' /\ NeverCrashes' /\ IdleInv'
    BY <2>1 DEF Inv, TypeOK, NeverCrashes, IdleInv
  <2>3. TypeFound'
    <3>1. Types(data)' = Types(data) /\ data'.cookie = data.cookie
      BY <2>1, SameTypes
    <3> QED
      BY <2>1, <3>1 DEF Inv, TypeFound
  <2>4. LoopInv'
    BY <2>1 DEF Inv, LoopInv, InOption, Passed, Offsets, BeginsAt, Closed, OtherAt,
       TypeAt, Follower
  <2>5. ReadsInv'
    BY <2>1 DEF Inv, ReadsInv, InOption, Tag, TypeAt
  <2> QED
    BY <2>2, <2>3, <2>4, <2>5 DEF Inv
<1>2. ASSUME NEW p \in Packet, Receive(p) PROVE Inv'
  <2>1. /\ pc = "recv" /\ pc' = "check" /\ data' = p
        /\ offset' = offset /\ type' = type
    BY <1>2 DEF Receive
  <2>2. data.len = 0 /\ offset \in First .. data.len + 255
    BY <2>1 DEF Inv, IdleInv, TypeOK
  <2>3. offset \in First .. p.len + 255
    BY <2>2, PacketFields
  <2>4. TypeOK'
    BY <2>1, <2>3 DEF Inv, TypeOK
  <2> QED
    BY <2>1, <2>4 DEF Inv, NeverCrashes, TypeFound, LoopInv, ReadsInv, InOption, IdleInv
<1>3. CASE TooShort
  BY <1>3, DoneInv DEF TooShort
<1>4. CASE Unpack
  BY <1>4, UnpackInv
<1>5. CASE Handle \/ Extract \/ Round \/ Option \/ Value
  BY <1>5, TestInv
<1>6. CASE Cookie
  <2>1. /\ pc' = "parse" /\ offset' = First /\ data' = data /\ type' = type
        /\ data.len >= First /\ data.cookie
    BY <1>6 DEF Cookie, AfterCookie, Inv, ReadsInv
  <2>2. First < data.len => BeginsAt(data, First)
    BY FirstBegins, LoopTypes
  <2>3. Passed(data, First)
    BY DEF Passed, Offsets
  <2>4. LoopInv'
    BY <2>1, <2>2, <2>3 DEF LoopInv, Passed, Offsets, BeginsAt, Closed, OtherAt,
       TypeAt, Follower
  <2>5. TypeOK'
    <3>1. First \in First .. data.len + 255
      BY LoopTypes
    <3> QED
      BY <2>1, <3>1 DEF Inv, TypeOK
  <2> QED
    BY <2>1, <2>4, <2>5 DEF Inv, NeverCrashes, TypeFound, ReadsInv, InOption, IdleInv
<1>7. CASE Padding
  <2>1. /\ data.at[offset] = 0 /\ InOption /\ offset' = offset + 1
        /\ pc' = "parse" /\ UNCHANGED <<data, type>>
    BY <1>7 DEF Padding, InOption, Tag, Pad, AfterPad
  <2>2. OtherAt(data, offset) /\ ~TypeAt(data, offset) /\ Follower(data, offset) = offset'
    BY <2>1 DEF OtherAt, TypeAt, Follower
  <2>3. offset' <= data.len + 255
    BY <2>1, LoopTypes DEF Inv, ReadsInv
  <2> QED
    BY <2>1, <2>2, <2>3, MoveInv
<1>8. CASE Skip
  <2>1. /\ InOption /\ data.at[offset] # 0 /\ data.at[offset] # 255
        /\ offset + 1 < data.len
    BY <1>8 DEF Skip, InOption, Inv, ReadsInv, Tag, Pad, EndTag
  <2>2. offset + 1 \in First .. data.len - 1
    BY <2>1, LoopTypes
  <2>3. data.at[offset + 1] \in 0 .. 255
    BY <2>2, LoopTypes
  <2>4. ~TypeAt(data, offset)
    BY <1>8, <2>3 DEF Skip, HasType, Tag, TypeTag, Length, TypeAt
  <2>5. /\ offset' = offset + 2 + data.at[offset + 1]
        /\ pc' = "parse" /\ UNCHANGED <<data, type>>
    BY <1>8 DEF Skip, AfterValue, Length
  <2>6. OtherAt(data, offset)
    BY <2>1, <2>4 DEF OtherAt
  <2>7. Follower(data, offset) = offset' /\ offset' <= data.len + 255
    <3>1. Follower(data, offset) = offset + data.at[offset + 1] + 2
      BY <2>1 DEF Follower
    <3>2. data.len \in Nat /\ offset \in Nat
      BY LoopTypes
    <3>3. ASSUME NEW v \in 0 .. 255
          PROVE  /\ offset + v + 2 = offset + 2 + v
                 /\ offset + 1 < data.len => offset + 2 + v <= data.len + 255
      BY <3>2
    <3> QED
      BY <2>1, <2>3, <2>5, <3>1, <3>3
  <2> QED
    BY <2>1, <2>4, <2>5, <2>6, <2>7, MoveInv
<1>9. CASE Found
  <2>1. /\ InOption /\ offset \in Offsets(data) /\ offset < data.len
        /\ TypeAt(data, offset) /\ ~OtherAt(data, offset)
        /\ offset + 2 \in First .. data.len - 1
    BY <1>9, LoopTypes DEF Found, Inv, ReadsInv, InOption, OtherAt, Offsets
  <2>2. BeginsAt(data, offset) /\ Passed(data, offset) /\ data.cookie
    BY <2>1 DEF Inv, LoopInv
  <2>3. data.at[offset + 2] \in Byte
    BY <2>1, PacketFields DEF Inv, TypeOK
  <2>4. ASSUME NEW k \in Offsets(data), BeginsAt(data, k), TypeAt(data, k)
        PROVE  k = offset
    <3>1. k \in Nat /\ k < data.len
      BY LoopTypes DEF Offsets
    <3>2. k <= offset \/ k >= data.len
      BY <2>1, <2>2, <2>4, LoopTypes, NothingBetween
    <3>3. ~(k < offset)
      BY <2>2, <2>4 DEF Passed
    <3> QED
      BY <3>1, <3>2, <3>3, LoopTypes
  <2>5. Types(data) = {data.at[offset + 2]}
    BY <2>1, <2>2, <2>4 DEF Types, Offsets
  <2> QED
    BY <1>9, <2>2, <2>3, <2>5, Bytes, ReturnInv DEF Found
<1>10. CASE NotFound
  <2>1. data.cookie => Types(data) = {}
    <3>1. CASE pc = "extract" /\ data.len < First
      BY <3>1, LoopTypes DEF Types
    <3>2. CASE pc = "compare" /\ ~data.cookie
      BY <3>2
    <3>3. CASE pc = "parse" /\ ~InLoop
      BY <3>3, EndOfOptions
    <3>4. CASE pc = "option" /\ (Tag = EndTag \/ (Tag # Pad /\ NoLength))
      <4>1. ~TypeAt(data, offset) /\ ~OtherAt(data, offset) /\ InOption
        BY <3>4, LoopTypes DEF NoLength, Tag, Pad, EndTag, TypeAt, OtherAt, InOption
      <4> QED
        BY <4>1, EndOfOptions
    <3> QED
      BY <1>10, <3>1, <3>2, <3>3, <3>4 DEF NotFound
  <2> QED
    BY <1>10, <2>1, ReturnInv DEF NotFound
<1>11. CASE Dispatch
  BY <1>11, DoneInv DEF Dispatch
<1> QED
  BY <1>1, <1>2, <1>3, <1>4, <1>5, <1>6, <1>7, <1>8, <1>9, <1>10, <1>11
     DEF Next, Step

-----------------------------------------------------------------------------
(* The theorems.                                                           *)

\* The inductive invariant of the loop over the options.
THEOREM Invariance == Spec => []Inv
BY InitInv, NextInv, PTL DEF Spec

\* The offset stays among the options, or as little beyond them as a length
\* can say, and what is returned is a byte or nothing.
THEOREM TypeCorrect == Spec => []TypeOK
BY Invariance, PTL DEF Inv

\* No packet, of any length and any bytes, makes struct.error end the thread of
\* the server: every unpack_from on the way to the message type stays inside.
THEOREM NoPacketCrashes == Spec => []NeverCrashes
BY Invariance, PTL DEF Inv

\* The loop returns the message type the options field has, if it has one.
THEOREM FindsTheType == Spec => []TypeFound
BY Invariance, PTL DEF Inv

\* Every round that comes back to the condition of the loop has moved on in the
\* same packet.  As a round starts inside the packet, one of n bytes takes no
\* more than n rounds, whatever its bytes: a length of zero does not hold the
\* thread up.
THEOREM RoundsAdvance ==
  Spec => [][InOption /\ pc' = "parse" => offset' > offset /\ data' = data]_vars
<1>1. Inv /\ [Next]_vars =>
        [InOption /\ pc' = "parse" => offset' > offset /\ data' = data]_vars
  <2> SUFFICES ASSUME Inv, Next, InOption, pc' = "parse"
               PROVE  offset' > offset /\ data' = data
    BY DEF vars
  <2>1. offset \in Nat
    BY LoopTypes
  <2>2. CASE Padding
    BY <2>1, <2>2 DEF Padding, AfterPad
  <2>3. CASE Skip
    <3>1. offset + 1 \in First .. data.len - 1 /\ offset' = AfterValue /\ data' = data
      BY <2>3, LoopTypes DEF Skip, Inv, ReadsInv
    <3>2. data.at[offset + 1] \in 0 .. 255
      BY <3>1, LoopTypes
    <3>3. ASSUME NEW v \in 0 .. 255 PROVE offset + 2 + v > offset
      BY <2>1
    <3> QED
      BY <3>1, <3>2, <3>3 DEF AfterValue, Length
  <2>4. ~Unpack
    <3>1. Unpack => pc' # "parse"
      BY DEF Unpack, GoOn, Seen
    <3> QED
      BY <3>1
  <2> QED
    BY <2>2, <2>3, <2>4 DEF Next, Step, InOption, Receive, TooShort, Handle, Extract,
       Cookie, Round, Option, Value, GoOn, Found, NotFound, Return, Done, Dispatch
<1> QED
  BY <1>1, Invariance, PTL DEF Spec

=============================================================================
