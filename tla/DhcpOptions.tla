----------------------------- MODULE DhcpOptions -----------------------------
(***************************************************************************)
(* How the DHCP server reads a packet: the receive loop, _handle_packet up *)
(* to the dispatch, and _extract_message_type of dhcp/dhcp_server.py.      *)
(*                                                                         *)
(* Every struct.unpack_from is a step of its own, which does not see the   *)
(* tests made before it.  It raises struct.error beyond the end of the     *)
(* packet; nothing catches that, and the server's thread ends.  What is    *)
(* done with a type is in DhcpServer, where a packet has a type from the   *)
(* start.                                                                  *)
(***************************************************************************)
EXTENDS Integers

CONSTANTS
  Byte,    \* the bytes options are made of
  MaxLen   \* bound: the length of a packet (1024)

ASSUME OptionsAssumption == Byte \subseteq 0 .. 255 /\ MaxLen \in Nat

\* the offset of the first option
First == 244

\* a packet: its length, whether bytes 240 to 243 are the magic cookie, and
\* the bytes at the offsets from 244 on
Packet == UNION {[len: {n}, cookie: BOOLEAN, at: [First .. n - 1 -> Byte]] :
                   n \in 0 .. MaxLen}

NoPacket == [len |-> 0, cookie |-> FALSE, at |-> [k \in {} |-> 0]]

None == -1

VARIABLES
  pc,      \* where the thread is
  data,    \* the packet it handles
  offset,  \* the option it looks at
  type     \* what _extract_message_type returned

vars == <<pc, data, offset, type>>

Pad == 0
EndTag == 255
TypeTag == 53

-----------------------------------------------------------------------------

\* the thread goes on, with nothing else changed
GoOn(from, to) == pc = from /\ pc' = to /\ UNCHANGED <<data, offset, type>>

Receive(p) ==
  /\ pc = "recv"
  /\ pc' = "check"
  /\ data' = p
  /\ UNCHANGED <<offset, type>>

\* the loop goes on to the next packet
Done ==
  /\ pc' = "recv" /\ data' = NoPacket
  /\ offset' = First /\ type' = None

\* the tests of _serve_forever and _handle_packet
LongEnough == data.len >= 240 /\ data.len >= 34

TooShort == pc = "check" /\ ~LongEnough /\ Done

Handle == GoOn("check", "head") /\ LongEnough

\* what unpack_from reads next ends here: xid and mac, the cookie, the tag of
\* an option, its length, the first byte of its value
ReadEnd ==
  CASE pc = "head" -> 34
    [] pc = "cookie" -> First
    [] pc = "tag" -> offset + 1
    [] pc = "length" -> offset + 2
    [] pc = "value" -> offset + 3

Seen ==
  CASE pc = "head" -> "extract"
    [] pc = "cookie" -> "compare"
    [] pc = "tag" -> "option"
    [] pc = "length" -> "sized"
    [] pc = "value" -> "found"

Unpack ==
  /\ pc \in {"head", "cookie", "tag", "length", "value"}
  /\ GoOn(pc, IF ReadEnd <= data.len THEN Seen ELSE "dead")

\* _extract_message_type: the cookie, if there is room for it
Extract == GoOn("extract", "cookie") /\ data.len >= First

\* where the options begin (mutant: at the cookie)
AtCookie == First - 4
AfterCookie == First

Cookie ==
  /\ pc = "compare" /\ data.cookie
  /\ pc' = "parse" /\ offset' = AfterCookie
  /\ UNCHANGED <<data, type>>

\* a round of the while loop looks at the tag
InLoop == offset < data.len
Round == GoOn("parse", "tag") /\ InLoop

Tag == data.at[offset]

\* (mutant: the loop does not move on)
Stay == offset
AfterPad == offset + 1

Padding ==
  /\ pc = "option" /\ Tag = Pad
  /\ pc' = "parse" /\ offset' = AfterPad
  /\ UNCHANGED <<data, type>>

\* the tag is the last byte (mutant: off by one)
BeyondEnd == offset + 1 > data.len
NoLength == offset + 1 >= data.len

Option == GoOn("option", "length") /\ Tag \notin {Pad, EndTag} /\ ~NoLength

\* the length may run past the packet
Length == data.at[offset + 1]
HasType == Tag = TypeTag /\ Length >= 1 /\ offset + 2 < data.len

Value == GoOn("sized", "value") /\ HasType

\* the option after this one (mutant: its tag is not counted)
AfterLength == offset + 1 + Length
AfterValue == offset + 2 + Length

Skip ==
  /\ pc = "sized" /\ ~HasType
  /\ pc' = "parse" /\ offset' = AfterValue
  /\ UNCHANGED <<data, type>>

Return(t) ==
  /\ pc' = "dispatch"
  /\ type' = t
  /\ UNCHANGED <<data, offset>>

Found == pc = "found" /\ Return(data.at[offset + 2])

\* no room for the cookie, or another one; the end of the packet or of the
\* options; a tag without a length
NotFound ==
  /\ \/ pc = "extract" /\ data.len < First
     \/ pc = "compare" /\ ~data.cookie
     \/ pc = "parse" /\ ~InLoop
     \/ pc = "option" /\ (Tag = EndTag \/ (Tag # Pad /\ NoLength))
  /\ Return(None)

\* the type, if there is one, selects what DhcpServer does
Dispatch == pc = "dispatch" /\ Done

-----------------------------------------------------------------------------

Init == pc = "recv" /\ data = NoPacket /\ offset = First /\ type = None

Step ==
  \/ TooShort \/ Handle \/ Unpack \/ Extract \/ Cookie
  \/ Round \/ Padding \/ Option \/ Skip \/ Value
  \/ Found \/ NotFound \/ Dispatch

Next == Step \/ \E p \in Packet : Receive(p)

Spec == Init /\ [][Next]_vars

\* the thread is scheduled; no packet has to come
FairSpec == Spec /\ WF_vars(Step)

-----------------------------------------------------------------------------
(* Properties.                                                             *)

\* Every variable holds what the code can put there: the offset stays in the
\* options, or runs past them by no more than the last length says.
TypeOK ==
  /\ pc \in {"recv", "check", "head", "extract", "cookie", "compare", "parse", "tag",
            "option", "length", "sized", "value", "found", "dispatch", "dead"}
  /\ data \in Packet
  /\ offset \in First .. data.len + 255
  /\ type \in Byte \cup {None}

\* No packet ends the server's thread, however it is cut: whatever unpack_from
\* reads on the way to the message type, the tests made since the packet came,
\* rounds of the loop ago even, keep the read inside the packet.
NeverCrashes == pc # "dead"

\* What an options field means.  At k begins a message type whose value is in
\* the packet; an option other than the message type and the end; the next.
TypeAt(p, k) == p.at[k] = 53 /\ k + 2 < p.len /\ p.at[k + 1] # 0
OtherAt(p, k) == p.at[k] # 255 /\ (p.at[k] = 0 \/ k + 1 < p.len) /\ ~TypeAt(p, k)
Follower(p, k) == IF p.at[k] = 0 THEN k + 1 ELSE k + p.at[k + 1] + 2

\* S holds the first option and, with an option, the next
Closed(p, S) ==
  /\ First < p.len => First \in S
  /\ \A k \in S : OtherAt(p, k) /\ Follower(p, k) < p.len => Follower(p, k) \in S

\* the offsets at which options begin: the least such set
BeginsAt(p, k) == \A S \in SUBSET (First .. p.len - 1) : Closed(p, S) => k \in S

Types(p) == {p.at[k + 2] : k \in {k \in First .. p.len - 1 :
                                    BeginsAt(p, k) /\ TypeAt(p, k)}}

\* The type the loop returns is the one the options field has: it is None just
\* when the packet is too short, has no cookie or no message type.
TypeFound ==
  pc = "dispatch" =>
    LET types == IF data.cookie THEN Types(data) ELSE {}
    IN  IF type = None THEN types = {} ELSE types = {type}

\* The loop over the options ends, and the packet is dispatched.
ParseEnds == pc = "parse" ~> pc = "dispatch"

=============================================================================
