-------------------------- MODULE ProtocolDissector --------------------------
(***************************************************************************)
(* dissect_packet() in src/ProtocolDissector.cpp: the walk from the        *)
(* Ethernet header to the payload, and the PacketInfo it fills in, which   *)
(* is all that the flow tracker and the detectors know of a packet.        *)
(* L7Extractors has the walks through a payload.                           *)
(*                                                                         *)
(* Left out: fields that are copied and decide nothing here (MAC           *)
(* addresses, TTL, lengths, sequence numbers), and IPv4 addresses.         *)
(***************************************************************************)
EXTENDS L7Extractors, Ipv6Format

CONSTANTS
  Addresses,  \* IPv6 addresses, functions from 0..7 to groups
  None        \* no address

VARIABLE address   \* history: the source address in the IPv6 header, or None

allVars == <<vars, address>>

Groups == 0..65535

ASSUME AddressAssumption ==
  Addresses \subseteq [0..7 -> Groups] /\ None \notin Addresses

\* PacketInfo{}
NoInfo ==
  [valid |-> FALSE, truncated |-> FALSE, l3_proto |-> "NONE", src_ip |-> <<>>,
   l4_proto |-> "NONE", l7_payload_length |-> 0, l7_proto |-> "NONE"]

Init ==
  /\ pc = "done"
  /\ len = 0 /\ offset = 0
  /\ hs_end = 0 /\ ext_end = 0 /\ sni_end = 0
  /\ hops = 0
  /\ info = NoInfo
  /\ read_to = 0
  /\ short = FALSE /\ ended = FALSE /\ turn = FALSE
  /\ address = None

\* The consumer hands over the next frame.  An empty one is returned as it is.
DissectPacket(n) ==
  /\ At("done")
  /\ pc' = IF n = 0 THEN "done" ELSE "ethernet"
  /\ len' = n
  /\ offset' = 0
  /\ hs_end' = 0 /\ ext_end' = 0 /\ sni_end' = 0
  /\ hops' = 0
  /\ info' = NoInfo
  /\ read_to' = 0
  /\ short' = (n = 0) /\ ended' = FALSE /\ turn' = FALSE
  /\ address' = None

-----------------------------------------------------------------------------
(* Headers *)

\* A header does not fit: flagged as truncated or not.
TooShort(flagged) ==
  /\ Goto("done")
  /\ info' = IF flagged THEN [info EXCEPT !.truncated = TRUE] ELSE info
  /\ short' = TRUE
  /\ UNCHANGED <<offset, cursor>>

\* A header says that it is shorter than it has to be.
Malformed(flagged) ==
  /\ Goto("done")
  /\ info' = IF flagged THEN [info EXCEPT !.truncated = TRUE] ELSE info
  /\ UNCHANGED <<offset, short, cursor>>

\* On to the next step with the header of n bytes behind and info filled in.
Parsed(n, step, new) ==
  /\ Goto(step)
  /\ offset' = offset + n
  /\ info' = new
  /\ UNCHANGED <<short, cursor>>

EtherTypes == {"VLAN", "IPv4", "IPv6", "ARP", "other"}

\* The type after the Ethernet header or after its VLAN tag; one tag is skipped.
Layer3(n, type) ==
  CASE type \in {"IPv4", "IPv6"} -> Parsed(n, type, info)
    [] type = "ARP" -> Parsed(n, "done", [info EXCEPT !.l3_proto = "ARP", !.valid = TRUE])
    [] OTHER -> Parsed(n, "done", info)

Ethernet ==
  /\ At("ethernet")
  /\ UNCHANGED address
  /\ \/ ~Has(14) /\ TooShort(TRUE) /\ UNCHANGED read_to
     \/ /\ Has(14)
        /\ Read(14)
        /\ \E type \in EtherTypes :
             IF type = "VLAN" THEN Parsed(14, "vlan", info) ELSE Layer3(14, type)

Vlan ==
  /\ At("vlan")
  /\ UNCHANGED address
  /\ \/ ~Has(4) /\ TooShort(TRUE) /\ UNCHANGED read_to
     \/ Has(4) /\ Read(4) /\ \E type \in EtherTypes : Layer3(4, type)

Protocols == {"TCP", "UDP", "ICMP", "OTHER"}

\* What the protocol number makes of the transport layer.  IPv6 leaves a protocol
\* it does not know at NONE.
Layer4(n, proto, new) ==
  IF proto \in {"TCP", "UDP"} THEN Parsed(n, proto, new)
  ELSE Parsed(n, "done",
              [new EXCEPT !.l4_proto = IF proto = "OTHER" /\ new.l3_proto = "IPv6"
                                         THEN "NONE" ELSE proto])

\* A header of that many 4-byte words, 20 bytes at least, is in the frame.
header_fits(words) == words >= 5 /\ Has(4 * words)

Ipv4 ==
  /\ At("IPv4")
  /\ UNCHANGED address
  /\ \/ ~Has(20) /\ TooShort(TRUE) /\ UNCHANGED read_to
     \/ Has(20) /\ Read(20) /\ Return   \* another version
     \/ /\ Has(20)
        /\ \E words \in 0..15, proto \in Protocols :
             \/ words < 5 /\ Read(20) /\ Malformed(TRUE)
             \/ words >= 5 /\ ~header_fits(words) /\ Read(20) /\ TooShort(TRUE)
             \/ /\ header_fits(words)
                /\ Read(20)
                /\ Layer4(4 * words, proto, [info EXCEPT !.l3_proto = "IPv4", !.valid = TRUE])

Ipv6 ==
  /\ At("IPv6")
  /\ \/ ~Has(40) /\ TooShort(TRUE) /\ UNCHANGED <<read_to, address>>
     \/ Has(40) /\ Read(40) /\ Return /\ UNCHANGED address   \* another version
     \/ /\ Has(40)
        /\ Read(40)
        /\ \E proto \in Protocols, a \in Addresses :
             /\ address' = a
             /\ Layer4(40, proto, [info EXCEPT !.l3_proto = "IPv6", !.valid = TRUE,
                                               !.src_ip = format_ipv6(a)])

\* The well-known ports among the two.
PortSets == {ports \in SUBSET {"DNS", "HTTPS", "HTTP"} : Cardinality(ports) <= 2}

\* The extractor a payload goes to.  IPv4 looks for HTTP on every other TCP port;
\* IPv6 looks for DNS over UDP only.
extractor(l3, l4, ports) ==
  IF "DNS" \in ports /\ (l4 = "UDP" \/ l3 = "IPv4") THEN "dns"
  ELSE IF l4 = "UDP" THEN "done"
  ELSE IF "HTTPS" \in ports THEN "tls"
  ELSE IF "HTTP" \in ports \/ l3 = "IPv4" THEN "http"
  ELSE "done"

\* The payload is all that is captured after the header of n bytes.  IPv6 keeps
\* a UDP payload for DNS only.
Payload(l4, n, ports) ==
  LET left == len - (offset + n)
      step == extractor(info.l3_proto, l4, ports)
      kept == IF l4 = "UDP" /\ info.l3_proto = "IPv6" /\ step # "dns" THEN 0 ELSE left
  IN Parsed(n, IF left = 0 THEN "done" ELSE step,
            [info EXCEPT !.l4_proto = l4, !.l7_payload_length = kept])

\* Mutant: an IPv4 packet too short for its transport header is not flagged.
transport_flagged_never == FALSE

\* A transport header that does not fit is flagged in IPv4 only.
transport_flagged == info.l3_proto = "IPv4"

Tcp ==
  /\ At("TCP")
  /\ UNCHANGED address
  /\ \/ ~Has(20) /\ TooShort(transport_flagged) /\ UNCHANGED read_to
     \/ /\ Has(20)
        /\ Read(20)
        /\ \E words \in 0..15, ports \in PortSets :
             \/ words < 5 /\ Malformed(transport_flagged)
             \/ words >= 5 /\ ~header_fits(words) /\ TooShort(transport_flagged)
             \/ header_fits(words) /\ Payload("TCP", 4 * words, ports)

Udp ==
  /\ At("UDP")
  /\ UNCHANGED address
  /\ \/ ~Has(8) /\ TooShort(transport_flagged) /\ UNCHANGED read_to
     \/ Has(8) /\ Read(8) /\ \E ports \in PortSets : Payload("UDP", 8, ports)

-----------------------------------------------------------------------------

Step == Ethernet \/ Vlan \/ Ipv4 \/ Ipv6 \/ Tcp \/ Udp \/ (Extract /\ UNCHANGED address)

Next == Step \/ \E n \in Lengths : DissectPacket(n)

\* The walk is straight-line code: it goes on while it can.
Spec == Init /\ [][Next]_allVars /\ WF_allVars(Step)

-----------------------------------------------------------------------------
(* Properties *)

\* The fields hold what the code's enums and counters can hold, and a payload is
\* the rest of the frame and not empty when a protocol was found in it.
TypeOK ==
  /\ len \in Lengths \cup {0}
  /\ {offset, hs_end, ext_end, sni_end, read_to} \subseteq Nat
  /\ hops \in 0..MaxHops
  /\ info.valid \in BOOLEAN /\ info.truncated \in BOOLEAN
  /\ short \in BOOLEAN /\ ended \in BOOLEAN /\ turn \in BOOLEAN
  /\ info.l3_proto \in {"NONE", "IPv4", "IPv6", "ARP"}
  /\ info.l4_proto \in {"NONE", "TCP", "UDP", "ICMP", "OTHER"}
  /\ info.l7_payload_length \in 0..len
  /\ info.l7_proto # "NONE" => info.l7_payload_length > 0

\* Whatever the lengths in a frame say, no byte after the captured ones is read,
\* in any header, label, line, list or extension.
ReadsInBounds == TypeOK /\ read_to <= len

\* A server name that was taken lies in the list of names, the list in the
\* extensions, and the extensions in the ClientHello, which is in the frame.
SniInsideHello ==
  info.l7_proto = "TLS" =>
    read_to <= sni_end /\ sni_end <= ext_end /\ ext_end <= hs_end /\ hs_end <= len

\* A DNS name that is taken was read to its empty label, unless it has the
\* greatest number of labels; a name cut off by the end of the frame is not taken.
DnsNameIsWhole == info.l7_proto = "DNS" => ended \/ hops = MaxHops

\* A packet with a header that does not fit is flagged as truncated and has no
\* transport layer, except for the empty frame and for the transport header of an
\* IPv6 packet, which go unflagged; and a packet that is flagged is never one
\* that the flow tracker sees with ports.
ShortHeaderIsFlagged ==
  /\ At("done") /\ short => info.truncated \/ len = 0 \/ info.l3_proto = "IPv6"
  /\ short \/ info.truncated => info.l4_proto = "NONE"

\* The text that flows and detectors know an IPv6 source by is well-formed and
\* names its address, so two sources never share their state.
AddressKept ==
  info.src_ip # <<>> =>
    WellFormed(info.src_ip) /\ address # None /\ Names(info.src_ip, address)

\* Every frame is dissected to the end: no list of lengths keeps a loop going.
DissectEnds == ~At("done") ~> At("done")
=============================================================================
