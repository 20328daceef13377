----------------------- MODULE ProtocolDissectorProofs -----------------------
(***************************************************************************)
(* Proofs about ProtocolDissector for frames of any length, any values of  *)
(* the length fields in them and any greatest number of labels.            *)
(***************************************************************************)
EXTENDS ProtocolDissector, SequenceTheorems, TLAPS

HeaderSteps == {"ethernet", "vlan", "IPv4", "IPv6", "TCP", "UDP"}
DnsSteps == {"dns", "label", "qtype"}
HttpSteps == {"http", "header"}
HelloSteps == {"session_id", "ciphers", "compression", "extensions"}
TlsSteps == {"tls", "extension", "name"} \cup HelloSteps
PayloadSteps == DnsSteps \cup HttpSteps \cup TlsSteps

(***************************************************************************)
(* The inductive invariant.  The properties are about what was read and    *)
(* what was taken; why they hold is in where the walk stands: behind all   *)
(* that was read in the headers and in a ClientHello, within the ends of   *)
(* the lists it has entered, and with a payload when it is in one.         *)
(***************************************************************************)
PacketInfo(text) ==
  [valid : BOOLEAN, truncated : BOOLEAN,
   l3_proto : {"NONE", "IPv4", "IPv6", "ARP"}, src_ip : {text},
   l4_proto : {"NONE", "TCP", "UDP", "ICMP", "OTHER"},
   l7_payload_length : Nat,
   l7_proto : {"NONE", "DNS", "HTTP", "TLS"}]

StepsAndFields ==
  /\ pc \in {"done"} \cup HeaderSteps \cup PayloadSteps
  /\ info \in PacketInfo(info.src_ip)

\* Where the walk stands.  Only the scan for the end of an HTTP line may leave it
\* behind the frame, where the loop over the lines ends.
Position ==
  /\ read_to <= len
  /\ pc \notin {"done", "header"} => offset <= len
  /\ pc \in HeaderSteps \cup TlsSteps => read_to <= offset
  /\ pc \in HelloSteps \cup {"extension", "name"} => hs_end <= len
  /\ pc \in {"extension", "name"} => ext_end <= hs_end
  /\ pc = "extension" => offset <= ext_end
  /\ pc = "name" => offset <= sni_end /\ sni_end <= ext_end

\* What is known of the packet by then.
Known ==
  /\ pc \in HeaderSteps => info.l4_proto = "NONE" /\ info.l7_payload_length = 0
  /\ pc \in {"TCP", "UDP"} => info.l3_proto \in {"IPv4", "IPv6"}
  /\ pc \in PayloadSteps => info.l7_payload_length > 0
  /\ pc # "done" => ~short /\ ~info.truncated /\ info.l7_proto = "NONE"

\* The loop over the labels of a DNS name was left for a reason.
LabelsRead == pc = "qtype" => ended \/ hops = MaxHops \/ offset >= len

IInv ==
  /\ TypeOK
  /\ StepsAndFields
  /\ Position
  /\ Known
  /\ LabelsRead
  /\ SniInsideHello
  /\ DnsNameIsWhole
  /\ ShortHeaderIsFlagged

-----------------------------------------------------------------------------
(* What a step may change *)

\* A step in a payload keeps the frame's length and what is known of its headers,
\* and ends when it names the protocol.
LEMMA ExtractFrame ==
  ASSUME Extract
  PROVE  /\ pc \in PayloadSteps
         /\ pc' \in {"done"} \cup PayloadSteps
         /\ UNCHANGED <<len, short>>
         /\ turn' = ~turn
         /\ \/ UNCHANGED info
            \/ /\ pc' = "done"
               /\ \E proto \in {"DNS", "HTTP", "TLS"} :
                    info' = [info EXCEPT !.l7_proto = proto]
<1> USE DEF At, Goto, Return, Identify, Advance, cursor,
            PayloadSteps, DnsSteps, HttpSteps, TlsSteps, HelloSteps
<1>1. CASE DnsHeader \/ DnsLabel \/ DnsLabelsOut \/ DnsType
    BY <1>1 DEF DnsHeader, DnsLabel, DnsLabelsOut, DnsType
<1>2. CASE HttpRequest \/ HttpHeader
    BY <1>2 DEF HttpRequest, HttpHeader, NextLine
<1>3. CASE TlsHello \/ TlsSessionId \/ TlsCipherSuites \/ TlsCompression
    BY <1>3 DEF TlsHello, TlsSessionId, TlsCipherSuites, TlsCompression, TlsList
<1>4. CASE TlsExtensions \/ TlsExtension \/ TlsServerNames \/ TlsName
    BY <1>4 DEF TlsExtensions, TlsExtension, TlsServerNames, TlsName
<1> QED
    BY <1>1, <1>2, <1>3, <1>4 DEF Extract

HeaderStep == Ethernet \/ Vlan \/ Ipv4 \/ Ipv6 \/ Tcp \/ Udp

\* A step in a header enters no list of a payload.
LEMMA HeaderFrame ==
  ASSUME HeaderStep
  PROVE  /\ pc \in HeaderSteps
         /\ pc' \in {"done", "dns", "http", "tls"} \cup HeaderSteps
         /\ UNCHANGED cursor
         /\ turn' = ~turn
<1> USE DEF At, Goto, Return, TooShort, Malformed, Parsed, HeaderSteps
<1>1. CASE Ethernet \/ Vlan
    BY <1>1 DEF Ethernet, Vlan, Layer3
<1>2. CASE Ipv4 \/ Ipv6
    BY <1>2 DEF Ipv4, Ipv6, Layer4
<1>3. CASE Tcp \/ Udp
    BY <1>3 DEF Tcp, Udp, Payload, extractor
<1> QED
    BY <1>1, <1>2, <1>3 DEF HeaderStep

-----------------------------------------------------------------------------
(* The inductive invariant *)

\* Before the first frame the invariant holds.
LEMMA InitIInv == Init => IInv
<1> SUFFICES ASSUME Init PROVE IInv
    OBVIOUS
<1>1. TypeOK
    <2>1. /\ len \in Lengths \cup {0} /\ hops \in 0..MaxHops
          /\ {offset, hs_end, ext_end, sni_end, read_to} \subseteq Nat
        BY DissectorAssumption DEF Init
    <2>2. /\ short \in BOOLEAN /\ ended \in BOOLEAN /\ turn \in BOOLEAN
          /\ info.valid \in BOOLEAN /\ info.truncated \in BOOLEAN
        BY DEF Init, NoInfo
    <2> QED
        BY <2>1, <2>2 DEF Init, NoInfo, TypeOK
<1>2. StepsAndFields
    BY DEF Init, NoInfo, StepsAndFields, PacketInfo
<1>3. Position /\ LabelsRead
    BY DEF Init, Position, LabelsRead, HeaderSteps, TlsSteps, HelloSteps
<1>4. Known
    BY DEF Init, Known, NoInfo, HeaderSteps, PayloadSteps, DnsSteps, HttpSteps, TlsSteps,
           HelloSteps
<1>5. SniInsideHello /\ DnsNameIsWhole
    BY DEF Init, SniInsideHello, DnsNameIsWhole, NoInfo
<1>6. ShortHeaderIsFlagged
    BY DEF Init, ShortHeaderIsFlagged, At, NoInfo
<1> QED
    BY <1>1, <1>2, <1>3, <1>4, <1>5, <1>6 DEF IInv

\* The next frame starts from a fresh PacketInfo.
LEMMA DissectPacketIInv ==
  ASSUME IInv, NEW n \in Lengths, DissectPacket(n)
  PROVE  IInv'
<1>1. TypeOK'
    <2>1. /\ len' \in Lengths \cup {0} /\ hops' \in 0..MaxHops
          /\ {offset, hs_end, ext_end, sni_end, read_to}' \subseteq Nat
        BY DissectorAssumption DEF DissectPacket
    <2>2. /\ short' \in BOOLEAN /\ ended' \in BOOLEAN /\ turn' \in BOOLEAN
          /\ info'.valid \in BOOLEAN /\ info'.truncated \in BOOLEAN
        BY DEF DissectPacket, NoInfo
    <2>3. len' \in Nat /\ info' = NoInfo
        BY DissectorAssumption DEF DissectPacket
    <2> QED
        BY <2>1, <2>2, <2>3 DEF NoInfo, TypeOK
<1>2. StepsAndFields'
    BY DEF DissectPacket, NoInfo, StepsAndFields, PacketInfo, HeaderSteps
<1>3. Position' /\ LabelsRead'
    BY DissectorAssumption
    DEF DissectPacket, Position, LabelsRead, HeaderSteps, TlsSteps, HelloSteps
<1>4. Known'
    BY DEF DissectPacket, Known, NoInfo, HeaderSteps, PayloadSteps, DnsSteps, HttpSteps, TlsSteps,
           HelloSteps
<1>5. SniInsideHello' /\ DnsNameIsWhole'
    BY DEF DissectPacket, SniInsideHello, DnsNameIsWhole, NoInfo
<1>6. ShortHeaderIsFlagged'
    BY DEF DissectPacket, ShortHeaderIsFlagged, At, NoInfo
<1> QED
    BY <1>1, <1>2, <1>3, <1>4, <1>5, <1>6 DEF IInv

-----------------------------------------------------------------------------
(* Headers *)

\* A header is read only when it fits, and the walk goes on behind it.
LEMMA HeaderPosition ==
  ASSUME IInv, HeaderStep
  PROVE  /\ offset' \in Nat /\ read_to' \in Nat
         /\ read_to' <= len
         /\ pc' # "done" => offset' <= len /\ read_to' <= offset'
<1>1. /\ offset \in Nat /\ read_to \in Nat /\ len \in Nat
      /\ offset <= len /\ read_to <= offset
    BY HeaderFrame, DissectorAssumption DEF IInv, TypeOK, Position, HeaderSteps
<1> DEFINE InFrame == /\ offset' \in Nat /\ read_to' \in Nat
                      /\ read_to' <= len
                      /\ pc' # "done" => offset' <= len /\ read_to' <= offset'
<1> USE <1>1 DEF Goto, Return, TooShort, Malformed, Parsed, Has, Read, ReadUpTo
<1>4. CASE Ethernet
    BY <1>4 DEF Ethernet, Layer3
<1>5. CASE Vlan
    BY <1>5 DEF Vlan, Layer3
<1>6. CASE Ipv4
    <2>1. ASSUME Has(20), NEW words \in 0..15, NEW proto, header_fits(words), Read(20),
                 NEW new, Layer4(4 * words, proto, new)
          PROVE  InFrame
        BY <2>1 DEF Layer4, header_fits
    <2>2. ASSUME Has(20), Read(20), Return \/ Malformed(TRUE) \/ TooShort(TRUE)
          PROVE  InFrame
        BY <2>2
    <2>3. ASSUME TooShort(TRUE), UNCHANGED read_to
          PROVE  InFrame
        BY <2>3
    <2> QED
        BY <1>6, <2>1, <2>2, <2>3 DEF Ipv4
<1>7. CASE Ipv6
    <2>1. ASSUME Has(40), NEW proto, NEW new, Read(40), Layer4(40, proto, new)
          PROVE  InFrame
        BY <2>1 DEF Layer4
    <2>2. ASSUME Has(40), Read(40), Return
          PROVE  InFrame
        BY <2>2
    <2>3. ASSUME TooShort(TRUE), UNCHANGED read_to
          PROVE  InFrame
        BY <2>3
    <2> QED
        BY <1>7, <2>1, <2>2, <2>3 DEF Ipv6
<1>8. CASE Tcp
    BY <1>8 DEF Tcp, Payload, header_fits
<1>9. CASE Udp
    <2>1. ASSUME NEW ports, Has(8), Read(8), Payload("UDP", 8, ports)
          PROVE  InFrame
        BY <2>1 DEF Payload
    <2>2. ASSUME TooShort(transport_flagged), UNCHANGED read_to
          PROVE  InFrame
        BY <2>2
    <2> QED
        BY <1>9, <2>1, <2>2 DEF Udp
<1> QED
    BY <1>4, <1>5, <1>6, <1>7, <1>8, <1>9 DEF HeaderStep

\* What the headers say: a packet that goes on is not flagged, one that stops
\* because a header does not fit is, and a payload is the rest of the frame.
LEMMA HeaderKnown ==
  ASSUME IInv, HeaderStep
  PROVE  /\ info' \in PacketInfo(info'.src_ip)
         /\ short' \in BOOLEAN
         /\ info'.l7_payload_length <= len
         /\ info'.l7_proto = "NONE"
         /\ Known'
         /\ ShortHeaderIsFlagged'
<1> DEFINE Described == /\ info' \in PacketInfo(info'.src_ip)
                        /\ short' \in BOOLEAN
                        /\ info'.l7_payload_length <= len
                        /\ info'.l7_proto = "NONE"
                        /\ Known'
                        /\ ShortHeaderIsFlagged'
<1> SUFFICES Described
    OBVIOUS
<1>1. /\ info \in PacketInfo(info.src_ip) /\ short = FALSE /\ info.truncated = FALSE
      /\ info.l7_proto = "NONE" /\ info.l4_proto = "NONE" /\ info.l7_payload_length = 0
      /\ pc \in {"TCP", "UDP"} => info.l3_proto \in {"IPv4", "IPv6"}
      /\ offset \in Nat /\ len \in Nat
    BY HeaderFrame, DissectorAssumption
    DEF IInv, TypeOK, StepsAndFields, Known, HeaderSteps, PacketInfo
<1>2. len' = len
    BY HeaderFrame DEF cursor
<1> USE <1>1, <1>2
      DEF PacketInfo, Known, ShortHeaderIsFlagged, At, Goto,
          HeaderSteps, PayloadSteps, DnsSteps, HttpSteps, TlsSteps, HelloSteps
<1>3. ASSUME TooShort(TRUE)
      PROVE  Described
    <2> USE <1>3 DEF TooShort
    <2>1. info' \in PacketInfo(info'.src_ip) /\ short' \in BOOLEAN
        OBVIOUS
    <2>2. info'.l7_payload_length <= len /\ info'.l7_proto = "NONE" /\ Known'
        OBVIOUS
    <2>3. ShortHeaderIsFlagged'
        OBVIOUS
    <2> QED
        BY <2>1, <2>2, <2>3
<1>4. ASSUME TooShort(transport_flagged), pc \in {"TCP", "UDP"}
      PROVE  Described
    <2> USE <1>4 DEF TooShort, transport_flagged
    <2>1. info' \in PacketInfo(info'.src_ip) /\ short' \in BOOLEAN
        OBVIOUS
    <2>2. info'.l7_payload_length <= len /\ info'.l7_proto = "NONE" /\ Known'
        OBVIOUS
    <2>3. ShortHeaderIsFlagged'
        OBVIOUS
    <2> QED
        BY <2>1, <2>2, <2>3
<1>5. ASSUME Malformed(TRUE) \/ Malformed(transport_flagged)
      PROVE  Described
    <2> USE <1>5 DEF Malformed, transport_flagged
    <2>1. info' \in PacketInfo(info'.src_ip) /\ short' \in BOOLEAN
        OBVIOUS
    <2>2. info'.l7_payload_length <= len /\ info'.l7_proto = "NONE" /\ Known'
        OBVIOUS
    <2>3. ShortHeaderIsFlagged'
        OBVIOUS
    <2> QED
        BY <2>1, <2>2, <2>3
<1>6. ASSUME Return
      PROVE  Described
    <2> USE <1>6 DEF Return
    <2>1. info' \in PacketInfo(info'.src_ip) /\ short' \in BOOLEAN
        OBVIOUS
    <2>2. info'.l7_payload_length <= len /\ info'.l7_proto = "NONE" /\ Known'
        OBVIOUS
    <2>3. ShortHeaderIsFlagged'
        OBVIOUS
    <2> QED
        BY <2>1, <2>2, <2>3
<1>7. ASSUME NEW n, NEW step \in {"IPv4", "IPv6", "vlan", "done"}, Parsed(n, step, info)
      PROVE  Described
    <2> USE <1>7 DEF Parsed
    <2>1. info' \in PacketInfo(info'.src_ip) /\ short' \in BOOLEAN
        OBVIOUS
    <2>2. info'.l7_payload_length <= len /\ info'.l7_proto = "NONE" /\ Known'
        OBVIOUS
    <2>3. ShortHeaderIsFlagged'
        OBVIOUS
    <2> QED
        BY <2>1, <2>2, <2>3
<1>8. ASSUME NEW n, NEW text, NEW new \in PacketInfo(text),
             NEW step \in {"TCP", "UDP", "done"}, Parsed(n, step, new),
             step # "done" => new.l3_proto \in {"IPv4", "IPv6"} /\ new.l4_proto = "NONE",
             new.truncated = FALSE, new.l7_payload_length = 0, new.l7_proto = "NONE"
      PROVE  Described
    <2> USE <1>8 DEF Parsed
    <2>1. info' \in PacketInfo(info'.src_ip) /\ short' \in BOOLEAN
        OBVIOUS
    <2>2. info'.l7_payload_length <= len /\ info'.l7_proto = "NONE" /\ Known'
        OBVIOUS
    <2>3. ShortHeaderIsFlagged'
        OBVIOUS
    <2> QED
        BY <2>1, <2>2, <2>3
<1>9. ASSUME NEW l4 \in {"TCP", "UDP"}, NEW n \in Nat, NEW ports, Has(n), Payload(l4, n, ports)
      PROVE  Described
    <2> USE <1>9 DEF Payload, extractor, Has, Parsed
    <2>1. info' \in PacketInfo(info'.src_ip) /\ short' \in BOOLEAN
        <3> DEFINE left == len - (offset + n)
        <3>1. PICK kept \in {0, left} :
                info' = [info EXCEPT !.l4_proto = l4, !.l7_payload_length = kept]
            OBVIOUS
        <3>2. kept \in Nat
            OBVIOUS
        <3> QED
            BY <3>1, <3>2
    <2>2. info'.l7_payload_length <= len /\ info'.l7_proto = "NONE" /\ Known'
        OBVIOUS
    <2>3. ShortHeaderIsFlagged'
        OBVIOUS
    <2> QED
        BY <2>1, <2>2, <2>3
<1> HIDE DEF Described, PacketInfo, Known, ShortHeaderIsFlagged
<1>10. ASSUME NEW n, NEW type, Layer3(n, type) PROVE Described
    <2>1. CASE type \in {"IPv4", "IPv6"}
        BY <1>7, <1>10, <2>1 DEF Layer3
    <2>2. CASE type = "ARP"
        <3> DEFINE new == [info EXCEPT !.l3_proto = "ARP", !.valid = TRUE]
        <3>1. /\ new \in PacketInfo(info.src_ip) /\ new.truncated = FALSE
              /\ new.l7_payload_length = 0 /\ new.l7_proto = "NONE"
            BY DEF PacketInfo
        <3>2. Parsed(n, "done", new)
            BY <1>10, <2>2 DEF Layer3
        <3> HIDE DEF new
        <3> QED
            BY <1>8, <3>1, <3>2
    <2>3. CASE type \notin {"IPv4", "IPv6", "ARP"}
        BY <1>7, <1>10, <2>3 DEF Layer3
    <2> QED
        BY <2>1, <2>2, <2>3
<1>11. ASSUME NEW n, NEW proto \in Protocols, NEW text, NEW new \in PacketInfo(text),
              Layer4(n, proto, new),
              new.l3_proto \in {"IPv4", "IPv6"}, new.truncated = FALSE,
              new.l4_proto = "NONE", new.l7_payload_length = 0, new.l7_proto = "NONE"
       PROVE  Described
    <2>1. CASE proto \in {"TCP", "UDP"}
        BY <1>8, <1>11, <2>1 DEF Layer4
    <2>2. CASE proto \in {"ICMP", "OTHER"}
        <3>1. PICK known \in {"NONE", "ICMP", "OTHER"} :
                Parsed(n, "done", [new EXCEPT !.l4_proto = known])
            BY <1>11, <2>2 DEF Layer4
        <3> DEFINE final == [new EXCEPT !.l4_proto = known]
        <3>2. /\ final \in PacketInfo(text) /\ final.truncated = FALSE
              /\ final.l7_payload_length = 0 /\ final.l7_proto = "NONE"
            BY <1>11 DEF PacketInfo
        <3>3. Parsed(n, "done", final)
            BY <3>1
        <3> HIDE DEF final
        <3> QED
            BY <1>8, <3>2, <3>3
    <2> QED
        BY <1>11, <2>1, <2>2 DEF Protocols
<1>12. CASE Ethernet
    BY <1>3, <1>7, <1>10, <1>12 DEF Ethernet
<1>13. CASE Vlan
    BY <1>3, <1>10, <1>13 DEF Vlan
<1>14. CASE Ipv4
    <2> DEFINE new == [info EXCEPT !.l3_proto = "IPv4", !.valid = TRUE]
    <2>1. /\ new \in PacketInfo(info.src_ip) /\ new.l3_proto = "IPv4"
          /\ new.truncated = FALSE /\ new.l4_proto = "NONE"
          /\ new.l7_payload_length = 0 /\ new.l7_proto = "NONE"
        BY DEF PacketInfo
    <2>2. \/ TooShort(TRUE) \/ Return \/ Malformed(TRUE)
          \/ \E n, proto : proto \in Protocols /\ Layer4(n, proto, new)
        BY <1>14, Zenon DEF Ipv4
    <2> HIDE DEF new
    <2> QED
        BY <1>3, <1>5, <1>6, <1>11, <2>1, <2>2
<1>15. CASE Ipv6
    <2> DEFINE new(text) == [info EXCEPT !.l3_proto = "IPv6", !.valid = TRUE,
                                         !.src_ip = text]
    <2>1. ASSUME NEW text
          PROVE  /\ new(text) \in PacketInfo(text) /\ new(text).l3_proto = "IPv6"
                 /\ new(text).truncated = FALSE /\ new(text).l4_proto = "NONE"
                 /\ new(text).l7_payload_length = 0 /\ new(text).l7_proto = "NONE"
        BY DEF PacketInfo
    <2>2. \/ TooShort(TRUE) \/ Return
          \/ \E proto \in Protocols : \E text : Layer4(40, proto, new(text))
        BY <1>15 DEF Ipv6
    <2> HIDE DEF new
    <2> QED
        BY <1>3, <1>6, <1>11, <2>1, <2>2
<1>16. CASE Tcp
    <2>1. ASSUME NEW words \in 0..15, NEW ports, header_fits(words),
                 Payload("TCP", 4 * words, ports)
          PROVE  Described
        BY <1>9, <2>1 DEF header_fits
    <2> QED
        BY <1>4, <1>5, <1>16, <2>1 DEF Tcp
<1>17. CASE Udp
    BY <1>4, <1>9, <1>17 DEF Udp
<1> QED
    BY <1>12, <1>13, <1>14, <1>15, <1>16, <1>17 DEF HeaderStep

\* A step in a header keeps the invariant.
LEMMA HeaderIInv ==
  ASSUME IInv, HeaderStep
  PROVE  IInv'
<1>1. UNCHANGED <<len, hs_end, ext_end, sni_end, hops, ended>>
    BY HeaderFrame DEF cursor
<1>2. StepsAndFields'
    BY HeaderFrame, HeaderKnown
    DEF StepsAndFields, PayloadSteps, DnsSteps, HttpSteps, TlsSteps, HelloSteps
<1>3. TypeOK'
    <2>1. {offset, hs_end, ext_end, sni_end, read_to}' \subseteq Nat
        BY <1>1, HeaderPosition DEF IInv, TypeOK
    <2>2. len' \in Lengths \cup {0} /\ len' \in Nat /\ hops' \in 0..MaxHops
        BY <1>1, DissectorAssumption DEF IInv, TypeOK
    <2>3. short' \in BOOLEAN /\ ended' \in BOOLEAN /\ turn' \in BOOLEAN
        BY <1>1, HeaderKnown, HeaderFrame DEF IInv, TypeOK
    <2>4. /\ info'.valid \in BOOLEAN /\ info'.truncated \in BOOLEAN
          /\ info'.l3_proto \in {"NONE", "IPv4", "IPv6", "ARP"}
          /\ info'.l4_proto \in {"NONE", "TCP", "UDP", "ICMP", "OTHER"}
          /\ info'.l7_payload_length \in Nat
        BY HeaderKnown DEF PacketInfo
    <2>5. info'.l7_payload_length \in 0..len' /\ info'.l7_proto = "NONE"
        BY <1>1, <2>2, <2>4, HeaderKnown
    <2> QED
        BY <2>1, <2>2, <2>3, <2>4, <2>5 DEF TypeOK
<1>4. Position' /\ LabelsRead'
    BY <1>1, HeaderFrame, HeaderPosition
    DEF Position, LabelsRead, HeaderSteps, TlsSteps, HelloSteps
<1>5. SniInsideHello' /\ DnsNameIsWhole'
    BY HeaderKnown DEF SniInsideHello, DnsNameIsWhole
<1> QED
    BY <1>2, <1>3, <1>4, <1>5, HeaderKnown DEF IInv

-----------------------------------------------------------------------------
(* Payloads *)

\* Whatever the lengths say, the walk through a payload stays in the lists it has
\* entered, and these in the frame.
LEMMA ExtractPosition ==
  ASSUME IInv, Extract
  PROVE  /\ {offset, hs_end, ext_end, sni_end, read_to}' \subseteq Nat
         /\ hops' \in 0..MaxHops
         /\ Position'
<1> DEFINE Inside == /\ {offset, hs_end, ext_end, sni_end, read_to}' \subseteq Nat
                     /\ hops' \in 0..MaxHops
                     /\ Position'
<1> SUFFICES Inside
    OBVIOUS
<1>1. /\ offset \in Nat /\ hs_end \in Nat /\ ext_end \in Nat /\ sni_end \in Nat
      /\ read_to \in Nat /\ len \in Nat /\ hops \in 0..MaxHops /\ MaxHops \in Nat
      /\ Position
    BY DissectorAssumption DEF IInv, TypeOK
<1> USE <1>1, DissectorAssumption
      DEF At, Goto, Return, Identify, Advance, cursor, Has, Read, ReadUpTo,
          Position, HeaderSteps, TlsSteps, HelloSteps
<1>2. CASE DnsHeader
    BY <1>2 DEF DnsHeader
<1>3. CASE DnsLabel
    BY <1>3 DEF DnsLabel, labels_left, label_fits
<1>4. CASE DnsLabelsOut
    BY <1>4 DEF DnsLabelsOut
<1>5. CASE DnsType
    BY <1>5 DEF DnsType, name_taken
<1>6. CASE HttpRequest
    BY <1>6 DEF HttpRequest, NextLine, LineEnds, MethodLens
<1>7. CASE HttpHeader
    BY <1>7 DEF HttpHeader, NextLine, LineEnds
<1>8. CASE TlsHello
    BY <1>8 DEF TlsHello
<1>9. CASE TlsSessionId
    BY <1>9 DEF TlsSessionId, TlsList
<1>10. CASE TlsCipherSuites
    BY <1>10 DEF TlsCipherSuites, TlsList
<1>11. CASE TlsCompression
    BY <1>11 DEF TlsCompression, TlsList
<1>12. CASE TlsExtensions
    BY <1>12 DEF TlsExtensions, extensions_fit
<1>13. CASE TlsExtension
    BY <1>13 DEF TlsExtension, next_extension
<1>14. CASE TlsServerNames
    BY <1>14 DEF TlsServerNames
<1>15. CASE TlsName
    BY <1>15 DEF TlsName, name_fits
<1> QED
    BY <1>2, <1>3, <1>4, <1>5, <1>6, <1>7, <1>8, <1>9, <1>10, <1>11, <1>12, <1>13, <1>14,
       <1>15 DEF Extract

\* A protocol is named where its property holds: a server name inside the lists, a
\* DNS name when its labels are read.
LEMMA ExtractTaken ==
  ASSUME IInv, Extract
  PROVE  /\ ended' \in BOOLEAN
         /\ LabelsRead'
         /\ DnsNameIsWhole'
         /\ SniInsideHello'
<1> DEFINE Taken == /\ ended' \in BOOLEAN
                    /\ LabelsRead'
                    /\ DnsNameIsWhole'
                    /\ SniInsideHello'
<1> SUFFICES Taken
    OBVIOUS
<1>1. /\ offset \in Nat /\ hs_end \in Nat /\ ext_end \in Nat /\ sni_end \in Nat
      /\ read_to \in Nat /\ len \in Nat /\ hops \in Nat /\ MaxHops \in Nat
      /\ ended \in BOOLEAN /\ hops <= MaxHops
      /\ Position /\ LabelsRead
      /\ info \in PacketInfo(info.src_ip) /\ info.l7_proto = "NONE"
    BY ExtractFrame, DissectorAssumption
    DEF IInv, TypeOK, StepsAndFields, Known, PayloadSteps, DnsSteps, HttpSteps, TlsSteps,
        HelloSteps
\* nothing is named
<1>2. ASSUME pc' # "qtype", ended' \in BOOLEAN, info' = info
      PROVE  Taken
    BY <1>1, <1>2 DEF LabelsRead, DnsNameIsWhole, SniInsideHello
<1>3. ASSUME Return
      PROVE  Taken
    BY <1>1, <1>2, <1>3 DEF Return, Goto, cursor
<1>4. ASSUME Identify("HTTP")
      PROVE  Taken
    <2>1. pc' = "done" /\ ended' = ended /\ info'.l7_proto = "HTTP"
        BY <1>1, <1>4 DEF Identify, Goto, cursor, PacketInfo
    <2> QED
        BY <1>1, <2>1 DEF LabelsRead, DnsNameIsWhole, SniInsideHello
<1>5. CASE DnsHeader
    BY <1>2, <1>3, <1>5 DEF DnsHeader, Advance, Goto
<1>6. CASE DnsLabel
    <2>1. ASSUME Advance(1, "qtype"), ended' = TRUE
          PROVE  Taken
        BY <1>1, <2>1 DEF Advance, Goto, LabelsRead, DnsNameIsWhole, SniInsideHello
    <2>2. ASSUME NEW n, Advance(n, "label"), ended' = ended
          PROVE  Taken
        BY <1>1, <1>2, <2>2 DEF Advance, Goto
    <2> QED
        BY <1>3, <1>6, <2>1, <2>2 DEF DnsLabel
<1>7. CASE DnsLabelsOut
    <2>1. /\ pc' = "qtype" /\ offset' = offset /\ info' = info
          /\ UNCHANGED <<len, hops, ended>>
          /\ offset + 1 > len \/ hops >= MaxHops
        BY <1>1, <1>7 DEF DnsLabelsOut, Advance, Goto, cursor, labels_left, Has
    <2> QED
        BY <1>1, <2>1 DEF LabelsRead, DnsNameIsWhole, SniInsideHello
<1>8. CASE DnsType
    <2>1. ASSUME name_taken, Identify("DNS")
          PROVE  Taken
        <3>1. /\ pc = "qtype" /\ pc' = "done" /\ UNCHANGED <<ended, hops>>
              /\ info'.l7_proto = "DNS" /\ offset + 2 <= len
            BY <1>1, <1>8, <2>1
            DEF DnsType, At, Identify, Goto, cursor, PacketInfo, name_taken, Has
        <3>2. ended \/ hops = MaxHops
            BY <1>1, <3>1 DEF LabelsRead
        <3> QED
            BY <1>1, <3>1, <3>2 DEF LabelsRead, DnsNameIsWhole, SniInsideHello
    <2> QED
        BY <1>3, <1>8, <2>1 DEF DnsType
<1>9. CASE HttpRequest \/ HttpHeader
    <2>1. ASSUME NEW n, NEW p, NextLine(n, p)
          PROVE  Taken
        BY <1>1, <1>2, <2>1 DEF NextLine, Goto, cursor
    <2> QED
        BY <1>3, <1>4, <1>9, <2>1 DEF HttpRequest, HttpHeader
<1>10. ASSUME NEW n, NEW step, Advance(n, step), step # "qtype", ended' = ended
       PROVE  Taken
    BY <1>1, <1>2, <1>10 DEF Advance, Goto
<1>11. CASE TlsHello \/ TlsSessionId \/ TlsCipherSuites \/ TlsCompression
    BY <1>3, <1>10, <1>11
    DEF TlsHello, TlsSessionId, TlsCipherSuites, TlsCompression, TlsList, cursor
<1>12. CASE TlsExtensions \/ TlsExtension \/ TlsServerNames
    BY <1>3, <1>10, <1>12 DEF TlsExtensions, TlsExtension, TlsServerNames, cursor
<1>13. CASE TlsName
    <2>1. ASSUME NEW n \in Words, name_fits(n), Read(3 + n), Identify("TLS")
          PROVE  Taken
        <3>1. /\ pc = "name" /\ pc' = "done"
              /\ UNCHANGED <<len, hs_end, ext_end, sni_end, ended>>
              /\ info'.l7_proto = "TLS"
            BY <1>1, <1>13, <2>1 DEF TlsName, At, Identify, Goto, cursor, PacketInfo
        <3>2. /\ read_to' <= sni_end /\ sni_end <= ext_end /\ ext_end <= hs_end
              /\ hs_end <= len
            BY <1>1, <2>1, <3>1, DissectorAssumption
            DEF Position, Read, ReadUpTo, name_fits, TlsSteps, HelloSteps
        <3> QED
            BY <1>1, <3>1, <3>2 DEF LabelsRead, DnsNameIsWhole, SniInsideHello
    <2> QED
        BY <1>3, <1>10, <1>13, <2>1 DEF TlsName, cursor
<1> QED
    BY <1>5, <1>6, <1>7, <1>8, <1>9, <1>11, <1>12, <1>13 DEF Extract

\* A step in a payload keeps the invariant.
LEMMA ExtractIInv ==
  ASSUME IInv, Extract
  PROVE  IInv'
<1>1. /\ len \in Nat /\ info \in PacketInfo(info.src_ip) /\ short = FALSE
      /\ info.truncated = FALSE /\ info.l7_proto = "NONE"
      /\ info.l7_payload_length > 0 /\ info.l7_payload_length <= len
    BY ExtractFrame, DissectorAssumption
    DEF IInv, TypeOK, StepsAndFields, Known, PayloadSteps, DnsSteps, HttpSteps, TlsSteps,
        HelloSteps, PacketInfo
<1>2. PICK proto \in {"NONE", "DNS", "HTTP", "TLS"} :
        /\ info' = [info EXCEPT !.l7_proto = proto]
        /\ proto # "NONE" => pc' = "done"
    BY <1>1, ExtractFrame DEF PacketInfo
<1>3. /\ info' \in PacketInfo(info'.src_ip)
      /\ info'.valid = info.valid /\ info'.truncated = FALSE
      /\ info'.l3_proto = info.l3_proto /\ info'.l4_proto = info.l4_proto
      /\ info'.l7_payload_length = info.l7_payload_length /\ info'.l7_proto = proto
    BY <1>1, <1>2 DEF PacketInfo
<1>4. StepsAndFields'
    BY <1>3, ExtractFrame DEF StepsAndFields
<1>5. TypeOK'
    <2>1. short' \in BOOLEAN /\ turn' \in BOOLEAN /\ len' = len
        BY <1>1, ExtractFrame
    <2>2. /\ info'.valid \in BOOLEAN /\ info'.truncated \in BOOLEAN
          /\ info'.l3_proto \in {"NONE", "IPv4", "IPv6", "ARP"}
          /\ info'.l4_proto \in {"NONE", "TCP", "UDP", "ICMP", "OTHER"}
          /\ info'.l7_payload_length \in Nat
        BY <1>3 DEF PacketInfo
    <2>3. info'.l7_payload_length \in 0..len' /\ info'.l7_payload_length > 0
        BY <1>1, <1>3, <2>1, <2>2
    <2> QED
        BY <2>1, <2>2, <2>3, ExtractPosition, ExtractTaken DEF IInv, TypeOK
<1>6. Known'
    BY <1>1, <1>2, <1>3, ExtractFrame
    DEF Known, HeaderSteps, PayloadSteps, DnsSteps, HttpSteps, TlsSteps, HelloSteps
<1>7. ShortHeaderIsFlagged'
    BY <1>1, <1>3, ExtractFrame DEF ShortHeaderIsFlagged
<1> QED
    BY <1>4, <1>5, <1>6, <1>7, ExtractPosition, ExtractTaken DEF IInv

-----------------------------------------------------------------------------
(* Theorems *)

\* The invariant holds in every state of the dissector.
LEMMA Invariance == Spec => []IInv
<1>1. IInv /\ [Next]_allVars => IInv'
    <2> SUFFICES ASSUME IInv, [Next]_allVars PROVE IInv'
        OBVIOUS
    <2>1. CASE UNCHANGED allVars
        BY <2>1
        DEF allVars, vars, cursor, IInv, TypeOK, StepsAndFields, Position, Known, LabelsRead,
            SniInsideHello, DnsNameIsWhole, ShortHeaderIsFlagged, At
    <2> QED
        BY <2>1, DissectPacketIInv, HeaderIInv, ExtractIInv DEF Next, Step, HeaderStep
<1> QED
    BY <1>1, InitIInv, PTL DEF Spec

\* For frames of any length and whatever the lengths in them say, dissect_packet()
\* reads no byte behind the captured ones.
THEOREM NoReadBehindFrame == Spec => []ReadsInBounds
<1>1. IInv => ReadsInBounds
    BY DEF IInv, ReadsInBounds, Position
<1> QED
    BY <1>1, Invariance, PTL

\* extract_tls() takes a server name only from inside the list of names, the list
\* from inside the extensions and these from inside the ClientHello.
THEOREM ServerNameInsideHello == Spec => []SniInsideHello
<1>1. IInv => SniInsideHello
    BY DEF IInv
<1> QED
    BY <1>1, Invariance, PTL

\* extract_dns() takes no name that the end of the frame cut off.
THEOREM DnsNameNotCutOff == Spec => []DnsNameIsWhole
<1>1. IInv => DnsNameIsWhole
    BY DEF IInv
<1> QED
    BY <1>1, Invariance, PTL

\* A packet that stops at a header that does not fit is flagged, but for the empty
\* frame and IPv6's transport header, and a flagged packet has no transport layer.
THEOREM TruncationFlagged == Spec => []ShortHeaderIsFlagged
<1>1. IInv => ShortHeaderIsFlagged
    BY DEF IInv
<1> QED
    BY <1>1, Invariance, PTL

-----------------------------------------------------------------------------
(* format_ipv6() writes a text that names one address, and the right one.  The *)
(* loop over the groups is a function of eight turns, taken one by one.        *)

ZeroRuns ==
  [best_start : -1..7, best_len : 0..8, cur_start : -1..7, cur_len : 0..8]

Zeros(g, start, n) == \A k \in start..(start + n - 1) : g[k] = 0

\* After i groups the best and the current run lie before i and hold zeros only, and
\* the current one ends at i.
RunsOK(g, r, i) ==
  /\ r \in ZeroRuns
  /\ r.best_len > 0 => r.best_start >= 0 /\ r.best_start + r.best_len <= i
                       /\ Zeros(g, r.best_start, r.best_len)
  /\ r.cur_start = -1 => r.cur_len = 0
  /\ r.cur_start # -1 => r.cur_start + r.cur_len = i /\ Zeros(g, r.cur_start, r.cur_len)

\* A turn of the loop keeps the runs in order.
LEMMA NextRun ==
  ASSUME NEW g, NEW i \in 0..7, NEW r, RunsOK(g, r, i)
  PROVE  RunsOK(g, next_run(r, i, g[i]), i + 1)
<1> DEFINE start == IF r.cur_start = -1 THEN i ELSE r.cur_start
           n == r.cur_len + 1
           q == next_run(r, i, g[i])
<1>1. /\ r.best_start \in -1..7 /\ r.best_len \in 0..8
      /\ r.cur_start \in -1..7 /\ r.cur_len \in 0..8
    BY DEF RunsOK, ZeroRuns
<1>2. /\ r.best_len > 0 => r.best_start >= 0 /\ r.best_start + r.best_len <= i
                           /\ Zeros(g, r.best_start, r.best_len)
      /\ r.cur_start = -1 => r.cur_len = 0
      /\ r.cur_start # -1 => r.cur_start + r.cur_len = i /\ Zeros(g, r.cur_start, r.cur_len)
      /\ r \in ZeroRuns
    BY DEF RunsOK
<1>3. CASE g[i] # 0
    <2> DEFINE none == -1
               zero == 0
    <2>1. q = [r EXCEPT !.cur_start = none, !.cur_len = zero]
        BY <1>3 DEF next_run
    <2>2. none \in -1..7 /\ zero \in 0..8
        OBVIOUS
    <2> HIDE DEF q, none, zero
    <2>3. /\ q \in ZeroRuns /\ q.best_start = r.best_start /\ q.best_len = r.best_len
          /\ q.cur_start = none /\ q.cur_len = zero
        BY <1>2, <2>1, <2>2 DEF ZeroRuns
    <2>4. q.best_len > 0 => q.best_start >= 0 /\ q.best_start + q.best_len <= i + 1
                            /\ Zeros(g, q.best_start, q.best_len)
        BY <1>1, <1>2, <2>3
    <2>5. q.cur_start = -1 /\ q.cur_len = 0
        BY <2>3 DEF none, zero
    <2> QED
        BY <2>3, <2>4, <2>5 DEF RunsOK, q
<1>4. CASE g[i] = 0
    <2> DEFINE better == n > r.best_len
               bs == IF better THEN start ELSE r.best_start
               bl == IF better THEN n ELSE r.best_len
    <2>1. q = [best_start |-> bs, best_len |-> bl, cur_start |-> start, cur_len |-> n]
        BY <1>4 DEF next_run
    <2>2. start \in 0..7 /\ n \in 1..8 /\ start + n = i + 1
        BY <1>1, <1>2
    <2>3. Zeros(g, start, n)
        <3>1. CASE r.cur_start = -1
            <4>1. start..(start + n - 1) = {i}
                BY <1>2, <3>1
            <4> QED
                BY <1>4, <4>1 DEF Zeros
        <3>2. CASE r.cur_start # -1
            <4>1. \A k \in start..(start + n - 1) :
                    k = i \/ k \in r.cur_start..(r.cur_start + r.cur_len - 1)
                BY <1>1, <1>2, <3>2
            <4> QED
                BY <1>2, <1>4, <3>2, <4>1 DEF Zeros
        <3> QED
            BY <3>1, <3>2
    <2> HIDE DEF start, n
    <2>4. bs \in -1..7 /\ bl \in 0..8
        BY <1>1, <2>2
    <2>5. bl > 0 => bs >= 0 /\ bs + bl <= i + 1 /\ Zeros(g, bs, bl)
        <3>1. CASE better
            BY <2>2, <2>3, <3>1
        <3>2. CASE ~better
            BY <1>1, <1>2, <3>2
        <3> QED
            BY <3>1, <3>2
    <2> HIDE DEF bs, bl, q
    <2>6. q \in ZeroRuns
        BY <2>1, <2>2, <2>4 DEF ZeroRuns
    <2>7. q.best_start = bs /\ q.best_len = bl /\ q.cur_start = start /\ q.cur_len = n
        BY <2>1
    <2>8. start # -1
        BY <2>2
    <2> QED
        BY <2>2, <2>3, <2>5, <2>6, <2>7, <2>8 DEF RunsOK, q
<1> QED
    BY <1>3, <1>4

\* The recursive function that is the loop: each value is that of the turn before.
LEMMA ZeroRunsUnfolded ==
  ASSUME NEW g
  PROVE  \E s : s[0] = NoRun /\ zero_runs(g) = s[8]
                /\ \A i \in 1..8 : s[i] = next_run(s[i - 1], i - 1, g[i - 1])
<1> DEFINE Def(s) == [i \in 0..8 |-> IF i = 0 THEN NoRun ELSE next_run(s[i - 1], i - 1, g[i - 1])]
           r1 == next_run(NoRun, 0, g[0])
           r2 == next_run(r1, 1, g[1])
           r3 == next_run(r2, 2, g[2])
           r4 == next_run(r3, 3, g[3])
           r5 == next_run(r4, 4, g[4])
           r6 == next_run(r5, 5, g[5])
           r7 == next_run(r6, 6, g[6])
           r8 == next_run(r7, 7, g[7])
           w == [i \in 0..8 |-> IF i = 0 THEN NoRun ELSE IF i = 1 THEN r1 ELSE IF i = 2 THEN r2
                                ELSE IF i = 3 THEN r3 ELSE IF i = 4 THEN r4 ELSE IF i = 5 THEN r5
                                ELSE IF i = 6 THEN r6 ELSE IF i = 7 THEN r7 ELSE r8]
           s == CHOOSE s : s = Def(s)
<1>1. w = Def(w)
    <2>1. \A i \in 0..8 : w[i] = IF i = 0 THEN NoRun ELSE next_run(w[i - 1], i - 1, g[i - 1])
        OBVIOUS
    <2> QED
        BY <2>1
<1>2. s = Def(s)
    BY <1>1
<1>3. zero_runs(g) = s[8]
    BY DEF zero_runs
<1> HIDE DEF s
<1>4. s[0] = NoRun /\ \A i \in 1..8 : s[i] = next_run(s[i - 1], i - 1, g[i - 1])
    BY <1>2
<1> QED
    BY <1>3, <1>4

\* What the loop has found after the eight groups: its best run is a run of zeros.
LEMMA ZeroRunsOK ==
  ASSUME NEW g
  PROVE  RunsOK(g, zero_runs(g), 8)
<1>1. PICK s : s[0] = NoRun /\ zero_runs(g) = s[8]
               /\ \A i \in 1..8 : s[i] = next_run(s[i - 1], i - 1, g[i - 1])
    BY ZeroRunsUnfolded
<1>2. RunsOK(g, s[0], 0)
    BY <1>1 DEF RunsOK, NoRun, ZeroRuns
<1>3. ASSUME NEW i \in 0..7, RunsOK(g, s[i], i)
      PROVE  RunsOK(g, s[i + 1], i + 1)
    <2>1. i + 1 \in 1..8 /\ (i + 1) - 1 = i
        OBVIOUS
    <2>2. s[i + 1] = next_run(s[i], i, g[i])
        BY <1>1, <2>1
    <2> QED
        BY <1>3, <2>2, NextRun
<1>4. RunsOK(g, s[1], 1)
    BY <1>2, <1>3
<1>5. RunsOK(g, s[2], 2)
    BY <1>4, <1>3
<1>6. RunsOK(g, s[3], 3)
    BY <1>5, <1>3
<1>7. RunsOK(g, s[4], 4)
    BY <1>6, <1>3
<1>8. RunsOK(g, s[5], 5)
    BY <1>7, <1>3
<1>9. RunsOK(g, s[6], 6)
    BY <1>8, <1>3
<1>10. RunsOK(g, s[7], 7)
    BY <1>9, <1>3
<1>11. RunsOK(g, s[8], 8)
    BY <1>10, <1>3
<1> QED
    BY <1>1, <1>11

Tokens == {Colon, Gap} \cup {Group(n) : n \in Nat}

\* The number of tokens n groups take with ":" between them.
Width(n) == IF n = 0 THEN 0 ELSE 2 * n - 1

\* The groups from i to j - 1, and ":" between them.
LEMMA Joined ==
  ASSUME NEW g \in [0..7 -> Nat], NEW i \in 0..8, NEW j \in i..8
  PROVE  /\ joined(g, i, j) \in Seq(Tokens)
         /\ Len(joined(g, i, j)) = Width(j - i)
         /\ \A k \in 1..Width(j - i) :
              joined(g, i, j)[k] = IF k % 2 = 1 THEN Group(g[i + k \div 2]) ELSE Colon
<1> DEFINE w == Width(j - i)
           t == joined(g, i, j)
<1>1. w \in Nat /\ 1..(2 * (j - i) - 1) = 1..w
    BY DEF Width
<1>2. \A k \in 1..w : k % 2 = 1 => i + k \div 2 \in 0..7
    BY DEF Width
<1>3. \A k \in 1..w : (IF k % 2 = 1 THEN Group(g[i + k \div 2]) ELSE Colon) \in Tokens
    BY <1>2 DEF Tokens
<1>4. t = [k \in 1..w |-> IF k % 2 = 1 THEN Group(g[i + k \div 2]) ELSE Colon]
    BY <1>1 DEF joined
<1> HIDE DEF w, t
<1>5. t \in [1..w -> Tokens]
    BY <1>3, <1>4
<1>6. t \in Seq(Tokens) /\ Len(t) = w
    BY <1>1, <1>5
<1> QED
    BY <1>4, <1>6 DEF w, t

\* A group is not a separator, and the groups of two equal tokens are the same.
LEMMA TokensDiffer ==
  /\ \A n : IsGroup(Group(n)) /\ Group(n) # Gap /\ Group(n) # Colon
  /\ ~IsGroup(Colon) /\ ~IsGroup(Gap) /\ Colon # Gap
  /\ \A m, n : Group(m) = Group(n) => m = n
<1>1. "group" # ":" /\ "group" # "::" /\ ":" # "::"
    OBVIOUS
<1>2. \A n : Group(n)[1] = "group" /\ Group(n)[2] = n
    BY DEF Group
<1>3. Colon[1] = ":" /\ Gap[1] = "::"
    BY DEF Colon, Gap
<1>4. \A m, n : Group(m) = Group(n) => m = n
    BY <1>2
<1>5. \A n : Group(n) # Gap /\ Group(n) # Colon
    BY <1>1, <1>2, <1>3
<1>6. Colon # Gap
    BY <1>1, <1>3
<1> QED
    BY <1>1, <1>2, <1>3, <1>4, <1>5, <1>6 DEF IsGroup

\* The groups before a gap of m zeros at b, the gap and the groups behind it: the text
\* is well-formed and names the address.
LEMMA GapText ==
  ASSUME NEW g \in [0..7 -> Nat], NEW b \in 0..7, NEW m \in 2..8, b + m <= 8, Zeros(g, b, m)
  PROVE  LET text == joined(g, 0, b) \o <<Gap>> \o joined(g, b + m, 8)
         IN WellFormed(text) /\ Names(text, g)
<1> DEFINE L == joined(g, 0, b)
           R == joined(g, b + m, 8)
           c == 8 - (b + m)
           p == Width(b) + 1
           n == Width(b) + 1 + Width(c)
           T == L \o <<Gap>> \o R
<1>1. b \in 0..8 /\ b + m \in 0..8 /\ c \in 0..6 /\ b + c < 8
      /\ b - 0 = b /\ 0 \in 0..8 /\ b \in 0..8 /\ 8 \in (b + m)..8
    OBVIOUS
<1>2. Width(b) \in Nat /\ Width(c) \in Nat /\ p \in Nat /\ n \in Nat
    BY <1>1 DEF Width
<1>3. /\ L \in Seq(Tokens) /\ Len(L) = Width(b)
      /\ \A k \in 1..Width(b) : L[k] = IF k % 2 = 1 THEN Group(g[0 + k \div 2]) ELSE Colon
    <2>1. 0 \in 0..8 /\ b \in 0..8
        OBVIOUS
    <2>2. /\ joined(g, 0, b) \in Seq(Tokens)
          /\ Len(joined(g, 0, b)) = Width(b - 0)
          /\ \A k \in 1..Width(b - 0) :
               joined(g, 0, b)[k] = IF k % 2 = 1 THEN Group(g[0 + k \div 2]) ELSE Colon
        BY <2>1, Joined
    <2> QED
        BY <2>2, <1>1
<1>4. /\ R \in Seq(Tokens) /\ Len(R) = Width(c)
      /\ \A k \in 1..Width(c) : R[k] = IF k % 2 = 1 THEN Group(g[b + m + k \div 2]) ELSE Colon
    <2>1. b + m \in 0..8 /\ 8 \in (b + m)..8
        OBVIOUS
    <2> QED
        BY <2>1, Joined
<1> DEFINE G == <<Gap>>
           LG == L \o G
<1>5. G \in Seq(Tokens) /\ Len(G) = 1 /\ G[1] = Gap
    BY DEF Tokens
<1>7. T = LG \o R
    OBVIOUS
<1> HIDE DEF L, R, c, G, T
<1>6. /\ LG \in Seq(Tokens) /\ Len(LG) = p
      /\ \A k \in 1..Width(b) : LG[k] = L[k]
      /\ LG[p] = Gap
    <2>1. LG \in Seq(Tokens) /\ Len(LG) = Len(L) + Len(G)
          /\ \A k \in 1..(Len(L) + Len(G)) : LG[k] = IF k <= Len(L) THEN L[k] ELSE G[k - Len(L)]
        BY <1>3, <1>5, ConcatProperties
    <2> HIDE DEF LG
    <2>2. p \in 1..p /\ ~(p <= Width(b)) /\ p - Width(b) = 1 /\ Len(L) + Len(G) = p
        <3>1. Width(b) \in Nat /\ Len(L) = Width(b) /\ Len(G) = 1
            BY <1>2, <1>3, <1>5
        <3> QED
            BY <3>1
    <2>3. \A k \in 1..p : LG[k] = IF k <= Width(b) THEN L[k] ELSE G[k - Width(b)]
        BY <1>3, <2>1, <2>2
    <2>4. LG[p] = Gap
        BY <1>5, <2>2, <2>3
    <2>5. \A k \in 1..Width(b) : k \in 1..p /\ k <= Width(b)
        BY <1>2
    <2> QED
        BY <2>1, <2>2, <2>3, <2>4, <2>5
<1> HIDE DEF LG
<1>8. /\ T \in Seq(Tokens) /\ Len(T) = n
      /\ \A k \in 1..n : T[k] = IF k <= p THEN LG[k] ELSE R[k - p]
    <2>1. LG \o R \in Seq(Tokens) /\ Len(LG \o R) = Len(LG) + Len(R)
          /\ \A k \in 1..(Len(LG) + Len(R)) :
               (LG \o R)[k] = IF k <= Len(LG) THEN LG[k] ELSE R[k - Len(LG)]
        BY <1>4, <1>6, ConcatProperties
    <2> QED
        BY <1>2, <1>4, <1>6, <1>7, <2>1
<1>9. T[p] = Gap
    <2>1. p \in 1..n /\ p <= p
        BY <1>2
    <2> QED
        BY <1>6, <1>8, <2>1
<1>10. ASSUME NEW k \in 1..n, k < p
       PROVE  T[k] = IF k % 2 = 1 THEN Group(g[k \div 2]) ELSE Colon
    <2>1. k \in 1..Width(b) /\ k <= p /\ 0 + k \div 2 = k \div 2
        BY <1>2, <1>10
    <2>2. T[k] = L[k]
        BY <1>6, <1>8, <2>1
    <2> QED
        BY <1>3, <2>1, <2>2
<1>11. ASSUME NEW k \in 1..n, k > p
       PROVE  T[k] = IF (k - p) % 2 = 1 THEN Group(g[b + m + (k - p) \div 2]) ELSE Colon
    <2>1. k - p \in 1..Width(c) /\ ~(k <= p)
        BY <1>2, <1>11
    <2>2. T[k] = R[k - p]
        BY <1>8, <2>1
    <2> QED
        BY <1>4, <2>1, <2>2
<1>12. ASSUME NEW k \in 1..n, k # p PROVE T[k] # Gap
    <2>1. k < p \/ k > p
        BY <1>2, <1>12
    <2>2. CASE k < p
        BY <1>10, <2>2, TokensDiffer
    <2>3. CASE k > p
        BY <1>11, <2>3, TokensDiffer
    <2> QED
        BY <2>1, <2>2, <2>3
<1>13. ASSUME NEW k \in 1..n
       PROVE  IsGroup(T[k]) <=> \/ k < p /\ k % 2 = 1
                                \/ k > p /\ (k - p) % 2 = 1
    BY <1>2, <1>9, <1>10, <1>11, TokensDiffer
<1>14. p = 1 \/ p % 2 = 0
    BY <1>1 DEF Width
<1>15. n = p \/ (n - p) % 2 = 1
    BY <1>1, <1>2 DEF Width
<1>16. ASSUME NEW k \in 1..(n - 1) PROVE IsGroup(T[k]) # IsGroup(T[k + 1])
    <2>1. k \in 1..n /\ k + 1 \in 1..n /\ k \in Int /\ p \in Int /\ n \in Int
        BY <1>2
    <2>2. IsGroup(T[k]) <=> \/ k < p /\ k % 2 = 1
                            \/ k > p /\ (k - p) % 2 = 1
        BY <1>13, <2>1
    <2>3. IsGroup(T[k + 1]) <=> \/ k + 1 < p /\ (k + 1) % 2 = 1
                                \/ k + 1 > p /\ (k + 1 - p) % 2 = 1
        BY <1>13, <2>1
    <2> HIDE DEF p, n
    <2>4. IsGroup(T[k]) <=> ~IsGroup(T[k + 1])
        BY <2>1, <2>2, <2>3, <1>14
    <2>5. IsGroup(T[k]) \in BOOLEAN /\ IsGroup(T[k + 1]) \in BOOLEAN
        BY DEF IsGroup
    <2> QED
        BY <2>4, <2>5, Zenon
<1>17. T[1] # Colon /\ T[n] # Colon
    <2>1. 1 \in 1..n /\ n \in 1..n /\ 1 % 2 = 1 /\ p \in Int /\ n \in Int /\ p >= 1 /\ n >= p
        BY <1>2
    <2> HIDE DEF p, n
    <2>2. T[1] # Colon
        <3>1. CASE p = 1
            BY <1>9, <3>1, TokensDiffer
        <3>2. CASE p # 1
            BY <1>10, <2>1, <3>2, TokensDiffer
        <3> QED
            BY <3>1, <3>2
    <2>3. T[n] # Colon
        <3>1. CASE n = p
            BY <1>9, <3>1, TokensDiffer
        <3>2. CASE n # p
            BY <1>11, <1>15, <2>1, <3>2, TokensDiffer
        <3> QED
            BY <3>1, <3>2
    <2> QED
        BY <2>2, <2>3
<1>18. WellFormed(T)
    <2>1. \A k, l \in 1..Len(T) : T[k] = Gap /\ T[l] = Gap => k = l
        BY <1>8, <1>12
    <2>2. \A k \in 1..(Len(T) - 1) : IsGroup(T[k]) # IsGroup(T[k + 1])
        BY <1>8, <1>16
    <2>3. Colon \notin {T[1], T[Len(T)]}
        BY <1>8, <1>17
    <2> QED
        BY <2>1, <2>2, <2>3 DEF WellFormed
<1>19. p \in 1..n /\ p \div 2 = b /\ (n - p + 1) \div 2 = c
    BY <1>1 DEF Width
<1>20. ASSUME NEW k \in 0..7
       PROVE  IF k < b THEN T[2 * k + 1] = Group(g[k])
              ELSE IF k >= 8 - c THEN T[n - 2 * (7 - k)] = Group(g[k])
              ELSE g[k] = 0
    <2>1. CASE k < b
        <3>1. 2 * k + 1 \in 1..n /\ 2 * k + 1 < p /\ (2 * k + 1) % 2 = 1 /\ (2 * k + 1) \div 2 = k
            BY <1>1, <1>2, <2>1 DEF Width
        <3> QED
            BY <1>10, <2>1, <3>1
    <2>2. CASE k >= 8 - c
        <3> DEFINE q == n - 2 * (7 - k)
        <3>1. ~(k < b) /\ q \in 1..n /\ q > p /\ (q - p) % 2 = 1
              /\ b + m + (q - p) \div 2 = k
            BY <1>1, <1>2, <2>2 DEF Width, c
        <3>2. T[q] = Group(g[b + m + (q - p) \div 2])
            <4> HIDE DEF q
            <4> QED
                BY <1>11, <3>1
        <3> QED
            BY <2>2, <3>1, <3>2
    <2>3. CASE ~(k < b) /\ ~(k >= 8 - c)
        <3>1. k \in b..(b + m - 1)
            BY <1>1, <2>3 DEF c
        <3> QED
            BY <2>3, <3>1 DEF Zeros
    <2> QED
        BY <2>1, <2>2, <2>3
<1>21. Names(T, g)
    <2> HIDE DEF n, p
    <2>1. p \in 1..Len(T) /\ T[p] = Gap /\ p \div 2 = b /\ (Len(T) - p + 1) \div 2 = c
        BY <1>8, <1>9, <1>19
    <2>2. b + c < 8
        BY <1>1
    <2>3. \A k \in 0..7 : IF k < b THEN T[2 * k + 1] = Group(g[k])
              ELSE IF k >= 8 - c THEN T[Len(T) - 2 * (7 - k)] = Group(g[k])
              ELSE g[k] = 0
        BY <1>8, <1>20
    <2> QED
        BY <2>1, <2>2, <2>3 DEF Names
<1> QED
    BY <1>18, <1>21 DEF T, L, R

\* All eight groups written out.
LEMMA WholeText ==
  ASSUME NEW g \in [0..7 -> Nat]
  PROVE  WellFormed(joined(g, 0, 8)) /\ Names(joined(g, 0, 8), g)
<1> DEFINE T == joined(g, 0, 8)
<1>1. /\ Len(T) = 15
      /\ \A k \in 1..15 : T[k] = IF k % 2 = 1 THEN Group(g[0 + k \div 2]) ELSE Colon
    <2>1. 0 \in 0..8 /\ 8 \in 0..8 /\ Width(8 - 0) = 15
        BY DEF Width
    <2> QED
        BY <2>1, Joined
<1> HIDE DEF T
<1>2. \A k \in 1..15 : (IsGroup(T[k]) <=> k % 2 = 1) /\ T[k] # Gap
    BY <1>1, TokensDiffer
<1>3. ASSUME NEW k \in 1..14 PROVE IsGroup(T[k]) # IsGroup(T[k + 1])
    <2>1. k \in 1..15 /\ k + 1 \in 1..15 /\ (k % 2 = 1 <=> ~((k + 1) % 2 = 1))
        OBVIOUS
    <2>2. IsGroup(T[k]) <=> ~IsGroup(T[k + 1])
        BY <1>2, <2>1
    <2>3. IsGroup(T[k]) \in BOOLEAN /\ IsGroup(T[k + 1]) \in BOOLEAN
        BY DEF IsGroup
    <2> QED
        BY <2>2, <2>3, Zenon
<1>4. T[1] # Colon /\ T[15] # Colon
    <2>1. 1 \in 1..15 /\ 15 \in 1..15 /\ 1 % 2 = 1 /\ 15 % 2 = 1
        OBVIOUS
    <2> QED
        BY <1>1, <2>1, TokensDiffer
<1>5. WellFormed(T)
    BY <1>1, <1>2, <1>3, <1>4 DEF WellFormed
<1>6. \A k \in 0..7 : T[2 * k + 1] = Group(g[k])
    <2> TAKE k \in 0..7
    <2>1. 2 * k + 1 \in 1..15 /\ (2 * k + 1) % 2 = 1 /\ 0 + (2 * k + 1) \div 2 = k
        OBVIOUS
    <2> QED
        BY <1>1, <2>1
<1> QED
    BY <1>1, <1>5, <1>6 DEF Names, T

\* What format_ipv6() writes for any address is well-formed and names the address.
LEMMA Formatted ==
  ASSUME NEW g \in [0..7 -> Nat]
  PROVE  WellFormed(format_ipv6(g)) /\ Names(format_ipv6(g), g)
<1> DEFINE r == zero_runs(g)
<1>1. RunsOK(g, r, 8)
    BY ZeroRunsOK
<1> HIDE DEF r
<1>2. CASE r.best_len < 2
    BY <1>2, WholeText DEF format_ipv6, r
<1>3. CASE ~(r.best_len < 2)
    <2>1. r.best_start \in -1..7 /\ r.best_len \in 0..8
        BY <1>1 DEF RunsOK, ZeroRuns
    <2>2. r.best_start \in 0..7 /\ r.best_len \in 2..8 /\ r.best_start + r.best_len <= 8
          /\ Zeros(g, r.best_start, r.best_len)
        BY <1>1, <1>3, <2>1 DEF RunsOK
    <2>3. format_ipv6(g) = joined(g, 0, r.best_start) \o <<Gap>>
                             \o joined(g, r.best_start + r.best_len, 8)
        BY <1>3 DEF format_ipv6, after_gap, r
    <2> QED
        BY <2>2, <2>3, GapText
<1> QED
    BY <1>2, <1>3

\* A well-formed text names one address at most.
LEMMA NamesOne ==
  ASSUME NEW text, WellFormed(text),
         NEW g \in [0..7 -> Nat], NEW h \in [0..7 -> Nat], Names(text, g), Names(text, h)
  PROVE  g = h
<1> DEFINE n == Len(text)
           Whole(f) == n = 15 /\ \A k \in 0..7 : text[2 * k + 1] = Group(f[k])
           Apart(f, p) == LET left == p \div 2
                              right == (n - p + 1) \div 2
                          IN /\ text[p] = Gap
                             /\ left + right < 8
                             /\ \A k \in 0..7 :
                                  IF k < left THEN text[2 * k + 1] = Group(f[k])
                                  ELSE IF k >= 8 - right THEN text[n - 2 * (7 - k)] = Group(f[k])
                                  ELSE f[k] = 0
<1>1. ASSUME NEW f, Names(text, f)
      PROVE  Whole(f) \/ \E p \in 1..n : Apart(f, p)
    BY <1>1 DEF Names
<1>2. ASSUME NEW f, NEW e, NEW p \in 1..n, Whole(f), Apart(e, p)
      PROVE  FALSE
    <2>1. n = 15 /\ p % 2 = 1
        BY <1>2
    <2>2. p \div 2 \in 0..7 /\ 2 * (p \div 2) + 1 = p
        BY <2>1
    <2>3. text[p] = Group(f[p \div 2])
        BY <1>2, <2>2
    <2> QED
        BY <1>2, <2>3, TokensDiffer
<1>3. \A k \in 0..7 : g[k] = h[k]
    <2>1. CASE Whole(g) /\ Whole(h)
        BY <2>1, TokensDiffer
    <2>2. CASE \E p \in 1..n : Apart(g, p)
        <3>1. PICK p \in 1..n : Apart(g, p)
            BY <2>2
        <3>2. ~Whole(h)
            BY <1>2, <3>1
        <3>3. PICK q \in 1..n : Apart(h, q)
            BY <1>1, <3>2
        <3>4. q = p
            BY <3>1, <3>3 DEF WellFormed
        <3>5. Apart(h, p)
            BY <3>3, <3>4
        <3> QED
            BY <3>1, <3>5, TokensDiffer
    <2>3. CASE \E p \in 1..n : Apart(h, p)
        <3>1. PICK p \in 1..n : Apart(h, p)
            BY <2>3
        <3>2. ~Whole(g)
            BY <1>2, <3>1
        <3>3. \E q \in 1..n : Apart(g, q)
            BY <1>1, <3>2
        <3> QED
            BY <2>2, <3>3
    <2> QED
        BY <1>1, <2>1, <2>2, <2>3
<1> QED
    BY <1>3

\* Two addresses have two texts: what flows and detectors keep under the text of one
\* IPv6 source is never that of another.
THEOREM SourceTextsDiffer ==
  \A g, h \in [0..7 -> Nat] : format_ipv6(g) = format_ipv6(h) => g = h
<1> SUFFICES ASSUME NEW g \in [0..7 -> Nat], NEW h \in [0..7 -> Nat],
                    format_ipv6(g) = format_ipv6(h)
             PROVE  g = h
    OBVIOUS
<1> DEFINE text == format_ipv6(g)
<1>1. WellFormed(text) /\ Names(text, g) /\ Names(text, h)
    BY Formatted
<1> HIDE DEF text
<1> QED
    BY <1>1, NamesOne

-----------------------------------------------------------------------------
(* The text of the source *)

\* A step writes the text of the address in the IPv6 header, or keeps both.
LEMMA SourceWritten ==
  ASSUME IInv, Step
  PROVE  \/ info'.src_ip = info.src_ip /\ address' = address
         \/ \E a \in Addresses : info'.src_ip = format_ipv6(a) /\ address' = a
<1>1. info \in PacketInfo(info.src_ip)
    BY DEF IInv, StepsAndFields
<1>2. CASE Ethernet \/ Vlan
    BY <1>1, <1>2 DEF Ethernet, Vlan, Layer3, Parsed, TooShort, PacketInfo
<1>3. CASE Ipv4
    BY <1>1, <1>3 DEF Ipv4, Layer4, Parsed, TooShort, Malformed, Return, PacketInfo
<1>4. CASE Tcp \/ Udp
    BY <1>1, <1>4 DEF Tcp, Udp, Payload, Parsed, TooShort, Malformed, PacketInfo
<1>5. CASE Extract /\ UNCHANGED address
    BY <1>1, <1>5, ExtractFrame DEF PacketInfo
<1>6. CASE Ipv6
    <2>1. CASE info' = [info EXCEPT !.truncated = TRUE] /\ address' = address
        BY <1>1, <2>1 DEF PacketInfo
    <2>2. CASE info' = info /\ address' = address
        BY <2>2
    <2>3. ASSUME NEW proto \in Protocols, NEW a \in Addresses, address' = a,
                 Layer4(40, proto, [info EXCEPT !.l3_proto = "IPv6", !.valid = TRUE,
                                                !.src_ip = format_ipv6(a)])
          PROVE  info'.src_ip = format_ipv6(a)
        BY <1>1, <2>3 DEF Layer4, Parsed, PacketInfo
    <2> QED
        BY <1>6, <2>1, <2>2, <2>3 DEF Ipv6, TooShort, Return
<1> QED
    BY <1>2, <1>3, <1>4, <1>5, <1>6 DEF Step

\* An address is eight groups.
LEMMA AddressHasGroups ==
  ASSUME NEW a \in Addresses
  PROVE  a \in [0..7 -> Nat] /\ a # None
<1>1. a \in [0..7 -> Groups] /\ a # None
    BY AddressAssumption
<1>2. \A n \in Groups : n \in Nat
    BY DEF Groups
<1> QED
    BY <1>1, <1>2

\* The text format_ipv6() writes into the packet's info is well-formed and names the
\* address in the packet's IPv6 header, whatever its groups are.
THEOREM SourceTextNamesAddress == Spec => []AddressKept
<1>1. Init => AddressKept
    BY DEF Init, NoInfo, AddressKept
<1>2. IInv /\ AddressKept /\ [Next]_allVars => AddressKept'
    <2> SUFFICES ASSUME IInv, AddressKept, [Next]_allVars PROVE AddressKept'
        OBVIOUS
    <2>1. CASE UNCHANGED allVars
        BY <2>1 DEF allVars, vars, AddressKept
    <2>2. ASSUME NEW n \in Lengths, DissectPacket(n) PROVE AddressKept'
        BY <2>2 DEF DissectPacket, NoInfo, AddressKept
    <2>3. CASE Step
        <3>1. CASE info'.src_ip = info.src_ip /\ address' = address
            BY <3>1 DEF AddressKept
        <3>2. ASSUME NEW a \in Addresses, info'.src_ip = format_ipv6(a), address' = a
              PROVE  AddressKept'
            <4>1. a \in [0..7 -> Nat] /\ a # None
                BY AddressHasGroups
            <4>2. WellFormed(format_ipv6(a)) /\ Names(format_ipv6(a), a)
                BY <4>1, Formatted
            <4> QED
                BY <3>2, <4>1, <4>2 DEF AddressKept
        <3> QED
            BY <2>3, <3>1, <3>2, SourceWritten
    <2> QED
        BY <2>1, <2>2, <2>3 DEF Next
<1> QED
    BY <1>1, <1>2, Invariance, PTL DEF Spec
=============================================================================
