---------------------------- MODULE L7Extractors ----------------------------
(***************************************************************************)
(* The walks over untrusted bytes in src/ProtocolDissector.cpp: a DNS      *)
(* name, the lines of an HTTP request, a TLS ClientHello.                  *)
(*                                                                         *)
(* A field is chosen when it is read: every byte that decides something is *)
(* read once, so any frame is some sequence of choices.  Positions count   *)
(* from the start of the frame; a payload ends where the frame ends.  An   *)
(* HTTP request is read by lines: a scan for a line's end is one step, and *)
(* scans over the same bytes choose anew, which allows too much only.      *)
(***************************************************************************)
EXTENDS Integers, FiniteSets

CONSTANTS
  Lengths,    \* captured lengths of frames
  Bytes,      \* values of the 8-bit length fields
  Words,      \* values of the 16-bit length fields, and the lengths of lines
  HelloLens,  \* values of the 24-bit length of a handshake message
  MaxHops     \* DNS_MAX_LABEL_HOPS

ASSUME DissectorAssumption ==
  /\ Lengths \subseteq Nat
  /\ Bytes \subseteq Nat /\ Words \subseteq Nat /\ HelloLens \subseteq Nat
  /\ MaxHops \in Nat \ {0}

\* The fields are that wide; nothing depends on it.
ASSUME FieldWidths ==
  Bytes \subseteq 0..255 /\ Words \subseteq 0..65535 /\ HelloLens \subseteq 0..16777215

VARIABLES
  pc,        \* what is read next
  len,       \* captured_length
  offset,    \* where it is read
  hs_end, ext_end, sni_end,   \* ends of the ClientHello, its extensions, the names
  hops,      \* labels of the DNS name so far
  info,      \* the PacketInfo
  read_to,   \* history: no byte at or after this position was read
  short,     \* history: a header did not fit in the captured bytes
  ended,     \* history: the DNS name ended with its empty label
  turn       \* history: changes with every step, so that a loop that does not
             \* get on is a cycle of states

cursor == <<len, hs_end, ext_end, sni_end, hops, ended>>
vars == <<cursor, pc, offset, info, read_to, short, turn>>

At(step) == pc = step
Goto(step) == pc' = step /\ turn' = ~turn

Has(n) == offset + n <= len
ReadUpTo(p) == read_to' = IF p > read_to THEN p ELSE read_to
Read(n) == ReadUpTo(offset + n)

\* The position moves on by n.
Advance(n, step) == Goto(step) /\ offset' = offset + n /\ UNCHANGED <<info, short>>

\* return: the packet is what info says by now.
Return == Goto("done") /\ UNCHANGED <<offset, info, short, cursor>>

Identify(proto) ==
  /\ Goto("done")
  /\ info' = [info EXCEPT !.l7_proto = proto]
  /\ UNCHANGED <<offset, short, cursor>>

-----------------------------------------------------------------------------
(* extract_dns() *)

DnsHeader ==
  /\ At("dns")
  /\ \/ ~Has(12 + 5) /\ Return /\ UNCHANGED read_to
     \/ /\ Has(12 + 5)
        /\ Read(6)   \* the flags and QDCOUNT
        /\ \/ Return \* qdcount == 0
           \/ /\ Advance(12, "label")
              /\ hops' = 0 /\ ended' = FALSE
              /\ UNCHANGED <<len, hs_end, ext_end, sni_end>>

\* Mutant: the bytes of a label are not compared with the end.
label_fits_always(n) == TRUE

label_fits(n) == Has(1 + n)

labels_left == Has(1) /\ hops < MaxHops

\* 0: the name ends.  192 and up: a compression pointer.
DnsLabel ==
  /\ At("label")
  /\ labels_left
  /\ \E n \in Bytes :
       \/ /\ n = 0
          /\ Read(1)
          /\ Advance(1, "qtype")
          /\ ended' = TRUE
          /\ UNCHANGED <<len, hs_end, ext_end, sni_end, hops>>
       \/ n >= 192 /\ Read(1) /\ Return
       \/ n \in 1..191 /\ ~label_fits(n) /\ Read(1) /\ Return
       \/ /\ n \in 1..191 /\ label_fits(n)
          /\ Read(1 + n)
          /\ Advance(1 + n, "label")
          /\ hops' = hops + 1
          /\ UNCHANGED <<len, hs_end, ext_end, sni_end, ended>>

\* The loop ends without the empty label.
DnsLabelsOut ==
  /\ At("label")
  /\ ~labels_left
  /\ Advance(0, "qtype")
  /\ UNCHANGED <<cursor, read_to>>

\* Mutant: the frame may end before the type.
name_taken_cut == hops > 0

\* A name without labels is not taken, nor one without a type.
name_taken == hops > 0 /\ Has(2)

DnsType ==
  /\ At("qtype")
  /\ \/ ~name_taken /\ Return /\ UNCHANGED read_to
     \/ name_taken /\ Read(2) /\ Identify("DNS")

-----------------------------------------------------------------------------
(* extract_http() *)

MethodLens == {4, 5, 6, 7, 8}   \* "GET " to "CONNECT "

\* Where the scan for the end of a line stops, n bytes of the line being known:
\* at a CR LF, or at the last byte of the frame.
LineEnds(n) ==
  {offset + k : k \in {k \in Words : k >= n /\ Has(k + 2)}} \cup {len - 1}

\* On to the next line, with all bytes before p read.
NextLine(n, p) ==
  \E end \in LineEnds(n) :
    /\ Goto("header")
    /\ offset' = end + 2
    /\ ReadUpTo(IF end + 2 > len THEN len ELSE IF end + 2 > p THEN end + 2 ELSE p)
    /\ UNCHANGED <<info, short, cursor>>

\* The request line.  The scan for the end of the URI looks for a space, through
\* line ends too, and may reach the end of the frame.
HttpRequest ==
  /\ At("http")
  /\ \/ ~Has(16) /\ Return /\ UNCHANGED read_to
     \/ Has(16) /\ Read(8) /\ Return   \* no method
     \/ /\ Has(16)
        /\ \E n \in MethodLens, k \in Words :
             \/ Has(n + k + 1) /\ NextLine(n, offset + n + k + 1)
             \/ NextLine(n, len)

\* One round of the loop over the header lines: the bytes or the headers are at
\* their end, this is the Host header, or it is another one.
HttpHeader ==
  /\ At("header")
  /\ \/ ~Has(2) /\ Identify("HTTP") /\ UNCHANGED read_to
     \/ Has(2) /\ Read(2) /\ Identify("HTTP")
     \/ /\ Has(6)
        /\ \/ \E n \in Words : Has(6 + n + 2) /\ Read(6 + n + 2)
           \/ IF Has(8) THEN ReadUpTo(len) ELSE Read(6)
        /\ Identify("HTTP")
     \/ Has(2) /\ NextLine(1, offset + (IF Has(6) THEN 6 ELSE 2))

-----------------------------------------------------------------------------
(* extract_tls() *)

\* The record and the handshake header.  The length of the record is compared
\* with the frame only, never with the length of the handshake message.
TlsHello ==
  /\ At("tls")
  /\ \/ ~Has(43) /\ Return /\ UNCHANGED read_to
     \/ Has(43) /\ Read(5) /\ Return   \* not a handshake, or a record cut off
     \/ Has(43) /\ Read(6) /\ Return   \* not a ClientHello
     \/ /\ Has(43)
        /\ Read(9)
        /\ \E n \in HelloLens :
             \/ ~Has(9 + n) /\ Return
             \/ /\ Has(9 + n)
                /\ hs_end' = offset + 9 + n
                /\ Advance(43, "session_id")   \* version and random
                /\ UNCHANGED <<len, ext_end, sni_end, hops, ended>>

\* A list is skipped: its length of w bytes and that many bytes.
TlsList(step, w, Values, next) ==
  /\ At(step)
  /\ \/ ~Has(w) /\ Return /\ UNCHANGED read_to
     \/ /\ Has(w)
        /\ Read(w)
        /\ \E n \in Values :
             \/ ~Has(w + n) /\ Return
             \/ Has(w + n) /\ Advance(w + n, next) /\ UNCHANGED cursor

TlsSessionId == TlsList("session_id", 1, Bytes, "ciphers")
TlsCipherSuites == TlsList("ciphers", 2, Words, "compression")
TlsCompression == TlsList("compression", 1, Bytes, "extensions")

extensions_fit(end) == end <= len /\ end <= hs_end

TlsExtensions ==
  /\ At("extensions")
  /\ \/ ~Has(2) /\ Return /\ UNCHANGED read_to
     \/ /\ Has(2)
        /\ Read(2)
        /\ \E n \in Words :
             \/ ~extensions_fit(offset + 2 + n) /\ Return
             \/ /\ extensions_fit(offset + 2 + n)
                /\ ext_end' = offset + 2 + n
                /\ Advance(2, "extension")
                /\ UNCHANGED <<len, hs_end, sni_end, hops, ended>>

\* Mutant: the header of an extension is not stepped over.
next_extension_stuck(n) == n

next_extension(n) == 4 + n

\* One extension that is not the server name.
TlsExtension ==
  /\ At("extension")
  /\ \/ offset + 4 > ext_end /\ Return /\ UNCHANGED read_to
     \/ /\ offset + 4 <= ext_end
        /\ Read(4)
        /\ \E n \in Words :
             \/ offset + 4 + n > ext_end /\ Return
             \/ offset + 4 + n <= ext_end /\ Advance(next_extension(n), "extension")
                  /\ UNCHANGED cursor

\* The server name extension.  Its list is compared with the end of all the
\* extensions, not with its own length.
TlsServerNames ==
  /\ At("extension")
  /\ offset + 4 <= ext_end
  /\ \/ Read(4) /\ Return   \* it, or the length of its list, does not fit
     \/ /\ offset + 6 <= ext_end
        /\ Read(6)
        /\ \E n \in Words :
             \/ offset + 6 + n > ext_end /\ Return
             \/ /\ offset + 6 + n <= ext_end
                /\ sni_end' = offset + 6 + n
                /\ Advance(6, "name")
                /\ UNCHANGED <<len, hs_end, ext_end, hops, ended>>

\* Mutant: a name is compared with the end of the frame only.
name_fits_frame(n) == Has(3 + n)

name_fits(n) == offset + 3 + n <= sni_end

\* One name of the list: a host name is taken, another one is skipped.
TlsName ==
  /\ At("name")
  /\ \/ offset + 3 > sni_end /\ Return /\ UNCHANGED read_to
     \/ /\ offset + 3 <= sni_end
        /\ \E n \in Words :
             \/ ~name_fits(n) /\ Read(3) /\ Return
             \/ name_fits(n) /\ Read(3) /\ Advance(3 + n, "name") /\ UNCHANGED cursor
             \/ name_fits(n) /\ Read(3 + n) /\ Identify("TLS")

Extract ==
  \/ DnsHeader \/ DnsLabel \/ DnsLabelsOut \/ DnsType
  \/ HttpRequest \/ HttpHeader
  \/ TlsHello \/ TlsSessionId \/ TlsCipherSuites \/ TlsCompression
  \/ TlsExtensions \/ TlsExtension \/ TlsServerNames \/ TlsName
=============================================================================
