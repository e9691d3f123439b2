----------------------------- MODULE SocksAddr ------------------------------
(***************************************************************************)
(* SOCKS addresses as bytes (proxy/socks/socks.go): the two ways to take   *)
(* one from its front end, SplitAddr from a datagram and readAddr from a   *)
(* stream, and the two conversions, ParseAddr to bytes and String from     *)
(* them.  An address is a record of its type, the bytes of its host (an IP *)
(* address or a name) and its port; a string is not modelled further.      *)
(* A definition whose name ends in Bug is a plausible defect of the one    *)
(* that follows it.                                                        *)
(***************************************************************************)
EXTENDS Integers, Sequences

CONSTANTS
  IPv4len, \* net.IPv4len, 4 in the code
  IPv6len  \* net.IPv6len, 16 in the code

ASSUME LengthsAssumption == IPv4len \in Nat /\ IPv6len \in Nat

Byte == 0..255
Port == 0..65535

socks5IP4    == 1
socks5Domain == 3
socks5IP6    == 4

\* ATYP clears bit 3 of the type.
ATYP(b) == IF (b \div 8) % 2 = 1 THEN b - 8 ELSE b

Nil == <<>>

\* The length an address must have by its first bytes, or 0 if they are no address.
AddrLen(b) ==
  CASE Len(b) = 0                                   -> 0
    [] Len(b) > 0 /\ ATYP(b[1]) = socks5IP4         -> 1 + IPv4len + 2
    [] Len(b) > 0 /\ ATYP(b[1]) = socks5IP6         -> 1 + IPv6len + 2
    [] Len(b) > 1 /\ ATYP(b[1]) = socks5Domain      -> 1 + 1 + b[2] + 2
    [] OTHER                                        -> 0

\* The address at the front of b, Nil if b holds no whole one.
SplitAddr(b) ==
  LET length == AddrLen(b)
  IN  IF length = 0 \/ Len(b) < length THEN Nil ELSE SubSeq(b, 1, length)

\* io.ReadFull of the type, for a name of its length, and of the rest; Nil is any
\* error: an unknown type or a stream that ends too soon.
readAddr(stream) ==
  LET Fits(length) == IF Len(stream) < length THEN Nil ELSE SubSeq(stream, 1, length)
  IN  CASE Len(stream) = 0                -> Nil
        [] Len(stream) > 0 /\ ATYP(stream[1]) = socks5Domain ->
             IF Len(stream) < 2 THEN Nil ELSE Fits(2 + stream[2] + 2)
        [] Len(stream) > 0 /\ ATYP(stream[1]) = socks5IP4 -> Fits(1 + IPv4len + 2)
        [] Len(stream) > 0 /\ ATYP(stream[1]) = socks5IP6 -> Fits(1 + IPv6len + 2)
        [] OTHER -> Nil

\* What net.ParseIP and To4 tell of a host: four bytes, sixteen or, if it is no IP
\* address, a name.
AddressOf(kind, hosts) == [type : {kind}, host : hosts, port : Port]
Address == AddressOf(socks5IP4, [1..IPv4len -> Byte])
             \cup AddressOf(socks5IP6, [1..IPv6len -> Byte])
             \cup AddressOf(socks5Domain, Seq(Byte))

\* The bytes of an address; a name longer than 255 has none.
ParseAddr(a) ==
  LET port == <<a.port \div 256, a.port % 256>>
  IN  CASE a.type # socks5Domain -> <<a.type>> \o a.host \o port
        [] a.type = socks5Domain /\ Len(a.host) <= 255 ->
             <<a.type, Len(a.host)>> \o a.host \o port
        [] OTHER -> Nil

\* The address that String writes for the bytes b.
AddrOf(b) ==
  LET PortAt(i) == b[i] * 256 + b[i + 1]
  IN  CASE ATYP(b[1]) = socks5Domain ->
             [type |-> socks5Domain, host |-> SubSeq(b, 3, 2 + b[2]),
              port |-> PortAt(3 + b[2])]
        [] ATYP(b[1]) = socks5IP4 ->
             [type |-> socks5IP4, host |-> SubSeq(b, 2, 1 + IPv4len),
              port |-> PortAt(2 + IPv4len)]
        [] ATYP(b[1]) = socks5IP6 ->
             [type |-> socks5IP6, host |-> SubSeq(b, 2, 1 + IPv6len),
              port |-> PortAt(2 + IPv6len)]

=============================================================================
