--------------------------- MODULE SocksUdp_proofs ---------------------------
(***************************************************************************)
(* What is proved of SocksAddr for every address, every name that fits and *)
(* every payload behind them: String gives back the address ParseAddr      *)
(* wrote, SplitAddr finds its end, and the two front ends agree.  Then     *)
(* what is proved of SocksUdp for every size of the buffer, all lengths of *)
(* addresses, all marks and all faults: its types, that an open socket can *)
(* be found by whoever closes the association, and that WriteFrom is given *)
(* the datagram just read and nothing of an earlier one.                   *)
(***************************************************************************)
EXTENDS SocksUdp, SequenceTheorems, TLAPS

-----------------------------------------------------------------------------
(* Bytes.                                                                  *)

LEMMA ByteNat == \A x \in Byte : x \in Nat
  BY DEF Byte

LEMMA Types ==
  /\ socks5IP4 \in Byte /\ socks5IP6 \in Byte /\ socks5Domain \in Byte
  /\ socks5IP4 # socks5IP6 /\ socks5IP4 # socks5Domain /\ socks5IP6 # socks5Domain
  /\ ATYP(socks5IP4) = socks5IP4 /\ ATYP(socks5IP6) = socks5IP6
  /\ ATYP(socks5Domain) = socks5Domain
  BY DEF ATYP, Byte, socks5IP4, socks5Domain, socks5IP6

High(port) == port \div 256
Low(port)  == port % 256

\* The two bytes of a port.
LEMMA PortBytes ==
  ASSUME NEW port \in Port
  PROVE  High(port) \in Byte /\ Low(port) \in Byte /\ High(port) * 256 + Low(port) = port
<1>1. port \in Int /\ 0 <= port /\ port <= 65535
  BY DEF Port
<1>2. High(port) \in Int /\ 0 <= High(port) /\ High(port) <= 255
  BY <1>1, Z3 DEF High
<1>3. Low(port) \in 0..255
  BY <1>1, Z3 DEF Low
<1>4. PICK high \in Int, low \in Int : high = port \div 256 /\ low = port % 256
  BY <1>2, <1>3 DEF High, Low
<1>5. high * 256 + low = port
  BY <1>1, <1>4, Z3
<1>6. High(port) * 256 + Low(port) = port
  BY <1>4, <1>5 DEF High, Low
<1> QED
  BY <1>2, <1>3, <1>6 DEF Byte

\* A host behind the bytes of its type, or of its type and length.
IPBytes(t, host, port)   == <<t>> \o host \o <<High(port), Low(port)>>
NameBytes(n, host, port) == <<socks5Domain, n>> \o host \o <<High(port), Low(port)>>

\* Byte b[i + k] is byte i of the host, which two bytes of the port follow.
Frames(b, k, host, port) ==
  /\ b \in Seq(Byte) /\ Len(b) = Len(host) + k + 2
  /\ \A i \in 1..Len(host) : b[i + k] = host[i]
  /\ b[Len(host) + k + 1] = High(port) /\ b[Len(host) + k + 2] = Low(port)

LEMMA OneByteHead ==
  ASSUME NEW t \in Byte, NEW host \in Seq(Byte), NEW port \in Port
  PROVE  /\ Frames(IPBytes(t, host, port), 1, host, port)
         /\ IPBytes(t, host, port)[1] = t
<1>1. PICK high \in Byte, low \in Byte : high = High(port) /\ low = Low(port)
  BY PortBytes
<1>2. PICK b : b = <<t>> \o host \o <<high, low>>
  OBVIOUS
<1>3. b = IPBytes(t, host, port)
  BY <1>1, <1>2, Zenon DEF IPBytes
<1>4. /\ b \in Seq(Byte) /\ Len(b) = Len(host) + 3 /\ b[1] = t
      /\ \A i \in 1..Len(host) : b[i + 1] = host[i]
      /\ b[Len(host) + 2] = high /\ b[Len(host) + 3] = low
  BY <1>2
<1>5. Frames(b, 1, host, port)
  BY <1>1, <1>4 DEF Frames
<1> QED
  BY <1>3, <1>4, <1>5, Zenon

LEMMA TwoByteHead ==
  ASSUME NEW n \in Byte, NEW host \in Seq(Byte), NEW port \in Port
  PROVE  /\ Frames(NameBytes(n, host, port), 2, host, port)
         /\ NameBytes(n, host, port)[1] = socks5Domain
         /\ NameBytes(n, host, port)[2] = n
<1>1. PICK high \in Byte, low \in Byte : high = High(port) /\ low = Low(port)
  BY PortBytes
<1>2. PICK t \in Byte : t = socks5Domain
  BY Types
<1>3. PICK b : b = <<t, n>> \o host \o <<high, low>>
  OBVIOUS
<1>4. b = NameBytes(n, host, port)
  BY <1>1, <1>2, <1>3, Zenon DEF NameBytes
<1>5. /\ b \in Seq(Byte) /\ Len(b) = Len(host) + 4 /\ b[1] = t /\ b[2] = n
      /\ \A i \in 1..Len(host) : b[i + 2] = host[i]
      /\ b[Len(host) + 3] = high /\ b[Len(host) + 4] = low
  BY <1>3
<1>6. Frames(b, 2, host, port)
  BY <1>1, <1>5 DEF Frames
<1> QED
  BY <1>2, <1>4, <1>5, <1>6, Zenon

LEMMA SameSeq ==
  ASSUME NEW s \in Seq(Byte), NEW t \in Seq(Byte), Len(s) = Len(t),
         \A i \in 1..Len(t) : s[i] = t[i]
  PROVE  s = t
  OBVIOUS

\* What SubSeq takes out of a sequence.
LEMMA Middle ==
  ASSUME NEW b \in Seq(Byte), NEW host \in Seq(Byte), NEW k \in Nat,
         Len(host) + k <= Len(b), \A i \in 1..Len(host) : b[i + k] = host[i]
  PROVE  SubSeq(b, k + 1, k + Len(host)) = host
<1> DEFINE part == SubSeq(b, k + 1, k + Len(host))
<1>1. part \in Seq(Byte) /\ Len(part) = Len(host)
  OBVIOUS
<1>2. \A i \in 1..Len(host) : part[i] = b[i + k]
  OBVIOUS
<1>3. \A i \in 1..Len(host) : part[i] = host[i]
  BY <1>2
<1> HIDE DEF part
<1>4. part = host
  BY <1>1, <1>3, SameSeq
<1> QED
  BY <1>4 DEF part

-----------------------------------------------------------------------------
(* The conversions, one kind of address at a time.                         *)

Addr(t, host, port) == [type |-> t, host |-> host, port |-> port]

LEMMA WritesIP ==
  ASSUME NEW t, NEW host, NEW port, t # socks5Domain
  PROVE  ParseAddr(Addr(t, host, port)) = IPBytes(t, host, port)
  BY Zenon DEF ParseAddr, Addr, IPBytes, High, Low

LEMMA WritesName ==
  ASSUME NEW host, NEW port, Len(host) <= 255
  PROVE  ParseAddr(Addr(socks5Domain, host, port)) = NameBytes(Len(host), host, port)
  BY Zenon DEF ParseAddr, Addr, NameBytes, High, Low

LEMMA ReadsIP ==
  ASSUME NEW b, NEW n \in Nat, NEW t, ATYP(b[1]) = t,
         (t = socks5IP4 /\ n = IPv4len) \/ (t = socks5IP6 /\ n = IPv6len)
  PROVE  AddrOf(b) = Addr(t, SubSeq(b, 2, 1 + n), b[n + 2] * 256 + b[n + 3])
<1>1. 2 + n = n + 2 /\ 2 + n + 1 = n + 3
  OBVIOUS
<1>2. AddrOf(b) = Addr(t, SubSeq(b, 2, 1 + n), b[2 + n] * 256 + b[2 + n + 1])
  <2>1. CASE t = socks5IP4 /\ n = IPv4len
    <3>1. ATYP(b[1]) = socks5IP4
      BY <2>1
    <3>2. AddrOf(b) = Addr(socks5IP4, SubSeq(b, 2, 1 + IPv4len),
                           b[2 + IPv4len] * 256 + b[2 + IPv4len + 1])
      BY <3>1, Types, Zenon DEF AddrOf, Addr
    <3> QED
      BY <2>1, <3>2
  <2>2. CASE t = socks5IP6 /\ n = IPv6len
    <3>1. ATYP(b[1]) = socks5IP6
      BY <2>2
    <3>2. AddrOf(b) = Addr(socks5IP6, SubSeq(b, 2, 1 + IPv6len),
                           b[2 + IPv6len] * 256 + b[2 + IPv6len + 1])
      BY <3>1, Types, Zenon DEF AddrOf, Addr
    <3> QED
      BY <2>2, <3>2
  <2> QED
    BY <2>1, <2>2
<1> QED
  BY <1>1, <1>2

LEMMA ReadsName ==
  ASSUME NEW b, NEW n \in Nat, ATYP(b[1]) = socks5Domain, b[2] = n
  PROVE  AddrOf(b) = Addr(socks5Domain, SubSeq(b, 3, 2 + n),
                          b[n + 3] * 256 + b[n + 4])
<1>1. AddrOf(b) = Addr(socks5Domain, SubSeq(b, 3, 2 + b[2]),
                       b[3 + b[2]] * 256 + b[3 + b[2] + 1])
  BY Types, Zenon DEF AddrOf, Addr
<1>2. 3 + n = n + 3 /\ 3 + n + 1 = n + 4
  OBVIOUS
<1> QED
  BY <1>1, <1>2

LEMMA Fields ==
  ASSUME NEW type, NEW hosts, NEW a \in AddressOf(type, hosts)
  PROVE  /\ a.type = type /\ a.host \in hosts /\ a.port \in Port
         /\ a = Addr(type, a.host, a.port)
<1>1. a \in [type : {type}, host : hosts, port : Port]
  BY DEF AddressOf
<1> QED
  BY <1>1 DEF Addr

\* The bytes of an address are as long as their head says and name that address.
WellWritten(a) ==
  /\ ParseAddr(a) \in Seq(Byte) /\ Len(ParseAddr(a)) > 1
  /\ AddrLen(ParseAddr(a)) = Len(ParseAddr(a))
  /\ AddrOf(ParseAddr(a)) = a

LEMMA IPComesBack ==
  ASSUME NEW n \in Nat, NEW t,
         (t = socks5IP4 /\ n = IPv4len) \/ (t = socks5IP6 /\ n = IPv6len),
         NEW host \in [1..n -> Byte], NEW port \in Port
  PROVE  WellWritten(Addr(t, host, port))
<1>1. host \in Seq(Byte) /\ Len(host) = n
  OBVIOUS
<1>2. t \in Byte /\ ATYP(t) = t /\ t # socks5Domain
  BY Types
<1>3. PICK b : b = IPBytes(t, host, port)
  OBVIOUS
<1>4. ParseAddr(Addr(t, host, port)) = b
  BY <1>2, <1>3, WritesIP
<1>5. /\ b \in Seq(Byte) /\ Len(b) = n + 3 /\ b[1] = t
      /\ \A i \in 1..n : b[i + 1] = host[i]
      /\ b[n + 2] = High(port) /\ b[n + 3] = Low(port)
  <2>1. Frames(b, 1, host, port) /\ b[1] = t
    BY <1>1, <1>2, <1>3, OneByteHead
  <2> QED
    BY <1>1, <2>1 DEF Frames
<1>6. ATYP(b[1]) = t
  BY <1>2, <1>5
<1>7. AddrLen(b) = n + 3
  <2>1. Len(b) # 0 /\ Len(b) > 0 /\ 1 + n + 2 = n + 3
    BY <1>5
  <2> QED
    BY <1>6, <2>1, Types DEF AddrLen
<1>8. SubSeq(b, 2, 1 + n) = host
  <2>1. SubSeq(b, 1 + 1, 1 + Len(host)) = host
    BY <1>1, <1>5, Middle
  <2> QED
    BY <1>1, <2>1
<1>9. AddrOf(b) = Addr(t, host, port)
  <2>1. b[n + 2] * 256 + b[n + 3] = port
    BY <1>5, PortBytes
  <2>2. AddrOf(b) = Addr(t, SubSeq(b, 2, 1 + n), b[n + 2] * 256 + b[n + 3])
    BY <1>6, ReadsIP
  <2> QED
    BY <1>8, <2>1, <2>2
<1>10. Len(b) > 1 /\ AddrLen(b) = Len(b)
  BY <1>5, <1>7
<1> QED
  BY <1>4, <1>5, <1>9, <1>10 DEF WellWritten

LEMMA NameComesBack ==
  ASSUME NEW host \in Seq(Byte), Len(host) <= 255, NEW port \in Port
  PROVE  WellWritten(Addr(socks5Domain, host, port))
<1>1. PICK n \in Nat : n = Len(host)
  OBVIOUS
<1>2. n \in Nat /\ n <= 255 /\ n \in Byte
  <2>1. n <= 255
    BY <1>1
  <2> QED
    BY <2>1 DEF Byte
<1>3. PICK b : b = NameBytes(n, host, port)
  OBVIOUS
<1>4. ParseAddr(Addr(socks5Domain, host, port)) = b
  BY <1>1, <1>3, WritesName
<1>5. /\ b \in Seq(Byte) /\ Len(b) = n + 4 /\ b[1] = socks5Domain /\ b[2] = n
      /\ \A i \in 1..n : b[i + 2] = host[i]
      /\ b[n + 3] = High(port) /\ b[n + 4] = Low(port)
  <2>1. Frames(b, 2, host, port) /\ b[1] = socks5Domain /\ b[2] = n
    BY <1>2, <1>3, TwoByteHead
  <2> QED
    BY <1>1, <2>1 DEF Frames
<1>6. ATYP(b[1]) = socks5Domain
  BY <1>5, Types
<1>7. AddrLen(b) = n + 4
  <2>1. Len(b) # 0 /\ Len(b) > 1 /\ 1 + 1 + n + 2 = n + 4
    BY <1>2, <1>5
  <2> QED
    BY <1>5, <1>6, <2>1, Types DEF AddrLen
<1>8. SubSeq(b, 3, 2 + n) = host
  <2>1. SubSeq(b, 2 + 1, 2 + Len(host)) = host
    BY <1>1, <1>5, Middle
  <2> QED
    BY <1>1, <2>1
<1>9. AddrOf(b) = Addr(socks5Domain, host, port)
  <2>1. b[n + 3] * 256 + b[n + 4] = port
    BY <1>5, PortBytes
  <2>2. AddrOf(b) = Addr(socks5Domain, SubSeq(b, 3, 2 + n),
                         b[n + 3] * 256 + b[n + 4])
    BY <1>2, <1>5, <1>6, ReadsName
  <2> QED
    BY <1>8, <2>1, <2>2
<1>10. Len(b) > 1 /\ AddrLen(b) = Len(b)
  BY <1>2, <1>5, <1>7
<1> QED
  BY <1>4, <1>5, <1>9, <1>10 DEF WellWritten

\* SplitAddr cuts an address off what follows it.
LEMMA SplitsOff ==
  ASSUME NEW b \in Seq(Byte), NEW rest \in Seq(Byte), AddrLen(b) = Len(b),
         Len(b) > 1
  PROVE  SplitAddr(b \o rest) = b
<1> DEFINE whole == b \o rest
<1>1. /\ whole \in Seq(Byte) /\ Len(whole) = Len(b) + Len(rest)
      /\ \A i \in 1..Len(b) : whole[i] = b[i]
  BY DEF Byte
<1>2. Len(b) \in Nat /\ Len(rest) \in Nat
  OBVIOUS
<1>3. AddrLen(whole) = AddrLen(b)
  BY <1>1, <1>2 DEF AddrLen
<1>4. SubSeq(whole, 1, Len(b)) = b
  BY <1>1, <1>2
<1> QED
  BY <1>1, <1>2, <1>3, <1>4 DEF SplitAddr, Nil

-----------------------------------------------------------------------------
\* Whatever payload follows an address that ParseAddr wrote, SplitAddr finds where
\* it ends and String gives the address back: a datagram of the association names
\* the remote it is from (ParseAddr, SplitAddr, String of proxy/socks/socks.go).
THEOREM AddressComesBack ==
  \A a \in Address, payload \in Seq(Byte) :
    (a.type = socks5Domain => Len(a.host) <= 255)
      => /\ SplitAddr(ParseAddr(a) \o payload) = ParseAddr(a)
         /\ AddrOf(ParseAddr(a)) = a
<1> SUFFICES ASSUME NEW a \in Address, NEW payload \in Seq(Byte),
                    a.type = socks5Domain => Len(a.host) <= 255
             PROVE  /\ SplitAddr(ParseAddr(a) \o payload) = ParseAddr(a)
                    /\ AddrOf(ParseAddr(a)) = a
  OBVIOUS
<1>1. WellWritten(a)
  <2>1. CASE a \in AddressOf(socks5IP4, [1..IPv4len -> Byte])
    <3>1. /\ a.host \in [1..IPv4len -> Byte] /\ a.port \in Port
          /\ a = Addr(socks5IP4, a.host, a.port)
      BY <2>1, Fields
    <3>2. WellWritten(Addr(socks5IP4, a.host, a.port))
      BY <3>1, IPComesBack, LengthsAssumption
    <3> QED
      BY <3>1, <3>2
  <2>2. CASE a \in AddressOf(socks5IP6, [1..IPv6len -> Byte])
    <3>1. /\ a.host \in [1..IPv6len -> Byte] /\ a.port \in Port
          /\ a = Addr(socks5IP6, a.host, a.port)
      BY <2>2, Fields
    <3>2. WellWritten(Addr(socks5IP6, a.host, a.port))
      BY <3>1, IPComesBack, LengthsAssumption
    <3> QED
      BY <3>1, <3>2
  <2>3. CASE a \in AddressOf(socks5Domain, Seq(Byte))
    <3>1. /\ a.type = socks5Domain /\ a.host \in Seq(Byte) /\ a.port \in Port
          /\ a = Addr(socks5Domain, a.host, a.port)
      BY <2>3, Fields
    <3>2. WellWritten(Addr(socks5Domain, a.host, a.port))
      BY <3>1, NameComesBack
    <3> QED
      BY <3>1, <3>2
  <2> QED
    BY <2>1, <2>2, <2>3 DEF Address
<1>2. SplitAddr(ParseAddr(a) \o payload) = ParseAddr(a)
  BY <1>1, SplitsOff, Zenon DEF WellWritten
<1> QED
  BY <1>1, <1>2, Zenon DEF WellWritten

\* The two front ends agree: readAddr takes from a stream what SplitAddr takes from
\* the same bytes of a datagram, and both fail on the same bytes.
THEOREM SameAddr == \A b \in Seq(Byte) : readAddr(b) = SplitAddr(b)
<1> SUFFICES ASSUME NEW b \in Seq(Byte) PROVE readAddr(b) = SplitAddr(b)
  OBVIOUS
<1> USE Types
<1>1. CASE Len(b) = 0
  <2>1. readAddr(b) = Nil /\ AddrLen(b) = 0
    <3>1. ~(Len(b) > 0) /\ ~(Len(b) > 1)
      BY <1>1
    <3> QED
      BY <1>1, <3>1, Zenon DEF readAddr, AddrLen
  <2> QED
    BY <2>1, Zenon DEF SplitAddr
<1>2. CASE Len(b) = 1 /\ ATYP(b[1]) = socks5Domain
  <2>1. Len(b) < 2 /\ Len(b) # 0 /\ Len(b) > 0 /\ ~(Len(b) > 1)
    BY <1>2
  <2>2. readAddr(b) = Nil /\ AddrLen(b) = 0
    BY <1>2, <2>1, Zenon DEF readAddr, AddrLen
  <2> QED
    BY <2>2, Zenon DEF SplitAddr
<1>3. CASE Len(b) > 1 /\ ATYP(b[1]) = socks5Domain
  <2>1. ~(Len(b) < 2) /\ Len(b) # 0 /\ Len(b) > 0
    BY <1>3
  <2>2. readAddr(b) = IF Len(b) < 2 + b[2] + 2 THEN Nil
                      ELSE SubSeq(b, 1, 2 + b[2] + 2)
    BY <1>3, <2>1, Zenon DEF readAddr
  <2>3. AddrLen(b) = 1 + 1 + b[2] + 2
    BY <1>3, <2>1, Zenon DEF AddrLen
  <2>4. b[2] \in Nat
    BY <1>3, ByteNat
  <2>5. AddrLen(b) = 2 + b[2] + 2 /\ AddrLen(b) # 0
    BY <2>3, <2>4
  <2> QED
    BY <2>2, <2>5, Zenon DEF SplitAddr
<1>4. CASE Len(b) > 0 /\ ATYP(b[1]) \in {socks5IP4, socks5IP6}
  <2>1. PICK n \in Nat : \/ n = IPv4len /\ ATYP(b[1]) = socks5IP4
                         \/ n = IPv6len /\ ATYP(b[1]) = socks5IP6
    BY <1>4, LengthsAssumption
  <2>2. Len(b) # 0
    BY <1>4
  <2>3. readAddr(b) = IF Len(b) < 1 + n + 2 THEN Nil ELSE SubSeq(b, 1, 1 + n + 2)
    BY <1>4, <2>1, <2>2, Zenon DEF readAddr
  <2>4. AddrLen(b) = 1 + n + 2
    BY <1>4, <2>1, <2>2, Zenon DEF AddrLen
  <2>5. AddrLen(b) # 0
    BY <2>4
  <2> QED
    BY <2>3, <2>4, <2>5, Zenon DEF SplitAddr
<1>5. CASE Len(b) > 0 /\ ATYP(b[1]) \notin {socks5Domain, socks5IP4, socks5IP6}
  <2>1. Len(b) # 0
    BY <1>5
  <2>2. readAddr(b) = Nil /\ AddrLen(b) = 0
    BY <1>5, <2>1, Zenon DEF readAddr, AddrLen
  <2> QED
    BY <2>2, Zenon DEF SplitAddr
<1>6. Len(b) = 0 \/ Len(b) = 1 \/ Len(b) > 1
  OBVIOUS
<1>7. Len(b) # 0 => Len(b) > 0
  OBVIOUS
<1> QED
  BY <1>1, <1>2, <1>3, <1>4, <1>5, <1>6, <1>7

-----------------------------------------------------------------------------
(* The invariant of the association.                                       *)

\* connectInternal before it calls net.ListenPacket.
Early == {"dial", "method", "reply", "address", "resolve", "spawn"}

\* Nothing is in the maps that was not stored, and nothing open is forgotten.
MapsOK ==
  /\ maps \in {{}, Maps}
  /\ dial \in Early => worker["tcp"] = "none"
  /\ dial \in Early \cup {"listen"} => relay = "none" /\ maps = {}
  /\ SocketsFound

\* The buffer begins with the datagram.
FrontOK ==
  worker["udp"] \in {"split", "write"} =>
    /\ Len(received) <= Size
    /\ \A i \in 1..Len(received) : buf[i] = received[i]

\* The inductive invariant.
IInv == TypeOK /\ MapsOK /\ FrontOK /\ HandedIsReceived

-----------------------------------------------------------------------------
(* The datagrams.                                                          *)

LEMMA HandshakeSteps ==
  ASSUME NEW i \in 1..5
  PROVE  Handshake[i] \in Early /\ Handshake[i + 1] \in Early
  BY DEF Handshake, Early

LEMMA HandshakeSet == ToSet(Handshake) = Early
  BY DEF ToSet, Handshake, Early

LEMMA HeaderBytes == Header \in Seq(Byte)
  BY DEF Header, Byte

LEMMA OneByte == \A m \in Byte : <<m>> \in Seq(Byte) /\ Len(<<m>>) = 1
  OBVIOUS

LEMMA Made ==
  ASSUME NEW kind, NEW hosts, NEW host \in hosts, NEW port \in Port
  PROVE  [type |-> kind, host |-> host, port |-> port] \in AddressOf(kind, hosts)
  BY DEF AddressOf

LEMMA MarkedAddress ==
  ASSUME NEW m \in Marks, NEW a \in Some(m)
  PROVE  ParseAddr(a) \in Seq(Byte)
<1>1. m \in Byte /\ m \in Port
  BY BoundsAssumption DEF Byte, Port
<1>2. \/ a \in AddressOf(socks5IP4, [1..IPv4len -> Byte])
      \/ a \in AddressOf(socks5Domain, Seq(Byte)) /\ Len(a.host) <= 255
  <2>1. CASE a = [type |-> socks5IP4, host |-> [i \in 1..IPv4len |-> m], port |-> m]
    <3>1. [i \in 1..IPv4len |-> m] \in [1..IPv4len -> Byte]
      BY <1>1
    <3>2. a \in AddressOf(socks5IP4, [1..IPv4len -> Byte])
      BY <1>1, <2>1, <3>1, Made, Zenon
    <3> QED
      BY <3>2
  <2>2. CASE a = [type |-> socks5Domain, host |-> <<m>>, port |-> m]
    <3>1. <<m>> \in Seq(Byte) /\ Len(<<m>>) = 1
      BY <1>1, OneByte
    <3>2. a \in AddressOf(socks5Domain, Seq(Byte))
      BY <1>1, <2>2, <3>1, Made, Zenon
    <3>3. a.host = <<m>>
      BY <2>2
    <3>4. Len(a.host) <= 255
      BY <3>1, <3>3
    <3> QED
      BY <3>2, <3>4
  <2> QED
    BY <2>1, <2>2 DEF Some
<1>3. WellWritten(a)
  <2>1. CASE a \in AddressOf(socks5IP4, [1..IPv4len -> Byte])
    <3>1. /\ a.type = socks5IP4 /\ a.host \in [1..IPv4len -> Byte] /\ a.port \in Port
          /\ a = Addr(socks5IP4, a.host, a.port)
      BY <2>1, Fields
    <3>2. WellWritten(Addr(socks5IP4, a.host, a.port))
      BY <3>1, IPComesBack, LengthsAssumption
    <3> QED
      BY <3>1, <3>2
  <2>2. CASE a \in AddressOf(socks5Domain, Seq(Byte)) /\ Len(a.host) <= 255
    <3>1. /\ a.type = socks5Domain /\ a.host \in Seq(Byte) /\ a.port \in Port
          /\ a = Addr(socks5Domain, a.host, a.port)
      BY <2>2, Fields
    <3>2. WellWritten(Addr(socks5Domain, a.host, a.port))
      BY <2>2, <3>1, NameComesBack
    <3> QED
      BY <3>1, <3>2
  <2> QED
    BY <1>2, <2>1, <2>2
<1> QED
  BY <1>3, Zenon DEF WellWritten

LEMMA DatagramBytes == \A d \in Datagrams : d \in Seq(Byte)
<1>1. ASSUME NEW d \in Whole PROVE d \in Seq(Byte)
  <2>1. PICK m \in Marks : \E a \in Some(m) : d = Header \o ParseAddr(a) \o <<m>>
    BY DEF Whole
  <2>2. PICK a \in Some(m) : d = Header \o ParseAddr(a) \o <<m>>
    BY <2>1
  <2>3. m \in Byte /\ ParseAddr(a) \in Seq(Byte)
    BY BoundsAssumption, MarkedAddress
  <2> QED
    BY <2>2, <2>3, HeaderBytes
<1>2. ASSUME NEW d \in Odd PROVE d \in Seq(Byte)
  <2>1. PICK w \in Whole : \E n \in 0..Len(w) : d = SubSeq(w, 1, n)
    BY DEF Odd
  <2>2. w \in Seq(Byte)
    BY <1>1
  <2> QED
    BY <2>1, <2>2
<1> QED
  BY <1>1, <1>2 DEF Datagrams

\* What ReadFrom leaves behind.
LEMMA ReadEffect ==
  ASSUME NEW d \in Seq(Byte), buf \in [1..Size -> Byte]
  PROVE  /\ Fitting(d) \in Seq(Byte) /\ Len(Fitting(d)) <= Size
         /\ Read(d) \in [1..Size -> Byte]
         /\ \A i \in 1..Len(Fitting(d)) : Read(d)[i] = Fitting(d)[i]
<1> USE BoundsAssumption DEF Read
<1>1. PICK n \in Nat : n <= Len(d) /\ n <= Size /\ Fitting(d) = SubSeq(d, 1, n)
  BY DEF Fitting
<1>2. /\ Fitting(d) \in Seq(Byte) /\ Len(Fitting(d)) = n
      /\ \A i \in 1..n : Fitting(d)[i] = d[i]
  BY <1>1
<1>3. Read(d) \in [1..Size -> Byte]
  <2>1. ASSUME NEW i \in 1..Size PROVE (IF i <= Len(d) THEN d[i] ELSE buf[i]) \in Byte
    OBVIOUS
  <2> QED
    BY <2>1
<1>4. \A i \in 1..n : Read(d)[i] = d[i]
  BY <1>1
<1> QED
  BY <1>1, <1>2, <1>3, <1>4

LEMMA SplitAddrType ==
  ASSUME NEW b \in Seq(Byte)
  PROVE  \/ SplitAddr(b) = Nil
         \/ \E n \in 1..Len(b) : SplitAddr(b) = SubSeq(b, 1, n)
<1>1. AddrLen(b) \in Nat
  BY LengthsAssumption, ByteNat DEF AddrLen
<1> QED
  BY <1>1 DEF SplitAddr

LEMMA SplitAddrSeq ==
  ASSUME NEW b \in Seq(Byte)
  PROVE  SplitAddr(b) \in Seq(Byte) /\ Len(SplitAddr(b)) \in Nat
<1>1. ASSUME NEW addr, addr = Nil \/ \E n \in 1..Len(b) : addr = SubSeq(b, 1, n)
      PROVE  addr \in Seq(Byte) /\ Len(addr) \in Nat
  <2>1. CASE addr = Nil
    BY <2>1 DEF Nil
  <2>2. CASE \E n \in 1..Len(b) : addr = SubSeq(b, 1, n)
    BY <2>2
  <2> QED
    BY <1>1, <2>1, <2>2
<1> QED
  BY <1>1, SplitAddrType, Zenon

LEMMA Joined ==
  ASSUME NEW x \in Seq(Byte), NEW y \in Seq(Byte)
  PROVE  /\ x \o y \in Seq(Byte) /\ Len(x \o y) = Len(x) + Len(y)
         /\ \A i \in 1..Len(x) : (x \o y)[i] = x[i]
         /\ \A i \in 1..Len(y) : (x \o y)[Len(x) + i] = y[i]
<1>1. PICK xy : xy = x \o y
  OBVIOUS
<1>2. /\ xy \in Seq(Byte) /\ Len(xy) = Len(x) + Len(y)
      /\ \A i \in 1..Len(x) + Len(y) :
           xy[i] = IF i <= Len(x) THEN x[i] ELSE y[i - Len(x)]
  BY <1>1, ConcatProperties, Zenon
<1>3. Len(x) \in Nat /\ Len(y) \in Nat
  OBVIOUS
<1>4. ASSUME NEW i \in 1..Len(x) PROVE xy[i] = x[i]
  BY <1>2, <1>3
<1>5. ASSUME NEW i \in 1..Len(y) PROVE xy[Len(x) + i] = y[i]
  <2>1. /\ Len(x) + i \in 1..Len(x) + Len(y) /\ ~(Len(x) + i <= Len(x))
        /\ (Len(x) + i) - Len(x) = i
    BY <1>3
  <2> QED
    BY <1>2, <2>1, Zenon
<1> QED
  BY <1>1, <1>2, <1>4, <1>5, Zenon

\* x is the n bytes of b behind the first k.
IsPart(x, b, k, n) ==
  x \in Seq(Byte) /\ Len(x) = n /\ \A i \in 1..n : x[i] = b[k + i]

LEMMA Piece ==
  ASSUME NEW b \in Seq(Byte), NEW k \in Nat, NEW n \in Nat, k + n <= Len(b)
  PROVE  IsPart(SubSeq(b, k + 1, k + n), b, k, n)
  BY DEF IsPart

\* Two neighbouring pieces are one.
LEMMA Neighbours ==
  ASSUME NEW b, NEW k \in Nat, NEW n \in Nat, NEW m \in Nat,
         NEW x, IsPart(x, b, k, n), NEW y, IsPart(y, b, k + n, m)
  PROVE  IsPart(x \o y, b, k, n + m)
<1> USE DEF IsPart
<1>1. PICK xy : xy = x \o y
  OBVIOUS
<1>2. /\ xy \in Seq(Byte) /\ Len(xy) = n + m
      /\ \A i \in 1..n : xy[i] = x[i]
      /\ \A i \in 1..m : xy[n + i] = y[i]
  BY <1>1, Joined, Zenon
<1>3. ASSUME NEW i \in 1..n + m PROVE xy[i] = b[k + i]
  <2>1. CASE i \in 1..n
    BY <1>2, <2>1
  <2>2. CASE i \notin 1..n
    <3>1. i - n \in 1..m /\ n + (i - n) = i /\ (k + n) + (i - n) = k + i
      BY <2>2
    <3>2. y[i - n] = b[(k + n) + (i - n)]
      BY <3>1, Zenon
    <3>3. xy[n + (i - n)] = y[i - n]
      BY <1>2, <3>1, Zenon
    <3> QED
      BY <3>1, <3>2, <3>3, Zenon
  <2> QED
    BY <2>1, <2>2
<1> QED
  BY <1>1, <1>2, <1>3, Zenon

\* A sequence is its first three elements, the next n and the rest.
LEMMA ThreeParts ==
  ASSUME NEW b \in Seq(Byte), NEW r \in Seq(Byte), Len(r) <= Len(b),
         \A i \in 1..Len(r) : b[i] = r[i],
         NEW n \in Nat, 3 + n <= Len(r)
  PROVE  r = SubSeq(b, 1, 3) \o SubSeq(SubSeq(b, 4, Len(b)), 1, n)
               \o SubSeq(b, 4 + n, Len(r))
<1>1. PICK x, w, y, z : /\ x = SubSeq(b, 1, 3) /\ w = SubSeq(b, 4, Len(b))
                        /\ y = SubSeq(w, 1, n) /\ z = SubSeq(b, 4 + n, Len(r))
  OBVIOUS
<1>2. PICK m \in Nat, tail \in Nat : m = Len(r) - (3 + n) /\ tail = Len(b) - 3
  <2>1. Len(r) - (3 + n) \in Nat /\ Len(b) - 3 \in Nat
    OBVIOUS
  <2> QED
    BY <2>1
<1>3. IsPart(x, b, 0, 3)
  <2>1. IsPart(SubSeq(b, 0 + 1, 0 + 3), b, 0, 3)
    BY Piece
  <2> QED
    BY <1>1, <2>1
<1>4. IsPart(w, b, 3, tail)
  <2>1. 3 + tail = Len(b)
    BY <1>2
  <2>2. IsPart(SubSeq(b, 3 + 1, 3 + tail), b, 3, tail)
    BY <2>1, Piece
  <2> QED
    BY <1>1, <2>1, <2>2
<1>5. IsPart(y, b, 3, n)
  <2>1. w \in Seq(Byte) /\ Len(w) = tail /\ \A i \in 1..tail : w[i] = b[3 + i]
    BY <1>4 DEF IsPart
  <2>2. 0 + n <= Len(w)
    BY <1>2, <2>1
  <2>3. IsPart(SubSeq(w, 0 + 1, 0 + n), w, 0, n)
    BY <2>1, <2>2, Piece
  <2>4. y \in Seq(Byte) /\ Len(y) = n /\ \A i \in 1..n : y[i] = w[i]
    BY <1>1, <2>3 DEF IsPart
  <2> QED
    BY <1>2, <2>1, <2>4 DEF IsPart
<1>6. IsPart(z, b, 3 + n, m)
  <2>1. 3 + n \in Nat /\ (3 + n) + m = Len(r) /\ (3 + n) + m <= Len(b)
    BY <1>2
  <2>2. IsPart(SubSeq(b, (3 + n) + 1, (3 + n) + m), b, 3 + n, m)
    BY <1>2, <2>1, Piece, Zenon
  <2>3. (3 + n) + 1 = 4 + n
    OBVIOUS
  <2> QED
    BY <1>1, <2>1, <2>2, <2>3, Zenon
<1>7. IsPart(x \o y, b, 0, 3 + n)
  <2>1. 0 + 3 = 3 /\ 0 \in Nat /\ 3 \in Nat
    OBVIOUS
  <2>2. IsPart(y, b, 0 + 3, n)
    BY <1>5, <2>1
  <2> QED
    BY <1>3, <2>1, <2>2, Neighbours, Zenon
<1>8. IsPart((x \o y) \o z, b, 0, Len(r))
  <2>1. 0 + (3 + n) = 3 + n /\ 0 \in Nat /\ 3 + n \in Nat /\ (3 + n) + m = Len(r)
    BY <1>2
  <2>2. IsPart(z, b, 0 + (3 + n), m)
    BY <1>6, <2>1
  <2>3. IsPart((x \o y) \o z, b, 0, (3 + n) + m)
    BY <1>2, <1>7, <2>1, <2>2, Neighbours, Zenon
  <2> QED
    BY <2>1, <2>3
<1>9. PICK all : all = (x \o y) \o z
  OBVIOUS
<1>10. /\ all \in Seq(Byte) /\ Len(all) = Len(r)
       /\ \A i \in 1..Len(r) : all[i] = b[0 + i]
  BY <1>8, <1>9, Zenon DEF IsPart
<1>11. \A i \in 1..Len(r) : all[i] = r[i]
  BY <1>10
<1>12. all = r
  BY <1>10, <1>11, SameSeq
<1> QED
  BY <1>1, <1>9, <1>12

-----------------------------------------------------------------------------
(* The invariant is inductive.                                             *)

LEMMA Initial == Init => IInv
<1> SUFFICES ASSUME Init PROVE IInv
  OBVIOUS
<1>1. "dial" \in Early /\ 0 \in Byte /\ Nil \in Seq(Byte)
  BY DEF Early, Byte, Nil
<1>2. TypeOK
  <2>1. buf \in [1..Size -> Byte]
    BY <1>1 DEF Init
  <2>2. handed.addr \in Seq(Byte) /\ handed.payload \in Seq(Byte)
    BY <1>1 DEF Init, None
  <2> QED
    BY <1>1, <2>1, <2>2, HandshakeSet DEF Init, TypeOK, Workers, Senders
<1>3. MapsOK
  BY DEF Init, MapsOK, SocketsFound, Workers
<1>4. FrontOK /\ HandedIsReceived
  BY DEF Init, FrontOK, HandedIsReceived, Workers
<1> QED
  BY <1>2, <1>3, <1>4 DEF IInv

\* Every step but those of fetchUDPInput leaves its data alone.
LEMMA TypeStep == IInv /\ [Next]_vars => TypeOK'
<1> SUFFICES ASSUME IInv, [Next]_vars PROVE TypeOK'
  OBVIOUS
<1> USE HandshakeSet DEF IInv, TypeOK, Early, sockVars, sendVars, dataVars, Alive,
        Workers, Senders
<1>1. CASE UNCHANGED vars
  BY <1>1 DEF vars
<1>2. CASE DialSteps
  <2>1. dial' \in Early
    BY <1>2, HandshakeSteps DEF DialSteps
  <2> QED
    BY <1>2, <2>1 DEF DialSteps
<1>3. CASE DialFails
  BY <1>3 DEF DialFails
<1>4. CASE DialSpawns
  BY <1>4 DEF DialSpawns
<1>5. CASE DialListens
  BY <1>5 DEF DialListens
<1>6. CASE DialStores
  BY <1>6 DEF DialStores, Stored
<1>7. CASE Connected
  BY <1>7 DEF Connected
<1>8. CASE ServerEnds
  BY <1>8 DEF ServerEnds
<1>9. CASE UdpReads
  <2>1. PICK d \in Datagrams : received' = Fitting(d) /\ buf' = Read(d)
    BY <1>9 DEF UdpReads
  <2>2. received' \in Seq(Byte) /\ buf' \in [1..Size -> Byte]
    BY <2>1, DatagramBytes, ReadEffect
  <2> QED
    BY <1>9, <2>2 DEF UdpReads, At
<1>10. CASE UdpSplits
  <2>1. UNCHANGED <<conn, dial, sockVars, sendVars, buf, received>>
    BY <1>10 DEF UdpSplits
  <2>2. /\ worker' \in [Workers -> {"none", "run", "split", "write", "close",
                                    "forget", "done"}]
        /\ crashed' \in BOOLEAN
    BY <1>10 DEF UdpSplits, At
  <2>3. handed'.addr \in Seq(Byte) /\ handed'.payload \in Seq(Byte)
    <3> DEFINE b == SubSeq(buf, 4, Size)
               addr == SplitAddr(b)
    <3>1. handed' = handed \/ handed' = [addr |-> addr, payload |-> Payload(addr)]
      BY <1>10 DEF UdpSplits
    <3>2. PICK m \in Nat : m = Len(received) /\ m <= Size
      BY <1>10 DEF UdpSplits, FrontOK
    <3>3. buf \in Seq(Byte) /\ Len(buf) = Size
      BY BoundsAssumption
    <3>4. b \in Seq(Byte)
      BY <3>3
    <3> HIDE DEF b
    <3>5. addr \in Seq(Byte) /\ Len(addr) \in Nat
      BY <3>4, SplitAddrSeq, Zenon
    <3> HIDE DEF addr
    <3>6. Payload(addr) \in Seq(Byte)
      BY <3>2, <3>3, <3>5 DEF Payload
    <3> QED
      BY <3>1, <3>5, <3>6
  <2> QED
    BY <2>1, <2>2, <2>3
<1>11. CASE UdpWrites
  BY <1>11 DEF UdpWrites, At
<1>12. ASSUME NEW w \in Workers, Ends(w) PROVE TypeOK'
  BY <1>12 DEF Ends, WorkerCloses, TcpReadFails, UdpReadFails, ClosesConn,
               ForgetsConn, CloseSockets, At
<1>13. ASSUME NEW s \in Senders, Send(s) PROVE TypeOK'
  <2>1. CASE SendLooks(s)
    <3>1. PICK found \in BOOLEAN : looked' = [looked EXCEPT ![s] = found]
      BY <2>1, Zenon DEF SendLooks
    <3>2. looked' \in [Senders -> BOOLEAN]
      BY <3>1, Zenon
    <3> QED
      BY <2>1, <3>2 DEF SendLooks, SendAt
  <2>2. CASE SendWrites(s)
    BY <2>2 DEF SendWrites, SendAt
  <2>3. CASE SendCloses(s)
    BY <2>3 DEF SendCloses, ClosesConn, ForgetsConn, CloseSockets, SendAt
  <2> QED
    BY <1>13, <2>1, <2>2, <2>3 DEF Send
<1> QED
  BY <1>1, <1>2, <1>3, <1>4, <1>5, <1>6, <1>7, <1>8, <1>9, <1>10, <1>11, <1>12, <1>13
     DEF Next, Dial

\* Close forgets a connection only with its sockets closed.
LEMMA Forgets ==
  ASSUME TypeOK, MapsOK, ForgetsConn, dial' = dial,
         worker'["tcp"] = "none" <=> worker["tcp"] = "none"
  PROVE  MapsOK'
<1> USE DEF MapsOK, SocketsFound, Early, Maps
<1>1. maps = {} \/ maps = {"tcpConns", "udpConns", "remoteAddrs"}
  OBVIOUS
<1>2. /\ maps' = {}
      /\ ctl' = IF "tcpConns" \in maps THEN "closed" ELSE ctl
      /\ relay' = IF "udpConns" \in maps THEN "closed" ELSE relay
  BY DEF ForgetsConn, CloseSockets
<1>3. CASE maps = {}
  BY <1>2, <1>3
<1>4. CASE maps = {"tcpConns", "udpConns", "remoteAddrs"}
  <2>1. ctl' = "closed" /\ relay' = "closed"
    BY <1>2, <1>4
  <2>2. dial \notin Early \cup {"listen"}
    BY <1>4
  <2> QED
    BY <1>2, <2>1, <2>2
<1> QED
  BY <1>1, <1>3, <1>4

LEMMA MapsStep == IInv /\ [Next]_vars => MapsOK'
<1> SUFFICES ASSUME IInv, [Next]_vars PROVE MapsOK'
  OBVIOUS
<1> USE DEF IInv, MapsOK, SocketsFound, Early, sockVars, sendVars, Alive
<1>1. worker \in [Workers -> {"none", "run", "split", "write", "close", "forget", "done"}]
  BY DEF TypeOK
<1> USE DEF Workers, Maps
<1>2. CASE UNCHANGED vars
  BY <1>2 DEF vars
<1>3. CASE DialSteps
  BY <1>3, HandshakeSteps DEF DialSteps
<1>4. CASE DialFails
  BY <1>4 DEF DialFails
<1>5. CASE DialSpawns
  BY <1>1, <1>5 DEF DialSpawns
<1>6. CASE DialListens
  BY <1>6 DEF DialListens
<1>7. CASE DialStores
  BY <1>1, <1>7 DEF DialStores, Stored
<1>8. CASE Connected
  BY <1>8 DEF Connected
<1>9. CASE ServerEnds
  BY <1>9 DEF ServerEnds
<1>10. CASE UdpReads \/ UdpSplits \/ UdpWrites
  <2>1. UNCHANGED <<conn, dial, sockVars>> \/ UNCHANGED <<dial, sockVars>>
    BY <1>10 DEF UdpReads, UdpSplits, UdpWrites
  <2>2. worker'["tcp"] = worker["tcp"]
    BY <1>1, <1>10 DEF UdpReads, UdpSplits, UdpWrites, At
  <2> QED
    BY <2>1, <2>2
<1>11. ASSUME NEW w \in Workers, Ends(w) PROVE MapsOK'
  <2>1. CASE TcpReadFails \/ UdpReadFails
    BY <1>1, <2>1 DEF TcpReadFails, UdpReadFails, At
  <2>2. CASE WorkerCloses(w)
    <3>1. CASE ClosesConn
      BY <1>1, <2>2, <3>1 DEF WorkerCloses, ClosesConn, At
    <3>2. CASE ForgetsConn /\ worker[w] = "forget" /\ At(w, "done")
      <4>1. dial' = dial /\ (worker'["tcp"] = "none" <=> worker["tcp"] = "none")
        BY <1>1, <2>2, <3>2 DEF WorkerCloses, At
      <4> QED
        BY <3>2, <4>1, Forgets
    <3> QED
      BY <2>2, <3>1, <3>2 DEF WorkerCloses
  <2> QED
    BY <1>11, <2>1, <2>2 DEF Ends
<1>12. ASSUME NEW s \in Senders, Send(s) PROVE MapsOK'
  <2>1. UNCHANGED <<dial, worker>> /\ (UNCHANGED sockVars \/ ForgetsConn)
    BY <1>12 DEF Send, SendLooks, SendWrites, SendCloses, ClosesConn
  <2>2. CASE UNCHANGED sockVars
    BY <2>1, <2>2
  <2>3. CASE ForgetsConn
    BY <2>1, <2>3, Forgets
  <2> QED
    BY <2>1, <2>2, <2>3
<1> QED
  BY <1>2, <1>3, <1>4, <1>5, <1>6, <1>7, <1>8, <1>9, <1>10, <1>11, <1>12
     DEF Next, Dial

LEMMA DataStep == IInv /\ [Next]_vars => FrontOK' /\ HandedIsReceived'
<1> SUFFICES ASSUME IInv, [Next]_vars PROVE FrontOK' /\ HandedIsReceived'
  OBVIOUS
<1> USE DEF IInv
<1>1. worker \in [Workers -> {"none", "run", "split", "write", "close", "forget", "done"}]
  BY DEF TypeOK
<1>2. ASSUME UNCHANGED dataVars, worker'["udp"] \in {"split", "write"} =>
                                   worker'["udp"] = worker["udp"]
      PROVE  FrontOK' /\ HandedIsReceived'
  BY <1>2 DEF dataVars, FrontOK, HandedIsReceived
<1>3. CASE UNCHANGED vars
  BY <1>2, <1>3 DEF vars
<1>4. CASE Dial \/ ServerEnds \/ \E s \in Senders : Send(s)
  BY <1>1, <1>2, <1>4
     DEF Dial, DialSteps, DialFails, DialSpawns, DialListens, DialStores, Connected,
         ServerEnds, Send, SendLooks, SendWrites, SendCloses, Workers
<1>5. ASSUME NEW w \in Workers, Ends(w) PROVE FrontOK' /\ HandedIsReceived'
  BY <1>1, <1>2, <1>5 DEF Ends, WorkerCloses, TcpReadFails, UdpReadFails, At, Workers
<1>6. CASE UdpReads
  <2>1. PICK d \in Datagrams : received' = Fitting(d) /\ buf' = Read(d)
    BY <1>6 DEF UdpReads
  <2>2. Len(received') <= Size /\ \A i \in 1..Len(received') : buf'[i] = received'[i]
    BY <2>1, DatagramBytes, ReadEffect DEF TypeOK
  <2>3. worker'["udp"] = "split"
    BY <1>1, <1>6 DEF UdpReads, At, Workers
  <2> QED
    BY <2>2, <2>3 DEF FrontOK, HandedIsReceived
<1>7. CASE UdpSplits
  <2>1. UNCHANGED <<buf, received>> /\ worker["udp"] = "split"
    BY <1>7 DEF UdpSplits
  <2>2. FrontOK'
    BY <2>1 DEF FrontOK
  <2>3. CASE worker'["udp"] = "write"
    <3> DEFINE b == SubSeq(buf, 4, Size)
               addr == SplitAddr(b)
    <3>1. /\ addr # Nil /\ Len(received) >= 3 + Len(addr)
          /\ handed' = [addr |-> addr, payload |-> Payload(addr)]
      BY <1>1, <1>7, <2>1, <2>3 DEF UdpSplits, At, Workers
    <3>2. /\ buf \in Seq(Byte) /\ Len(buf) = Size /\ received \in Seq(Byte)
          /\ Len(received) <= Len(buf)
          /\ \A i \in 1..Len(received) : buf[i] = received[i]
      <4>1. buf \in [1..Size -> Byte] /\ received \in Seq(Byte)
        BY DEF TypeOK
      <4>2. buf \in Seq(Byte) /\ Len(buf) = Size
        BY <4>1, BoundsAssumption
      <4> QED
        BY <2>1, <4>1, <4>2, Zenon DEF FrontOK
    <3>3. b \in Seq(Byte)
      BY <3>2
    <3>4. PICK n \in 1..Len(b) : addr = SubSeq(b, 1, n)
      BY <3>1, <3>3, SplitAddrType, Zenon
    <3>5. Len(addr) = n
      <4> HIDE DEF b
      <4> QED
        BY <3>3, <3>4
    <3>6. n \in Nat /\ 3 + n <= Len(received)
      BY <3>1, <3>5
    <3>7. received = SubSeq(buf, 1, 3) \o SubSeq(SubSeq(buf, 4, Len(buf)), 1, n)
                       \o SubSeq(buf, 4 + n, Len(received))
      BY <3>2, <3>6, ThreeParts, Zenon
    <3>8. received = SubSeq(buf, 1, 3) \o addr \o Payload(addr)
      BY <3>2, <3>4, <3>5, <3>7, Zenon DEF Payload
    <3> HIDE DEF addr, b
    <3>9. handed'.addr = addr /\ handed'.payload = Payload(addr)
      BY <3>1
    <3> QED
      BY <2>1, <2>2, <3>8, <3>9, Zenon DEF HandedIsReceived
  <2>4. CASE worker'["udp"] # "write"
    BY <2>2, <2>4 DEF HandedIsReceived
  <2> QED
    BY <2>3, <2>4
<1>8. CASE UdpWrites
  BY <1>1, <1>2, <1>8 DEF UdpWrites, At, Workers
<1> QED
  BY <1>3, <1>4, <1>5, <1>6, <1>7, <1>8 DEF Next

LEMMA Invariant == Spec => []IInv
<1>1. IInv /\ [Next]_vars => IInv'
  BY TypeStep, MapsStep, DataStep DEF IInv
<1> QED
  BY <1>1, Initial, PTL DEF Spec

-----------------------------------------------------------------------------
\* Every variable has its type.
THEOREM TypeCorrect == Spec => []TypeOK
<1>1. IInv => TypeOK
  BY DEF IInv
<1> QED
  BY <1>1, Invariant, PTL

\* Whoever closes the association finds its open sockets in the maps, but for what
\* connectInternal has not stored yet (Close and connectInternal,
\* proxy/socks/udp.go).
THEOREM Found == Spec => []SocketsFound
<1>1. IInv => SocketsFound
  BY DEF IInv, MapsOK
<1> QED
  BY <1>1, Invariant, PTL

\* fetchUDPInput hands on the datagram it read, though the buffer SplitAddr searches
\* still holds the end of an earlier one (proxy/socks/udp.go).
THEOREM HandedIntact == Spec => []HandedIsReceived
<1>1. IInv => HandedIsReceived
  BY DEF IInv
<1> QED
  BY <1>1, Invariant, PTL

=============================================================================
