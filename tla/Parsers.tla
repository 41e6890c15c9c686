------------------------------ MODULE Parsers ------------------------------
(***************************************************************************)
(* The three parsers of packet_processor.cpp.  Each is given a payload and *)
(* its length n.  The payload of an HTTP request is a string, the others   *)
(* are sequences of bytes, of which byte i of the code is p[i + 1].        *)
(*                                                                         *)
(* A definition that stands just before another and that nothing uses is a *)
(* faulty variant of it, which a property has to be able to tell from it.  *)
(***************************************************************************)
EXTENDS HostNames

(* The characters 45 to 122; a name has no grave accent (96).              *)
Ascii == "-./0123456789:;<=>?@ABCDEFGHIJKLMNOPQRSTUVWXYZ[\\]^_ abcdefghijklmnopqrstuvwxyz"
Spelled(bytes) == FoldLeft(LAMBDA s, b : s \o Piece(Ascii, b - 45, 1), "", bytes)
Characters(p, i, len) == Spelled(SubSeq(p, i + 1, i + len))

Bytes(chars) ==
  [i \in 1 .. Len(chars) |->
     CHOOSE b \in 45 .. 122 : Piece(Ascii, b - 45, 1) = Piece(chars, i - 1, 1)]

(* What follows the first "Host: " in its line, if that line has its end.  *)
HostsIn(p, n) == {i \in 0 .. n - 6 : Piece(p, i, 6) = "Host: "}
EndsIn(p, n, from) == {i \in from .. n - 2 : Piece(p, i, 2) = "\r\n"}

extract_http_host(p, n) ==
  LET host_pos == Min(HostsIn(p, n))
      ends == EndsIn(p, n, host_pos)
  IN  IF HostsIn(p, n) = {} \/ ends = {} THEN NoDomain
      ELSE Piece(p, host_pos + 6, Min(ends) - (host_pos + 6))

(* A TLS ClientHello: the fixed part is 43 bytes; the session id, the      *)
(* cipher suites, the compression methods and the extensions begin here.   *)
Byte(p, i) == p[i + 1]
Word(p, i) == 256 * Byte(p, i) + Byte(p, i + 1)
Session == 43
Ciphers(p) == Session + 1 + Byte(p, Session)
Compression(p) == Ciphers(p) + 2 + Word(p, Ciphers(p))
Extensions(p) == Compression(p) + 1 + Byte(p, Compression(p))
ExtEnd(p, n) == Min({Extensions(p) + 2 + Word(p, Extensions(p)), n})

Complete(p, n) ==
  /\ n > Session /\ Byte(p, 0) = 22 /\ Byte(p, 5) = 1
  /\ Ciphers(p) + 2 <= n
  /\ Compression(p) < n
  /\ Extensions(p) + 2 <= n

(* The name in a server_name extension: a host name that is all there.     *)
ServerNameCut(p, i, len, end) == Characters(p, i, Min({len, end - i}))
ServerName(p, i, len, end) ==
  IF i + len <= end THEN Characters(p, i, len) ELSE NoDomain
NameAt(p, i, end) ==
  IF i + 5 <= end /\ Byte(p, i + 2) = 0
  THEN ServerName(p, i + 5, Word(p, i + 3), end) ELSE NoDomain

(* One extension after another until the first server_name.                *)
Follower(p, i) == i + 4 + Word(p, i + 2)
Scan(p, end) ==
  LET scan[i \in Nat] ==
        IF i + 4 > end THEN NoDomain
        ELSE IF Word(p, i) = 0 THEN NameAt(p, i + 4, end)
        ELSE scan[Follower(p, i)]
  IN  scan

extract_sni(p, n) ==
  IF Complete(p, n) THEN Scan(p, ExtEnd(p, n))[Extensions(p) + 2] ELSE NoDomain

(* A DNS question: the labels up to a zero, a compression pointer or the   *)
(* end of the datagram; no name at all if a label runs past that end.      *)
LastLabel(p, n, i) == i >= n \/ Byte(p, i) = 0 \/ Byte(p, i) >= 192
NextLabel(p, i) == i + 1 + Byte(p, i)
DottedReversed(label, rest) == IF rest = NoDomain THEN label ELSE rest \o "." \o label
Dotted(label, rest) == IF rest = NoDomain THEN label ELSE label \o "." \o rest
Fits(p, n) ==
  LET fits[i \in Nat] ==
        LastLabel(p, n, i) \/ (NextLabel(p, i) <= n /\ fits[NextLabel(p, i)])
  IN  fits
QName(p, n) ==
  LET text[i \in Nat] ==
        IF LastLabel(p, n, i) THEN NoDomain
        ELSE Dotted(Characters(p, i + 1, Byte(p, i)), text[NextLabel(p, i)])
  IN  text

extract_dns_query(p, n) ==
  IF n > 12 /\ Fits(p, n)[12] THEN QName(p, n)[12] ELSE NoDomain
=============================================================================
