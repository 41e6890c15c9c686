--------------------------- MODULE MC_ClientConn ---------------------------
(***************************************************************************)
(* Small instances of ClientConn for TLC: one port, two hosts behind one   *)
(* address, one of them allowed.  Their hellos are sent whole, or cut in   *)
(* two anywhere; what a segment names is what the parsers find in it.      *)
(***************************************************************************)
EXTENDS ClientConn, Parsers

CONSTANTS w1, c1

MCHosts == {"maps.google.com", "games.com"}
Lists(white, black) == [white |-> white, black |-> black]
MCConfigs == {Lists({"google.com"}, {}), Lists({}, {"games.com"})}

(* A ClientHello with an extension before the name of the server and one   *)
(* after it, of type 10 and of type 43.                                    *)
Extension(type, data) == <<0, type, 0, Len(data)>> \o data
Length(name) == <<0, Len(name)>>
ClientHello(name) ==
  LET extensions == Extension(10, <<0, 2, 0, 23>>)
                      \o Extension(0, <<0, 3 + Len(name), 0>> \o Length(name) \o Bytes(name))
                      \o Extension(43, <<2, 3, 4>>)
  IN  <<22, 3, 1, 0, 0, 1, 0, 0, 0, 3, 3>> \o [i \in 1 .. 32 |-> 7]
        \o <<1, 9>> \o <<0, 2, 19, 1>> \o <<1, 0>> \o Length(extensions) \o extensions

Request(name) == "GET / HTTP/1.1\r\nHost: " \o name \o "\r\nAccept: all\r\n\r\n"

(* What is found in a message, and in its two parts.                       *)
NamesIn(find(_, _), message) ==
  LET n == Len(message)
      part(i, j) == find(SubSeq(message, i, j), j - i + 1)
  IN  {<<part(1, n)>>} \cup {<<part(1, k), part(k + 1, n)>> : k \in 1 .. n - 1}
Names ==
  UNION {{h} \X (NamesIn(extract_sni, ClientHello(h))
                   \cup NamesIn(extract_http_host, Request(h))) : h \in MCHosts}

(* TLC evaluates Names once, and what a .cfg gives to a constant each time.*)
MCHellos == Names

MCTraffic ==
  UNION {{Syn(c), Data(c), Fin(c), Abort(c)} \cup {Hello(c, d) : d \in Domains \cup {NoDomain}}
           : c \in Conns}
=============================================================================
