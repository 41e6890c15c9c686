----------------------------- MODULE HostNames -----------------------------
(***************************************************************************)
(* What FocusGuard does with host names: the comparisons of consumer_func  *)
(* and the grouping of StatsLogger.  Names are strings, as in the program. *)
(*                                                                         *)
(* A definition that stands just before another and that nothing uses is a *)
(* faulty variant of it, which a property has to be able to tell from it.  *)
(***************************************************************************)
EXTENDS SequencesExt, Naturals

NoDomain == ""                               \* no name

Piece(s, i, n) == SubSeq(s, i + 1, i + n)    \* std::string::substr(i, n)

Occurs(t, s) == \E i \in 0 .. Len(s) - Len(t) : Piece(s, i, Len(t)) = t

EndsWith(t, s) == Len(t) < Len(s) /\ Piece(s, Len(s) - Len(t), Len(t)) = t

(* The suffix test of both lists, and of the DNS branch.                   *)
IsUnderNoDot(d, w) == EndsWith(w, d)
IsUnder(d, w) == EndsWith("." \o w, d)

OnList(d, w) == d = w \/ IsUnder(d, w)

(* The name up to its first dot, or all of it.                             *)
FirstLabel(w) ==
  LET dots == {i \in 0 .. Len(w) - 1 : Piece(w, i, 1) = "."}
  IN  IF dots = {} THEN w ELSE Piece(w, 0, Min(dots))

(* The names the DNS branch takes for relatives of w: those under it, and  *)
(* those in which its first label is found, meant for other countries'.    *)
IsRelative(d, w) == IsUnder(d, w) \/ Occurs(FirstLabel(w) \o ".", d)
-----------------------------------------------------------------------------
(* std::tolower on every character.                                        *)
Upper == "ABCDEFGHIJKLMNOPQRSTUVWXYZ"
Lower == "abcdefghijklmnopqrstuvwxyz"
ToLower(s) ==
  LET char(i) == Piece(s, i - 1, 1)
      lowered(c) == {Piece(Lower, k, 1) : k \in {j \in 0 .. 25 : Piece(Upper, j, 1) = c}}
      low(c) == IF lowered(c) = {} THEN c ELSE CHOOSE x \in lowered(c) : TRUE
  IN  FoldLeft(LAMBDA word, i : word \o low(char(i)), "", [i \in 1 .. Len(s) |-> i])

Noise == {
  "azure", "microsoft", "windows", "msedge", "aka.ms", "visualstudio.com",
  "msn.com", "skype.com", "live.com", "office.com", "bing.com", "weather.com",
  "nelreports.net", "pki.goog", "digicert.com", "telemetry", "ocsp", "googleapis.com",
  "cloudflare-ech.com", "clarity.ms", "footprintdns.com", "office.net",
  "asus.com", "scorecardresearch.com"}
IsNoiseDomain(d) == \E keyword \in Noise : Occurs(keyword, ToLower(d))

(* What is counted together, in the order of the tests.                    *)
Groups == <<
  [root |-> "youtube.com", keys |-> {"googlevideo.com", "youtube", "youtu.be", "ytimg.com"}],
  [root |-> "google.com", keys |-> {"googleusercontent.com"}],
  [root |-> "spotify.com", keys |-> {"spotify.com"}],
  [root |-> "facebook.com", keys |-> {"facebook", "fbcdn"}],
  [root |-> "instagram.com", keys |-> {"instagram"}],
  [root |-> "x.com", keys |-> {"twitter.com", "x.com", "twimg.com"}],
  [root |-> "netflix.com", keys |-> {"netflix", "nflxvideo"}]>>

GetRootDomain(domain) ==
  LET d == ToLower(domain)
      hits == SelectSeq(Groups, LAMBDA g : \E key \in g.keys : Occurs(key, d))
  IN  IF hits # <<>> THEN Head(hits).root
      ELSE IF Len(d) >= 4 /\ Piece(d, 0, 4) = "www." THEN Piece(d, 4, Len(d) - 4) ELSE d
=============================================================================
