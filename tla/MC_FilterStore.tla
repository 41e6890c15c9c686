-------------------------- MODULE MC_FilterStore --------------------------
(***************************************************************************)
(* Small instances of FilterStore for TLC: a site and a subdomain of it,   *)
(* which the user may block, and another, in which a tilde stands for a    *)
(* byte that is not UTF-8; and names of one to three labels, to compare    *)
(* what the code makes of them with what they are.                         *)
(***************************************************************************)
EXTENDS FilterStore, Parsers

CONSTANTS w1, w2

Version(allowed, blocked) == [allowed |-> allowed, blocked |-> blocked]

TwoVersions ==
  {Version(<<"google.com">>, {}), Version(<<"google.com">>, {"maps.google.com"})}
MCEdits == TwoVersions \cup {Missing}
OneSite == {Version(<<"google.com">>, {})}

Labels == {"google", "notgoogle", "com", "maps"}
LabelSeqs == UNION {[1 .. n -> Labels] : n \in 1 .. 3}
NameOf(labels) == FoldLeft(LAMBDA s, l : s \o "." \o l, labels[1], Tail(labels))

Misjudged ==
  {NameOf(w) : w \in {v \in LabelSeqs :
                 \E d \in LabelSeqs : OnList(NameOf(d), NameOf(v)) # IsSuffix(v, d)}}

(* A name is on a list exactly if it is one of the list's names or a       *)
(* subdomain of one, label by label: "notgoogle.com" is not "google.com"   *)
(* (packet_processor.cpp:424-441, the dot in the suffix).                  *)
ListsMeanSubdomains == ToSet(lists.allowed) \cap Misjudged = {}

(* A DNS question: the header, the labels with their lengths, the zero,    *)
(* type and class.                                                         *)
Question(labels) ==
  [i \in 1 .. 12 |-> 0]
    \o FlattenSeq([i \in DOMAIN labels |-> <<Len(labels[i])>> \o Bytes(labels[i])])
    \o <<0, 0, 1, 0, 1>>
Misread ==
  {NameOf(l) : l \in {k \in LabelSeqs :
                 extract_dns_query(Question(k), Len(Question(k))) # NameOf(k)}}

(* The name that is registered is the one the machine asked for: the       *)
(* labels of the question in their order (packet_processor.cpp:75-93).     *)
RegistersTheQuestion == \A w \in Workers : name[w] \notin Misread
=============================================================================
