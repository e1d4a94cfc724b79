------------------------------ MODULE UrlText ------------------------------
(***************************************************************************)
(* url.c: spif_url_parse() takes a text apart and spif_url_unparse() puts  *)
(* the parts together.  A part that is NULL is NoPart.  What the protocol  *)
(* database says of a name, and the port that it gives, are the            *)
(* environment's.                                                          *)
(***************************************************************************)
EXTENDS Integers, Sequences

CONSTANTS MaxUrl          \* the longest URL looked at

VARIABLE urlText          \* a URL, as far as a user has typed it

UrlChars == {"a", ":", "/", "@", "?"}
NoPart == <<"NULL">>
Localhost == <<"l">>
SomePort == <<"p">>
JunkPort == <<"junk">>
Lookup == {"nothing", "service", "protocol"}

UrlFrom(t, n) == SubSeq(t, n, Len(t))
IsAlnum(c) == c \notin {":", "/", "@", "?"}

(* strchr(3) from position n on: the position behind the text is none. *)
Strchr(t, c, n) ==
  LET at == {i \in n..Len(t) : t[i] = c}
  IN IF at = {} THEN Len(t) + 1 ELSE CHOOSE i \in at : \A j \in at : i <= j
StrchrFinds(t, c, n) == Strchr(t, c, n) <= Len(t)

(* "proto:" is alphanumeric up to the first colon, which may be the first *)
(* character; // may follow, also without a protocol.                     *)
HasProto(t) == StrchrFinds(t, ":", 1) /\ \A i \in 1..(Strchr(t, ":", 1) - 1) : IsAlnum(t[i])
PastProto(t) == IF HasProto(t) THEN Strchr(t, ":", 1) + 1 ELSE 1
PastSlashes(t) ==
  LET p == PastProto(t)
  IN IF p < Len(t) /\ t[p] = "/" /\ t[p + 1] = "/" THEN p + 2 ELSE p

(* Where the part with user, password, host and port ends: at a / anywhere, *)
(* or else at a question mark.                                              *)
AuthorityEnd(t) ==
  LET p == PastSlashes(t) IN IF StrchrFinds(t, "/", p) THEN Strchr(t, "/", p) ELSE Strchr(t, "?", p)

(* getprotobyname() and getservbyname(): of a name that is itself that of a  *)
(* protocol, no service is looked up, and the port is read through a pointer *)
(* that was never set.                                                       *)
ResolvedPort(known) ==
  CASE known = "nothing" -> NoPart [] known = "service" -> SomePort [] OTHER -> JunkPort

Parse(t, known) ==
  LET start == PastSlashes(t)
      end == AuthorityEnd(t)
      query == Strchr(t, "?", end)
      at == Strchr(t, "@", start)
      hasAuth == at < end
      colon == Strchr(t, ":", start)
      hasPasswd == hasAuth /\ colon < at
      host == IF hasAuth THEN at + 1 ELSE start
      portColon == Strchr(t, ":", host)
      hasPort == portColon < end
      proto == IF HasProto(t) THEN SubSeq(t, 1, PastProto(t) - 2) ELSE NoPart
  IN [proto |-> proto,
      user |-> IF hasAuth THEN SubSeq(t, start, (IF hasPasswd THEN colon ELSE at) - 1) ELSE NoPart,
      passwd |-> IF hasPasswd THEN SubSeq(t, colon + 1, at - 1) ELSE NoPart,
      host |-> IF hasPort THEN SubSeq(t, host, portColon - 1)
               ELSE IF host # end THEN SubSeq(t, host, end - 1) ELSE NoPart,
      port |-> IF hasPort THEN SubSeq(t, portColon + 1, end - 1)
               ELSE IF proto # NoPart THEN ResolvedPort(known) ELSE NoPart,
      path |-> IF StrchrFinds(t, "/", start) THEN SubSeq(t, end, query - 1) ELSE NoPart,
      query |-> IF query <= Len(t) THEN UrlFrom(t, query + 1) ELSE NoPart]

(* A part with what is written behind or in front of it; nothing for NULL. *)
Following(part, by) == IF part = NoPart THEN <<>> ELSE part \o by
Led(by, part) == IF part = NoPart THEN <<>> ELSE by \o part

(* spif_url_unparse() also gives a URL that has a port and no host one. *)
Hosted(u) == IF u.port # NoPart /\ u.host = NoPart THEN [u EXCEPT !.host = Localhost] ELSE u

(* Mutant: // is for a protocol. *)
UnparsePlain(url) ==
  LET u == Hosted(url)
  IN (IF u.proto # NoPart THEN u.proto \o <<":", "/", "/">> ELSE <<>>)
       \o (IF u.user # NoPart THEN u.user \o Led(<<":">>, u.passwd) \o <<"@">> ELSE <<>>)
       \o (IF u.host # NoPart THEN u.host \o Led(<<":">>, u.port) ELSE <<>>)
       \o Led(<<>>, u.path)
       \o Led(<<"?">>, u.query)

Unparse(url) ==
  LET u == Hosted(url)
  IN Following(u.proto, <<":">>)
       \o (IF u.host # NoPart THEN <<"/", "/">> ELSE <<>>)
       \o (IF u.user # NoPart THEN u.user \o Led(<<":">>, u.passwd) \o <<"@">> ELSE <<>>)
       \o (IF u.host # NoPart THEN u.host \o Led(<<":">>, u.port) ELSE <<>>)
       \o Led(<<>>, u.path)
       \o Led(<<"?">>, u.query)

-----------------------------------------------------------------------------
UrlInit == urlText = <<>>
TypeUrl == \E c \in UrlChars : Len(urlText) < MaxUrl /\ urlText' = Append(urlText, c)

UrlSpec == UrlInit /\ [][TypeUrl]_urlText

(* Without a host nothing tells a user and password from a protocol, or a *)
(* path that begins with two slashes from the mark of a host.             *)
Ambiguous(u) ==
  /\ u.host = NoPart
  /\ \/ u.passwd # NoPart /\ u.proto = NoPart /\ \A i \in 1..Len(u.user) : IsAlnum(u.user[i])
     \/ u.user = NoPart /\ u.path # NoPart /\ Len(u.path) > 1 /\ u.path[2] = "/"

(* What parsing makes of any text, unparsing turns into a text that parses  *)
(* to the same parts (and the host given to a URL with a port but none), so *)
(* that spif_url_dup(), which parses again, gives an equal URL; exactly     *)
(* those without a host that are ambiguous come back as something else.     *)
UrlComesBack ==
  \A known \in Lookup \ {"protocol"} :
    LET u == Hosted(Parse(urlText, known))
    IN Parse(Unparse(u), known) = u <=> ~Ambiguous(u)
=============================================================================
