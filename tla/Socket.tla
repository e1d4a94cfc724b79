------------------------------- MODULE Socket -------------------------------
(***************************************************************************)
(* The socket objects of socket.c over the descriptors of one process.     *)
(* A descriptor (file) names an open file description (desc), which        *)
(* dup(2) shares; what names resolve to, and whether socket(), bind(),     *)
(* connect() and listen() succeed, is the environment's choice within what *)
(* the kernel allows.                                                      *)
(***************************************************************************)
EXTENDS Integers, FiniteSets

CONSTANTS Object,        \* the objects a program may hold
          MaxFd,         \* the process may have this many descriptors open
          UrlPairs,      \* the local and remote URL programs make objects from
          None           \* a NULL URL

VARIABLES sock,          \* the objects; Free is no object
          file,          \* what each descriptor names: a description, Closed, or
                         \* Lost if it is open and no object can reach it
          desc           \* the open file descriptions

sockVars == <<sock, file, desc>>

Fd == 1..MaxFd
Desc == 1..Cardinality(Object)
Closed == 0
Lost == -1
Free == [fd |-> 0]
NoFd == -1

(* A URL, by the parts that decide the family and the type of a socket. *)
Url == [proto : {"", "raw", "unix", "tcp", "udp", "odd"}, host : BOOLEAN, path : BOOLEAN]

ASSUME SocketAssumption ==
  /\ IsFiniteSet(Object) /\ MaxFd \in Nat
  /\ None \notin Url
  /\ UrlPairs \subseteq (Url \cup {None}) \X (Url \cup {None})

Flag == {"INET", "UNIX", "STREAM", "DGRAM", "RAW", "LISTEN", "OPEN", "CONNECTED", "NBIO"}
IoState == {"LISTEN", "OPEN", "CONNECTED", "NBIO"}

Live(o) == sock[o] # Free
HasFd(o) == Live(o) /\ sock[o].fd \in Fd

(* What the description under a descriptor is in.  shared: dup(2) was called *)
(* on it; refused: a bind() of it failed.                                    *)
Fresh == [bound |-> None, listening |-> FALSE, connected |-> FALSE,
          nbio |-> FALSE, shared |-> FALSE, refused |-> FALSE]

FreeFds == {f \in Fd : file[f] = Closed}
Lowest(S) == CHOOSE f \in S : \A g \in S : f <= g
UnusedDesc == Lowest({d \in Desc : \A f \in Fd : file[f] # d})

(* Descriptors that are open and belong to no object. *)
Orphans == {f \in Fd : file[f] # Closed /\ \A o \in Object : ~Live(o) \/ sock[o].fd # f}

-----------------------------------------------------------------------------
Blank == [fd |-> NoFd, fam |-> "INET", type |-> "STREAM", addr |-> FALSE,
          flags |-> {}, local |-> None, remote |-> None, doubt |-> FALSE]

(* spif_socket_get_proto(): the flags are added to those already set. *)
GetProto(s) ==
  LET u == IF s.remote = None THEN s.local ELSE s.remote
      family == CASE u.proto = "raw" -> IF u.host THEN {"INET"} ELSE IF u.path THEN {"UNIX"} ELSE {}
                  [] u.proto \in {"", "unix"} -> {"UNIX"}
                  [] OTHER -> {"INET"}
      type == CASE u.proto = "raw" -> {"RAW"}
                [] u.proto \in {"", "unix", "tcp"} -> {"STREAM"}
                [] u.proto = "udp" -> {"DGRAM"}
                [] OTHER -> {}
  IN IF u = None THEN s ELSE [s EXCEPT !.flags = @ \cup family \cup type]

(* A path always gives an address, a host only if its name resolves. *)
GetAddr(s, u, resolves) ==
  /\ u # None
  /\ "INET" \in s.flags => u.host /\ resolves

Addressed(s, resolves) ==
  LET p == GetProto(s)
  IN IF s.addr THEN s
     ELSE IF p.flags \cap {"INET", "UNIX"} = {} THEN p
     ELSE [p EXCEPT !.fam = IF "INET" \in p.flags THEN "INET" ELSE "UNIX",
                    !.addr = GetAddr(p, p.remote, resolves)]

SockType(s) ==
  IF "STREAM" \in s.flags THEN "STREAM" ELSE IF "DGRAM" \in s.flags THEN "DGRAM" ELSE "RAW"

-----------------------------------------------------------------------------
(* What connect() and listen() may do to a description. *)
MayConnect(s, d) == s.addr /\ ~d.listening /\ ~d.connected
MayListen(s, d) == s.type = "STREAM" /\ ~d.connected /\ (d.bound # None \/ s.fam = "INET")

Store(o, s) == sock' = [sock EXCEPT ![o] = s]

(* The end of spif_socket_open(), with the object s on descriptor f of description d. *)
(* An object without any URL has no family and does not get here.                     *)
Reach(o, s, f, d) ==
  LET i == file'[f]
      quiet == [s EXCEPT !.flags = @ \ {"NBIO"}]
      awake == [d EXCEPT !.nbio = FALSE]
  IN \/ /\ s.remote # None
        /\ \/ /\ MayConnect(s, d)
              /\ Store(o, [quiet EXCEPT !.flags = @ \cup {"CONNECTED"}])
              /\ desc' = [desc EXCEPT ![i] = [awake EXCEPT !.connected = TRUE]]
           \/ Store(o, quiet) /\ desc' = [desc EXCEPT ![i] = awake]
     \/ /\ s.remote = None
        /\ \/ /\ MayListen(s, d)
              /\ Store(o, [s EXCEPT !.flags = @ \cup {"LISTEN"}])
              /\ desc' = [desc EXCEPT ![i] = [d EXCEPT !.listening = TRUE]]
           \/ Store(o, s) /\ desc' = [desc EXCEPT ![i] = d]

(* Mutant: a local URL without an address is not bound. *)
CreateUnbound(o, s, resolves) ==
  LET made == [s EXCEPT !.type = SockType(s), !.fd = Lowest(FreeFds)]
      open == [made EXCEPT !.flags = @ \cup {"OPEN"}]
      bound == IF s.local # None /\ GetAddr(s, s.local, resolves) THEN s.local ELSE None
  IN /\ FreeFds # {}
     /\ file' = [file EXCEPT ![made.fd] = UnusedDesc]
     /\ Reach(o, open, made.fd, [Fresh EXCEPT !.bound = bound])

(* spif_socket_open() of an object that holds no descriptor: socket(), and *)
(* bind() if there is a local URL; a bind that fails ends the call.        *)
Create(o, s, resolves) ==
  LET typed == [s EXCEPT !.type = SockType(s)]
      f == Lowest(FreeFds)
      made == [typed EXCEPT !.fd = f]
      open == [made EXCEPT !.flags = @ \cup {"OPEN"}]
  IN \/ Store(o, typed) /\ UNCHANGED <<file, desc>>                 \* socket() fails
     \/ /\ FreeFds # {}
        /\ file' = [file EXCEPT ![f] = UnusedDesc]
        /\ \/ /\ s.local # None /\ GetAddr(s, s.local, resolves)
              /\ Reach(o, open, f, [Fresh EXCEPT !.bound = s.local])
           \/ /\ s.local # None                                     \* bind() fails
              /\ Store(o, made)
              /\ desc' = [desc EXCEPT ![UnusedDesc] = [Fresh EXCEPT !.refused = TRUE]]
           \/ s.local = None /\ Reach(o, open, f, Fresh)

(* spif_socket_open(); the remote and the local name are looked up apart. *)
Open(o) ==
  /\ Live(o)
  /\ \E remote, local \in BOOLEAN :
       LET s == Addressed(sock[o], remote)
           lost == s.flags \cap {"INET", "UNIX"} = {}
           untyped == s.flags \cap {"STREAM", "DGRAM", "RAW"} = {}
       IN \/ /\ (~s.addr /\ lost) \/ (s.fd = NoFd /\ untyped)       \* asserts, returns FALSE
             /\ Store(o, s) /\ UNCHANGED <<file, desc>>
          \/ /\ s.addr \/ ~lost
             /\ s.fd = NoFd /\ ~untyped
             /\ Create(o, s, local)
          \/ /\ s.addr \/ ~lost
             /\ s.fd # NoFd
             /\ UNCHANGED file
             /\ Reach(o, s, s.fd, desc[file[s.fd]])

-----------------------------------------------------------------------------
(* spif_socket_new() and spif_socket_new_from_urls(). *)
New(o, urls) ==
  /\ ~Live(o)
  /\ Store(o, [Blank EXCEPT !.local = urls[1], !.remote = urls[2]])
  /\ UNCHANGED <<file, desc>>

(* A descriptor is closed or lost; with the last one goes its description. *)
Leave(f, how) ==
  /\ file' = [file EXCEPT ![f] = how]
  /\ desc' = IF \E g \in Fd \ {f} : file[g] = file[f] THEN desc
             ELSE [desc EXCEPT ![file[f]] = Fresh]

(* Mutants: the object as descriptor 0, and with its flags left on. *)
ShutToZero(s) == [s EXCEPT !.fd = 0, !.flags = @ \ IoState, !.doubt = FALSE]
ShutWithFlags(s) == [s EXCEPT !.fd = NoFd, !.doubt = FALSE]

(* The object without its descriptor, as close and a failed send leave it. *)
Shut(s) == [s EXCEPT !.fd = NoFd, !.flags = @ \ IoState, !.doubt = FALSE]

(* spif_socket_close(): whatever close(2) returns, the descriptor is gone. *)
Close(o) == HasFd(o) /\ Leave(sock[o].fd, Closed) /\ Store(o, Shut(sock[o]))

(* Mutant: the descriptor is only forgotten. *)
ReleaseForgets(o, s) ==
  /\ Live(o)
  /\ Store(o, s)
  /\ IF HasFd(o) THEN Leave(sock[o].fd, Lost) ELSE UNCHANGED <<file, desc>>

(* spif_socket_done() leaves the object as init does, spif_socket_del() frees it. *)
Release(o, s) ==
  /\ Live(o)
  /\ Store(o, s)
  /\ IF HasFd(o) THEN Leave(sock[o].fd, Closed) ELSE UNCHANGED <<file, desc>>
Done(o) == Release(o, Blank)
Del(o) == Release(o, Free)

(* Mutant: the copy shares the descriptor. *)
DupByNumber(o, c) ==
  /\ Live(o) /\ ~Live(c)
  /\ Store(c, sock[o])
  /\ UNCHANGED <<file, desc>>

(* spif_socket_dup(): when dup(2) fails, the copy has the flags of a descriptor *)
(* that it does not hold (doubt).                                               *)
Dup(o, c) ==
  LET f == Lowest(FreeFds)
      d == file[sock[o].fd]
  IN /\ Live(o) /\ ~Live(c)
     /\ \/ /\ HasFd(o) /\ FreeFds # {}
           /\ file' = [file EXCEPT ![f] = d]
           /\ desc' = [desc EXCEPT ![d].shared = TRUE]
           /\ Store(c, [sock[o] EXCEPT !.fd = f])
        \/ /\ HasFd(o) => FreeFds = {}
           /\ UNCHANGED <<file, desc>>
           /\ Store(c, [sock[o] EXCEPT !.fd = NoFd, !.doubt = @ \/ HasFd(o)])

(* The URL accept() makes of the peer's address. *)
PeerUrl(s) == [proto |-> "", host |-> "INET" \in s.flags, path |-> "INET" \notin s.flags]

(* spif_socket_accept(): the new object starts as a duplicate of the listener, *)
(* whose copied descriptor is then overwritten by the connection's.            *)
Accept(o, c) ==
  LET s == sock[o]
      l == file[s.fd]
      f == Lowest(FreeFds)
      copies == FreeFds \ {f}
      nbio == "NBIO" \in s.flags
  IN /\ HasFd(o) /\ ~Live(c)
     /\ desc[l].listening
     /\ FreeFds # {}
     /\ file' = [g \in Fd |-> IF g = f THEN UnusedDesc
                              ELSE IF copies # {} /\ g = Lowest(copies) THEN Lost ELSE file[g]]
     /\ desc' = [desc EXCEPT ![UnusedDesc] =
                   [Fresh EXCEPT !.bound = desc[l].bound, !.connected = TRUE, !.nbio = nbio]]
     /\ Store(c, [s EXCEPT !.fd = f, !.flags = @ \ {"LISTEN"}, !.remote = PeerUrl(s)])

(* spif_socket_send() with a write that fails for good: EIO and EPIPE close *)
(* the descriptor, every other error only forgets it.                       *)
SendFails(o, broken) ==
  /\ Live(o)
  /\ Store(o, Shut(sock[o]))
  /\ IF HasFd(o) THEN Leave(sock[o].fd, IF broken THEN Closed ELSE Lost)
     ELSE UNCHANGED <<file, desc>>

SetNbio(o) ==
  /\ HasFd(o)
  /\ Store(o, [sock[o] EXCEPT !.flags = @ \cup {"NBIO"}])
  /\ desc' = [desc EXCEPT ![file[sock[o].fd]].nbio = TRUE]
  /\ UNCHANGED file

ClearNbio(o) ==
  /\ HasFd(o)
  /\ Store(o, [sock[o] EXCEPT !.flags = @ \ {"NBIO"}])
  /\ desc' = [desc EXCEPT ![file[sock[o].fd]].nbio = FALSE]
  /\ UNCHANGED file

-----------------------------------------------------------------------------
SockInit ==
  /\ sock = [o \in Object |-> Free]
  /\ file = [f \in Fd |-> Closed]
  /\ desc = [d \in Desc |-> Fresh]

SockNext == \E o \in Object :
  \/ \E urls \in UrlPairs : New(o, urls)
  \/ Open(o) \/ Close(o) \/ Done(o) \/ Del(o)
  \/ \E c \in Object : Dup(o, c) \/ Accept(o, c)
  \/ \E broken \in BOOLEAN : SendFails(o, broken)
  \/ SetNbio(o) \/ ClearNbio(o)

SockSpec == SockInit /\ [][SockNext]_sockVars

(* The objects and the descriptor table are well formed. *)
SocketTypeOK ==
  /\ \A o \in Object : Live(o) =>
       /\ sock[o].fd \in Fd \cup {NoFd} /\ sock[o].flags \subseteq Flag
       /\ sock[o].local \in Url \cup {None} /\ sock[o].remote \in Url \cup {None}
  /\ file \in [Fd -> Desc \cup {Closed, Lost}]

(* No two objects hold one descriptor, and the one an object holds is open: *)
(* a close, a failed send or an accept leaves no second owner and no number *)
(* that the kernel may give to somebody else.                               *)
OneOwner ==
  \A o \in Object : HasFd(o) =>
    /\ file[sock[o].fd] \in Desc
    /\ \A p \in Object \ {o} : Live(p) => sock[p].fd # sock[o].fd

(* The flags tell the truth about the kernel: a listener listens, a          *)
(* connected object is connected, and non-blocking I/O is on exactly when    *)
(* the flag says so, unless the description was shared by a duplicate, or    *)
(* the object is a duplicate whose dup(2) failed and that was opened since.  *)
FlagsTrue ==
  \A o \in Object : HasFd(o) /\ ~sock[o].doubt =>
    LET d == desc[file[sock[o].fd]]
    IN /\ "LISTEN" \in sock[o].flags => d.listening
       /\ "CONNECTED" \in sock[o].flags => d.connected
       /\ ~d.shared => (d.nbio <=> "NBIO" \in sock[o].flags)

(* A listener listens at its local URL, unless a bind of its descriptor was *)
(* refused before: the next open then skips the bind and listens elsewhere. *)
BoundWhereAsked ==
  \A o \in Object : HasFd(o) /\ "LISTEN" \in sock[o].flags /\ ~sock[o].doubt =>
    LET d == desc[file[sock[o].fd]] IN d.bound = sock[o].local \/ d.refused

(* Only an accept, which overwrites the copy of the listener's descriptor, *)
(* and a send that fails lose a descriptor: every other call, and every    *)
(* failure of open, leaves each descriptor with an object that closes it.  *)
LostOnlyBySendOrAccept ==
  [][Orphans' \subseteq Orphans
     \/ \E o, c \in Object : Accept(o, c) \/ SendFails(o, FALSE)]_sockVars
=============================================================================
