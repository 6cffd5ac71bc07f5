------------------------------ MODULE EndPoint ------------------------------
(***************************************************************************)
(* CP::EndPoint and IPAddress (ipaddress.C, ipaddress.H), and the calls of *)
(* Socket that pass them to the kernel (cpoll.C): recvFrom, sendTo,        *)
(* getLocalEndPoint, getRemoteEndPoint.  An EndPoint holds its port as a   *)
(* number and its address as the bytes of the network; a sockaddr holds    *)
(* both as bytes of the network.  The host is little endian.               *)
(*                                                                         *)
(* A UNIX name is a sequence of characters: a pathname has no Nul, an      *)
(* abstract name begins with one, a socket without a name has the empty    *)
(* one.  An IPv6 address is only ever copied.                              *)
(***************************************************************************)
EXTENDS Integers, SequencesExt

CONSTANTS
  Objects,    \* the EndPoint objects of the program
  Base,       \* the number of values of a byte
  Addresses,  \* the addresses of the peers, as the network means them:
              \* [family, addr, port, flow, scope, path]
  Chars,      \* the characters of a UNIX name
  Nul,        \* the character 0, which ends a C string
  Garbage,    \* what lies in memory behind what the kernel wrote
  Habits,     \* what the user does: "cut" receives from senders whose name is
              \* longer than the object's, "bare" leaves flowInfo and scopeID
              \* as IPv6EndPoint(address, port) leaves them
  None        \* no object, no address

\* The IPv4 addresses have one length, and an address has no members of another
\* family.
ASSUME EndPointAssumption ==
  /\ Base \in Nat /\ Base > 1
  /\ None \notin Addresses
  /\ Nul \in Chars
  /\ <<>> \in Garbage /\ Garbage \subseteq Seq(Chars)
  /\ Habits \subseteq {"cut", "bare"}
  /\ Addresses \subseteq
       [family : {"INET", "INET6", "UNIX"}, addr : Seq(0..Base - 1),
        port : 0..Base * Base - 1, flow : Nat, scope : Nat, path : Seq(Chars)]
  /\ \A A \in Addresses :
       /\ A.family = "INET" => A.flow = 0 /\ A.scope = 0 /\ A.path = <<>>
       /\ A.family = "INET6" => A.path = <<>>
       /\ A.family = "UNIX" =>
            A.addr = <<>> /\ A.port = 0 /\ A.flow = 0 /\ A.scope = 0
       /\ \A k \in DOMAIN A.path : A.path[k] = Nul => A.path[1] = Nul
  /\ \A A, B \in Addresses :
       A.family = "INET" /\ B.family = "INET" => Len(A.addr) = Len(B.addr)

VARIABLES
  ep,     \* the EndPoint objects; None before construction or a nullptr
  truth,  \* history: the address each object was given, None before
  sent    \* the last sendTo: the sockaddr, the bytes of it that were written,
          \* the size of its array, and the address that is meant

vars == <<ep, truth, sent>>

NothingSent == [to |-> None, extent |-> 0, size |-> 0, meant |-> None]

Init ==
  /\ ep = [o \in Objects |-> None]
  /\ truth = [o \in Objects |-> None]
  /\ sent = NothingSent

-----------------------------------------------------------------------------
(***************************************************************************)
(* Bytes and numbers.                                                      *)
(***************************************************************************)

Power[k \in Nat] == IF k = 0 THEN 1 ELSE Base * Power[k - 1]

\* The number in memory at bytes bs, and the n bytes that hold number v.
Load(bs) ==
  LET sum[k \in 0..Len(bs)] ==
        IF k = 0 THEN 0 ELSE sum[k - 1] + bs[k] * Power[k - 1]
  IN sum[Len(bs)]

Store(v, n) == [k \in 1..n |-> (v \div Power[k - 1]) % Base]

\* ntohs, htons, ntohl and htonl: the number with the order of its bytes
\* reversed.
Swap(v, n) == Load(Reverse(Store(v, n)))

\* ntohl(a.s_addr) of an IPAddress, and the IPAddress operators.
HostOrder(a) == Swap(Load(a), Len(a))
Plus(a, i) == Store(Swap((HostOrder(a) + i) % Power[Len(a)], Len(a)), Len(a))
Sum(a, b) == Plus(a, HostOrder(b))
Difference(a, b) == Plus(a, -HostOrder(b))

\* Fault: IPAddress compares s_addr as it lies in memory.
LessUnswapped(a, b) == Load(a) < Load(b)

Less(a, b) == HostOrder(a) < HostOrder(b)

-----------------------------------------------------------------------------
(***************************************************************************)
(* The members of the three classes.                                       *)
(***************************************************************************)
\* The default values of the members that a family has not; a default
\* constructor sets the family only.
Blank == [family |-> "UNIX", address |-> <<>>, port |-> 0, flowInfo |-> 0,
          scopeID |-> 0, name |-> <<>>]
NoAddr == [family |-> "UNIX", addr |-> <<>>, port |-> <<0, 0>>, flow |-> 0,
           scope |-> 0, path |-> <<>>]

\* IPEndPoint, IPv6EndPoint and UNIXEndPoint: set_addr.
SetAddrIn(sa) ==
  [Blank EXCEPT !.family = "INET", !.address = sa.addr,
                !.port = Swap(Load(sa.port), 2)]

SetAddrIn6(sa) ==
  [Blank EXCEPT !.family = "INET6", !.address = sa.addr,
                !.port = Swap(Load(sa.port), 2),
                !.flowInfo = sa.flow, !.scopeID = sa.scope]

\* The C string at s: what comes before the first Nul.
CString(s) ==
  LET n == CHOOSE n \in 0..Len(s) :
             /\ \A k \in 1..n : s[k] # Nul
             /\ n < Len(s) => s[n + 1] = Nul
  IN SubSeq(s, 1, n)

SetAddrUn(sa) == [Blank EXCEPT !.family = "UNIX", !.name = CString(sa.path)]

\* getSockAddr.  strncpy copies a name up to its first 0 and fills up with 0.
GetSockAddrIn(e) ==
  [NoAddr EXCEPT !.family = "INET", !.port = Store(Swap(e.port, 2), 2),
                 !.addr = e.address]

GetSockAddrIn6(e) ==
  [NoAddr EXCEPT !.family = "INET6", !.port = Store(Swap(e.port, 2), 2),
                 !.addr = e.address, !.flow = e.flowInfo, !.scope = e.scopeID]

GetSockAddrUn(e) ==
  LET n == Len(CString(e.name))
  IN [NoAddr EXCEPT !.family = "UNIX",
        !.path = [k \in 1..Len(e.name) + 1 |-> IF k <= n THEN e.name[k] ELSE Nul]]

\* getSockAddrSize.
SizeIn == 16
SizeIn6 == 28

\* Fault: the terminator of a UNIX name has no room.
SizeUnBare(e) == 2 + Len(e.name)

SizeUn(e) == 2 + Len(e.name) + 1

\* clone, onto an object of the same family.
ClonedIn(from, to) == [to EXCEPT !.address = from.address, !.port = from.port]

\* Fault: clone forgets the scope.
ClonedNoScope(from, to) ==
  [to EXCEPT !.address = from.address, !.port = from.port,
             !.flowInfo = from.flowInfo]

ClonedIn6(from, to) ==
  [to EXCEPT !.address = from.address, !.port = from.port,
             !.flowInfo = from.flowInfo, !.scopeID = from.scopeID]

ClonedUn(from, to) == [to EXCEPT !.name = from.name]

\* The virtual functions.
ByFamily(f, in, in6, un) ==
  CASE f = "INET" -> in [] f = "INET6" -> in6 [] f = "UNIX" -> un

SetAddr(sa) == ByFamily(sa.family, SetAddrIn(sa), SetAddrIn6(sa), SetAddrUn(sa))
GetSockAddr(e) ==
  ByFamily(e.family, GetSockAddrIn(e), GetSockAddrIn6(e), GetSockAddrUn(e))
GetSockAddrSize(e) == ByFamily(e.family, SizeIn, SizeIn6, SizeUn(e))
Cloned(from, to) ==
  ByFamily(from.family, ClonedIn(from, to), ClonedIn6(from, to), ClonedUn(from, to))

\* How far getSockAddr writes: to the end of sin_addr, of sin6_scope_id, or to
\* the terminator at sun_path[name.length()].
WriteExtent(e) == ByFamily(e.family, 8, 28, 2 + Len(e.name) + 1)

-----------------------------------------------------------------------------
(***************************************************************************)
(* Operations.                                                             *)
(***************************************************************************)

\* The sockaddr of address A.
Wire(A) ==
  [A EXCEPT !.port = <<A.port \div Base, A.port % Base>>]

\* What may lie in memory after the kernel gave address A to a program with room
\* for so many characters of a name: a name and a terminator, or what there is
\* room for, or nothing if there is no name; then what was there before.
Written(A, room) ==
  LET whole == Append(A.path, Nul)
      part == IF A.path = <<>> THEN <<>>
              ELSE IF room < Len(whole) THEN SubSeq(whole, 1, room) ELSE whole
  IN {[Wire(A) EXCEPT !.path = part \o g] : g \in Garbage}

\* What the kernel understands: a path ends at its first 0, an abstract name
\* has all the characters given.
Heard(sa) ==
  IF sa.path # <<>> /\ sa.path[1] = Nul THEN sa
  ELSE [sa EXCEPT !.path = CString(@)]

\* Object o becomes e; the address it was given is A.
Becomes(o, e, A) ==
  /\ ep' = [ep EXCEPT ![o] = e]
  /\ truth' = [truth EXCEPT ![o] = A]
  /\ UNCHANGED sent

\* create, construct and the default constructors: numbers are not initialised.
\* Another address family gives a nullptr.
Create(o) ==
  \/ Becomes(o, None, None)
  \/ \E A \in Addresses :
       Becomes(o, [SetAddr(Wire(A)) EXCEPT !.name = <<>>], None)

\* The constructors with an address and a port, or a name.  IPv6EndPoint's does
\* not initialise flowInfo and scopeID: a careful user sets them next, a bare
\* object has what was in memory.
NewIP(o) ==
  \E A \in Addresses :
    /\ A.family = "INET"
    /\ Becomes(o, [Blank EXCEPT !.family = "INET", !.address = A.addr,
                                !.port = A.port], A)

NewIPv6(o) ==
  \E A, B \in Addresses :
    /\ A.family = "INET6" /\ B.family = "INET6"
    /\ B = A \/ "bare" \in Habits
    /\ Becomes(o, [Blank EXCEPT !.family = "INET6", !.address = A.addr,
                                !.port = A.port, !.flowInfo = B.flow,
                                !.scopeID = B.scope], A)

NewUNIX(o) ==
  \E A \in Addresses :
    A.family = "UNIX" /\ Becomes(o, [Blank EXCEPT !.name = A.path], A)

\* Object o takes a sockaddr from an array with room for every name, as that of
\* getLocalEndPoint and getRemoteEndPoint has.  Of a UNIX socket without a name
\* there is the family only, and the name is what was in the array.
Given(o, A) ==
  \E sa \in Written(A, Len(A.path) + 1) : Becomes(o, SetAddr(sa), A)

\* setSockAddr throws if the family is another one.
SetSockAddr(o) ==
  /\ ep[o] # None
  /\ \E A \in Addresses : A.family = ep[o].family /\ Given(o, A)

\* fromSockAddr, lookupHost, getLocalEndPoint and getRemoteEndPoint: a new
\* object for an address that the kernel or the resolver gives.
FromSockAddr(o) == \E A \in Addresses : Given(o, A)

\* clone throws if the families differ.
Clone(o, d) ==
  /\ ep[o] # None /\ ep[d] # None /\ ep[o].family = ep[d].family
  /\ Becomes(d, Cloned(ep[o], ep[d]), truth[o])

\* The address before (i = -1) or after (i = 1) bytes a: the last byte that is
\* not at its limit moves, and those behind it start again.
Neighbour(a, i) ==
  LET limit == IF i = 1 THEN Base - 1 ELSE 0
      k == CHOOSE k \in 0..Len(a) :
             /\ \A j \in k + 1..Len(a) : a[j] = limit
             /\ k > 0 => a[k] # limit
  IN [j \in DOMAIN a |-> IF j < k THEN a[j]
                         ELSE IF j = k THEN a[j] + i ELSE Base - 1 - limit]

\* The user steps through a range: address = address + 1, or - 1.
Step(o) ==
  /\ ep[o] # None /\ ep[o].family = "INET"
  /\ \E i \in {1, -1} :
       Becomes(o, [ep[o] EXCEPT !.address = Plus(@, i)],
               IF truth[o] = None THEN None
               ELSE [truth[o] EXCEPT !.addr = Neighbour(@, i)])

\* The kernel writes at most size bytes of a sender's sockaddr, and size is
\* getSockAddrSize of the object as it is: a longer UNIX name has no terminator.
Truncated(A, e) == A.family = "UNIX" /\ Len(A.path) > Len(e.name)

\* recvFrom.  If the families differ it throws, and the datagram is gone; a
\* name that did not fit is read up to the next 0 that happens to follow.  Of a
\* sender without a name the kernel writes nothing, not even the family: the
\* object gets what was in the array, or setSockAddr throws.
RecvFrom(o) ==
  /\ ep[o] # None
  /\ \E A \in Addresses : \E sa \in Written(A, Len(ep[o].name) + 1) :
       /\ A.family = ep[o].family
       /\ Truncated(A, ep[o]) => "cut" \in Habits
       /\ Becomes(o, SetAddr(sa), A)

\* sendTo.
SendTo(o) ==
  /\ ep[o] # None
  /\ sent' = [to |-> GetSockAddr(ep[o]), extent |-> WriteExtent(ep[o]),
              size |-> GetSockAddrSize(ep[o]), meant |-> truth[o]]
  /\ UNCHANGED <<ep, truth>>

Next ==
  \E o \in Objects :
    \/ Create(o) \/ NewIP(o) \/ NewIPv6(o) \/ NewUNIX(o)
    \/ SetSockAddr(o) \/ FromSockAddr(o) \/ Step(o) \/ RecvFrom(o) \/ SendTo(o)
    \/ \E d \in Objects \ {o} : Clone(o, d)

Spec == Init /\ [][Next]_vars

-----------------------------------------------------------------------------
\* A datagram goes where it is meant to go: an EndPoint that was given an address
\* (by a constructor, the resolver, recvFrom, a clone, arithmetic) makes sendTo
\* give the kernel a sockaddr that the kernel understands as that address.  The
\* code keeps this for IP and for pathnames only, and only if the user has no
\* habit: a sender's name that recvFrom cuts, members that IPv6EndPoint's
\* constructor leaves alone, an abstract name, which ends at its first 0 in
\* set_addr and getSockAddr, and a sender without a name each break it.
Addressed == sent.meant # None => Heard(sent.to) = Wire(sent.meant)

\* getSockAddr stays inside the array that sendTo sizes with getSockAddrSize.
WritesFit == sent.extent <= sent.size

\* Bytes a come before bytes b.
Before(a, b) ==
  \E k \in DOMAIN a : a[k] < b[k] /\ \A j \in 1..k - 1 : a[j] = b[j]

\* The order of IPAddress is that of the dotted notation, and differences can
\* be added back, across the wrap at 255.255.255.255 too.
AddressOrder ==
  \A o, d \in Objects :
    ep[o] # None /\ ep[d] # None /\ ep[o].family = "INET" /\ ep[d].family = "INET" =>
      LET a == ep[o].address
          b == ep[d].address
      IN Less(a, b) = Before(a, b) /\ Sum(Difference(a, b), b) = a
=============================================================================
