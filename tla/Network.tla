------------------------------ MODULE Network ------------------------------
(***************************************************************************)
(* Names and addresses: network/dns.go resolves every host to a made-up    *)
(* address in guest memory, and the hosts that the guest resolves or       *)
(* connects to are captured (network/socket.go).  Addresses are sequences  *)
(* of bytes, as the guest and the stubs write and parse them.              *)
(***************************************************************************)
EXTENDS StubCalls

CONSTANTS Hosts,       \* the names the guest resolves; "" is none
          Services,    \* service arguments: a number, or -1 for no number
          Ports,       \* ports the guest connects to
          IPs,         \* addresses of its own, sequences of four bytes
          Families,    \* address families it uses
          PeerBuf,     \* where it wants getpeername's answer
          MaxCaptured  \* bound: how many hosts are captured

\* What a register of 16 bits holds.
IsUint16(n) == n \in Nat /\ n < 65536

ASSUME NetworkAssumption ==
  /\ IPs \subseteq [1..4 -> 0..255]
  /\ PeerBuf \in Nat /\ MaxCaptured \in Nat
  /\ \A n \in Ports \cup Families : IsUint16(n)

VARIABLES captured,    \* capturedHosts
          meant,       \* history: what the guest has resolved or connected to,
                       \* and whether it had the address from a sockaddr of
                       \* a stub
          sockaddrs,   \* guest memory: the addresses stubs have written
          hostAddrs    \* guest memory: those of gethostbyname

netVars == <<captured, meant, sockaddrs, hostAddrs>>

NetInit == /\ captured = <<>>
           /\ meant = <<>>
           /\ sockaddrs = <<>>
           /\ hostAddrs = <<>>

AF_INET == 2

\* How the emulator writes numbers: the low byte first.
LE16(n) == <<n % 256, n \div 256>>
LE32(low, high) == LE16(low) \o LE16(high)

\* htons and ntohs, on the value in the register.
Swap(port) == (port % 256) * 256 + port \div 256

\* sin_port and sin_addr as getaddrinfo and getpeername write them; variants
\* that forget the order of the bytes, or the family.
FakeSockaddrHostOrder == LE16(AF_INET) \o LE16(80) \o LE32(1, 32512)

FakeSockaddr == LE16(AF_INET) \o LE16(20480) \o LE32(1, 32512)

\* inet_aton, inet_pton and gethostbyname; a sockaddr from getaddrinfo or
\* getpeername stands for this address too, and for FakePort.
FakeIP == <<127, 0, 0, 1>>

FakePort == 80

\* parseSockaddrIn; an address that is not IPv4 is none.
ParsedPort(bytes) == bytes[3] * 256 + bytes[4]

ParsedIP(bytes) == SubSeq(bytes, 5, 8)

IsIPv4(bytes) == bytes[1] + 256 * bytes[2] = AF_INET

Captured(ip, port, host) == [ip |-> ip, port |-> port, host |-> host]

CaptureHost(entry) == /\ Len(captured) < MaxCaptured
                      /\ captured' = Append(captured, entry)

\* An entry of meant is what is to be captured, and where it comes from.
Meant(entry, fromStub) == [entry |-> entry, fromStub |-> fromStub]

\* connect and sendto: bytes is the address in guest memory, entry what it
\* stands for.
CaptureTarget(bytes, entry, fromStub) ==
  /\ IF IsIPv4(bytes)
       THEN /\ CaptureHost(Captured(ParsedIP(bytes), ParsedPort(bytes), ""))
            /\ meant' = Append(meant, Meant(entry, fromStub))
       ELSE UNCHANGED <<captured, meant>>
  /\ UNCHANGED <<sockaddrs, hostAddrs>>

\* An address that the guest puts together in its own memory.
Compose(family, port, ip) == LE16(family) \o LE16(Swap(port)) \o ip

Connect(bytes, entry, fromStub) ==
  Answer(0) /\ CaptureTarget(bytes, entry, fromStub)

Sendto(bytes, entry, fromStub, length) ==
  Answer(length) /\ CaptureTarget(bytes, entry, fromStub)

\* fmt.Sscanf into a uint16 that is 0 before.
ServicePort(service) == IF IsUint16(service) THEN service ELSE 0

\* What is captured is captured before the Mallocs.
Getaddrinfo(host, service) ==
  /\ IF host # ""
       THEN LET entry == Captured(FakeIP, ServicePort(service), host)
            IN  CaptureHost(entry) /\ meant' = Append(meant, Meant(entry, FALSE))
       ELSE UNCHANGED <<captured, meant>>
  /\ Give(<<64, 32>>, 0)
  /\ sockaddrs' = IF panicked' THEN sockaddrs
                  ELSE [a \in DOMAIN sockaddrs \cup {Bumps(<<64, 32>>)[2]} |->
                          IF a = Bumps(<<64, 32>>)[2] THEN FakeSockaddr
                          ELSE sockaddrs[a]]
  /\ UNCHANGED hostAddrs

Gethostbyname(host) ==
  /\ IF host # ""
       THEN LET entry == Captured(FakeIP, 0, host)
            IN  CaptureHost(entry) /\ meant' = Append(meant, Meant(entry, FALSE))
       ELSE UNCHANGED <<captured, meant>>
  /\ Give(<<64, 16, 4>>, heapPtr)
  /\ hostAddrs' = IF panicked' THEN hostAddrs
                  ELSE [a \in DOMAIN hostAddrs \cup {Bumps(<<64, 16>>)[3]} |->
                          FakeIP]
  /\ UNCHANGED sockaddrs

Getpeername ==
  /\ Answer(0)
  /\ sockaddrs' = [a \in DOMAIN sockaddrs \cup {PeerBuf} |->
                     IF a = PeerBuf THEN FakeSockaddr ELSE sockaddrs[a]]
  /\ UNCHANGED <<captured, meant, hostAddrs>>

\* The rest: nothing is freed, no address has a name, bind parses and does
\* not capture.
Bind == Answer(0) /\ UNCHANGED netVars
Freeaddrinfo == (Return \/ Answer(1)) /\ UNCHANGED netVars
Gethostbyaddr == Answer(0) /\ UNCHANGED netVars
InetAton == Answer(1) /\ UNCHANGED netVars
InetNtoa == Give(<<16>>, heapPtr) /\ UNCHANGED netVars
InetPton(buffer) == (Answer(1) \/ Answer(buffer)) /\ UNCHANGED netVars
Htons(port) == Answer(Swap(port)) /\ UNCHANGED netVars

\* Of the program that uses the library: it has read the hosts.
ClearCapturedHosts == /\ captured' = <<>>
                      /\ meant' = <<>>
                      /\ UNCHANGED <<sockaddrs, hostAddrs, callVars>>

GuestIPs == IPs \cup {FakeIP} \cup {hostAddrs[a] : a \in DOMAIN hostAddrs}

NetNext ==
  \/ \E host \in Hosts : \/ Gethostbyname(host)
                         \/ \E service \in Services : Getaddrinfo(host, service)
  \/ \E family \in Families, port \in Ports, ip \in GuestIPs :
       LET entry == Captured(ip, port, "")
       IN  \/ Connect(Compose(family, port, ip), entry, FALSE)
           \/ Sendto(Compose(family, port, ip), entry, FALSE, port)
  \/ \E a \in DOMAIN sockaddrs :
       LET entry == Captured(FakeIP, FakePort, "")
       IN  \/ Connect(sockaddrs[a], entry, TRUE)
           \/ Sendto(sockaddrs[a], entry, TRUE, FakePort)
  \/ Getpeername
  \/ Bind
  \/ Freeaddrinfo
  \/ Gethostbyaddr
  \/ InetAton
  \/ InetNtoa
  \/ InetPton(PeerBuf)
  \/ \E port \in Ports : Htons(port)
  \/ ClearCapturedHosts

NetTypeOK == /\ captured \in Seq([ip : Seq(0..255), port : Nat,
                                   host : Hosts \cup {""}])
             /\ Len(captured) <= MaxCaptured
             /\ \A i \in DOMAIN captured : IsUint16(captured[i].port)
             /\ \A a \in DOMAIN sockaddrs : sockaddrs[a] = FakeSockaddr
             /\ \A a \in DOMAIN hostAddrs : hostAddrs[a] = FakeIP

\* Every host the guest resolves and every IPv4 address it connects or sends
\* to is captured, in that order, with its port, through htons or from a
\* stub, and its name; and so are the four bytes of every address that the
\* guest has put together or has from gethostbyname (network/dns.go:29-150,
\* network/socket.go:49-92, 136-210).
CapturedAsMeant ==
  /\ Len(captured) = Len(meant)
  /\ \A i \in 1..Len(captured) :
       /\ captured[i].port = meant[i].entry.port
       /\ captured[i].host = meant[i].entry.host
       /\ ~meant[i].fromStub => captured[i].ip = meant[i].entry.ip

\* An address that the guest has resolved and connects or sends to is
\* captured as the one it was resolved to, 127.0.0.1: getaddrinfo fills in
\* "fake IP 127.0.0.1" (network/dns.go:84-87).
ResolvedAsMeant ==
  \A i \in 1..Len(captured) : captured[i].ip = meant[i].entry.ip
=============================================================================
