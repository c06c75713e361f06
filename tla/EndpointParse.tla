---------------------------- MODULE EndpointParse ----------------------------
(***************************************************************************)
(* The port a brazil transceiver listens on, from its "e" option          *)
(* "ip:port" (trx_circuit and bobwire_circuit::string_initialize_         *)
(* parameters, the same code in both), and the port a sender connects to  *)
(* for a client's "tx" push (itrx_proc_unit::proc_act_push).              *)
(*                                                                         *)
(* The unit splits the option at its first ':', converts the rest with    *)
(* std::stoul and passes the unsigned long to set_request_endpoint's      *)
(* unsigned short; sin_port holds it through HTN_BYTE_ORD and work()      *)
(* gives the request server NTH_BYTE_ORD(sin_port).  The sender takes the *)
(* client's JSON number with GetUint and static_cast<unsigned short>.     *)
(* Strings are sequences of char codes, as in AddressParse.               *)
(***************************************************************************)
EXTENDS AddressParse

CONSTANTS
    PortValues,   \* port numbers written in configurations and requests
    OddPorts      \* port texts that are not a plain decimal number (no ':')

Colon == 58
Minus == 45
Plus == 43
IsSpace(c) == c \in {9, 10, 11, 12, 13, 32}

\* The address part of every endpoint: "127.0.0.1", which inet_aton accepts.
HostOctets == <<127, 0, 0, 1>>
HostText == Front(Quad(HostOctets))

\* The endpoint option "127.0.0.1:<v>" for a port number v.
EndpointOf(v) == HostText \o <<Colon>> \o Dec(v)

\* Converting to unsigned short keeps the value modulo 2^16.
ToUShort(n) == n % 65536

\* HTN_BYTE_ORD / NTH_BYTE_ORD on an unsigned short of a little-endian host:
\* boost::endian::endian_reverse swaps its two bytes.
Swap16(p) == (p % 256) * 256 + p \div 256

RECURSIVE SkipSpace(_, _)
SkipSpace(s, i) == IF IsSpace(s[i]) THEN SkipSpace(s, i + 1) ELSE i

\* std::stoul(s, nullptr, 10), then the conversion to unsigned short.
\* strtoul skips white space, takes one sign and the digits after it; with
\* no digit stoul throws invalid_argument.  A '-' negates in unsigned long,
\* and 2^16 divides 2^64, so the short is 2^16 - v modulo 2^16.  (stoul's
\* out_of_range needs more than 19 digits, longer than any text here.)
stoul_ushort(s) ==
    LET i0 == SkipSpace(s, 1)
        i1 == IF s[i0] \in {Plus, Minus} THEN i0 + 1 ELSE i0
        r  == strtoul_from(s, i1, 0)
    IN  IF r.end = i1 THEN [ok |-> FALSE, val |-> 0]
        ELSE [ok |-> TRUE,
              val |-> IF s[i0] = Minus THEN ToUShort(65536 - ToUShort(r.val))
                                       ELSE ToUShort(r.val)]

\* inet_aton on the address part: the endpoints here have HostText or
\* nothing before their first ':'.
InetAtonText(a) == a = HostText

\* string_initialize_parameters from requestEndpoint.find(':') to
\* set_request_endpoint: no ':', an empty address or an empty port text
\* throws invalid_argument, so do stoul without digits and inet_aton's
\* failure; otherwise val is the port set_request_endpoint receives.
ParsedEndpoint(ep) ==
    LET d    == SelectInSeq(ep, LAMBDA c : c = Colon)
        addr == SubSeq(ep, 1, d - 1)
        text == SubSeq(ep, d + 1, Len(ep))
        n    == stoul_ushort(text \o <<NUL>>)
    IN  [ok  |-> d # 0 /\ addr # <<>> /\ text # <<>> /\ n.ok /\ InetAtonText(addr),
         val |-> n.val]

Throws == [ok |-> FALSE, port |-> 0]

\* A bind to port 0 listens on a port the OS chooses, which no sender is told.
OSChosenPort == "ephemeral"

\* sin_port = HTN_BYTE_ORD(port); work() creates the request server on
\* NTH_BYTE_ORD(sin_port), whose acceptor binds that port.
endpoint_listen(ep) ==
    LET n == ParsedEndpoint(ep)
        p == Swap16(Swap16(n.val))
    IN  IF n.ok THEN [ok |-> TRUE, port |-> IF p = 0 THEN OSChosenPort ELSE p]
        ELSE Throws

\* proc_act_push "tx": parameter<unsigned short>(1) is
\* static_cast<unsigned short>(GetUint()), the port transmit connects to.
SenderPort(v) == ToUShort(v)

-----------------------------------------------------------------------------
VARIABLES
    endpoint,   \* the "e" option the receiving unit was given, <<>> before
    listening   \* [ok, port]: the port its request server accepts on

epVars == <<endpoint, listening>>

EPInit ==
    /\ endpoint = <<>>
    /\ listening = Throws

\* The endpoints a configuration may give: a decimal port, an odd port
\* text, or a text missing its address, its ':' or its port.
Endpoints ==
    {EndpointOf(v) : v \in PortValues}
    \cup {HostText \o <<Colon>> \o t : t \in OddPorts}
    \cup {<<Colon>> \o Dec(v) : v \in PortValues}
    \cup {HostText, HostText \o <<Colon>>}

\* The unit is loaded with endpoint ep; the port is fixed from then on.
configure_endpoint(ep) ==
    /\ endpoint = <<>>
    /\ endpoint' = ep
    /\ listening' = endpoint_listen(ep)

EndpointSet ==
    /\ endpoint # <<>>
    /\ UNCHANGED epVars

EPNext == (\E ep \in Endpoints : configure_endpoint(ep)) \/ EndpointSet

-----------------------------------------------------------------------------
\* The unit starts only from an endpoint whose port is a decimal number
\* from 1 to 65535, and then listens on that number, the one a sender is
\* told: anything else is a configuration error.
ListensOnGivenPort ==
    listening.ok =>
        \E v \in 1..65535 : endpoint = EndpointOf(v) /\ listening.port = v
=============================================================================
