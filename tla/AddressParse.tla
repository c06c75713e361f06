---------------------------- MODULE AddressParse ----------------------------
(***************************************************************************)
(* How the processing units turn the IPv4 address of their parameter      *)
(* string into the node identifier they give the simulator.               *)
(*                                                                         *)
(* circulator_switch parses "a.b.c.d" itself: four strtoul calls, each    *)
(* continuing one character past where the previous one stopped, store    *)
(* their results as chars into bytes 3, 2, 1 and 0 of the                 *)
(* std::uint_fast32_t nIP, and configure_qswitch sends htonl(nIP).  The   *)
(* brazil units (itrx_proc_unit::set_request_endpoint) call inet_aton and  *)
(* send the s_addr it fills in.  The simulator identifies a node by that  *)
(* number, so both must agree for every address both accept.              *)
(*                                                                         *)
(* Strings are sequences of char codes ending in the NUL of c_str().      *)
(* Memory is a sequence of bytes; HostOrder and FastBytes say how the     *)
(* build lays out an integer and how wide std::uint_fast32_t is.          *)
(***************************************************************************)
EXTENDS Naturals, SequencesExt

CONSTANTS
    Octets,      \* the component values of the addresses given
    HostOrder,   \* "little" or "big"
    FastBytes    \* sizeof(std::uint_fast32_t): 8 on x86-64 glibc, 4 on 32-bit

NUL == 0
Dot == 46
IsDigit(c) == c \in 48..57

\* The decimal representation of n, as an address string spells it.
RECURSIVE Dec(_)
Dec(n) == IF n < 10 THEN <<48 + n>> ELSE Dec(n \div 10) \o <<48 + (n % 10)>>

\* The parameter string "a.b.c.d" of the four components, with its NUL.
Quad(o) == Dec(o[1]) \o <<Dot>> \o Dec(o[2]) \o <<Dot>> \o Dec(o[3])
             \o <<Dot>> \o Dec(o[4]) \o <<NUL>>

\* strtoul(s + i, &end, 10) on a string without blanks or sign: the
\* value of the digits from position i, and the position of the first
\* character that is not a digit.  (The components given stay far below
\* the 2^64 at which unsigned long wraps.)
RECURSIVE strtoul_from(_, _, _)
strtoul_from(s, i, acc) ==
    IF IsDigit(s[i]) THEN strtoul_from(s, i + 1, acc * 10 + s[i] - 48)
                     ELSE [val |-> acc, end |-> i]
strtoul(s, i) == strtoul_from(s, i, 0)

\* An integer is written as its bytes from the least significant up, so
\* that values of 32 and 64 bits stay within TLC's integers.  ValueOf(m)
\* is the integer the bytes m in memory hold on this host.
ValueOf(m) == IF HostOrder = "little" THEN m ELSE Reverse(m)

\* Conversion to uint32_t keeps the four low bytes.
ToUint32(v) == SubSeq(v, 1, 4)

\* htonl(x): the bytes of x in network (most significant first) order,
\* read back as an integer by this host.
htonl(v) == ValueOf(Reverse(ToUint32(v)))

\* Mutant: the first component is stored in byte 0 instead of byte 3.
circulator_parse_bytes_reversed(s) ==
    LET r1 == strtoul(s, 1)
        r2 == strtoul(s, r1.end + 1)
        r3 == strtoul(s, r2.end + 1)
        r4 == strtoul(s, r3.end + 1)
        mem == [k \in 1..FastBytes |->
                  CASE k = 1 -> r1.val % 256 [] k = 2 -> r2.val % 256
                    [] k = 3 -> r3.val % 256 [] k = 4 -> r4.val % 256
                    [] OTHER -> 0]
    IN ValueOf(mem)

\* circulator_switch::string_initialize_parameters: nIP starts at 0 (the
\* constructor); pnIP[3], pnIP[2], pnIP[1], pnIP[0] = strtoul(...), each
\* converted to char (the value modulo 256), each next call starting one
\* past the previous end.  The result is nIP as the host reads it.
circulator_parse(s) ==
    LET r1 == strtoul(s, 1)
        r2 == strtoul(s, r1.end + 1)
        r3 == strtoul(s, r2.end + 1)
        r4 == strtoul(s, r3.end + 1)
        mem == [k \in 1..FastBytes |->
                  CASE k = 4 -> r1.val % 256 [] k = 3 -> r2.val % 256
                    [] k = 2 -> r3.val % 256 [] k = 1 -> r4.val % 256
                    [] OTHER -> 0]
    IN ValueOf(mem)

\* What configure_qswitch sends as the node: htonl(nIP).
CirculatorNode(s) == htonl(circulator_parse(s))

\* Reference for inet_aton on a dotted quad: it fails when a component
\* exceeds 255; otherwise s_addr holds a, b, c, d in this order in memory
\* (network byte order), and the unit sends it as an unsigned int.
InetAtonAccepts(o) == \A k \in 1..4 : o[k] <= 255
InetAtonAddr(o) == ValueOf(o)

-----------------------------------------------------------------------------
VARIABLES
    given,   \* the components of the address in the parameter string
    node     \* [circulator, trx]: the node identifiers the units send, <<>>
             \* before initialisation or when it threw

apVars == <<given, node>>

APInit ==
    /\ given = <<>>
    /\ node = [circulator |-> <<>>, trx |-> <<>>]

\* Both kinds of unit initialised from the same address string: the
\* circulator's parse, and set_request_endpoint's inet_aton, which throws
\* invalid_argument when it fails; trx_circuit then caches nIP =
\* get_request_address() and sends it in configure_node.
string_initialize_parameters(o) ==
    /\ given = <<>>
    /\ given' = o
    /\ node' = [circulator |-> CirculatorNode(Quad(o)),
                trx |-> IF InetAtonAccepts(o) THEN InetAtonAddr(o) ELSE <<>>]

\* Both units are up; the identifiers do not change afterwards.
Initialised ==
    /\ given # <<>>
    /\ UNCHANGED apVars

APNext ==
    \/ \E o \in [1..4 -> Octets] : string_initialize_parameters(o)
    \/ Initialised

-----------------------------------------------------------------------------
\* A trabea circulator and a brazil transceiver configured with the same
\* address give the simulator the same node identifier, whenever the
\* address is one inet_aton accepts: the hand-written strtoul parse into
\* the bytes of nIP followed by htonl agrees with s_addr.
NodeIdAgrees ==
    node.trx # <<>> => node.circulator = node.trx
=============================================================================
