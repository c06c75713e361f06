----------------------------- MODULE BasisStream -----------------------------
(***************************************************************************)
(* bobwire_circuit::get_next_basis (bobwire_circuit.hpp): the measurement *)
(* basis the io thread's process() chooses for each session, one bit per  *)
(* call taken from the bases file opened by string_initialize_parameters. *)
(*                                                                         *)
(* basisByte is a plain char: its value is kept as the build reads it,    *)
(* -128..127 when char is signed (CharSigned) and 0..255 otherwise, so    *)
(* `>>= 1' is floor division by 2 (an arithmetic shift of the sign bit)   *)
(* and `& 1' is the value modulo 2.  The std::ifstream is its position    *)
(* and its failbit: with C++11's library seekg clears eofbit before its   *)
(* sentry checks the stream, so the loop never sees eofbit set twice.     *)
(***************************************************************************)
EXTENDS Naturals, Integers, Sequences

CONSTANTS
    BaseBytes,      \* the byte values a bases file may hold
    MaxFileLen,     \* bound: length of the bases file
    MaxBasisCalls,  \* bound: calls of get_next_basis in a behaviour
    CharSigned      \* TRUE when plain char is signed (x86-64)

\* The value a char holds after reading byte b.
AsChar(b) == IF CharSigned /\ b >= 128 THEN b - 256 ELSE b

VARIABLES
    file,          \* the contents of the bases file
    basisByte,     \* char basisByte
    basisBytePos,  \* size_t basisBytePos
    fpos,          \* bytes of the file consumed by get()
    failbit,       \* basesFile's failbit
    bases,         \* the bases returned so far, in order
    ioError        \* get_next_basis threw runtime_error("IO ERROR")

bsVars == <<file, basisByte, basisBytePos, fpos, failbit, bases, ioError>>

\* The constructor zeroes basisByte and basisBytePos; basesFile.open
\* succeeds (a failed open throws invalid_argument, and main exits).
BSInit ==
    /\ file \in UNION {[1..n -> BaseBytes] : n \in 0..MaxFileLen}
    /\ basisByte = 0 /\ basisBytePos = 0
    /\ fpos = 0 /\ failbit = FALSE
    /\ bases = <<>> /\ ioError = FALSE

\* The bfread loop: get(basisByte) until it succeeds, or throw.  At the
\* end of the file get() sets eofbit and failbit; seekg(0, beg) clears
\* eofbit, but its sentry sees failbit and the position stays; the next
\* get() fails again, now without eofbit, and the loop throws.  Once
\* failbit is set every get() fails the same way.
ReadByte ==
    IF ~failbit /\ fpos < Len(file)
    THEN [ok |-> TRUE, byte |-> AsChar(file[fpos + 1]), pos |-> fpos + 1]
    ELSE [ok |-> FALSE, byte |-> 0, pos |-> fpos]

\* One call, given whether it reads a byte first: the read (or the throw,
\* which leaves the members as they were), then basisBytePos++,
\* basisByte >>= 1 and return basisByte & 1.
BasisStep(needsRead) ==
    /\ ~ioError /\ Len(bases) < MaxBasisCalls
    /\ LET r == ReadByte
           b == IF needsRead THEN r.byte ELSE basisByte
       IN IF needsRead /\ ~r.ok
          THEN /\ ioError' = TRUE
               /\ failbit' = TRUE
               /\ UNCHANGED <<file, basisByte, basisBytePos, fpos, bases>>
          ELSE /\ basisBytePos' = basisBytePos + 1
               /\ basisByte' = b \div 2
               /\ bases' = Append(bases, (b \div 2) % 2)
               /\ fpos' = IF needsRead THEN r.pos ELSE fpos
               /\ UNCHANGED <<file, failbit, ioError>>

\* get_next_basis(): a byte is read only when basisBytePos == 7.
get_next_basis == BasisStep(basisBytePos = 7)

\* The uncaught "IO ERROR" has terminated the process, or the bound on
\* calls is reached: nothing changes any more.
BasisDone ==
    /\ ioError \/ Len(bases) = MaxBasisCalls
    /\ UNCHANGED bsVars

BSNext == get_next_basis \/ BasisDone

BSSpec == BSInit /\ [][BSNext]_bsVars

-----------------------------------------------------------------------------
\* As the comments of get_next_basis ("Read latest byte", "wrap around
\* to beginning of file") describe it, each byte of the file serves eight
\* calls and the next call reads the next byte: while the file lasts, the
\* bytes read are one per eight bases returned.
BasesReadThrough ==
    Len(bases) <= 8 * Len(file) => fpos = Len(bases) \div 8
=============================================================================
