---------------------------- MODULE TokenExpiry ----------------------------
(***************************************************************************)
(* The lifetime of deployment tokens that a backend process takes from its *)
(* flag --sa-token-expiry at start-up (config/utils.go), as a count of     *)
(* days and a duration, in the machine's arithmetic.                       *)
(***************************************************************************)
EXTENDS Integers

CONSTANTS
    Flags,      \* values of the flag: a number of days and a duration each
    Empty,      \* no value
    Malformed,  \* a value that does not parse
    Refused,    \* the process does not start
    Words,      \* the number of values a time.Duration has: 2^64
    Second,     \* in units of a time.Duration
    Day,
    Default     \* DefaultSATokenExpiry

\* The values that parse.
Durations == Flags \ {Empty, Malformed}

ASSUME TokenExpiryAssumption ==
    /\ \A flag \in Durations : flag.days \in Int /\ flag.rest \in Int
    /\ {Words, Second, Day, Default} \subseteq Nat \ {0}
    /\ Refused \notin Int

\* The value that n wraps around to.
Wrapped(n) == ((n + Words \div 2) % Words) - (Words \div 2)

\* Integer division truncates towards zero.
Truncated(n, d) == IF n >= 0 THEN n \div d ELSE -((-n) \div d)

ParseExpiryDuration(flag) == Wrapped(Wrapped(flag.days * Day) + flag.rest)

\* A value without a second in it is refused.  One of more days than a time.Duration
\* holds is taken for what it wraps around to.
ParseSATokenExpiry(flag) ==
    LET secs == Truncated(ParseExpiryDuration(flag), Second)
    IN  IF flag = Empty THEN Default
        ELSE IF flag # Malformed /\ secs > 0 THEN secs ELSE Refused

\* The lifetimes that processes are up with.
Lifetimes == {ParseSATokenExpiry(flag) : flag \in Flags} \ {Refused}

=============================================================================
