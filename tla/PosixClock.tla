----------------------------- MODULE PosixClock -----------------------------
(***************************************************************************)
(* demo/utils/clock_posix.c: the clock main.c gives coreMQTT, and the      *)
(* conversions of a time in milliseconds that the files beside it make.    *)
(***************************************************************************)
EXTENDS Integers

CONSTANTS UINT32_RANGE,          \* 2^32
          MILLISECONDS_PER_SECOND,
          NANOSECONDS_PER_MILLISECOND

ASSUME ClockAssumption ==
    /\ UINT32_RANGE \in Nat \ {0}
    /\ MILLISECONDS_PER_SECOND \in Nat \ {0}
    /\ NANOSECONDS_PER_MILLISECOND \in Nat \ {0}

(* The timespec of a time of ms milliseconds and ns nanoseconds more: what *)
(* clock_gettime fills in.                                                 *)
TimeSpec(ms, ns) ==
    [tv_sec  |-> ms \div MILLISECONDS_PER_SECOND,
     tv_nsec |-> (ms % MILLISECONDS_PER_SECOND) * NANOSECONDS_PER_MILLISECOND + ns]

(* Mutant: the time is not cut to 32 bits.                                 *)
ClockGetTimeMs64(timeSpec) ==
    timeSpec.tv_sec * MILLISECONDS_PER_SECOND
       + timeSpec.tv_nsec \div NANOSECONDS_PER_MILLISECOND

(* Mutant: the seconds are left out.                                       *)
ClockGetFraction(timeSpec) ==
    (timeSpec.tv_nsec \div NANOSECONDS_PER_MILLISECOND) % UINT32_RANGE

(* Clock_GetTimeMs: the lower 32 bits of the time in milliseconds.         *)
ClockGetTimeMs(timeSpec) ==
    (timeSpec.tv_sec * MILLISECONDS_PER_SECOND
       + timeSpec.tv_nsec \div NANOSECONDS_PER_MILLISECOND) % UINT32_RANGE

(* External: how the library takes the difference of two readings, in      *)
(* unsigned 32-bit arithmetic.                                             *)
CalculateElapsedTime(later, start) == (later - start) % UINT32_RANGE
=============================================================================
