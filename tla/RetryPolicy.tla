----------------------------- MODULE RetryPolicy -----------------------------
(***************************************************************************)
(* RetryPolicy::delay_ms (device_connection_manager.cpp): the exponential  *)
(* back-off, computed by doubling in a signed int.  The loop is modelled   *)
(* iteration by iteration, so that every intermediate value can be         *)
(* compared with the range of the type.                                    *)
(***************************************************************************)
EXTENDS Integers

CONSTANTS IntMin, IntMax   \* the range of int

ASSUME IntRange == IntMin \in Int /\ IntMin <= 0 /\ IntMax \in Nat \ {0}

VARIABLES backoff_initial_ms, backoff_max_ms,  \* reliability configuration
          failure_count,                       \* the argument
          index, delay,                        \* the loop
          returned                             \* has delay_ms returned delay?

vars == <<backoff_initial_ms, backoff_max_ms, failure_count, index, delay, returned>>
inputs == <<backoff_initial_ms, backoff_max_ms, failure_count>>

int == IntMin .. IntMax

initial == IF backoff_initial_ms > 0 THEN backoff_initial_ms ELSE 0
max_delay == IF backoff_max_ms > initial THEN backoff_max_ms ELSE initial

\* All that is computed fits in an int: the doubling never overflows, and the
\* delay stays within the configured maximum.
TypeOK == /\ backoff_initial_ms \in int /\ backoff_max_ms \in int /\ failure_count \in int
          /\ index \in int
          /\ delay \in int /\ delay \in 0 .. max_delay
          /\ returned \in BOOLEAN

Init == /\ backoff_initial_ms \in int /\ backoff_max_ms \in int /\ failure_count \in int
        /\ index = 1
        /\ delay = initial
        /\ returned = FALSE

ReturnZero == /\ ~returned /\ index = 1
              /\ initial = 0 \/ failure_count <= 0
              /\ delay' = 0 /\ returned' = TRUE
              /\ UNCHANGED <<inputs, index>>

\* Mutant: one round too many.
LoopingOnceMore == ~returned /\ initial > 0 /\ failure_count > 0 /\ index <= failure_count

Looping == ~returned /\ initial > 0 /\ failure_count > 0 /\ index < failure_count

\* Mutant: the limit is tested on the doubled value's own terms, too late.
AtLimitLate == delay >= max_delay

AtLimit == delay >= max_delay \div 2

ReturnMax == /\ Looping /\ AtLimit
             /\ delay' = max_delay /\ returned' = TRUE
             /\ UNCHANGED <<inputs, index>>

Double == /\ Looping /\ ~AtLimit
          /\ delay' = delay * 2
          /\ index' = index + 1
          /\ UNCHANGED <<inputs, returned>>

\* Mutant: the loop's exit is off by one.
LoopDoneLate == index > failure_count

LoopDone == index >= failure_count

ReturnDelay == /\ ~returned /\ initial > 0 /\ failure_count > 0 /\ LoopDone
               /\ delay' = (IF delay < max_delay THEN delay ELSE max_delay)
               /\ returned' = TRUE
               /\ UNCHANGED <<inputs, index>>

Next == ReturnZero \/ ReturnMax \/ Double \/ ReturnDelay

Spec == Init /\ [][Next]_vars

FairSpec == Spec /\ WF_vars(Next)

-----------------------------------------------------------------------------
\* The reference: double the initial delay for every failure after the
\* first, up to the maximum.
Exponential == LET d == initial * 2 ^ (failure_count - 1)
               IN  IF d < max_delay THEN d ELSE max_delay

\* delay_ms returns the capped exponential, except that the integer division
\* in the loop's test may jump to an odd maximum from one below it.
DelayIsExponential ==
    returned => IF failure_count <= 0 \/ initial = 0 THEN delay = 0
                ELSE \/ delay = Exponential
                     \/ delay = max_delay /\ Exponential = max_delay - 1

\* delay_ms terminates.
Returns == <>returned
=============================================================================
