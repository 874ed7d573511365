----------------------------- MODULE FrameTime -----------------------------
(***************************************************************************)
(* The timestamp in a frame of the file log (axp-core/src/job/log.rs,      *)
(* encode_timestamp, decode_timestamp): a signed number of seconds and the *)
(* nanoseconds after them, also for times before the epoch.                *)
(***************************************************************************)
EXTENDS Integers

CONSTANTS
    NanosPerSec,    \* 1_000_000_000
    MaxSecs         \* i64::MAX

ASSUME FrameTimeAssumption == NanosPerSec \in Nat \ {0} /\ MaxSecs \in Nat

\* SystemTime counts as the operating system does: the last full second, and the
\* nanoseconds since.
SystemTime == [secs : -MaxSecs - 1..MaxSecs, nanos : 0..NanosPerSec - 1]

Duration == [secs : 0..MaxSecs + 1, nanos : 0..NanosPerSec - 1]

AfterEpoch(time) == time.secs >= 0

\* How long before the epoch; Err of duration_since has it.
BeforeEpoch(time) ==
    [secs |-> IF time.nanos = 0 THEN -time.secs ELSE -time.secs - 1,
     nanos |-> IF time.nanos = 0 THEN 0 ELSE NanosPerSec - time.nanos]

\* UNIX_EPOCH.checked_sub.
EpochMinus(duration) ==
    [secs |-> IF duration.nanos = 0 THEN -duration.secs ELSE -duration.secs - 1,
     nanos |-> IF duration.nanos = 0 THEN 0 ELSE NanosPerSec - duration.nanos]

-----------------------------------------------------------------------------

Stamp == [secs : -MaxSecs - 1..MaxSecs, nanos : 0..NanosPerSec - 1]

\* encode_timestamp succeeds: i64::try_from and checked_add do.
Encodes(time) ==
    LET before == BeforeEpoch(time)
    IN ~AfterEpoch(time) =>
          /\ before.secs <= MaxSecs
          /\ before.nanos # 0 => before.secs + 1 <= MaxSecs

\* encode_timestamp.
Encode(time) ==
    LET before == BeforeEpoch(time)
    IN IF AfterEpoch(time) THEN [secs |-> time.secs, nanos |-> time.nanos]
       ELSE IF before.nanos = 0 THEN [secs |-> -before.secs, nanos |-> 0]
       ELSE [secs |-> -(before.secs + 1), nanos |-> NanosPerSec - before.nanos]

\* decode_timestamp.
DecodeStamp(stamp) ==
    IF stamp.secs >= 0 THEN [secs |-> stamp.secs, nanos |-> stamp.nanos]
    ELSE IF stamp.nanos = 0 THEN EpochMinus([secs |-> -stamp.secs, nanos |-> 0])
    ELSE EpochMinus([secs |-> -stamp.secs - 1, nanos |-> NanosPerSec - stamp.nanos])

=============================================================================
