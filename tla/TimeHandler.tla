----------------------------- MODULE TimeHandler -----------------------------
(***************************************************************************)
(* The time handlers of abci_client/time_handler.go, and main.go's choice  *)
(* between them: a negative block time selects SystemClockTimeHandler, any *)
(* other FixedBlockTimeHandler.  Both keep one offset: curOffset stands    *)
(* for curOffset of the first and curBlockOffset of the second.  Times are *)
(* integers; durations are integers of the width of time.Duration.         *)
(***************************************************************************)
EXTENDS Integers

CONSTANTS BlockTime,      \* --block-time
          StartingTime,   \* --starting-timestamp, or the genesis time
          ClockStart,     \* the system time when the handler is created
          MaxNow,         \* bound on the system clock
          Durations,      \* arguments of advance_time, in seconds
          Second,         \* time.Second
          MaxInt64        \* the largest time.Duration

ASSUME TimesAreIntegers == /\ BlockTime \in Int
                           /\ StartingTime \in Int
                           /\ ClockStart \in Int
                           /\ MaxNow \in Int
                           /\ Durations \subseteq Nat
                           /\ Second \in Nat \ {0}
                           /\ MaxInt64 \in Nat

VARIABLES now,                 \* the system clock
          curOffset,
          lastBlockTimestamp   \* of FixedBlockTimeHandler; 0 is the zero time

timeVars == <<now, curOffset, lastBlockTimestamp>>

UsesSystemClock == BlockTime < 0

(* Arithmetic on durations keeps the low bits, in two's complement.        *)
Half == MaxInt64 + 1
Wrap(x) == ((x + Half) % (2 * Half)) - Half

TimeTypeOK == /\ now \in Int
              /\ curOffset \in Int
              /\ lastBlockTimestamp \in Int

(* Faulty variant: the initial timestamp itself is the offset.             *)
InitialTimestampOffset == IF UsesSystemClock THEN StartingTime ELSE 0

(* NewSystemClockTimeHandler stores time.Since(initialTimestamp).          *)
InitialOffset == IF UsesSystemClock THEN ClockStart - StartingTime ELSE 0

TimeInit == /\ now = ClockStart
            /\ curOffset = InitialOffset
            /\ lastBlockTimestamp = 0

(* What main passes to RunBlockWithTime for the first block.               *)
FirstBlockTime == IF UsesSystemClock THEN StartingTime ELSE StartingTime + BlockTime

(* The time that AdvanceTime returns, once it has added the duration.      *)
AnsweredTime ==
  IF UsesSystemClock THEN now + curOffset
                     ELSE lastBlockTimestamp + Wrap(BlockTime + curOffset)

(* Faulty variant: the time that advance_time would announce.              *)
AnnouncedBlockTime(last) == AnsweredTime

(* The value GetBlockTime returns for the block after one with time last.  *)
NextBlockTime(last) ==
  IF UsesSystemClock THEN now + curOffset ELSE last + Wrap(BlockTime + curOffset)

(* Faulty variant: the offset is not cleared.                              *)
GetBlockTimeKeepingOffset(last) ==
  IF UsesSystemClock
    THEN UNCHANGED timeVars
    ELSE lastBlockTimestamp' = NextBlockTime(last) /\ UNCHANGED <<now, curOffset>>

(* The state change of GetBlockTime: the fixed handler spends the offset.  *)
GetBlockTime(last) ==
  IF UsesSystemClock
    THEN UNCHANGED timeVars
    ELSE /\ curOffset' = 0
         /\ lastBlockTimestamp' = NextBlockTime(last)
         /\ UNCHANGED now

AdvanceTime(duration) ==
  /\ curOffset' = Wrap(curOffset + duration)
  /\ UNCHANGED <<now, lastBlockTimestamp>>

(* The system clock moves on; only its handler reads it.                   *)
Tick == /\ UsesSystemClock
        /\ now < MaxNow
        /\ now' = now + 1
        /\ UNCHANGED <<curOffset, lastBlockTimestamp>>
=============================================================================
