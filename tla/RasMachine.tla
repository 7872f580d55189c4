------------------------------- MODULE RasMachine -------------------------------
(***************************************************************************)
(* The return address stack against the program's own call stack.  The     *)
(* predictor sees calls (btb_update) and returns (btb_predict) in the      *)
(* order the program makes them; history variables hold what a perfect     *)
(* observer would know: the frames of the program's stack, and how deep    *)
(* each has been buried.  The names carry the prefix Ras so that one module *)
(* can reason about this machine and CacheMachine.                         *)
(***************************************************************************)
EXTENDS ReturnAddressStack

CONSTANTS
    Capacities,     \* values of BTB_FUNC_CAP
    ReturnAddrs,    \* return addresses
    UINT_SPACE,     \* where the uint statistics wrap: 2^32
    MaxCalls,       \* bound: calls in a run
    MaxReturns      \* bound: returns in a run

ASSUME RasAssumption ==
    /\ Capacities \subseteq Int
    /\ UINT_SPACE \in Nat \ {0}
    /\ MaxCalls \in Nat /\ MaxReturns \in Nat
    /\ MaxCalls < UINT_SPACE /\ MaxReturns < UINT_SPACE

VARIABLES
    capacity,       \* read once, by the constructor
    ras,
    frames,         \* history: the program's stack, newest return address first
    reach,          \* history: per frame, the greatest depth it was buried to
    ncalls, nrets,  \* history: calls and returns so far
    deepest         \* history: the longest the stack was between operations

rasVars == <<capacity, ras, frames, reach, ncalls, nrets, deepest>>

RasInit ==
    /\ capacity \in Capacities
    /\ ras = NewStack
    /\ frames = << >>
    /\ reach = << >>
    /\ ncalls = 0
    /\ nrets = 0
    /\ deepest = 0

\* A call puts every frame one deeper; the depth of the top frame is 1.
Deeper(k) == IF reach[k] > k + 1 THEN reach[k] ELSE k + 1

\* The program calls: call() with the address of the next instruction.
DoCall(addr) ==
    /\ ncalls < MaxCalls
    /\ ras' = Call(capacity, ras, addr, UINT_SPACE)
    /\ frames' = <<addr>> \o frames
    /\ reach' = <<1>> \o [k \in 1..Len(reach) |-> Deeper(k)]
    /\ ncalls' = ncalls + 1
    /\ deepest' = IF Len(ras'.callqueue) > deepest
                  THEN Len(ras'.callqueue) ELSE deepest
    /\ UNCHANGED <<capacity, nrets>>

\* The program returns; a trace that starts inside a function has returns whose
\* call was never seen.
DoReturn ==
    /\ nrets < MaxReturns
    /\ ras' = Ret(ras, UINT_SPACE)
    /\ IF frames = << >>
       THEN UNCHANGED <<frames, reach>>
       ELSE frames' = Tail(frames) /\ reach' = Tail(reach)
    /\ nrets' = nrets + 1
    /\ UNCHANGED <<capacity, ncalls, deepest>>

RasNext == (\E addr \in ReturnAddrs : DoCall(addr)) \/ DoReturn

RasSpec == RasInit /\ [][RasNext]_rasVars

--------------------------------------------------------------------------------
\* Type correctness, and the capacity is respected.
RasTypeOK ==
    /\ capacity \in Capacities
    /\ ras \in Stacks(ReturnAddrs, UINT_SPACE)
    /\ ras.call_overflow <= ncalls
    /\ ras.ret_underflow <= nrets
    /\ frames \in Seq(ReturnAddrs)
    /\ reach \in Seq(Nat \ {0})
    /\ Len(reach) = Len(frames)
    /\ ncalls \in 0..MaxCalls
    /\ nrets \in 0..MaxReturns
    /\ deepest \in Nat
    /\ capacity >= 0 => Len(ras.callqueue) <= capacity

\* A frame is still known if and only if it was never buried deeper than the
\* capacity, and the known frames are on top, in order, with their addresses.
\* Hence a return is predicted from the stack exactly when its frame survived,
\* and then to the right address, whatever overflows and underflows happened.
Survives(k) == capacity < 0 \/ reach[k] <= capacity

StackIsSurvivingFrames ==
    /\ Len(ras.callqueue) <= Len(frames)
    /\ \A k \in 1..Len(frames) :
        /\ Survives(k) <=> k <= Len(ras.callqueue)
        /\ k <= Len(ras.callqueue) => ras.callqueue[k] = frames[k]

\* Conservation: every call is counted as an overflow, still on the stack, or
\* popped by a return that was not counted as an underflow.
CallsAccountedFor ==
    ncalls - ras.call_overflow - Len(ras.callqueue) = nrets - ras.ret_underflow

\* maxsize is taken between the push and the drop of the oldest entry.  So it is the
\* "deepest stack seen" (predictor.cc:183) until the first drop, and from then on
\* one more than the stack can ever hold.
MaxsizeExplained ==
    ras.maxsize = IF capacity > 0 /\ ras.call_overflow > 0 THEN capacity + 1
                  ELSE deepest

\* The three statistics printed at exit tell the truth, as far as it goes.
StatisticsAddUp == CallsAccountedFor /\ MaxsizeExplained
================================================================================
