------------------------- MODULE SearchRateLimiter -------------------------
(***************************************************************************)
(* SearchRateLimiter (services/worker-runtime/src/index.ts): searches of   *)
(* all tasks queue for permission, and one flag and one timer pass it on.  *)
(* A step runs from one await to the next; processQueue goes on without    *)
(* one until it must wait, so a grant is part of the step that leads to    *)
(* it.  Time counts in units of which RateLimit make rateLimitMs; a timer  *)
(* never fires early and may fire arbitrarily late.                        *)
(*                                                                         *)
(* A definition placed before the one it varies, and used by nothing, is a *)
(* plausible fault that a property must notice (README, "Faults").         *)
(***************************************************************************)
EXTENDS Integers, Sequences

CONSTANTS
    Caller,      \* the calls of tools that may be under way at once
    RateLimit    \* rateLimitMs

ASSUME RateLimitAssumption == RateLimit \in Nat \ {0}

VARIABLES
    queue,          \* the calls that wait, in their order
    isProcessing,
    timer,          \* time until the pending setTimeout may fire
    sinceSearch     \* time since lastSearchTime, up to RateLimit

limiterVars == <<queue, isProcessing, timer, sinceSearch>>

LimiterTypeOK ==
    /\ queue \in Seq(Caller)
    /\ isProcessing \in BOOLEAN
    /\ timer \in 0..RateLimit
    /\ sinceSearch \in 0..RateLimit

LimiterInit ==
    /\ queue = << >>
    /\ isProcessing = FALSE
    /\ timer = 0
    /\ sinceSearch = RateLimit

(***************************************************************************)
(* acquire: the call joins the queue.  If nobody processes it, the queue   *)
(* was empty, and the call either goes on at once or starts the timer.     *)
(***************************************************************************)
PassesIgnoringFlag == sinceSearch >= RateLimit
Passes == ~ isProcessing /\ sinceSearch >= RateLimit

AcquireNow(q) ==
    /\ Passes
    /\ sinceSearch' = 0
    /\ UNCHANGED <<queue, isProcessing, timer>>

AcquireLater(q) ==
    /\ ~ Passes
    /\ queue' = Append(queue, q)
    /\ isProcessing' = TRUE
    /\ timer' = IF isProcessing THEN timer ELSE RateLimit - sinceSearch
    /\ UNCHANGED sinceSearch

\* After a grant, processQueue calls itself if somebody waits.
GoOnNever(rest) == isProcessing' = FALSE /\ timer' = 0
GoOn(rest) ==
    IF rest = << >>
    THEN isProcessing' = FALSE /\ timer' = 0
    ELSE isProcessing' = TRUE /\ timer' = RateLimit

\* The timer fires: the first in the queue may search.
Grant ==
    /\ isProcessing
    /\ timer = 0
    /\ queue # << >>
    /\ queue' = Tail(queue)
    /\ sinceSearch' = 0
    /\ GoOn(Tail(queue))

TimePasses ==
    /\ timer > 0 \/ sinceSearch < RateLimit
    /\ timer' = IF timer > 0 THEN timer - 1 ELSE 0
    /\ sinceSearch' = IF sinceSearch < RateLimit THEN sinceSearch + 1 ELSE RateLimit
    /\ UNCHANGED <<queue, isProcessing>>

\* The limiter alone, with callers that ask one after another.
LimiterNext ==
    \/ \E q \in Caller : AcquireNow(q) \/ AcquireLater(q)
    \/ Grant
    \/ TimePasses

LimiterSpec == LimiterInit /\ [][LimiterNext]_limiterVars

-----------------------------------------------------------------------------
\* The flag says that somebody waits, and the timer then covers what is left of the
\* interval; nobody waits without it.
LimiterInv ==
    /\ LimiterTypeOK
    /\ isProcessing <=> queue # << >>
    /\ isProcessing => sinceSearch + timer >= RateLimit

\* Two searches never start within rateLimitMs of each other, however many tasks ask
\* and however late the timers fire ("1 request per second").
SearchesSpaced ==
    [][Len(queue') < Len(queue) \/ sinceSearch' < sinceSearch
          => sinceSearch = RateLimit]_limiterVars

=============================================================================
