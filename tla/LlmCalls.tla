------------------------------ MODULE LlmCalls ------------------------------
(***************************************************************************)
(* The calls of the language model: OllamaClient.generate with its rate    *)
(* limiter, its connection check and its retries (core/llm_client.py), the *)
(* retry around it in the direct answer (SearchAgent.                      *)
(* _generate_validated_response, core/robustness.py), and the clients of   *)
(* the cloud providers, which leave retries to their SDK                   *)
(* (core/cloud_llm_client.py).                                             *)
(*                                                                         *)
(* The worker threads share one client, and no lock.  A step of the        *)
(* limiter takes no time, what sleeps or waits for the network takes any:  *)
(* a sleep may last longer than was asked for.                             *)
(***************************************************************************)
EXTENDS Naturals, FiniteSets, Sequences, SequencesExt, Lists

CONSTANTS
    Callers,          \* threads
    PerMinute,        \* max_requests_per_minute
    LlmInterval,      \* min_request_interval, the minute divided by it
    Attempts,         \* stop_after_attempt, of generate and of _ensure_connection
    OuterRetries,     \* max_retries of retry_on_failure
    LlmEnd,           \* bound on the clock
    LlmFailures       \* bound on the failures

LlmMinute == PerMinute * LlmInterval

ASSUME LlmAssumption ==
    /\ PerMinute \in Nat \ {0} /\ LlmInterval \in Nat \ {0} /\ Attempts \in Nat \ {0}
    /\ {OuterRetries, LlmEnd, LlmFailures} \subseteq Nat

NoLlmCall == [at |-> "idle", validated |-> FALSE, outer |-> 0, tries |-> 0, conns |-> 0, now |-> 0, until |-> 0]

VARIABLES
    provider,         \* llm.provider of the configuration
    stamps,           \* request_timestamps
    llmCall,          \* llmCall[t]: the call of a thread and where it is
    posted,           \* history: posted[t], when t sent its requests to Ollama, those of
                      \* the minute that ends with its last
    llmClock, llmFailures

llmVars == <<provider, stamps, llmCall, posted, llmClock, llmFailures>>

LlmInit ==
    /\ provider \in {"ollama", "cloud"}
    /\ stamps = <<>>
    /\ llmCall = [t \in Callers |-> NoLlmCall]
    /\ posted = [t \in Callers |-> <<>>]
    /\ llmClock = 0 /\ llmFailures = LlmFailures

-----------------------------------------------------------------------------
CallAt(t, step) == llmCall[t].at = step
CallGoes(t, call) == llmCall' = [llmCall EXCEPT ![t] = call]

\* generate begins, or an attempt of it.  _wait_for_rate_limit: stamps that are
\* older than a minute go; with as many as are allowed, the thread sleeps until
\* the oldest is a minute old.  The clients of the cloud have no limiter.
BeginsCall(t, call) ==
    LET recent == Filtered(stamps, {s \in 0 .. LlmEnd : llmClock - s <= LlmMinute}) IN
    IF provider = "cloud" THEN CallGoes(t, [call EXCEPT !.at = "connect"]) /\ UNCHANGED stamps
    ELSE /\ stamps' = recent
         /\ CallGoes(t, IF Len(recent) >= PerMinute /\ llmClock - recent[1] < LlmMinute
                    THEN [call EXCEPT !.at = "sleepMinute", !.until = recent[1] + LlmMinute]
                    ELSE [call EXCEPT !.at = "interval", !.now = llmClock])

\* A call, by itself or from the direct answer
Calls(t) ==
    /\ CallAt(t, "idle")
    /\ \E validated \in BOOLEAN : BeginsCall(t, [NoLlmCall EXCEPT !.validated = validated])
    /\ UNCHANGED <<provider, posted, llmClock, llmFailures>>

\* The pause before another attempt has passed.
TriesAgain(t) ==
    /\ CallAt(t, "backoff")
    /\ BeginsCall(t, llmCall[t])
    /\ UNCHANGED <<provider, posted, llmClock, llmFailures>>

\* Then it sleeps until the latest stamp is an interval old.
LooksAtInterval(t) ==
    /\ CallAt(t, "interval")
    /\ CallGoes(t, IF stamps # <<>> /\ llmCall[t].now < Last(stamps) + LlmInterval
               THEN [llmCall[t] EXCEPT !.at = "sleepInterval", !.until = Last(stamps) + LlmInterval]
               ELSE [llmCall[t] EXCEPT !.at = "record"])
    /\ UNCHANGED <<provider, stamps, posted, llmClock, llmFailures>>

Wakes(t, step, next) ==
    /\ CallAt(t, step) /\ llmClock >= llmCall[t].until
    /\ CallGoes(t, [llmCall[t] EXCEPT !.at = next, !.now = llmClock])
    /\ UNCHANGED <<provider, stamps, posted, llmClock, llmFailures>>

\* Faulty variant: the stamp is appended to the pruned copy only.
RecordsInCopy(t) ==
    /\ CallAt(t, "record")
    /\ CallGoes(t, [llmCall[t] EXCEPT !.at = "connect", !.conns = 0, !.now = 0, !.until = 0])
    /\ UNCHANGED <<provider, stamps, posted, llmClock, llmFailures>>

\* Whatever other threads have recorded meanwhile, the request is recorded.
RecordsStamp(t) ==
    /\ CallAt(t, "record")
    /\ stamps' = Append(stamps, llmCall[t].now)
    /\ CallGoes(t, [llmCall[t] EXCEPT !.at = "connect", !.conns = 0, !.now = 0, !.until = 0])
    /\ UNCHANGED <<provider, posted, llmClock, llmFailures>>

\* An attempt of generate that a RequestException ended, and then the whole
\* of generate: the direct answer calls it again.
Ended(call) ==
    IF call.validated /\ call.outer < OuterRetries
    THEN [call EXCEPT !.at = "backoff", !.outer = @ + 1, !.tries = 0]
    ELSE NoLlmCall
\* Faulty variant: one attempt too many.
FailsOnceMore(call) == IF call.tries < Attempts THEN [call EXCEPT !.at = "backoff", !.tries = @ + 1] ELSE Ended(call)
Failed(call) == IF call.tries + 1 < Attempts THEN [call EXCEPT !.at = "backoff", !.tries = @ + 1] ELSE Ended(call)

\* _ensure_connection gets no answer, and then none in all its attempts.
ConnectionFails(t) ==
    /\ provider = "ollama" /\ CallAt(t, "connect") /\ llmFailures > 0
    /\ llmFailures' = llmFailures - 1
    /\ CallGoes(t, IF llmCall[t].conns + 1 < Attempts THEN [llmCall[t] EXCEPT !.conns = @ + 1] ELSE Failed(llmCall[t]))
    /\ UNCHANGED <<provider, stamps, posted, llmClock>>

\* The connection answers and the request is sent, POST /api/generate.  Then
\* the answer is there, the call idle; or there is none, or an HTTP error:
\* another attempt; or it cannot be read, which ends generate.
Posts(t) ==
    /\ provider = "ollama" /\ CallAt(t, "connect")
    /\ posted' = [posted EXCEPT ![t] = Append(Filtered(@, {s \in 0 .. LlmEnd : s + LlmMinute > llmClock}), llmClock)]
    /\ \/ CallGoes(t, NoLlmCall) /\ UNCHANGED llmFailures
       \/ /\ llmFailures > 0 /\ llmFailures' = llmFailures - 1
          /\ \E after \in {Failed(llmCall[t]), Ended(llmCall[t])} : CallGoes(t, after)
    /\ UNCHANGED <<provider, stamps, llmClock>>

\* OpenAIClient.chat, AnthropicClient.chat or GroqClient.chat: one request to
\* the SDK, no attempts of its own.
SdkReplies(t) ==
    /\ provider = "cloud" /\ CallAt(t, "connect")
    /\ CallGoes(t, NoLlmCall)
    /\ UNCHANGED <<provider, stamps, posted, llmClock, llmFailures>>

SdkRaises(t) ==
    /\ provider = "cloud" /\ CallAt(t, "connect") /\ llmFailures > 0
    /\ llmFailures' = llmFailures - 1
    /\ CallGoes(t, Ended(llmCall[t]))
    /\ UNCHANGED <<provider, stamps, posted, llmClock>>

LlmTick ==
    /\ llmClock < LlmEnd
    /\ \A t \in Callers : llmCall[t].at \notin {"interval", "record"}
    /\ llmClock' = llmClock + 1
    /\ UNCHANGED <<provider, stamps, llmCall, posted, llmFailures>>

LlmNext ==
    \/ LlmTick
    \/ \E t \in Callers :
         \/ Calls(t) \/ LooksAtInterval(t)
         \/ Wakes(t, "sleepMinute", "interval") \/ Wakes(t, "sleepInterval", "record")
         \/ RecordsStamp(t) \/ ConnectionFails(t) \/ Posts(t) \/ TriesAgain(t)
         \/ SdkReplies(t) \/ SdkRaises(t)

LlmSpec == LlmInit /\ [][LlmNext]_llmVars

-----------------------------------------------------------------------------
LlmTypeOK ==
    /\ provider \in {"ollama", "cloud"}
    /\ stamps \in Seq(0 .. LlmEnd)
    /\ \A t \in Callers :
         /\ llmCall[t].at \in {"idle", "sleepMinute", "interval", "sleepInterval", "record",
                               "connect", "backoff"}
         /\ llmCall[t].outer \in 0 .. OuterRetries /\ llmCall[t].tries \in 0 .. Attempts - 1
         /\ llmCall[t].conns \in 0 .. Attempts - 1
         /\ posted[t] \in Seq(0 .. LlmEnd)
    /\ llmClock \in 0 .. LlmEnd /\ llmFailures \in 0 .. LlmFailures

\* The threads share the limiter without a lock and can pass it together, but
\* each is held to it, through all the retries, one in the other: in no minute
\* does a thread send more requests than are allowed in one, and one that was
\* late.  (All threads together send as many times more.)
CallsPolite == \A t \in Callers : Len(posted[t]) <= PerMinute + 1
=============================================================================
