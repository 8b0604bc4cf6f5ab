----------------------------- MODULE UsbAdcCache -----------------------------
(***************************************************************************)
(* The cache of the USB analog inputs (api/hardware_runtime.py): readers   *)
(* are served the last sample while it is not too old, one task at a time  *)
(* reads the sidecar, and a sampler task keeps reading as long as somebody *)
(* polls.                                                                  *)
(*                                                                         *)
(* Time is discrete: the age of the sample, the rest of a cooldown and so  *)
(* on are counters that a tick moves; it does not tick while a task is     *)
(* ready to run.  The sidecar is external: a read ends with values, with   *)
(* channels that carry errors instead, or fails.                           *)
(***************************************************************************)
EXTENDS Naturals, FiniteSets

CONSTANTS
    Readers,    \* callers of read_usb_adc_sensor_values
    Samplers,   \* sampler tasks that may be alive at a time
    Interval,   \* usb_adc_sample_interval_seconds
    MaxStale,   \* max(usb_adc_max_stale_seconds, the interval)
    Cooldown,   \* USB_ADC_FAILURE_TTL_SEC
    NoSampler

ASSUME CacheAssumption ==
    /\ Interval \in Nat \ {0} /\ MaxStale \in Nat /\ Interval <= MaxStale
    /\ Cooldown \in Nat \ {0}
    /\ NoSampler \notin Samplers

VARIABLES
    plugged,    \* sidecar: whether a read gets values
    channels,   \* the cached sample: nothing, values or errors
    age,        \* now - sampled_at, up to MaxStale + 1
    available,  \* _USB_ADC_STATUS["available"]
    retryIn,    \* retry_after - now
    inFlight,   \* reads of the sidecar under way
    elapsed,    \* how long the last one is under way, up to Cooldown
    activeFor,  \* active_until - now
    samplerTask,\* sampler_task
    sampler,    \* where each sampler is
    delay,      \* how long it has to sleep
    since,      \* how long it has waited for its read, up to Interval
    pc,         \* where each reader is
    answer      \* what it was given last

sampleVars == <<channels, age, available, retryIn>>
readVars == <<inFlight, elapsed>>
samplerVars == <<samplerTask, sampler, delay, since, activeFor>>
cacheVars == <<plugged, sampleVars, readVars, samplerVars, pc, answer>>

LessTo(n, bound) == IF n < bound THEN n + 1 ELSE n
Rest(n) == IF n > 0 THEN n - 1 ELSE 0
Larger(m, n) == IF m > n THEN m ELSE n

CacheInit ==
    /\ plugged \in BOOLEAN
    /\ channels = "nothing" /\ age = MaxStale + 1
    /\ available = "unknown" /\ retryIn = 0
    /\ inFlight = 0 /\ elapsed = 0
    /\ activeFor = 0 /\ samplerTask = NoSampler
    /\ sampler = [s \in Samplers |-> "ended"]
    /\ delay = [s \in Samplers |-> 0]
    /\ since = [s \in Samplers |-> 0]
    /\ pc = [r \in Readers |-> "idle"]
    /\ answer = [r \in Readers |-> "nothing"]

-----------------------------------------------------------------------------
(* _start_usb_adc_refresh and _refresh_usb_adc_sample.                     *)

\* Mutant: a refresh is started next to one that is under way.
StartAnother == inFlight' = inFlight + 1 /\ elapsed' = 0

\* The read under way is reused.
StartRefresh ==
    IF inFlight > 0
    THEN UNCHANGED readVars
    ELSE inFlight' = 1 /\ elapsed' = 0

\* Those that wait for a read go on when it ends.
WakeAll ==
    /\ pc' = [r \in Readers |-> IF pc[r] = "waiting" THEN "ready" ELSE pc[r]]
    /\ sampler' = [s \in Samplers |->
          IF sampler[s] = "waiting" THEN "ready" ELSE sampler[s]]

ReadEnds(sample) ==
    /\ inFlight > 0
    /\ sample = "values" => plugged
    /\ sample = "errors" => ~plugged
    /\ inFlight' = inFlight - 1 /\ elapsed' = 0
    /\ channels' = sample /\ age' = 0
    /\ available' = "yes" /\ retryIn' = 0
    /\ WakeAll
    /\ UNCHANGED <<plugged, samplerTask, delay, since, activeFor, answer>>

\* The cooldown counts from the start of the read, so that a slow failure has
\* none; the sample stays.
ReadFails ==
    /\ inFlight > 0 /\ ~plugged
    /\ inFlight' = inFlight - 1 /\ elapsed' = 0
    /\ available' = "no" /\ retryIn' = Cooldown - elapsed
    /\ WakeAll
    /\ UNCHANGED <<plugged, channels, age, samplerTask, delay, since,
                   activeFor, answer>>

-----------------------------------------------------------------------------
(* _ensure_usb_adc_sampler and _run_usb_adc_sampler.                       *)

Alive(s) == sampler[s] # "ended"

EnsureSampler ==
    /\ activeFor' = Larger(activeFor, MaxStale)
    /\ IF samplerTask # NoSampler /\ Alive(samplerTask)
       THEN UNCHANGED <<samplerTask, sampler>>
       ELSE \E s \in Samplers :
              /\ ~Alive(s)
              /\ samplerTask' = s
              /\ sampler' = [sampler EXCEPT ![s] = "created"]
    /\ UNCHANGED <<delay, since>>

\* The head of the loop: nobody polls any more, or the next read is due after
\* the rest of the interval and of a cooldown.
LoopWith(s, due) ==
    /\ since' = [since EXCEPT ![s] = 0]
    /\ IF activeFor = 0
       THEN /\ sampler' = [sampler EXCEPT ![s] = "ended"]
            /\ samplerTask' = NoSampler
            /\ delay' = [delay EXCEPT ![s] = 0]
       ELSE /\ sampler' = [sampler EXCEPT ![s] = "asleep"]
            /\ delay' = [delay EXCEPT ![s] =
                  IF available = "no" THEN Larger(due, retryIn) ELSE due]
            /\ UNCHANGED samplerTask

SamplerBegins(s) ==
    /\ sampler[s] = "created"
    /\ LoopWith(s, IF age < Interval THEN Interval - age ELSE 0)
    /\ UNCHANGED <<plugged, sampleVars, readVars, activeFor, pc, answer>>

\* The sleep is over: nobody polls any more, or the sidecar is read.
SamplerWakes(s) ==
    /\ sampler[s] = "asleep" /\ delay[s] = 0
    /\ IF activeFor = 0
       THEN /\ sampler' = [sampler EXCEPT ![s] = "ended"]
            /\ samplerTask' = NoSampler
            /\ UNCHANGED readVars
       ELSE /\ sampler' = [sampler EXCEPT ![s] = "waiting"]
            /\ StartRefresh
            /\ UNCHANGED samplerTask
    /\ UNCHANGED <<plugged, sampleVars, delay, since, activeFor, pc, answer>>

\* The cadence is start to start.
SamplerGoesOn(s) ==
    /\ sampler[s] = "ready"
    /\ LoopWith(s, Interval - since[s])
    /\ UNCHANGED <<plugged, sampleVars, readVars, activeFor, pc, answer>>

-----------------------------------------------------------------------------
(* read_usb_adc_sensor_values.                                             *)

\* What the caller gets from the sample as it is.
Sample ==
    CASE channels = "values" /\ age <= MaxStale -> "values"
      [] channels = "values" /\ age > MaxStale -> "expired"
      [] channels # "values" -> channels

Give(r, what) == answer' = [answer EXCEPT ![r] = what]

\* Mutant: the end of the cooldown is not looked at.
CoolingForGood == available = "no"

Cooling == available = "no" /\ retryIn > 0

\* A sample young enough is served while it is renewed.
ReadCached(r) ==
    /\ pc[r] = "idle" /\ channels # "nothing" /\ age <= MaxStale
    /\ EnsureSampler
    /\ Give(r, Sample)
    /\ UNCHANGED <<plugged, sampleVars, readVars, pc>>

\* So are old errors, with one read started behind them.
ReadErrors(r) ==
    /\ pc[r] = "idle" /\ channels = "errors" /\ age > MaxStale
    /\ IF Cooling THEN UNCHANGED readVars ELSE StartRefresh
    /\ EnsureSampler
    /\ Give(r, Sample)
    /\ UNCHANGED <<plugged, sampleVars, pc>>

Expired == channels = "nothing" \/ (channels = "values" /\ age > MaxStale)

ReadRefused(r) ==
    /\ pc[r] = "idle" /\ Expired /\ Cooling
    /\ Give(r, "nothing")
    /\ UNCHANGED <<plugged, sampleVars, readVars, samplerVars, pc>>

\* Old values are not served: the reader waits for a read.
ReadWaits(r) ==
    /\ pc[r] = "idle" /\ Expired /\ ~Cooling
    /\ StartRefresh
    /\ pc' = [pc EXCEPT ![r] = "waiting"]
    /\ UNCHANGED <<plugged, sampleVars, samplerVars, answer>>

\* Mutant: what the read left is served whatever its age.
AfterWaitAny == Sample

\* A read that failed has left the old values.
AfterWait == IF age > MaxStale THEN "nothing" ELSE Sample

ReadGoesOn(r) ==
    /\ pc[r] = "ready"
    /\ pc' = [pc EXCEPT ![r] = "idle"]
    /\ EnsureSampler
    /\ Give(r, AfterWait)
    /\ UNCHANGED <<plugged, sampleVars, readVars>>

-----------------------------------------------------------------------------
Ready ==
    \/ \E r \in Readers : pc[r] = "ready"
    \/ \E s \in Samplers : \/ sampler[s] \in {"created", "ready"}
                           \/ sampler[s] = "asleep" /\ delay[s] = 0

Tick ==
    /\ ~Ready
    /\ age' = LessTo(age, MaxStale + 1)
    /\ retryIn' = Rest(retryIn)
    /\ elapsed' = IF inFlight > 0 THEN LessTo(elapsed, Cooldown) ELSE 0
    /\ activeFor' = Rest(activeFor)
    /\ delay' = [s \in Samplers |-> Rest(delay[s])]
    /\ since' = [s \in Samplers |->
          IF sampler[s] = "waiting" THEN LessTo(since[s], Interval) ELSE 0]
    /\ UNCHANGED <<plugged, channels, available, inFlight, samplerTask,
                   sampler, pc, answer>>

Plug ==
    /\ plugged' = ~plugged
    /\ UNCHANGED <<sampleVars, readVars, samplerVars, pc, answer>>

Poll(r) == ReadCached(r) \/ ReadErrors(r) \/ ReadRefused(r) \/ ReadWaits(r)

SamplerStep(s) == SamplerBegins(s) \/ SamplerWakes(s) \/ SamplerGoesOn(s)

ReadStep == ReadFails \/ \E sample \in {"values", "errors"} : ReadEnds(sample)

CacheNext ==
    \/ \E r \in Readers : Poll(r) \/ ReadGoesOn(r)
    \/ \E s \in Samplers : SamplerStep(s)
    \/ ReadStep \/ Tick \/ Plug

CacheSpec == CacheInit /\ [][CacheNext]_cacheVars

\* Readers keep polling, reads end, tasks run and time goes on.
FairSpec ==
    /\ CacheSpec
    /\ \A r \in Readers : WF_cacheVars(Poll(r)) /\ WF_cacheVars(ReadGoesOn(r))
    /\ \A s \in Samplers : WF_cacheVars(SamplerStep(s))
    /\ WF_cacheVars(ReadStep) /\ SF_cacheVars(Tick)

-----------------------------------------------------------------------------
\* "Never overlap reads": whatever readers, old errors and the sampler ask for,
\* the sidecar is read once at a time, a read somebody waits for is under way,
\* and the only sampler alive is the one the cache knows; there is one as long
\* as somebody has polled lately.
ReadsNeverOverlap ==
    /\ inFlight \in {0, 1}
    /\ (\E r \in Readers : pc[r] = "waiting")
          \/ (\E s \in Samplers : sampler[s] = "waiting") => inFlight = 1
    /\ \A s \in Samplers : Alive(s) => samplerTask = s
    /\ activeFor > 0 => \E s \in Samplers : Alive(s)

\* "An expired successful value must fail closed": no reader is given values
\* older than MaxStale, also when the read it waited for has failed.
ExpiredFailsClosed == \A r \in Readers : answer[r] # "expired"

\* A sidecar that stays plugged is read again, and every reader that keeps
\* polling gets values: no cooldown, dead sampler or finished task is in the
\* way.
ValuesComeBack ==
    \A r \in Readers : <>[]plugged => []<>(answer[r] = "values")
=============================================================================
