---------------------------- MODULE PuntPolicer ----------------------------
(***************************************************************************)
(* The punt policer (plugins/osvbng_punt): a token bucket per VPP thread   *)
(* for one protocol.  The configured rate is divided over the threads, the *)
(* burst is not.  A configure stops the workers and refills every bucket.  *)
(*                                                                         *)
(* Tokens are counted in N-ths of a packet, N being the number of threads, *)
(* which makes a thread's share of the rate a whole number: the model is   *)
(* exact where the code rounds doubles.                                    *)
(***************************************************************************)
EXTENDS Integers, FiniteSets, FiniteSetsExt, Functions

CONSTANTS
  Threads,   \* VPP threads
  Rates,     \* rates a client may configure, packets per tick
  Bursts,    \* bursts a client may configure, packets
  Rate0, Burst0,  \* defaults of policer_init
  MaxTime,   \* bound: ticks
  MaxPunts   \* bound: packets admitted at one tick on one thread

N == Cardinality(Threads)

ASSUME PolicerAssumption ==
  /\ IsFiniteSet(Threads) /\ Threads # {}
  /\ Rates \subseteq Nat /\ Bursts \subseteq Nat
  /\ Rate0 \in Nat \ {0} /\ Burst0 \in Nat \ {0}
  /\ MaxTime \in Nat /\ MaxPunts \in Nat

VARIABLES
  now,        \* vlib_time_now
  cfgRate,    \* policer_rate
  cfgBurst,   \* policer_burst
  rate,       \* N times pt->rate, packets per tick
  burst,      \* pt->burst, N-ths of a packet
  tokens,     \* pt->tokens, N-ths of a packet
  last,       \* pt->last_update
  since,      \* when the buckets were last filled
  admitted    \* packets each thread admitted at each tick since then

policerVars == <<now, cfgRate, cfgBurst, rate, burst, tokens, last, since, admitted>>

Times == 0..MaxTime

\* policer_rate / n, in N-ths of a packet per tick.
Share(r) == r

Larger(a, b) == IF a < b THEN b ELSE a
Smaller(a, b) == IF a < b THEN a ELSE b

\* osvbng_punt_policer_apply
Apply(r, b) ==
  /\ rate' = [t \in Threads |-> Share(r)]
  /\ burst' = [t \in Threads |-> N * Larger(b, 1)]
  /\ tokens' = burst'
  /\ last' = [t \in Threads |-> now]
  /\ since' = now
  /\ admitted' = [t \in Threads |-> [s \in Times |-> 0]]

PolicerInit ==
  /\ now = 0
  /\ cfgRate = Rate0 /\ cfgBurst = Burst0
  /\ rate = [t \in Threads |-> Share(Rate0)]
  /\ burst = [t \in Threads |-> N * Larger(Burst0, 1)]
  /\ tokens = burst
  /\ last = [t \in Threads |-> 0]
  /\ since = 0
  /\ admitted = [t \in Threads |-> [s \in Times |-> 0]]

PolicerTick ==
  /\ now < MaxTime
  /\ now' = now + 1
  /\ UNCHANGED <<cfgRate, cfgBurst, rate, burst, tokens, last, since, admitted>>

\* The bucket after the refill that opens osvbng_punt_policer_allow.
Refilled(t) == Smaller(tokens[t] + (now - last[t]) * rate[t], burst[t])

\* The refill of a refused packet is kept, as is its time.
Refuse(t) ==
  /\ rate[t] # 0 /\ Refilled(t) < N
  /\ tokens' = [tokens EXCEPT ![t] = Refilled(t)]
  /\ last' = [last EXCEPT ![t] = now]
  /\ UNCHANGED <<now, cfgRate, cfgBurst, rate, burst, since, admitted>>

\* Mutant: the time of the refill is not kept.
Allow_NoUpdate(t) ==
  /\ rate[t] # 0 /\ Refilled(t) >= N
  /\ admitted[t][now] < MaxPunts
  /\ tokens' = [tokens EXCEPT ![t] = Refilled(t) - N]
  /\ admitted' = [admitted EXCEPT ![t][now] = @ + 1]
  /\ UNCHANGED <<now, cfgRate, cfgBurst, rate, burst, last, since>>

Allow(t) ==
  /\ rate[t] # 0 /\ Refilled(t) >= N
  /\ admitted[t][now] < MaxPunts
  /\ tokens' = [tokens EXCEPT ![t] = Refilled(t) - N]
  /\ last' = [last EXCEPT ![t] = now]
  /\ admitted' = [admitted EXCEPT ![t][now] = @ + 1]
  /\ UNCHANGED <<now, cfgRate, cfgBurst, rate, burst, since>>

\* osvbng_punt_policer_configure: a burst of 0 keeps the burst, a rate of 0
\* polices nothing.
Configure(r, b) ==
  /\ cfgRate' = r
  /\ cfgBurst' = IF b > 0 THEN b ELSE cfgBurst
  /\ Apply(cfgRate', cfgBurst')
  /\ UNCHANGED now

\* The CLI's rate of 0 keeps the rate.
CliConfigure(r, b) ==
  /\ r # 0 \/ b # 0
  /\ Configure(IF r = 0 THEN cfgRate ELSE r, b)

PolicerNext ==
  \/ PolicerTick
  \/ \E t \in Threads : Allow(t) \/ Refuse(t)
  \/ \E r \in Rates, b \in Bursts : Configure(r, b) \/ CliConfigure(r, b)

-----------------------------------------------------------------------------
PolicerTypeOK ==
  /\ now \in Times /\ since \in Times
  /\ cfgRate \in Nat /\ cfgBurst \in Nat \ {0}
  /\ rate \in [Threads -> Nat]
  /\ burst \in [Threads -> Nat]
  /\ tokens \in [Threads -> Nat]
  /\ last \in [Threads -> Times]
  /\ admitted \in [Threads -> [Times -> Nat]]

\* What a thread admitted from tick s on.
From(t, s) == SumFunctionOnSet(admitted[t], s..now)

\* The reference: a continuous bucket holds what the tightest window since
\* the last configure leaves of its burst and its share of the rate.
Level(t) == Min({burst[t] + (now - s) * rate[t] - N * From(t, s) : s \in since..now})

\* The lazy refill is exact: whenever a packet comes, the bucket holds what a
\* continuously filled one would, so a packet is refused only if admitting it
\* would break the envelope of some window, and never otherwise.  And "the rate
\* is divided so the aggregate sustained rate holds however traffic spreads
\* across workers", "the worst-case transient this admits is burst on every
\* worker at once" (osvbng_punt_policer_apply): over every window, all threads
\* together admit at most the rate plus N bursts.
PolicerExact ==
  /\ PolicerTypeOK
  /\ \A t \in Threads : rate[t] # 0 => Refilled(t) = Level(t)
  /\ \A s \in since..now :
       cfgRate # 0 =>
         SumFunctionOnSet([t \in Threads |-> From(t, s)], Threads)
           <= cfgRate * (now - s) + N * cfgBurst
=============================================================================
