---------------------------- MODULE HealthCache ----------------------------
(***************************************************************************)
(* The health check: its answer is cached, requests that find it too old   *)
(* check at once and each stores what it found, in the order they finish.  *)
(* A check writes a probe file and removes it, which may fail; the start   *)
(* of a server sweeps old probes.                                          *)
(***************************************************************************)
EXTENDS Clock

CONSTANTS
  CacheFor,  \* health_cache_seconds; 0: no cache
  ProbeAge,  \* HEALTH_PROBE_MAX_AGE_SECONDS
  MaxProbes  \* bound on the probes that are there when one cannot be removed

ASSUME HealthAssumption == CacheFor \in Nat /\ ProbeAge \in Nat /\ MaxProbes \in Nat

VARIABLES
  healthy,   \* would a check succeed now?
  stored,    \* when the cached answer was stored; 0: nothing cached
  verdict,   \* the cached answer
  observed,  \* history: when the state it speaks of was seen
  phase,     \* a check: "idle", "probing" (its file is there) or "found"
  found,     \* what it found
  looked,    \* when
  probes     \* files under .health-: pairs of the check that made it and its time

healthVars == <<healthy, stored, verdict, observed, phase, found, looked, probes>>

HealthTypeOK ==
  /\ healthy \in BOOLEAN /\ verdict \in BOOLEAN
  /\ stored \in Nat /\ observed \in Nat
  /\ phase \in [Threads -> {"idle", "probing", "found"}]
  /\ found \in [Threads -> BOOLEAN] /\ looked \in [Threads -> Nat]
  /\ probes \subseteq Threads \X (0..now)

HealthInit ==
  /\ healthy \in BOOLEAN /\ verdict = TRUE
  /\ stored = 0 /\ observed = 0
  /\ phase = [w \in Threads |-> "idle"]
  /\ found = [w \in Threads |-> TRUE] /\ looked = [w \in Threads |-> 0]
  /\ probes = {}

-----------------------------------------------------------------------------
\* The database, the directory or the disk breaks or recovers.
Turn ==
  /\ healthy' = ~healthy
  /\ UNCHANGED <<now, stored, verdict, observed, phase, found, looked, probes>>

Cached == CacheFor > 0 /\ stored > 0 /\ now < stored + CacheFor

\* Mutant: the request that refreshes the cache claims it before it checks.
CheckClaims(w) ==
  /\ phase[w] = "idle" /\ ~Cached
  /\ phase' = [phase EXCEPT ![w] = "probing"]
  /\ found' = [found EXCEPT ![w] = healthy]
  /\ looked' = [looked EXCEPT ![w] = now]
  /\ probes' = probes \cup {<<w, now>>}
  /\ stored' = IF stored > 0 THEN now ELSE stored
  /\ UNCHANGED <<now, healthy, verdict, observed>>

\* The cached answer is too old: the request looks for itself.
Check(w) ==
  /\ phase[w] = "idle" /\ ~Cached
  /\ phase' = [phase EXCEPT ![w] = "probing"]
  /\ found' = [found EXCEPT ![w] = healthy]
  /\ looked' = [looked EXCEPT ![w] = now]
  /\ probes' = probes \cup {<<w, now>>}
  /\ UNCHANGED <<now, healthy, stored, verdict, observed>>

\* The probe is unlinked, or stays if something holds it.
Unprobe(w) ==
  /\ phase[w] = "probing"
  /\ phase' = [phase EXCEPT ![w] = "found"]
  /\ \/ probes' = probes \ {<<w, looked[w]>>}
     \/ Cardinality(probes) <= MaxProbes /\ UNCHANGED probes
  /\ UNCHANGED <<now, healthy, stored, verdict, observed, found, looked>>

\* Stored with the time at which the check ended, over whatever another has stored.
Store(w) ==
  /\ phase[w] = "found"
  /\ phase' = [phase EXCEPT ![w] = "idle"]
  /\ IF CacheFor > 0
     THEN stored' = now /\ verdict' = found[w] /\ observed' = looked[w]
     ELSE UNCHANGED <<stored, verdict, observed>>
  /\ found' = [found EXCEPT ![w] = TRUE] /\ looked' = [looked EXCEPT ![w] = 0]
  /\ UNCHANGED <<now, healthy, probes>>

\* Mutant: every probe is swept.
SweepAllProbes ==
  /\ probes # {}
  /\ probes' = {}
  /\ UNCHANGED <<now, healthy, stored, verdict, observed, phase, found, looked>>

\* cleanup_health_probes, at the start of another process on the same directory.
SweepProbes ==
  /\ \E p \in probes : p[2] + ProbeAge <= now
  /\ probes' = {p \in probes : p[2] + ProbeAge > now}
  /\ UNCHANGED <<now, healthy, stored, verdict, observed, phase, found, looked>>

HealthNext ==
  \/ Turn \/ SweepProbes
  \/ \E w \in Threads : Check(w) \/ Unprobe(w) \/ Store(w)

HealthTick ==
  /\ \A w \in Threads : phase[w] # "idle" => now < looked[w] + Stall
  /\ UNCHANGED healthVars

HealthSpec ==
  ClockInit /\ HealthInit /\ [][HealthNext \/ (Advance /\ HealthTick)]_<<now, healthVars>>

-----------------------------------------------------------------------------
\* However many checks overlap, a cached answer that is served speaks of a state seen
\* less than the cache's time and the length of one check ago.
AnswerIsFresh == Cached => now < observed + CacheFor + Stall

\* The sweep of a starting server leaves the probe of a check in progress alone.
ProbeInUseStays == \A w \in Threads : phase[w] = "probing" => <<w, looked[w]>> \in probes
=============================================================================
