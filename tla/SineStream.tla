----------------------------- MODULE SineStream -----------------------------
(***************************************************************************)
(* The loop of streaming_test.py: a sine is sampled and sent until the     *)
(* duration is over, and then up to the next crossing of zero on the way   *)
(* down, which a sample has to hit within a window of its phase.           *)
(*                                                                         *)
(* Time is in ticks.  asyncio.sleep(dt) returns after at least dt and at   *)
(* no certain time: the samples are any number of ticks apart up to        *)
(* MaxStep.  With ticks of a millisecond the window is 7 (0.01 of the      *)
(* amplitude at 0.2 Hz), dt is 10, and the assumption grants the event     *)
(* loop a delay of 5.                                                      *)
(***************************************************************************)
EXTENDS Integers

CONSTANTS
  Period,   (* ticks of 1 / FREQ_HZ                                        *)
  Down,     (* ticks from the start to the first crossing on the way down  *)
  Window,   (* ticks on both sides of it in which |pos| < AMPLITUDE * 0.01 *)
  MaxStep,  (* ticks between two samples, at most                          *)
  Duration  (* ticks of DURATION_S                                         *)

ASSUME SineAssumption ==
  /\ Period \in Nat /\ Down \in Nat /\ Window \in Nat /\ Duration \in Nat
  /\ MaxStep \in Nat \ {0}
  /\ Window < Down /\ Down + Window < Period
  /\ Duration > 0

(* A window cannot fall between two samples. *)
ASSUME StepAssumption == MaxStep <= 2 * Window + 1

VARIABLES
  streaming,    (* the loop goes on                                        *)
  elapsed,      (* t, up to Duration                                       *)
  ahead,        (* ticks to the next crossing, negative within its window  *)
  pastDuration, (* past_duration                                           *)
  skipped       (* history: a crossing went by after past_duration         *)

sine == <<streaming, elapsed, ahead, pastDuration, skipped>>

SineTypeOK ==
  /\ streaming \in BOOLEAN
  /\ elapsed \in 0 .. Duration
  /\ ahead \in -Window .. Period - Window - 1
  /\ pastDuration \in BOOLEAN
  /\ skipped \in BOOLEAN

(* The first sample: phase 0, on the way up *)
SineInit ==
  /\ streaming = TRUE
  /\ elapsed = 0
  /\ ahead = Down
  /\ pastDuration = FALSE
  /\ skipped = FALSE

(* Variant: a window one tick narrower on both sides. *)
AtCrossingNarrow(a) == -Window < a /\ a < Window

(* abs(pos[0]) < AMPLITUDE * 0.01 and vel[0] <= 0.0 *)
AtCrossing(a) == -Window <= a /\ a <= Window

(* sleep, and the next turn of the loop: it ends at a crossing after the
   duration, with a single pose at zero, and sends one more sample otherwise. *)
Sample(d) ==
  /\ streaming
  /\ elapsed' = IF elapsed + d < Duration THEN elapsed + d ELSE Duration
  /\ ahead' = IF ahead - d >= -Window THEN ahead - d ELSE ahead - d + Period
  /\ pastDuration' = (elapsed + d >= Duration)
  /\ streaming' = ~(pastDuration' /\ AtCrossing(ahead'))
  /\ skipped' = (skipped \/ (pastDuration /\ ahead - d < -Window))

SineNext == \E d \in 1 .. MaxStep : Sample(d)

SineSpec == SineInit /\ [][SineNext]_sine /\ WF_sine(SineNext)

-----------------------------------------------------------------------------
(* Properties *)

(* "After DURATION_S the loop finishes at the next zero crossing"
   (streaming_test.py): once the duration is over no crossing on the way down
   goes by between two samples, as long as none is later than MaxStep, which
   StepAssumption bounds by the window and asyncio.sleep does not. *)
StopsAtFirstCrossing == ~skipped
=============================================================================
