---------------------------- MODULE Acquisition ----------------------------
(***************************************************************************)
(* The handshake between the sweep thread and the I2S DMA interrupt that   *)
(* delivers the codec's samples (main.c: DSP_START, DSP_WAIT,              *)
(* i2s_lld_serve_rx_interrupt, cmd_dump; dsp.c: the accumulators).         *)
(*                                                                         *)
(* The thread disturbs the analog path (a new frequency or codec input),   *)
(* writes ready_time and then wait_count, and spins until the interrupt    *)
(* has counted wait_count down to 0.  The interrupt skips every buffer     *)
(* that ends before ready_time, uses the first one after it only to clear  *)
(* the accumulators, and adds up the others.                               *)
(*                                                                         *)
(* settle, fill_q, steady and acc are history variables: they record what  *)
(* the samples really are, which the firmware cannot see.                  *)
(***************************************************************************)
EXTENDS Integers

CONSTANTS
  Bandwidths,      \* the values config._bandwidth takes (0..511 in the code)
  Delays,          \* the settling delays given to DSP_START, in ticks
  TimeWrap,        \* modulus of the system time (2^32 in the code)
  BufferTicks,     \* ticks the DMA needs to fill one half of rx_buffer
  DumpBuffers      \* interrupts that fill the dump array (192 / 48 = 4)

ASSUME BandwidthsAssumption == Bandwidths \subseteq Nat /\ Bandwidths # {}
ASSUME TimeAssumption == /\ TimeWrap \in Nat \ {0}
                         /\ BufferTicks \in Nat \ {0}
                         /\ DumpBuffers \in Nat \ {0}
ASSUME DelaysAssumption == /\ Delays \subseteq Nat
                           /\ \A d \in Delays : 2 * d <= TimeWrap /\ d < TimeWrap

VARIABLES
  now,             \* chVTGetSystemTimeX()
  ready_time,
  wait_count,
  bandwidth,       \* config._bandwidth
  fill,            \* ticks of samples in the half buffer being filled
  acc,             \* the DSP accumulators: quality q, buffers n while clean
  dump_len,        \* buffers cmd_dump still has to receive
  pc,              \* where the sweep thread is
  settle,          \* ticks until the analog path has really settled
  fill_q,          \* the quality of the samples in the half being filled
  steady           \* has the bandwidth stayed the same since DSP_START?

vars == <<now, ready_time, wait_count, bandwidth, fill, acc, dump_len, pc,
          settle, fill_q, steady>>

Time == 0 .. TimeWrap - 1
Quality == {"clean", "noisy"}
Empty == [n |-> 0, q |-> "clean"]
Spoiled == [n |-> 0, q |-> "noisy"]

(***************************************************************************)
(* Arithmetic of systime_t: unsigned, modulo TimeWrap.                     *)
(***************************************************************************)
AddTime(t, d) == IF t + d >= TimeWrap THEN t + d - TimeWrap ELSE t + d
SubTime(t, u) == IF t >= u THEN t - u ELSE t - u + TimeWrap

\* Variants of the comparison: without the signed difference, and for equality
PlainBeforeReady(t) == t < ready_time
NotYetReady(t) == t # ready_time

\* (int32_t)(chVTGetSystemTimeX() - ready_time) < 0
BeforeReady(t) == 2 * SubTime(t, ready_time) >= TimeWrap

-----------------------------------------------------------------------------
Init ==
  /\ now = 0 /\ ready_time = 0 /\ wait_count = 0
  /\ bandwidth \in Bandwidths
  /\ fill = 0
  /\ acc = Empty
  /\ dump_len = 0
  /\ pc = "idle"
  /\ settle = 0 /\ fill_q = "clean"
  /\ steady = TRUE

\* DSP_START's count: one buffer to clear the accumulators, bandwidth + 1 to
\* add up; and a variant that forgets the one for the reset
CountWithoutReset == bandwidth + 1
StartValue == bandwidth + 2

(***************************************************************************)
(* The sweep thread.  Selecting a codec channel (and retuning) disturbs    *)
(* the path for d ticks and makes whatever the accumulators hold foreign;  *)
(* the first half of DSP_START then writes ready_time.  The interrupt may  *)
(* come before the second half, which writes wait_count.                   *)
(***************************************************************************)
Disturb(d) ==
  /\ ready_time' = AddTime(now, d)
  /\ settle' = d
  /\ fill_q' = "noisy"
  /\ acc' = IF acc.n > 0 THEN Spoiled ELSE acc

SelectChannel(d) ==
  /\ pc = "idle"
  /\ Disturb(d)
  /\ pc' = "arm"
  /\ UNCHANGED <<now, wait_count, bandwidth, fill, dump_len, steady>>

StartCount ==
  /\ pc = "arm"
  /\ wait_count' = StartValue
  /\ steady' = TRUE
  /\ pc' = "wait"
  /\ UNCHANGED <<now, ready_time, bandwidth, fill, acc, dump_len, settle,
                 fill_q>>

\* DSP_WAIT ends and sample_func reads the accumulators
SampleReady == pc = "wait" /\ wait_count = 0

Sample ==
  /\ SampleReady
  /\ pc' = "idle"
  /\ UNCHANGED <<now, ready_time, wait_count, bandwidth, fill, acc, dump_len,
                 settle, fill_q, steady>>

(***************************************************************************)
(* cmd_dump: arms the dump, then DSP_START, then waits for dump_len = 0    *)
(* and not for wait_count = 0.                                             *)
(***************************************************************************)
DumpStart(d) ==
  /\ pc = "idle"
  /\ dump_len' = DumpBuffers
  /\ Disturb(d)
  /\ pc' = "dump_arm"
  /\ UNCHANGED <<now, wait_count, bandwidth, fill, steady>>

DumpCount ==
  /\ pc = "dump_arm"
  /\ wait_count' = StartValue
  /\ steady' = TRUE
  /\ pc' = "dump"
  /\ UNCHANGED <<now, ready_time, bandwidth, fill, acc, dump_len, settle,
                 fill_q>>

DumpDone ==
  /\ pc = "dump" /\ dump_len = 0
  /\ pc' = "idle"
  /\ UNCHANGED <<now, ready_time, wait_count, bandwidth, fill, acc, dump_len,
                 settle, fill_q, steady>>

-----------------------------------------------------------------------------
(***************************************************************************)
(* set_bandwidth.  The menu calls it from the sweep thread, between two    *)
(* acquisitions; the console's `bandwidth' command runs in the shell       *)
(* thread at once, whatever the sweep thread is doing.                     *)
(***************************************************************************)
SetBandwidth(b) ==
  /\ b # bandwidth
  /\ bandwidth' = b
  /\ steady' = FALSE
  /\ UNCHANGED <<now, ready_time, wait_count, fill, acc, dump_len, pc, settle,
                 fill_q>>

-----------------------------------------------------------------------------
(***************************************************************************)
(* Time and the DMA.  A tick adds samples to the half being filled; when   *)
(* the half is full the interrupt comes before the next tick.              *)
(***************************************************************************)
Tick ==
  /\ fill < BufferTicks
  /\ now' = AddTime(now, 1)
  /\ fill' = fill + 1
  /\ settle' = IF settle > 0 THEN settle - 1 ELSE 0
  /\ fill_q' = IF settle > 0 THEN "noisy" ELSE fill_q
  /\ UNCHANGED <<ready_time, wait_count, bandwidth, acc, dump_len, pc, steady>>

\* The DMA goes on with the other half
NextHalf ==
  /\ fill' = 0
  /\ fill_q' = IF settle > 0 THEN "noisy" ELSE "clean"

\* The early return of the interrupt handler
Skipped == wait_count = 0 \/ BeforeReady(now)

I2sSkip ==
  /\ fill = BufferTicks
  /\ Skipped
  /\ NextHalf
  /\ UNCHANGED <<now, ready_time, wait_count, bandwidth, acc, dump_len, pc,
                 settle, steady>>

\* reset_dsp_accumerator() or dsp_process(), by the count still to come
Accumulate ==
  acc' = IF wait_count >= bandwidth + 2 THEN Empty
         ELSE IF "noisy" \in {fill_q, acc.q} THEN Spoiled
         ELSE [n |-> acc.n + 1, q |-> "clean"]

\* duplicate_buffer_to_dump stops at 0; a variant that does not
DumpUnchecked == dump_len - 1
DumpStep == IF dump_len = 0 THEN 0 ELSE dump_len - 1

I2sServe ==
  /\ fill = BufferTicks
  /\ ~Skipped
  /\ Accumulate
  /\ dump_len' = DumpStep
  /\ wait_count' = wait_count - 1
  /\ NextHalf
  /\ UNCHANGED <<now, ready_time, bandwidth, pc, settle, steady>>

-----------------------------------------------------------------------------
SweepThread ==
  \/ StartCount \/ Sample \/ DumpCount \/ DumpDone

Interrupt == I2sSkip \/ I2sServe

Next ==
  \/ \E d \in Delays : SelectChannel(d) \/ DumpStart(d)
  \/ SweepThread
  \/ \E b \in Bandwidths : SetBandwidth(b)
  \/ Tick
  \/ Interrupt

\* Time passes, the DMA keeps running and a thread that can run does run;
\* nobody is obliged to start a measurement or to type a command.
Fairness == WF_vars(Tick) /\ WF_vars(Interrupt) /\ WF_vars(SweepThread)

Spec == Init /\ [][Next]_vars
FairSpec == Spec /\ Fairness

-----------------------------------------------------------------------------
\* The type of every variable.
TypeOK ==
  /\ now \in Time /\ ready_time \in Time
  /\ wait_count \in Nat
  /\ bandwidth \in Bandwidths /\ steady \in BOOLEAN
  /\ fill \in 0 .. BufferTicks
  /\ acc \in [n : Nat, q : Quality]
  /\ dump_len \in 0 .. DumpBuffers
  /\ pc \in {"idle", "arm", "wait", "dump_arm", "dump"}
  /\ settle \in Nat
  /\ fill_q \in Quality

(***************************************************************************)
(* What sample_func reads (main.c sweep, after DSP_WAIT) when nobody has   *)
(* changed the bandwidth meanwhile: exactly bandwidth + 1 whole buffers,   *)
(* every one filled after the path settled, and nothing left over from an  *)
(* earlier channel, point or dump ("reset and wait next clean buffer",     *)
(* main.c:1079).                                                           *)
(***************************************************************************)
SampleClean ==
  (SampleReady /\ steady) => acc = [n |-> bandwidth + 1, q |-> "clean"]

(***************************************************************************)
(* The interrupt's signed comparison (main.c:1076) is right across the     *)
(* wrap of the system time: no buffer is served before the path settled.   *)
(***************************************************************************)
NeverServedEarly ==
  [][(wait_count' < wait_count /\ UNCHANGED pc) => settle = 0]_vars

(***************************************************************************)
(* Every DSP_WAIT ends (main.c: DSP_WAIT spins without a timeout, so a     *)
(* lost count or a wrapped comparison would hang the sweep thread).        *)
(***************************************************************************)
WaitEnds == pc = "wait" ~> pc = "idle"

(***************************************************************************)
(* cmd_dump returns with its samples ("Dump raw ADC samples from the       *)
(* codec", docs/manual/08-console.md); it spins on dump_len.  It is so     *)
(* when it starts with a bandwidth at which DSP_START lets the buffers of  *)
(* a dump through, whatever is set later; with a smaller one it waits for  *)
(* ever (main.c:1275).                                                     *)
(***************************************************************************)
DumpEnds ==
  (pc = "dump" /\ steady /\ bandwidth + 2 >= DumpBuffers) ~> pc = "idle"
=============================================================================
