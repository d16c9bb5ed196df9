------------------------- MODULE AcquisitionProofs -------------------------
(***************************************************************************)
(* Proofs about Acquisition, for every set of bandwidths and delays, every *)
(* buffer length and every modulus of the system time.                     *)
(***************************************************************************)
EXTENDS Acquisition, TLAPS

(***************************************************************************)
(* The clock and the history of the path agree: settle ticks from now it   *)
(* is ready_time.                                                          *)
(***************************************************************************)
TimeInv ==
  settle > 0 => /\ AddTime(now, settle) = ready_time
                /\ 2 * settle <= TimeWrap /\ settle < TimeWrap

(***************************************************************************)
(* An acquisition under way at a steady bandwidth: until the first served  *)
(* interrupt nothing is known of the accumulators; from then on the path   *)
(* has settled, the half being filled is clean and the accumulators hold   *)
(* the buffers counted.                                                    *)
(***************************************************************************)
CountInv ==
  (pc = "wait" /\ steady) =>
    /\ wait_count <= bandwidth + 2
    /\ wait_count < bandwidth + 2 =>
         /\ settle = 0
         /\ fill_q = "clean"
         /\ acc = [n |-> bandwidth + 1 - wait_count, q |-> "clean"]

IInv == TypeOK /\ TimeInv /\ CountInv

-----------------------------------------------------------------------------
\* systime_t arithmetic stays in range (main.c:1076 and DSP_START).
LEMMA AddTimeType ==
  ASSUME NEW t \in Time, NEW d \in Nat, d < TimeWrap
  PROVE  AddTime(t, d) \in Time
  BY TimeAssumption DEF AddTime, Time

\* The handler's signed comparison answers "not yet" for every future
\* ready_time that is at most half a wrap away (main.c:1076).
LEMMA FutureIsBefore ==
  ASSUME NEW t \in Time, NEW d \in Nat, d > 0, d < TimeWrap, 2 * d <= TimeWrap,
         ready_time = AddTime(t, d)
  PROVE  BeforeReady(t)
  BY TimeAssumption DEF BeforeReady, SubTime, AddTime, Time

-----------------------------------------------------------------------------
\* Every state of the handshake is well typed, whoever sets the bandwidth.
THEOREM TypeCorrect == Spec => []TypeOK
<1> USE BandwidthsAssumption, TimeAssumption, DelaysAssumption
    DEF Empty, Spoiled
<1>1. Init => TypeOK
  BY DEF Init, TypeOK, Time, Quality
<1>2. TypeOK /\ [Next]_vars => TypeOK'
  <2> SUFFICES ASSUME TypeOK, [Next]_vars PROVE TypeOK'
    OBVIOUS
  <2> USE DEF TypeOK, Quality
  <2>1. ASSUME NEW d \in Delays, SelectChannel(d) PROVE TypeOK'
    <3>1. AddTime(now, d) \in Time
      BY AddTimeType
    <3>2. QED
      BY <2>1, <3>1 DEF SelectChannel, Disturb
  <2>2. ASSUME NEW d \in Delays, DumpStart(d) PROVE TypeOK'
    <3>1. AddTime(now, d) \in Time
      BY AddTimeType
    <3>2. QED
      BY <2>2, <3>1 DEF DumpStart, Disturb
  <2>3. CASE StartCount
    BY <2>3 DEF StartCount, StartValue
  <2>4. CASE Sample
    BY <2>4 DEF Sample
  <2>5. CASE DumpCount
    BY <2>5 DEF DumpCount, StartValue
  <2>6. CASE DumpDone
    BY <2>6 DEF DumpDone
  <2>7. ASSUME NEW b \in Bandwidths, SetBandwidth(b) PROVE TypeOK'
    BY <2>7 DEF SetBandwidth
  <2>8. CASE Tick
    <3>1. AddTime(now, 1) \in Time
      BY DEF AddTime, Time
    <3>2. QED
      BY <2>8, <3>1 DEF Tick
  <2>9. CASE I2sSkip
    BY <2>9 DEF I2sSkip, NextHalf
  <2>10. CASE I2sServe
    <3>1. wait_count' \in Nat
      BY <2>10 DEF I2sServe, Skipped
    <3>2. acc' \in [n : Nat, q : Quality]
      BY <2>10 DEF I2sServe, Accumulate
    <3>3. QED
      BY <2>10, <3>1, <3>2 DEF I2sServe, NextHalf, DumpStep
  <2>11. CASE UNCHANGED vars
    BY <2>11 DEF vars
  <2>12. QED
    BY <2>1, <2>2, <2>3, <2>4, <2>5, <2>6, <2>7, <2>8, <2>9, <2>10, <2>11
       DEF Next, SweepThread, Interrupt
<1>3. QED
  BY <1>1, <1>2, PTL DEF Spec

-----------------------------------------------------------------------------
\* The clock agrees with the history of the path, in every step.
LEMMA TimeStep ==
  ASSUME TypeOK, TimeInv, [Next]_vars
  PROVE  TimeInv'
<1> USE BandwidthsAssumption, TimeAssumption, DelaysAssumption DEF TypeOK, TimeInv
<1>1. ASSUME NEW d \in Delays, Disturb(d), UNCHANGED now PROVE TimeInv'
  BY <1>1 DEF Disturb, AddTime
<1>2. CASE Tick
  BY <1>2 DEF Tick, AddTime, Time
<1>3. CASE UNCHANGED <<now, ready_time, settle>>
  BY <1>3 DEF AddTime
<1>4. QED
  BY <1>1, <1>2, <1>3
     DEF Next, SweepThread, Interrupt, SelectChannel, DumpStart, StartCount, Sample,
         DumpCount, DumpDone, SetBandwidth, I2sSkip, I2sServe, vars

\* A served interrupt comes after the path has settled.
LEMMA ServedSettled ==
  ASSUME TypeOK, TimeInv, I2sServe
  PROVE  settle = 0
<1>1. SUFFICES ASSUME settle > 0 PROVE FALSE
  BY DEF TypeOK
<1>2. BeforeReady(now)
  BY <1>1, FutureIsBefore DEF TypeOK, TimeInv
<1>3. QED
  BY <1>2 DEF I2sServe, Skipped

(***************************************************************************)
(* The interrupt's comparison never serves a buffer before ready_time,     *)
(* across every wrap of the system time (main.c:1076) and for every way    *)
(* the bandwidth is changed.                                               *)
(***************************************************************************)
THEOREM ServedOnlyWhenSettled == Spec => NeverServedEarly
<1>1. Init => TimeInv
  BY DEF Init, TimeInv
<1>2. TypeOK /\ TimeInv /\ [Next]_vars => TimeInv'
  BY TimeStep
<1>3. TypeOK /\ TimeInv /\ [Next]_vars
        => [(wait_count' < wait_count /\ UNCHANGED pc) => settle = 0]_vars
  <2> SUFFICES ASSUME TypeOK, TimeInv, Next, wait_count' < wait_count, UNCHANGED pc
               PROVE  settle = 0
    OBVIOUS
  <2>1. CASE I2sServe
    BY <2>1, ServedSettled
  <2>2. CASE ~I2sServe
    BY <2>2 DEF Next, SweepThread, Interrupt, SelectChannel, DumpStart, StartCount, Sample,
         DumpCount, DumpDone, SetBandwidth, I2sSkip, Tick, TypeOK
  <2>3. QED
    BY <2>1, <2>2
<1>4. QED
  BY <1>1, <1>2, <1>3, TypeCorrect, PTL DEF Spec, NeverServedEarly

-----------------------------------------------------------------------------
\* An acquisition counts and accumulates as CountInv says, in every step.
LEMMA CountStep ==
  ASSUME IInv, [Next]_vars
  PROVE  CountInv'
<1> USE BandwidthsAssumption, TimeAssumption, DelaysAssumption
    DEF IInv, TypeOK, CountInv, Empty, Spoiled
<1>1. ASSUME NEW d \in Delays, SelectChannel(d) \/ DumpStart(d) PROVE CountInv'
  BY <1>1 DEF SelectChannel, DumpStart
<1>2. CASE StartCount
  BY <1>2 DEF StartCount, StartValue
<1>3. CASE Sample \/ DumpDone \/ DumpCount
  BY <1>3 DEF Sample, DumpDone, DumpCount
<1>4. ASSUME NEW b \in Bandwidths, SetBandwidth(b) PROVE CountInv'
  BY <1>4 DEF SetBandwidth
<1>5. CASE Tick
  BY <1>5 DEF Tick
<1>6. CASE I2sSkip
  BY <1>6 DEF I2sSkip, NextHalf
<1>7. CASE I2sServe
  <2> SUFFICES ASSUME pc' = "wait", steady' PROVE CountInv'
    OBVIOUS
  <2>1. pc = "wait" /\ steady /\ UNCHANGED <<pc, steady, bandwidth, settle>>
    BY <1>7 DEF I2sServe
  <2>2. settle = 0
    BY <1>7, ServedSettled
  <2>3. fill_q' = "clean"
    BY <1>7, <2>2 DEF I2sServe, NextHalf
  <2>4. wait_count' = wait_count - 1 /\ wait_count > 0
    BY <1>7 DEF I2sServe, Skipped
  <2>5. acc' = [n |-> bandwidth + 1 - wait_count', q |-> "clean"]
    <3>1. CASE wait_count = bandwidth + 2
      BY <1>7, <2>1, <2>4, <3>1 DEF I2sServe, Accumulate
    <3>2. CASE wait_count < bandwidth + 2
      BY <1>7, <2>1, <2>4, <3>2 DEF I2sServe, Accumulate
    <3>3. QED
      BY <2>1, <3>1, <3>2
  <2>6. QED
    BY <2>1, <2>2, <2>3, <2>4, <2>5
<1>8. CASE UNCHANGED vars
  BY <1>8 DEF vars
<1>9. QED
  BY <1>1, <1>2, <1>3, <1>4, <1>5, <1>6, <1>7, <1>8 DEF Next, SweepThread, Interrupt

(***************************************************************************)
(* Unless the bandwidth changed during the acquisition, every sample the   *)
(* sweep reads is the sum of exactly bandwidth + 1 settled buffers of its  *)
(* own acquisition (main.c sweep and i2s_lld_serve_rx_interrupt).          *)
(***************************************************************************)
THEOREM SamplesAreClean == Spec => []SampleClean
<1>1. Init => IInv
  BY BandwidthsAssumption, TimeAssumption 
  DEF Init, IInv, TypeOK, TimeInv, CountInv, Time, Quality, Empty
<1>2. TypeOK' /\ IInv /\ [Next]_vars => IInv'
  BY TimeStep, CountStep DEF IInv
<1>3. IInv => SampleClean
  BY BandwidthsAssumption DEF IInv, TypeOK, CountInv, SampleClean, SampleReady
<1>4. QED
  BY <1>1, <1>2, <1>3, TypeCorrect, PTL DEF Spec
=============================================================================
