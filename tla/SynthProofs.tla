---------------------------- MODULE SynthProofs ----------------------------
(***************************************************************************)
(* Proofs about Synth: for every band table, every set of frequencies,     *)
(* powers, references and IF offsets, the writes si5351_set_frequency      *)
(* skips are redundant. The state [drv, chip, gain] a driver call works on *)
(* is followed through the call; a lemma says what each register write     *)
(* leaves, then what programming a band does, then what the whole call     *)
(* does.                                                                   *)
(***************************************************************************)
EXTENDS Synth, TLAPS

\* The values of a control register.
Ctrls == [on : BOOLEAN, drive : 0 .. 3, pll : {"A", "B"}, int : BOOLEAN]
\* The three outputs.
Clks == 0 .. 2

\* The fields of the state a driver call works on.
Shaped(s) ==
  /\ s = [drv |-> s.drv, chip |-> s.chip, gain |-> s.gain]
  /\ s.drv = [band |-> s.drv.band, power |-> s.drv.power, freq |-> s.drv.freq,
              cache |-> s.drv.cache]
  /\ s.drv.cache \in [Clks -> Ctrls]
  /\ s.chip = [oe |-> s.chip.oe, ctrl |-> s.chip.ctrl, ms |-> s.chip.ms, pll |-> s.chip.pll]
  /\ s.chip.ctrl \in [Clks -> Ctrls]
  /\ s.chip.ms = [c \in Clks |-> s.chip.ms[c]]
  /\ s.chip.pll = [p \in {"A", "B"} |-> s.chip.pll[p]]

\* CacheCoherent of the state a driver call works on.
Coherent(s) == \A c \in Clks : s.chip.ctrl[c] \in {s.drv.cache[c], Down}
\* Nothing was powered down behind the cache: every copy is exact.
Exact(s) == \A c \in Clks : s.chip.ctrl[c] = s.drv.cache[c]

\* What no register write changes.
SameDriver(r, s) ==
  /\ r.gain = s.gain /\ r.chip.oe = s.chip.oe
  /\ r.drv.band = s.drv.band /\ r.drv.power = s.drv.power /\ r.drv.freq = s.drv.freq

\* A control value is one a register can hold.
LEMMA ClkTyped ==
  ASSUME NEW d \in 0 .. 3, NEW p \in {"A", "B"}, NEW i \in BOOLEAN
  PROVE  /\ Clk(d, p, i) \in Ctrls /\ Clk(d, p, i).on /\ Clk(d, p, i).pll = p
         /\ Clk(d, p, i).drive = d
         /\ Down \in Ctrls
  BY DEF Clk, Ctrls, Down

\* si5351_setupPLL changes one PLL.
LEMMA WritePLL ==
  ASSUME NEW s, Shaped(s), NEW p \in {"A", "B"}, NEW v, NEW r, r = SetupPLL(s, p, v)
  PROVE  /\ Shaped(r) /\ SameDriver(r, s)
         /\ r.drv.cache = s.drv.cache /\ r.chip.ctrl = s.chip.ctrl /\ r.chip.ms = s.chip.ms
         /\ r.chip.pll[p] = v
         /\ \A q \in {"A", "B"} \ {p} : r.chip.pll[q] = s.chip.pll[q]
  BY DEF SetupPLL, Shaped, SameDriver

\* si5351_setupMultisynth: the divider always, the control register when
\* the copy differs from the value (si5351.c:37).
LEMMA WriteMultisynth ==
  ASSUME NEW s, Shaped(s), NEW ch \in Clks, NEW m, NEW ctrl \in Ctrls,
         NEW r, r = SetupMultisynth(s, ch, m, ctrl)
  PROVE  /\ Shaped(r) /\ SameDriver(r, s)
         /\ r.chip.pll = s.chip.pll
         /\ r.chip.ms[ch] = m /\ r.drv.cache[ch] = ctrl
         /\ s.chip.ctrl[ch] = s.drv.cache[ch] => r.chip.ctrl[ch] = ctrl
         /\ r.chip.ctrl[ch] \in {ctrl, s.chip.ctrl[ch]}
         /\ s.drv.cache[ch] # ctrl => r.chip.ctrl[ch] = ctrl
         /\ \A c \in Clks \ {ch} : /\ r.chip.ms[c] = s.chip.ms[c]
                                   /\ r.drv.cache[c] = s.drv.cache[c]
                                   /\ r.chip.ctrl[c] = s.chip.ctrl[c]
<1> DEFINE t == [s EXCEPT !.chip.ms[ch] = m]
<1>1. /\ Shaped(t) /\ SameDriver(t, s) /\ t.chip.pll = s.chip.pll
      /\ t.chip.ms[ch] = m /\ \A c \in Clks \ {ch} : t.chip.ms[c] = s.chip.ms[c]
      /\ t.drv = s.drv /\ t.chip.ctrl = s.chip.ctrl
  BY DEF Shaped, SameDriver, Clks
<1>2. r = IF s.drv.cache[ch] = ctrl THEN t
          ELSE [t EXCEPT !.chip.ctrl[ch] = ctrl, !.drv.cache[ch] = ctrl]
  BY DEF SetupMultisynth
<1> HIDE DEF t
<1>3. CASE s.drv.cache[ch] = ctrl
  BY <1>1, <1>2, <1>3
<1>4. CASE s.drv.cache[ch] # ctrl
  <2>1. r = [t EXCEPT !.chip.ctrl[ch] = ctrl, !.drv.cache[ch] = ctrl]
    BY <1>2, <1>4
  <2>2. /\ r.gain = t.gain
        /\ r.chip = [oe |-> t.chip.oe, ctrl |-> [t.chip.ctrl EXCEPT ![ch] = ctrl],
                     ms |-> t.chip.ms, pll |-> t.chip.pll]
        /\ r.drv = [band |-> t.drv.band, power |-> t.drv.power, freq |-> t.drv.freq,
                    cache |-> [t.drv.cache EXCEPT ![ch] = ctrl]]
        /\ r = [drv |-> r.drv, chip |-> r.chip, gain |-> r.gain]
    BY <1>1, <2>1 DEF Shaped
  <2>3. Shaped(r)
    BY <1>1, <2>2 DEF Shaped
  <2>4. QED
    BY <1>1, <1>4, <2>2, <2>3 DEF Shaped, SameDriver
<1>5. QED
  BY <1>3, <1>4

\* The skipped write keeps the cache coherent, and an exact cache exact.
LEMMA WriteKeeps ==
  ASSUME NEW s, Shaped(s), NEW ch \in Clks, NEW m, NEW ctrl \in Ctrls,
         NEW r, r = SetupMultisynth(s, ch, m, ctrl)
  PROVE  (Coherent(s) => Coherent(r)) /\ (Exact(s) => Exact(r))
<1>1. s.drv.cache[ch] = ctrl => r.chip.ctrl[ch] = s.chip.ctrl[ch]
  BY DEF SetupMultisynth, Shaped
<1>2. QED
  BY <1>1, WriteMultisynth DEF Coherent, Exact

\* A control value with drive current d and PLL p.
IsClk(k, d, p) == k \in Ctrls /\ k.on /\ k.drive = d /\ k.pll = p

\* Such a value exists.
LEMMA ControlValue ==
  ASSUME NEW d \in 0 .. 3, NEW p \in {"A", "B"}, NEW i \in BOOLEAN
  PROVE  \E k : IsClk(k, d, p) /\ k = Clk(d, p, i)
  BY ClkTyped DEF IsClk

\* si5351_set_frequency_fixedpll is one such write.
LEMMA FixedControl ==
  ASSUME NEW s, NEW ch, NEW pll \in {"A", "B"}, NEW reg, NEW khz, NEW f, NEW rdiv,
         NEW drive \in 0 .. 3
  PROVE  \E k : /\ IsClk(k, drive, pll)
                /\ FixedPLL(s, ch, pll, reg, khz, f, rdiv, drive)
                     = SetupMultisynth(s, ch, <<"to", reg, f, xtal>>, k)
<1>1. PICK i \in BOOLEAN : i = ((khz * 2^(7 - rdiv)) % f = 0)
  OBVIOUS
<1>2. IsClk(Clk(drive, pll, i), drive, pll)
  BY ClkTyped DEF IsClk
<1>3. FixedPLL(s, ch, pll, reg, khz, f, rdiv, drive)
        = SetupMultisynth(s, ch, <<"to", reg, f, xtal>>, Clk(drive, pll, i))
  BY <1>1 DEF FixedPLL
<1>4. QED
  BY <1>2, <1>3

\* The PLL of the codec's clock in a band of mode "pll".
Codec == <<"fixed", PllN2>>

\* What the fixed PLLs and the codec's clock hold in a band of mode "pll",
\* which the driver does not write again while the band stays.
PllReady(s, n, x) ==
  /\ s.chip.pll["A"] = <<"fixed", n>> /\ s.chip.pll["B"] = Codec
  /\ s.chip.ms[2] = <<"to", Codec, Clk2Frequency, x>>
  /\ s.drv.cache[2].on /\ s.drv.cache[2].pll = "B"

\* What programming a band of mode "pll" leaves behind.
PllResult(r, s, b, f, ds, ods) ==
  /\ Shaped(r) /\ SameDriver(r, s)
  /\ (Coherent(s) => Coherent(r)) /\ (Exact(s) => Exact(r))
  /\ (s.drv.band = b => PllReady(s, Row(b).n, xtal)) => PllReady(r, Row(b).n, xtal)
  /\ r.chip.ms[0] = <<"to", <<"fixed", Row(b).n>>, f + offset, xtal>>
  /\ r.chip.ms[1] = <<"to", <<"fixed", Row(b).n>>, f, xtal>>
  /\ IsClk(r.drv.cache[0], ods, "A") /\ IsClk(r.drv.cache[1], ds, "A")

\* The branch of si5351_set_frequency for the fixed PLLs.
LEMMA ProgrammedPLL ==
  ASSUME NEW s, Shaped(s), NEW b, NEW f, NEW rdiv, NEW ds \in 0 .. 3, NEW ods \in 0 .. 3,
         NEW r, r = ProgramPLL(s, b, f, rdiv, ds, ods)
  PROVE  PllResult(r, s, b, f, ds, ods)
<1> DEFINE fixed == <<"fixed", Row(b).n>>
           pa == SetupPLL(s, "A", fixed)
           pb == SetupPLL(pa, "B", Codec)
           s1 == IF s.drv.band = b THEN s
                 ELSE FixedPLL(pb, 2, "B", Codec, xtal * PllN2, Clk2Frequency, 0, 0)
           s2 == FixedPLL(s1, 0, "A", fixed, xtal * Row(b).n, f + offset, rdiv, ods)
<1>1. r = FixedPLL(s2, 1, "A", fixed, xtal * Row(b).n, f, rdiv, ds)
  BY DEF ProgramPLL, Codec
<1>2. /\ Shaped(s1) /\ SameDriver(s1, s)
      /\ (Coherent(s) => Coherent(s1)) /\ (Exact(s) => Exact(s1))
      /\ (s.drv.band = b => PllReady(s, Row(b).n, xtal)) => PllReady(s1, Row(b).n, xtal)
  <2>1. CASE s.drv.band = b
    BY <2>1 DEF SameDriver
  <2>2. CASE s.drv.band # b
    <3>1. /\ Shaped(pa) /\ SameDriver(pa, s) /\ pa.drv.cache = s.drv.cache
          /\ pa.chip.ctrl = s.chip.ctrl /\ pa.chip.pll["A"] = fixed
      BY WritePLL
    <3>b. pb = SetupPLL(pa, "B", Codec)
      OBVIOUS
    <3>c. s1 = FixedPLL(pb, 2, "B", Codec, xtal * PllN2, Clk2Frequency, 0, 0)
      BY <2>2
    <3> HIDE DEF pa, pb, s1, fixed
    <3>2. /\ Shaped(pb) /\ SameDriver(pb, pa) /\ pb.drv.cache = pa.drv.cache
          /\ pb.chip.ctrl = pa.chip.ctrl /\ pb.chip.pll["A"] = fixed /\ pb.chip.pll["B"] = Codec
      BY <3>1, <3>b, WritePLL
    <3>3. PICK k : /\ IsClk(k, 0, "B")
                   /\ s1 = SetupMultisynth(pb, 2, <<"to", Codec, Clk2Frequency, xtal>>, k)
      BY <3>c, FixedControl
    <3>4. k \in Ctrls /\ 2 \in Clks
      BY <3>3 DEF IsClk, Clks
    <3>5. /\ Shaped(s1) /\ SameDriver(s1, pb) /\ s1.chip.pll = pb.chip.pll
          /\ s1.chip.ms[2] = <<"to", Codec, Clk2Frequency, xtal>> /\ s1.drv.cache[2] = k
      BY <3>2, <3>3, <3>4, WriteMultisynth
    <3>6. (Coherent(pb) => Coherent(s1)) /\ (Exact(pb) => Exact(s1))
      BY <3>2, <3>3, <3>4, WriteKeeps
    <3>7. (Coherent(s) => Coherent(pb)) /\ (Exact(s) => Exact(pb))
      BY <3>1, <3>2 DEF Coherent, Exact
    <3>8. SameDriver(s1, s)
      BY <3>1, <3>2, <3>5 DEF SameDriver
    <3>9. PllReady(s1, Row(b).n, xtal)
      BY <3>2, <3>3, <3>5 DEF PllReady, IsClk, fixed
    <3>10. QED
      BY <3>5, <3>6, <3>7, <3>8, <3>9
  <2>3. QED
    BY <2>1, <2>2
<1>b. s2 = FixedPLL(s1, 0, "A", fixed, xtal * Row(b).n, f + offset, rdiv, ods)
  OBVIOUS
<1> HIDE DEF s1, s2, fixed
<1>3. PICK k0 : /\ IsClk(k0, ods, "A")
                /\ s2 = SetupMultisynth(s1, 0, <<"to", fixed, f + offset, xtal>>, k0)
  BY <1>b, FixedControl
<1>4. PICK k1 : /\ IsClk(k1, ds, "A")
                /\ r = SetupMultisynth(s2, 1, <<"to", fixed, f, xtal>>, k1)
  BY <1>1, FixedControl
<1>5. k0 \in Ctrls /\ k1 \in Ctrls /\ 0 \in Clks /\ 1 \in Clks /\ 2 \in Clks
  BY <1>3, <1>4 DEF IsClk, Clks
<1>6. /\ Shaped(s2) /\ SameDriver(s2, s1) /\ s2.chip.pll = s1.chip.pll
      /\ s2.chip.ms[0] = <<"to", fixed, f + offset, xtal>> /\ s2.drv.cache[0] = k0
      /\ s2.chip.ms[2] = s1.chip.ms[2] /\ s2.drv.cache[2] = s1.drv.cache[2]
      /\ (Coherent(s1) => Coherent(s2)) /\ (Exact(s1) => Exact(s2))
  BY <1>2, <1>3, <1>5, WriteMultisynth, WriteKeeps
<1>7. /\ Shaped(r) /\ SameDriver(r, s2) /\ r.chip.pll = s2.chip.pll
      /\ r.chip.ms[1] = <<"to", fixed, f, xtal>> /\ r.drv.cache[1] = k1
      /\ r.chip.ms[2] = s2.chip.ms[2] /\ r.drv.cache[2] = s2.drv.cache[2]
      /\ r.chip.ms[0] = s2.chip.ms[0] /\ r.drv.cache[0] = s2.drv.cache[0]
      /\ (Coherent(s2) => Coherent(r)) /\ (Exact(s2) => Exact(r))
  BY <1>4, <1>5, <1>6, WriteMultisynth, WriteKeeps
<1>8. SameDriver(r, s)
  BY <1>2, <1>6, <1>7 DEF SameDriver
<1>9. PllReady(s1, Row(b).n, xtal) => PllReady(r, Row(b).n, xtal)
  BY <1>2, <1>6, <1>7 DEF PllReady
<1>10. QED
  BY <1>2, <1>3, <1>4, <1>6, <1>7, <1>8, <1>9 DEF PllResult, fixed

\* What the constant dividers hold in a band of mode "mult", which the
\* driver does not write again while div stays.
MultReady(s, n) ==
  /\ s.chip.ms[0] = <<"div", n>> /\ s.chip.ms[1] = <<"div", n>>
  /\ s.drv.cache[0].on /\ s.drv.cache[0].pll = "A"
  /\ s.drv.cache[1].on /\ s.drv.cache[1].pll = "B"

\* What programming a band of mode "mult" leaves behind.
MultResult(r, s, b, f, ds, ods) ==
  /\ Shaped(r) /\ SameDriver(r, s)
  /\ (Coherent(s) => Coherent(r)) /\ (Exact(s) => Exact(r))
  /\ r.chip.pll["A"] = <<"var", f + offset, Row(b).n, Row(b).omul, xtal>>
  /\ r.chip.pll["B"] = <<"var", f, Row(b).n, Row(b).mul, xtal>>
  /\ r.chip.ms[2] = <<"to", r.chip.pll["B"], Clk2Frequency, xtal>>
  /\ IsClk(r.drv.cache[2], 0, "B")
  /\ DivChanges(s.drv.band, b) =>
       /\ MultReady(r, Row(b).n)
       /\ r.drv.cache[0].drive = ods /\ r.drv.cache[1].drive = ds
  /\ ~DivChanges(s.drv.band, b) =>
       /\ r.chip.ms[0] = s.chip.ms[0] /\ r.chip.ms[1] = s.chip.ms[1]
       /\ r.drv.cache[0] = s.drv.cache[0] /\ r.drv.cache[1] = s.drv.cache[1]

\* The branch of si5351_set_frequency for the constant dividers.
LEMMA ProgrammedMult ==
  ASSUME NEW s, Shaped(s), NEW b, NEW f, NEW ds \in 0 .. 3, NEW ods \in 0 .. 3,
         NEW r, r = ProgramMult(s, b, f, ds, ods)
  PROVE  MultResult(r, s, b, f, ds, ods)
<1>a. TRUE \in BOOLEAN
  OBVIOUS
<1>0. PICK ka : IsClk(ka, ods, "A") /\ ka = Clk(ods, "A", TRUE)
  BY <1>a, ControlValue
<1>1. PICK kb : IsClk(kb, ds, "B") /\ kb = Clk(ds, "B", TRUE)
  BY <1>a, ControlValue
<1> DEFINE w == Row(b)
           pllA == <<"var", f + offset, w.n, w.omul, xtal>>
           pllB == <<"var", f, w.n, w.mul, xtal>>
           pa == SetupPLL(s, "A", pllA)
           s1 == SetupPLL(pa, "B", pllB)
           m0 == SetupMultisynth(s1, 0, <<"div", w.n>>, ka)
           m1 == SetupMultisynth(m0, 1, <<"div", w.n>>, kb)
           s2 == IF DivChanges(s.drv.band, b) THEN m1 ELSE s1
<1>2. PICK kc : /\ IsClk(kc, 0, "B")
                /\ r = SetupMultisynth(s2, 2, <<"to", pllB, Clk2Frequency, xtal>>, kc)
  <2>1. PICK i \in BOOLEAN : i = ((f * w.n * 128) % (Clk2Frequency * w.mul) = 0)
    OBVIOUS
  <2>2. r = SetupMultisynth(s2, 2, <<"to", pllB, Clk2Frequency, xtal>>, Clk(0, "B", i))
    BY <1>0, <1>1, <2>1 DEF ProgramMult
  <2>3. PICK k : IsClk(k, 0, "B") /\ k = Clk(0, "B", i)
    BY ControlValue
  <2>4. QED
    BY <2>2, <2>3
<1>3. /\ Shaped(pa) /\ SameDriver(pa, s) /\ pa.drv.cache = s.drv.cache
      /\ pa.chip.ctrl = s.chip.ctrl /\ pa.chip.ms = s.chip.ms /\ pa.chip.pll["A"] = pllA
  BY WritePLL
<1>p. s1 = SetupPLL(pa, "B", pllB)
  OBVIOUS
<1> HIDE DEF w, pllA, pllB, pa, s1, m0, m1, s2
<1>4. /\ Shaped(s1) /\ SameDriver(s1, pa) /\ s1.drv.cache = s.drv.cache
      /\ s1.chip.ctrl = s.chip.ctrl /\ s1.chip.ms = s.chip.ms
      /\ s1.chip.pll["A"] = pllA /\ s1.chip.pll["B"] = pllB
  BY <1>3, <1>p, WritePLL
<1>5. 0 \in Clks /\ 1 \in Clks /\ 2 \in Clks
  BY DEF Clks
<1>6. ka \in Ctrls /\ kb \in Ctrls /\ kc \in Ctrls
  BY <1>0, <1>1, <1>2 DEF IsClk
<1>7. /\ Shaped(s2) /\ SameDriver(s2, s1) /\ s2.chip.pll = s1.chip.pll
      /\ (Coherent(s1) => Coherent(s2)) /\ (Exact(s1) => Exact(s2))
      /\ DivChanges(s.drv.band, b) =>
           /\ s2.chip.ms[0] = <<"div", w.n>> /\ s2.chip.ms[1] = <<"div", w.n>>
           /\ s2.drv.cache[0] = ka /\ s2.drv.cache[1] = kb
      /\ ~DivChanges(s.drv.band, b) => s2 = s1
  <2>1. CASE DivChanges(s.drv.band, b)
    <3>m. /\ m0 = SetupMultisynth(s1, 0, <<"div", w.n>>, ka)
          /\ m1 = SetupMultisynth(m0, 1, <<"div", w.n>>, kb)
      BY DEF m0, m1
    <3>1. /\ Shaped(m0) /\ SameDriver(m0, s1) /\ m0.chip.pll = s1.chip.pll
          /\ m0.chip.ms[0] = <<"div", w.n>> /\ m0.drv.cache[0] = ka
      BY <1>4, <1>5, <1>6, <3>m, WriteMultisynth
    <3>k. (Coherent(s1) => Coherent(m0)) /\ (Exact(s1) => Exact(m0))
      BY <1>4, <1>5, <1>6, <3>m, WriteKeeps
    <3>2. /\ Shaped(m1) /\ SameDriver(m1, m0) /\ m1.chip.pll = m0.chip.pll
          /\ m1.chip.ms[1] = <<"div", w.n>> /\ m1.drv.cache[1] = kb
          /\ m1.chip.ms[0] = m0.chip.ms[0] /\ m1.drv.cache[0] = m0.drv.cache[0]
      BY <1>5, <1>6, <3>m, <3>1, WriteMultisynth
    <3>l. (Coherent(m0) => Coherent(m1)) /\ (Exact(m0) => Exact(m1))
      BY <1>5, <1>6, <3>m, <3>1, WriteKeeps
    <3>3. SameDriver(m1, s1)
      BY <3>1, <3>2 DEF SameDriver
    <3>4. s2 = m1
      BY <2>1 DEF s2
    <3>5. QED
      BY <2>1, <3>1, <3>2, <3>3, <3>4, <3>k, <3>l
  <2>2. CASE ~DivChanges(s.drv.band, b)
    BY <1>4, <2>2 DEF s2, SameDriver
  <2>3. QED
    BY <2>1, <2>2
<1>8. /\ Shaped(r) /\ SameDriver(r, s2) /\ r.chip.pll = s2.chip.pll
      /\ r.chip.ms[2] = <<"to", pllB, Clk2Frequency, xtal>> /\ r.drv.cache[2] = kc
      /\ r.chip.ms[0] = s2.chip.ms[0] /\ r.drv.cache[0] = s2.drv.cache[0]
      /\ r.chip.ms[1] = s2.chip.ms[1] /\ r.drv.cache[1] = s2.drv.cache[1]
  BY <1>2, <1>5, <1>6, <1>7, WriteMultisynth
<1>k. (Coherent(s2) => Coherent(r)) /\ (Exact(s2) => Exact(r))
  BY <1>2, <1>5, <1>6, <1>7, WriteKeeps
<1>9. (Coherent(s) => Coherent(s1)) /\ (Exact(s) => Exact(s1))
  BY <1>4 DEF Coherent, Exact
<1>10. SameDriver(r, s)
  BY <1>3, <1>4, <1>7, <1>8 DEF SameDriver
<1>11. r.chip.pll["A"] = pllA /\ r.chip.pll["B"] = pllB
  BY <1>4, <1>7, <1>8
<1>12. DivChanges(s.drv.band, b) =>
         MultReady(r, Row(b).n) /\ r.drv.cache[0].drive = ods /\ r.drv.cache[1].drive = ds
  BY <1>0, <1>1, <1>7, <1>8 DEF MultReady, IsClk, w
<1>13. ~DivChanges(s.drv.band, b) =>
         /\ r.chip.ms[0] = s.chip.ms[0] /\ r.chip.ms[1] = s.chip.ms[1]
         /\ r.drv.cache[0] = s.drv.cache[0] /\ r.drv.cache[1] = s.drv.cache[1]
  BY <1>4, <1>7, <1>8
<1>14. QED
  BY <1>2, <1>7, <1>8, <1>k, <1>9, <1>10, <1>11, <1>12, <1>13 DEF MultResult, pllA, pllB, w

\* Frequencies the driver is called with (26 MHz by si5351_init).
Tuned == Freqs \cup {26000}
\* The drive settings it is called with.
Drives == Powers \cup {0}
\* The configuration names a table and a threshold.
Configured == threshold \in Thresholds /\ band_mode \in DOMAIN Tables

\* The search for a band ends on a row of the table (si5351.c:444).
LEMMA BandTyped ==
  ASSUME Configured, NEW f \in Tuned
  PROVE  Band(f) \in DOMAIN Tables[band_mode] /\ Band(f) # 0 /\ f # 0
<1>1. f \in Nat /\ f # 0
  BY SetsAssumption DEF Tuned
<1>2. {1, 2} \subseteq DOMAIN Tables[band_mode] /\ 0 \notin DOMAIN Tables[band_mode]
  BY TablesAssumption DEF Configured
<1>3. ASSUME f > 1000
      PROVE  HarmonicLevel(f) \in DOMAIN Tables[band_mode]
  <2>1. \E b \in DOMAIN Tables[band_mode] : f <= Limit(b) /\ \A c \in 1 .. b - 1 : f > Limit(c)
    BY <1>3, BandsAssumption DEF Configured, Tuned, Limit, Row
  <2>2. QED
    BY <2>1 DEF HarmonicLevel
<1>4. CASE f < Row(1).freq
  BY <1>1, <1>2, <1>4 DEF Band
<1>5. CASE ~(f < Row(1).freq) /\ f <= 1000
  BY <1>1, <1>2, <1>5 DEF Band
<1>6. CASE ~(f < Row(1).freq) /\ ~(f <= 1000)
  <2>1. f > 1000
    BY <1>1, <1>6
  <2>2. Band(f) = HarmonicLevel(f)
    BY <1>6 DEF Band
  <2>3. QED
    BY <1>1, <1>2, <1>3, <2>1, <2>2
<1>7. QED
  BY <1>4, <1>5, <1>6

\* What a row holds.
LEMMA RowTyped ==
  ASSUME Configured, NEW b \in DOMAIN Tables[band_mode]
  PROVE  /\ Row(b).mode \in {"pll", "mult"}
         /\ Row(b).n \in Nat \ {0} /\ Row(b).gain \in Nat
         /\ Row(b).pow \in 0 .. 3 /\ Row(b).opow \in 0 .. 3
         /\ b # 0 /\ Div(b) = Row(b).n /\ Gain(b) = Row(b).gain
  BY TablesAssumption DEF Configured, Row, Div, Gain

\* The current handed to the register is one of its four.
LEMMA DriveTyped ==
  ASSUME NEW f, NEW p \in Drives
  PROVE  /\ Drive(f, p) \in Drives
         /\ \A auto \in 0 .. 3 :
              /\ DriveOf(Drive(f, p), auto) \in 0 .. 3
              /\ Drive(f, p) # AutoPower => DriveOf(Drive(f, p), auto) = Drive(f, p)
<1>1. Drive(f, p) \in Drives
  BY DEF Drive, Drives
<1>2. Drive(f, p) \in {0, 1, 2, 3, AutoPower}
  BY <1>1, SetsAssumption DEF Drives
<1>3. QED
  BY <1>1, <1>2 DEF DriveOf, AutoPower

\* The driver call's state after the check of the drive current.
Checked(s, d) == [s EXCEPT !.drv = CheckPower(s.drv, d)]

\* A new drive current resets the cache of band and frequency.
LEMMA PowerChecked ==
  ASSUME NEW s, Shaped(s), NEW d, NEW t, t = Checked(s, d)
  PROVE  /\ Shaped(t) /\ t.chip = s.chip /\ t.gain = s.gain
         /\ t.drv.cache = s.drv.cache /\ t.drv.power = d
         /\ s.drv.power = d => t = s
         /\ s.drv.power # d => t.drv.band = 0 /\ t.drv.freq = 0
         /\ t.drv.freq = CheckPower(s.drv, d).freq
<1>1. CASE s.drv.power = d
  BY <1>1 DEF Checked, CheckPower, Shaped
<1>2. CASE s.drv.power # d
  BY <1>2 DEF Checked, CheckPower, ResetCache, Shaped
<1>3. QED
  BY <1>1, <1>2

\* The gain changes only when the bands differ in it.
LEMMA GainSet ==
  ASSUME NEW s, Shaped(s), NEW b, NEW t, t = SetGain(s, b)
  PROVE  /\ Shaped(t) /\ t.drv = s.drv /\ t.chip = s.chip
         /\ (s.drv.band = b \/ Gain(s.drv.band) = Gain(b)) => t.gain = s.gain
         /\ (s.drv.band # b /\ Gain(s.drv.band) # Gain(b)) => t.gain = Gain(b)
  BY DEF SetGain, Shaped

\* How the result r of SetFrequency(s, f, p) comes about: the band b, the
\* state t after the check of the drive, u after the gain, and the
\* currents.
Computed(r, s, f, p, b, t, u, ds, ods) ==
  /\ b = Band(f)
  /\ t = Checked(s, Drive(f, p))
  /\ u = SetGain(t, b)
  /\ ds \in 0 .. 3 /\ ods \in 0 .. 3
  /\ Drive(f, p) # AutoPower => ds = Drive(f, p) /\ ods = Drive(f, p)
  /\ f = t.drv.freq => r = t
  /\ f # t.drv.freq /\ Row(b).mode = "pll" =>
       \E rdiv : r = ProgramPLL(u, b, f, rdiv, ds, ods)
  /\ f # t.drv.freq /\ Row(b).mode = "mult" => r = ProgramMult(u, b, f, ds, ods)

\* Every call comes about in that way.
LEMMA Outcome ==
  ASSUME Configured, NEW s, Shaped(s), NEW f \in Tuned, NEW p \in Drives,
         NEW r, r = SetFrequency(s, f, p)
  PROVE  \E b, t, u, ds, ods : Computed(r, s, f, p, b, t, u, ds, ods)
<1>1. PICK b : b = Band(f)
  OBVIOUS
<1>2. PICK t : t = Checked(s, Drive(f, p))
  OBVIOUS
<1>3. PICK u : u = SetGain(t, b)
  OBVIOUS
<1>4. PICK ds : ds = DriveOf(Drive(f, p), Row(b).pow)
  OBVIOUS
<1>5. PICK ods : ods = DriveOf(Drive(f, p), Row(b).opow)
  OBVIOUS
<1>6. PICK rdiv : rdiv = IF f < Row(1).freq THEN 7 ELSE IF f <= 1000 THEN 4 ELSE 0
  OBVIOUS
<1>7. b \in DOMAIN Tables[band_mode] /\ f # 0
  BY <1>1, BandTyped
<1>8. Row(b).pow \in 0 .. 3 /\ Row(b).opow \in 0 .. 3
  BY <1>7, RowTyped
<1>9. /\ ds \in 0 .. 3 /\ ods \in 0 .. 3
      /\ Drive(f, p) # AutoPower => ds = Drive(f, p) /\ ods = Drive(f, p)
  BY <1>4, <1>5, <1>8, DriveTyped
<1>10. r = IF f = 0 THEN s
           ELSE IF f = t.drv.freq THEN t
           ELSE IF Row(b).mode = "pll" THEN ProgramPLL(u, b, f, rdiv, ds, ods)
           ELSE ProgramMult(u, b, f, ds, ods)
  BY <1>1, <1>2, <1>3, <1>4, <1>5, <1>6 DEF SetFrequency, Checked
<1>11. Computed(r, s, f, p, b, t, u, ds, ods)
  BY <1>1, <1>2, <1>3, <1>7, <1>9, <1>10 DEF Computed
<1>12. QED
  BY <1>11

\* A call keeps the cache coherent, and forgets band and frequency only
\* when the drive current changed.
LEMMA KeptShape ==
  ASSUME Configured, NEW s, Shaped(s), NEW f \in Tuned, NEW p \in Drives,
         NEW r, r = SetFrequency(s, f, p)
  PROVE  /\ Shaped(r) /\ r.chip.oe = s.chip.oe
         /\ (Coherent(s) => Coherent(r)) /\ (Exact(s) => Exact(r))
         /\ r.drv.power = Drive(f, p)
         /\ \/ r.drv.band = s.drv.band /\ r.drv.freq = s.drv.freq
            \/ r.drv.band = 0 /\ r.drv.freq = 0
         /\ f = CheckPower(s.drv, Drive(f, p)).freq => r = s
<1>1. PICK b, t, u, ds, ods : Computed(r, s, f, p, b, t, u, ds, ods)
  BY Outcome
<1>2. PICK d : d = Drive(f, p)
  OBVIOUS
<1>3. t = Checked(s, d) /\ u = SetGain(t, b)
  BY <1>1, <1>2 DEF Computed
<1>4. /\ Shaped(t) /\ t.chip = s.chip /\ t.drv.cache = s.drv.cache /\ t.drv.power = d
      /\ s.drv.power = d => t = s
      /\ s.drv.power # d => t.drv.band = 0 /\ t.drv.freq = 0
      /\ t.drv.freq = CheckPower(s.drv, d).freq
  BY <1>3, PowerChecked
<1>5. Shaped(u) /\ u.drv = t.drv /\ u.chip = t.chip
  BY <1>3, <1>4, GainSet
<1>6. (Coherent(s) => Coherent(u)) /\ (Exact(s) => Exact(u))
  BY <1>4, <1>5 DEF Coherent, Exact
<1>7. (Coherent(s) => Coherent(t)) /\ (Exact(s) => Exact(t))
  BY <1>4 DEF Coherent, Exact
<1>8. b \in DOMAIN Tables[band_mode] /\ f # 0
  BY <1>1, BandTyped DEF Computed
<1>9. Row(b).mode \in {"pll", "mult"}
  BY <1>8, RowTyped
<1>10. ds \in 0 .. 3 /\ ods \in 0 .. 3
  BY <1>1 DEF Computed
<1>11. CASE f = t.drv.freq
  <2>1. r = t
    BY <1>1, <1>11 DEF Computed
  <2>2. QED
    BY <1>2, <1>4, <1>7, <1>8, <1>11, <2>1
<1>12. ASSUME f # t.drv.freq, Shaped(r), SameDriver(r, u),
              (Coherent(u) => Coherent(r)) /\ (Exact(u) => Exact(r))
       PROVE  /\ r.chip.oe = s.chip.oe
              /\ (Coherent(s) => Coherent(r)) /\ (Exact(s) => Exact(r))
              /\ r.drv.power = Drive(f, p)
              /\ \/ r.drv.band = s.drv.band /\ r.drv.freq = s.drv.freq
                 \/ r.drv.band = 0 /\ r.drv.freq = 0
              /\ f # CheckPower(s.drv, Drive(f, p)).freq
  BY <1>2, <1>4, <1>5, <1>6, <1>12 DEF SameDriver
<1>13. CASE f # t.drv.freq /\ Row(b).mode = "pll"
  <2>1. PICK rdiv : r = ProgramPLL(u, b, f, rdiv, ds, ods)
    BY <1>1, <1>13 DEF Computed
  <2>2. /\ Shaped(r) /\ SameDriver(r, u)
        /\ (Coherent(u) => Coherent(r)) /\ (Exact(u) => Exact(r))
    BY <1>5, <1>10, <2>1, ProgrammedPLL DEF PllResult
  <2>3. QED
    BY <1>12, <1>13, <2>2
<1>14. CASE f # t.drv.freq /\ Row(b).mode = "mult"
  <2>1. r = ProgramMult(u, b, f, ds, ods)
    BY <1>1, <1>14 DEF Computed
  <2>2. MultResult(r, u, b, f, ds, ods)
    BY <1>5, <1>10, <2>1, ProgrammedMult
  <2>3. QED
    BY <1>12, <1>14, <2>2 DEF MultResult
<1>15. QED
  BY <1>9, <1>11, <1>13, <1>14

\* A call that programs leaves the gain of the frequency's band, when the
\* gain was that of the band before or the cache was reset.
LEMMA KeptGain ==
  ASSUME Configured, NEW s, Shaped(s), NEW f \in Tuned, NEW p \in Drives,
         NEW r, r = SetFrequency(s, f, p),
         f # CheckPower(s.drv, Drive(f, p)).freq,
         s.drv.band # 0 => s.gain = Gain(s.drv.band)
  PROVE  r.gain = Gain(Band(f))
<1>1. PICK b, t, u, ds, ods : Computed(r, s, f, p, b, t, u, ds, ods)
  BY Outcome
<1>2. PICK d : d = Drive(f, p)
  OBVIOUS
<1>3. t = Checked(s, d) /\ u = SetGain(t, b)
  BY <1>1, <1>2 DEF Computed
<1>4. /\ Shaped(t) /\ t.gain = s.gain
      /\ s.drv.power = d => t = s
      /\ s.drv.power # d => t.drv.band = 0 /\ t.drv.freq = 0
      /\ t.drv.freq = CheckPower(s.drv, d).freq
  BY <1>3, PowerChecked
<1>5. /\ Shaped(u)
      /\ (t.drv.band = b \/ Gain(t.drv.band) = Gain(b)) => u.gain = t.gain
      /\ (t.drv.band # b /\ Gain(t.drv.band) # Gain(b)) => u.gain = Gain(b)
  BY <1>3, <1>4, GainSet
<1>6. b \in DOMAIN Tables[band_mode] /\ b = Band(f)
  BY <1>1, BandTyped DEF Computed
<1>7. Row(b).mode \in {"pll", "mult"} /\ Gain(b) \in Nat
  BY <1>6, RowTyped
<1>8. u.gain = Gain(b)
  <2>1. CASE t.drv.band = 0
    <3>1. Gain(t.drv.band) # Gain(b)
      BY <1>7, <2>1 DEF Gain
    <3>2. b # 0
      BY <1>6, RowTyped
    <3>3. QED
      BY <1>5, <2>1, <3>1, <3>2
  <2>2. CASE t.drv.band # 0
    BY <1>4, <1>5, <2>2
  <2>3. QED
    BY <2>1, <2>2
<1>9. ds \in 0 .. 3 /\ ods \in 0 .. 3 /\ f # t.drv.freq
  BY <1>1, <1>2, <1>4 DEF Computed
<1>10. CASE Row(b).mode = "pll"
  <2>1. PICK rdiv : r = ProgramPLL(u, b, f, rdiv, ds, ods)
    BY <1>1, <1>9, <1>10 DEF Computed
  <2>2. SameDriver(r, u)
    BY <1>5, <1>9, <2>1, ProgrammedPLL DEF PllResult
  <2>3. QED
    BY <1>6, <1>8, <2>2 DEF SameDriver
<1>11. CASE Row(b).mode = "mult"
  <2>1. r = ProgramMult(u, b, f, ds, ods)
    BY <1>1, <1>9, <1>11 DEF Computed
  <2>2. SameDriver(r, u)
    BY <1>5, <1>9, <2>1, ProgrammedMult DEF MultResult
  <2>3. QED
    BY <1>6, <1>8, <2>2 DEF SameDriver
<1>12. QED
  BY <1>7, <1>10, <1>11

\* Recording the band and frequency at the end of the call.
LEMMA RecordKeeps ==
  ASSUME NEW s, Shaped(s), NEW b, NEW f, NEW t,
         t = [drv |-> Record(s.drv, b, f), chip |-> s.chip, gain |-> s.gain]
  PROVE  /\ Shaped(t) /\ t.drv.band = b /\ t.drv.freq = f
         /\ t.drv.power = s.drv.power /\ t.drv.cache = s.drv.cache
         /\ t.chip = s.chip /\ t.gain = s.gain
         /\ (Coherent(s) => Coherent(t)) /\ (Exact(s) => Exact(t))
<1>1. /\ Shaped(t) /\ t.drv.band = b /\ t.drv.freq = f
      /\ t.drv.power = s.drv.power /\ t.drv.cache = s.drv.cache
      /\ t.chip = s.chip /\ t.gain = s.gain
  BY DEF Record, Shaped
<1>2. QED
  BY <1>1 DEF Coherent, Exact

\* si5351_reset_cache.
LEMMA ResetKeeps ==
  ASSUME NEW s, Shaped(s), NEW t,
         t = [drv |-> ResetCache(s.drv), chip |-> s.chip, gain |-> s.gain]
  PROVE  /\ Shaped(t) /\ t.drv.band = 0 /\ t.drv.freq = 0
         /\ t.drv.power = s.drv.power /\ t.drv.cache = s.drv.cache
         /\ t.chip = s.chip /\ t.gain = s.gain
         /\ (Coherent(s) => Coherent(t)) /\ (Exact(s) => Exact(t))
<1>1. /\ Shaped(t) /\ t.drv.band = 0 /\ t.drv.freq = 0
      /\ t.drv.power = s.drv.power /\ t.drv.cache = s.drv.cache
      /\ t.chip = s.chip /\ t.gain = s.gain
  BY DEF ResetCache, Shaped
<1>2. QED
  BY <1>1 DEF Coherent, Exact

\* The state after the power-down writes of si5351_init.
LEMMA PowerUpShaped ==
  /\ Shaped(PowerUp) /\ Coherent(PowerUp) /\ Exact(PowerUp)
  /\ PowerUp.drv.band = 0 /\ PowerUp.drv.power = 0 /\ PowerUp.drv.freq = 0
  /\ PowerUp.chip.oe = "on"
<1>1. Down \in Ctrls
  BY DEF Down, Ctrls
<1>2. QED
  BY <1>1 DEF PowerUp, Shaped, Coherent, Exact, Clks

\* What a running call will record is a row and a frequency.
PendingOK ==
  pending = <<>> \/ \E b \in DOMAIN Tables[band_mode], f \in Freqs : pending = <<b, f>>

\* The inductive invariant of the driver, whatever the operations.
DriverInv == TypeOK /\ Shaped(State) /\ Coherent(State) /\ PendingOK

\* si5351_init leaves the invariant true.
LEMMA DriverInit == Init => DriverInv
<1> SUFFICES ASSUME Init PROVE DriverInv
  OBVIOUS
<1>1. Configured /\ 26000 \in Tuned /\ 0 \in Drives
  BY DEF Init, Configured, Tuned, Drives
<1>2. PICK s : s = PowerUp
  OBVIOUS
<1>3. /\ Shaped(s) /\ Coherent(s) /\ s.chip.oe = "on"
  BY <1>2, PowerUpShaped
<1>4. PICK r : r = SetFrequency(s, 26000, 0)
  OBVIOUS
<1>5. PICK b : b = Band(26000)
  OBVIOUS
<1>6. /\ Shaped(r) /\ Coherent(r) /\ r.chip.oe = "on" /\ r.drv.power = Drive(26000, 0)
  BY <1>1, <1>3, <1>4, KeptShape
<1>7. drv = Record(r.drv, b, 26000) /\ chip = r.chip /\ gain = r.gain
  BY <1>2, <1>4, <1>5 DEF Init
<1>8. PICK t : t = State
  OBVIOUS
<1>9. t = [drv |-> Record(r.drv, b, 26000), chip |-> r.chip, gain |-> r.gain]
  BY <1>7, <1>8 DEF State
<1>10. /\ Shaped(t) /\ t.drv.band = b /\ t.drv.freq = 26000
       /\ t.drv.power = r.drv.power /\ t.chip = r.chip /\ Coherent(t)
  BY <1>6, <1>9, RecordKeeps
<1>11. t.drv = drv /\ t.chip = chip
  BY <1>8 DEF State
<1>12. drv.power = 0 /\ b \in DOMAIN Tables[band_mode]
  BY <1>1, <1>5, <1>6, <1>10, <1>11, BandTyped DEF Drive
<1>13. \A c \in 0 .. 2 : chip.ctrl[c].drive \in 0 .. 3
  BY <1>10, <1>11 DEF Shaped, Ctrls, Clks
<1>14. TypeOK
  BY <1>6, <1>10, <1>11, <1>12, <1>13 DEF TypeOK, Init
<1>15. QED
  BY <1>8, <1>10, <1>14 DEF DriverInv, PendingOK, Init

\* What a step leaves behind when the driver's part of it is the state t.
LEMMA DriverAfter ==
  ASSUME DriverInv, NEW t, t = State', Shaped(t), Coherent(t),
         t.drv.band \in {0} \cup DOMAIN Tables[band_mode]' \/ "mode" \in Operations,
         t.drv.power \in Drives, t.drv.freq \in Tuned \cup {0},
         t.chip.oe \in {"on", "off"},
         power' \in Powers, xtal' \in Xtals, offset' \in Offsets, threshold' \in Thresholds,
         band_mode' \in DOMAIN Tables, sweep' \in {"on", "paused", "muted"}, PendingOK'
  PROVE  DriverInv'
<1>1. t.drv = drv' /\ t.chip = chip'
  BY DEF State
<1>2. \A c \in 0 .. 2 : chip'.ctrl[c].drive \in 0 .. 3
  BY <1>1 DEF Shaped, Ctrls, Clks
<1>3. TypeOK'
  BY <1>1, <1>2 DEF TypeOK, Tuned, Drives
<1>4. QED
  BY <1>3 DEF DriverInv

\* The fields of the driver's state are the variables.
LEMMA StateFields == State.drv = drv /\ State.chip = chip /\ State.gain = gain
  BY DEF State

\* A tuning step is a call of the driver on its state.
LEMMA TuneResult ==
  ASSUME DriverInv, NEW f \in Freqs, Tune(f)
  PROVE  \E s, p, r : /\ s = State /\ p = power /\ r = SetFrequency(s, f, p) /\ r = State'
                      /\ Shaped(s) /\ Shaped(r)
<1>1. PICK s : s = State
  OBVIOUS
<1>p. PICK p : p = power
  OBVIOUS
<1>2. PICK r : r = SetFrequency(s, f, p)
  OBVIOUS
<1>3. Configured /\ f \in Tuned /\ p \in Drives
  BY <1>p DEF DriverInv, TypeOK, Configured, Tuned, Drives
<1>4. Shaped(s)
  BY <1>1 DEF DriverInv
<1>5. Shaped(r)
  BY <1>2, <1>3, <1>4, KeptShape
<1>6. drv' = r.drv /\ chip' = r.chip /\ gain' = r.gain
  BY <1>1, <1>p, <1>2 DEF Tune, Becomes
<1>7. r = State'
  BY <1>5, <1>6 DEF State, Shaped
<1>8. QED
  BY <1>1, <1>p, <1>2, <1>4, <1>5, <1>7

\* set_power during a pause is such a call and its record, or nothing.
LEMMA SetPowerResult ==
  ASSUME DriverInv, NEW p \in Powers, SetPower(p), State' # State
  PROVE  \E s, r, f :
           /\ s = State /\ f = drv.freq /\ f \in Tuned
           /\ r = SetFrequency(s, f, p) /\ Shaped(s) /\ Shaped(r)
           /\ f = CheckPower(s.drv, Drive(f, p)).freq => State' = r
           /\ f # CheckPower(s.drv, Drive(f, p)).freq =>
                State' = [drv |-> Record(r.drv, Band(f), f), chip |-> r.chip, gain |-> r.gain]
<1>1. PICK s : s = State
  OBVIOUS
<1>2. PICK f : f = drv.freq
  OBVIOUS
<1>3. PICK r : r = SetFrequency(s, f, p)
  OBVIOUS
<1>4. Configured /\ p \in Drives
  BY DEF DriverInv, TypeOK, Configured, Drives
<1>5. ~(sweep = "on" \/ p = drv.power \/ drv.freq = 0)
  BY DEF SetPower, State
<1>6. f \in Tuned
  BY <1>2, <1>5 DEF DriverInv, TypeOK, Tuned
<1>7. Shaped(s)
  BY <1>1 DEF DriverInv
<1>8. Shaped(r)
  BY <1>3, <1>4, <1>6, <1>7, KeptShape
<1>9. Redundant(f, p) <=> f = CheckPower(s.drv, Drive(f, p)).freq
  BY <1>1, <1>2, <1>5 DEF Redundant, State
<1>10. Becomes(IF Redundant(f, p) THEN r ELSE [r EXCEPT !.drv = Record(r.drv, Band(f), f)])
  BY <1>1, <1>2, <1>3, <1>5 DEF SetPower
<1>11. CASE Redundant(f, p)
  <2>1. drv' = r.drv /\ chip' = r.chip /\ gain' = r.gain
    BY <1>10, <1>11 DEF Becomes
  <2>2. State' = r
    BY <1>8, <2>1 DEF State, Shaped
  <2>3. QED
    BY <1>1, <1>2, <1>3, <1>6, <1>7, <1>8, <1>9, <1>11, <2>2
<1>12. CASE ~Redundant(f, p)
  <2>1. drv' = Record(r.drv, Band(f), f) /\ chip' = r.chip /\ gain' = r.gain
    BY <1>8, <1>10, <1>12 DEF Becomes, Shaped
  <2>2. State' = [drv |-> Record(r.drv, Band(f), f), chip |-> r.chip, gain |-> r.gain]
    BY <2>1 DEF State
  <2>3. QED
    BY <1>1, <1>2, <1>3, <1>6, <1>7, <1>8, <1>9, <1>12, <2>2
<1>13. QED
  BY <1>11, <1>12

\* Tuning keeps the invariant,
LEMMA TuneKeepsDriver ==
  ASSUME DriverInv, NEW f \in Freqs, Tune(f)
  PROVE  DriverInv'
<1>1. PICK s, p, r : /\ s = State /\ p = power /\ r = SetFrequency(s, f, p) /\ r = State'
                     /\ Shaped(s) /\ Shaped(r)
  BY TuneResult
<1>2. Configured /\ f \in Tuned /\ p \in Drives
  BY <1>1 DEF DriverInv, TypeOK, Configured, Tuned, Drives
<1>3. s.drv = drv /\ s.chip = chip /\ Coherent(s)
  BY <1>1, StateFields DEF DriverInv
<1>4. /\ Coherent(r) /\ r.chip.oe = chip.oe /\ r.drv.power = Drive(f, p)
      /\ r.drv.band \in {0, drv.band} /\ r.drv.freq \in {0, drv.freq}
  <2>0. r = SetFrequency(s, f, p) /\ Shaped(s)
    BY <1>1
  <2>1. /\ Coherent(s) => Coherent(r)
        /\ r.chip.oe = s.chip.oe /\ r.drv.power = Drive(f, p)
    BY <1>2, <2>0, KeptShape
  <2>2. \/ r.drv.band = s.drv.band /\ r.drv.freq = s.drv.freq
        \/ r.drv.band = 0 /\ r.drv.freq = 0
    BY <1>2, <2>0, KeptShape
  <2>3. QED
    BY <1>3, <2>1, <2>2
<1>5. r.drv.power \in Drives
  BY <1>2, <1>4, DriveTyped
<1>6. UNCHANGED <<power, xtal, offset, threshold, band_mode, sweep>>
  BY DEF Tune, config
<1>7. PendingOK'
  <2>1. Band(f) \in DOMAIN Tables[band_mode]
    BY <1>2, BandTyped
  <2>2. pending' \in {<<>>, <<Band(f), f>>}
    BY DEF Tune
  <2>3. QED
    BY <1>6, <2>1, <2>2 DEF PendingOK
<1>8. QED
  BY <1>1, <1>4, <1>5, <1>6, <1>7, DriverAfter DEF DriverInv, TypeOK, Tuned

\* so does the record at the end of the call,
LEMMA TuneDoneKeepsDriver ==
  ASSUME DriverInv, TuneDone
  PROVE  DriverInv'
<1>1. PICK b \in DOMAIN Tables[band_mode], f \in Freqs : pending = <<b, f>>
  BY DEF DriverInv, PendingOK, TuneDone
<1>2. PICK s : s = State
  OBVIOUS
<1>3. PICK t : t = State'
  OBVIOUS
<1>4. s.drv = drv /\ s.chip = chip /\ s.gain = gain /\ Shaped(s) /\ Coherent(s)
  BY <1>2, StateFields DEF DriverInv
<1>5. t = [drv |-> Record(s.drv, b, f), chip |-> s.chip, gain |-> s.gain]
  BY <1>1, <1>3, <1>4 DEF TuneDone, State
<1>6. /\ Shaped(t) /\ t.drv.band = b /\ t.drv.freq = f
      /\ t.drv.power = drv.power /\ t.chip = chip /\ Coherent(t)
  BY <1>4, <1>5, RecordKeeps
<1>7. UNCHANGED <<power, xtal, offset, threshold, band_mode, sweep>> /\ pending' = <<>>
  BY DEF TuneDone, config
<1>8. QED
  BY <1>3, <1>6, <1>7, DriverAfter DEF DriverInv, TypeOK, Tuned, Drives, PendingOK

\* so does set_power,
LEMMA SetPowerKeepsDriver ==
  ASSUME DriverInv, NEW p \in Powers, SetPower(p)
  PROVE  DriverInv'
<1>1. /\ UNCHANGED <<xtal, offset, threshold, band_mode, sweep, pending>>
      /\ power' \in Powers
  BY DEF SetPower
<1>2. CASE State' = State
  <2>1. PICK t : t = State
    OBVIOUS
  <2>2. /\ t.drv = drv /\ t.chip = chip /\ Shaped(t) /\ Coherent(t)
    BY <2>1, StateFields DEF DriverInv
  <2>3. QED
    BY <1>1, <1>2, <2>1, <2>2, DriverAfter DEF DriverInv, TypeOK, Tuned, Drives, PendingOK
<1>3. CASE State' # State
  <2>1. PICK s, r, f :
           /\ s = State /\ f = drv.freq /\ f \in Tuned
           /\ r = SetFrequency(s, f, p) /\ Shaped(s) /\ Shaped(r)
           /\ f = CheckPower(s.drv, Drive(f, p)).freq => State' = r
           /\ f # CheckPower(s.drv, Drive(f, p)).freq =>
                State' = [drv |-> Record(r.drv, Band(f), f), chip |-> r.chip, gain |-> r.gain]
    BY <1>3, SetPowerResult
  <2>2. Configured /\ p \in Drives
    BY DEF DriverInv, TypeOK, Configured, Drives
  <2>3. s.drv = drv /\ s.chip = chip /\ Coherent(s)
    BY <2>1, StateFields DEF DriverInv
  <2>4. /\ Coherent(r) /\ r.chip.oe = chip.oe /\ r.drv.power = Drive(f, p)
        /\ f = CheckPower(s.drv, Drive(f, p)).freq => r = s
    BY <2>1, <2>2, <2>3, KeptShape
  <2>5. f # CheckPower(s.drv, Drive(f, p)).freq
    BY <1>3, <2>1, <2>4
  <2>6. PICK b : b = Band(f)
    OBVIOUS
  <2>7. PICK t : t = [drv |-> Record(r.drv, b, f), chip |-> r.chip, gain |-> r.gain]
    OBVIOUS
  <2>8. t = State'
    BY <2>1, <2>5, <2>6, <2>7
  <2>9. /\ Shaped(t) /\ t.drv.band = b /\ t.drv.freq = f
        /\ t.drv.power = r.drv.power /\ t.chip = r.chip /\ Coherent(t)
    BY <2>1, <2>4, <2>7, RecordKeeps
  <2>10. t.drv.power \in Drives /\ b \in DOMAIN Tables[band_mode]
    BY <2>1, <2>2, <2>4, <2>6, <2>9, DriveTyped, BandTyped
  <2>11. QED
    BY <1>1, <2>1, <2>4, <2>8, <2>9, <2>10, DriverAfter DEF DriverInv, TypeOK, PendingOK
<1>4. QED
  BY <1>2, <1>3

\* so does everything that resets the cache: a new reference or offset,
\* muting and unmuting, which powers the outputs down.
LEMMA ResetKeepsDriver ==
  ASSUME DriverInv,
         drv' = ResetCache(drv), UNCHANGED <<gain, pending, power, threshold, band_mode>>,
         xtal' \in Xtals, offset' \in Offsets, sweep' \in {"on", "paused", "muted"},
         \/ UNCHANGED chip
         \/ \E oe \in {"on", "off"}, k \in {chip.ctrl, [c \in 0 .. 2 |-> Down]} :
              chip' = [chip EXCEPT !.oe = oe, !.ctrl = k]
  PROVE  DriverInv'
<1>1. PICK s : s = State
  OBVIOUS
<1>2. PICK t : t = State'
  OBVIOUS
<1>3. s.drv = drv /\ s.chip = chip /\ s.gain = gain /\ Shaped(s) /\ Coherent(s)
  BY <1>1, StateFields DEF DriverInv
<1>4. PICK u : u = [drv |-> ResetCache(s.drv), chip |-> s.chip, gain |-> s.gain]
  OBVIOUS
<1>5. /\ Shaped(u) /\ u.drv.band = 0 /\ u.drv.freq = 0
      /\ u.drv.power = drv.power /\ u.chip = chip /\ Coherent(u)
  BY <1>3, <1>4, ResetKeeps
<1>6. t.drv = u.drv /\ t.gain = u.gain /\ t.chip = chip' /\ t = [drv |-> t.drv, chip |-> t.chip, gain |-> t.gain]
  BY <1>2, <1>3, <1>4 DEF State
<1>7. Shaped(t) /\ Coherent(t) /\ t.chip.oe \in {"on", "off"}
  <2>1. CASE UNCHANGED chip
    BY <1>3, <1>4, <1>5, <1>6, <2>1 DEF DriverInv, TypeOK
  <2>2. ASSUME NEW oe \in {"on", "off"}, NEW k \in {chip.ctrl, [c \in 0 .. 2 |-> Down]},
               chip' = [chip EXCEPT !.oe = oe, !.ctrl = k]
        PROVE  Shaped(t) /\ Coherent(t) /\ t.chip.oe \in {"on", "off"}
    <3>1. /\ t.chip.oe = oe /\ t.chip.ctrl = k /\ t.chip.ms = chip.ms /\ t.chip.pll = chip.pll
          /\ t.chip = [oe |-> t.chip.oe, ctrl |-> t.chip.ctrl, ms |-> t.chip.ms, pll |-> t.chip.pll]
      BY <1>5, <1>6, <2>2 DEF Shaped
    <3>2. Down \in Ctrls
      BY DEF Down, Ctrls
    <3>3. k \in [Clks -> Ctrls] /\ \A c \in Clks : k[c] \in {chip.ctrl[c], Down}
      BY <1>5, <2>2, <3>2 DEF Shaped, Clks
    <3>4. Shaped(t)
      BY <1>5, <1>6, <3>1, <3>3 DEF Shaped
    <3>5. Coherent(t)
      BY <1>5, <1>6, <3>1, <3>3 DEF Coherent
    <3>6. QED
      BY <3>1, <3>4, <3>5
  <2>3. QED
    BY <2>1, <2>2
<1>8. QED
  BY <1>2, <1>5, <1>6, <1>7, DriverAfter DEF DriverInv, TypeOK, Drives, PendingOK

\* Every step keeps the driver's invariant.
LEMMA DriverStep == DriverInv /\ [Next]_vars => DriverInv'
<1> SUFFICES ASSUME DriverInv, [Next]_vars PROVE DriverInv'
  OBVIOUS
<1>1. ASSUME UNCHANGED <<drv, chip, gain, power, xtal, offset>>, PendingOK',
             threshold' \in Thresholds, band_mode' \in DOMAIN Tables,
             band_mode' = band_mode \/ "mode" \in Operations,
             sweep' \in {"on", "paused", "muted"}
      PROVE  DriverInv'
  <2>1. PICK t : t = State
    OBVIOUS
  <2>2. /\ t = State' /\ t.drv = drv /\ t.chip = chip /\ Shaped(t) /\ Coherent(t)
    BY <1>1, <2>1, StateFields DEF DriverInv, State
  <2>3. t.drv.band \in {0} \cup DOMAIN Tables[band_mode]' \/ "mode" \in Operations
    BY <1>1, <2>2 DEF DriverInv, TypeOK
  <2>4. QED
    BY <1>1, <2>2, <2>3, DriverAfter DEF DriverInv, TypeOK, Tuned, Drives
<1>2. ASSUME NEW f \in Freqs, Tune(f) PROVE DriverInv'
  BY <1>2, TuneKeepsDriver
<1>3. CASE TuneDone
  BY <1>3, TuneDoneKeepsDriver
<1>4. ASSUME NEW p \in Powers, SetPower(p) PROVE DriverInv'
  BY <1>4, SetPowerKeepsDriver
<1>5. ASSUME NEW x \in Xtals, SetTcxo(x) PROVE DriverInv'
  BY <1>5, ResetKeepsDriver DEF SetTcxo, DriverInv, TypeOK
<1>6. ASSUME NEW o \in Offsets, SetOffset(o) PROVE DriverInv'
  BY <1>6, ResetKeepsDriver DEF SetOffset, DriverInv, TypeOK
<1>7. ASSUME NEW h \in Thresholds, SetThreshold(h) PROVE DriverInv'
  BY <1>1, <1>7 DEF SetThreshold, DriverInv, TypeOK, PendingOK
<1>8. ASSUME NEW t \in DOMAIN Tables, SetBandMode(t) PROVE DriverInv'
  BY <1>1, <1>8 DEF SetBandMode, DriverInv, TypeOK, PendingOK
<1>9. CASE Pause
  BY <1>1, <1>9 DEF Pause, config, DriverInv, TypeOK, PendingOK
<1>10. CASE DisableOutput
  <2>1. /\ drv' = ResetCache(drv)
        /\ UNCHANGED <<gain, pending, power, threshold, band_mode, xtal, offset>>
        /\ sweep' \in {"on", "paused", "muted"}
        /\ chip' = [chip EXCEPT !.oe = "off", !.ctrl = [c \in 0 .. 2 |-> Down]]
    BY <1>10 DEF DisableOutput, config
  <2>2. QED
    BY <2>1, ResetKeepsDriver DEF DriverInv, TypeOK
<1>11. CASE EnableOutput
  <2>1. CASE sweep = "muted"
    <3>1. /\ drv' = ResetCache(drv)
          /\ UNCHANGED <<gain, pending, power, threshold, band_mode, xtal, offset>>
          /\ sweep' \in {"on", "paused", "muted"}
          /\ chip' = [chip EXCEPT !.oe = "on"]
      BY <1>11, <2>1 DEF EnableOutput, config
    <3>2. chip' = [chip EXCEPT !.oe = "on", !.ctrl = chip.ctrl]
      BY <3>1, StateFields DEF DriverInv, Shaped
    <3>3. \E oe \in {"on", "off"}, k \in {chip.ctrl, [c \in 0 .. 2 |-> Down]} :
            chip' = [chip EXCEPT !.oe = oe, !.ctrl = k]
      BY <3>2
    <3>4. xtal' \in Xtals /\ offset' \in Offsets
      BY <3>1 DEF DriverInv, TypeOK
    <3>5. QED
      BY <3>1, <3>3, <3>4, ResetKeepsDriver
  <2>2. CASE sweep # "muted"
    BY <1>1, <1>11, <2>2 DEF EnableOutput, config, DriverInv, TypeOK, PendingOK
  <2>3. QED
    BY <2>1, <2>2
<1>12. CASE UNCHANGED vars
  BY <1>1, <1>12 DEF vars, DriverInv, TypeOK, PendingOK
<1>13. QED
  BY <1>2, <1>3, <1>4, <1>5, <1>6, <1>7, <1>8, <1>9, <1>10, <1>11, <1>12 DEF Next

\* It holds in every reachable state.
LEMMA DriverInvariance == Spec => []DriverInv
  BY DriverInit, DriverStep, PTL DEF Spec

(***************************************************************************)
(* Type correctness, for every set of operations: in particular the drive  *)
(* current in a control register never exceeds its two bits, though the    *)
(* setting may be 255 (automatic).                                         *)
(***************************************************************************)
THEOREM SynthTypeCorrect == Spec => []TypeOK
<1>1. DriverInv => TypeOK
  BY DEF DriverInv
<1>2. QED
  BY <1>1, DriverInvariance, PTL

(***************************************************************************)
(* What clk_cache says of a control register is what the chip holds or     *)
(* what muting left (si5351.c:37), for every set of operations: tables and *)
(* thresholds may change, the outputs be muted and the reference change    *)
(* while a call runs.                                                      *)
(***************************************************************************)
THEOREM CacheIsCoherent == Spec => []CacheCoherent
<1>1. DriverInv => CacheCoherent
  BY StateFields DEF DriverInv, Coherent, CacheCoherent, Clks
<1>2. QED
  BY <1>1, DriverInvariance, PTL

(***************************************************************************)
(* The band of a frequency does not change behind the cache:               *)
(* menu_band_sel_acb and cmd_threshold change table or threshold and do    *)
(* not reset it, and after one of them the band recorded is not that of    *)
(* the frequency.                                                          *)
(***************************************************************************)
OneSearch == "mode" \notin Operations /\ \A h, k \in Thresholds : h = k

(***************************************************************************)
(* The gain is that of the recorded band, of the band about to be recorded *)
(* while a call runs, and the recorded band is the frequency's.            *)
(***************************************************************************)
GainInv ==
  /\ pending = <<>> /\ drv.band # 0 => gain = Gain(drv.band)
  /\ pending # <<>> => gain = Gain(pending[1]) /\ pending[1] = Band(pending[2])
  /\ drv.freq # 0 => drv.band = Band(drv.freq)

\* si5351_init sets the gain of the band of 26 MHz.
LEMMA GainInit == Init => GainInv
<1> SUFFICES ASSUME Init PROVE GainInv
  OBVIOUS
<1>1. Configured /\ 26000 \in Tuned /\ 0 \in Drives
  BY DEF Init, Configured, Tuned, Drives
<1>2. PICK s : s = PowerUp
  OBVIOUS
<1>3. Shaped(s) /\ s.drv.band = 0 /\ s.drv.power = 0 /\ s.drv.freq = 0
  BY <1>2, PowerUpShaped
<1>4. PICK r : r = SetFrequency(s, 26000, 0)
  OBVIOUS
<1>5. CheckPower(s.drv, Drive(26000, 0)).freq = 0
  BY <1>3 DEF CheckPower, Drive
<1>6. r.gain = Gain(Band(26000)) /\ Shaped(r)
  BY <1>1, <1>3, <1>4, <1>5, KeptGain, KeptShape
<1>7. drv = Record(r.drv, Band(26000), 26000) /\ gain = r.gain /\ pending = <<>>
  BY <1>2, <1>4 DEF Init
<1>8. drv.band = Band(26000) /\ drv.freq = 26000
  BY <1>6, <1>7 DEF Record, Shaped
<1>9. QED
  BY <1>6, <1>7, <1>8 DEF GainInv

\* While threshold and table stay, so do the bands and their gains.
LEMMA SameBands ==
  ASSUME UNCHANGED <<threshold, band_mode>>
  PROVE  /\ \A f : Band(f)' = Band(f)
         /\ \A b : Gain(b)' = Gain(b)
<1>1. \A b : Row(b)' = Row(b)
  BY DEF Row
<1>2. \A b : Limit(b)' = Limit(b)
  BY <1>1 DEF Limit
<1>3. \A f : HarmonicLevel(f)' = HarmonicLevel(f)
  BY <1>2 DEF HarmonicLevel
<1>4. \A f : Band(f)' = Band(f)
  BY <1>1, <1>3 DEF Band
<1>5. QED
  BY <1>1, <1>4 DEF Gain

\* What a step has to show about the gain.
LEMMA GainAfter ==
  ASSUME UNCHANGED <<threshold, band_mode>>, NEW b, NEW f, NEW g, NEW q,
         drv'.band = b, drv'.freq = f, gain' = g, pending' = q,
         q = <<>> /\ b # 0 => g = Gain(b),
         q # <<>> => g = Gain(q[1]) /\ q[1] = Band(q[2]),
         f # 0 => b = Band(f)
  PROVE  GainInv'
  BY SameBands DEF GainInv

\* The fields after a reset of the cache.
LEMMA ResetFields ==
  ASSUME DriverInv
  PROVE  /\ ResetCache(drv).band = 0 /\ ResetCache(drv).freq = 0
         /\ ResetCache(drv).power = drv.power /\ ResetCache(drv).cache = drv.cache
  BY StateFields DEF DriverInv, Shaped, ResetCache

\* Tuning leaves the gain of the band it is about to record,
LEMMA TuneKeepsGain ==
  ASSUME DriverInv, GainInv, NEW f \in Freqs, Tune(f)
  PROVE  GainInv'
<1>1. PICK s, p, r : /\ s = State /\ p = power /\ r = SetFrequency(s, f, p) /\ r = State'
                     /\ Shaped(s) /\ Shaped(r)
  BY TuneResult
<1>2. Configured /\ f \in Tuned /\ p \in Drives
  BY <1>1 DEF DriverInv, TypeOK, Configured, Tuned, Drives
<1>3. s.drv = drv /\ s.gain = gain
  BY <1>1, StateFields
<1>4. r.drv = drv' /\ r.gain = gain'
  BY <1>1 DEF State
<1>5. r = SetFrequency(s, f, p) /\ Shaped(s)
  BY <1>1
<1>6. /\ \/ r.drv.band = s.drv.band /\ r.drv.freq = s.drv.freq
         \/ r.drv.band = 0 /\ r.drv.freq = 0
      /\ f = CheckPower(s.drv, Drive(f, p)).freq => r = s
  BY <1>2, <1>5, KeptShape
<1>7. UNCHANGED <<threshold, band_mode>> /\ pending = <<>>
  BY DEF Tune, config
<1>8. s.drv.band # 0 => s.gain = Gain(s.drv.band)
  BY <1>3, <1>7 DEF GainInv
<1>9. r.drv.freq # 0 => r.drv.band = Band(r.drv.freq)
  <2>1. PICK g : g = drv.freq
    OBVIOUS
  <2>2. r.drv.freq # 0 => r.drv.freq = g /\ r.drv.band = drv.band /\ g # 0
    BY <1>3, <1>6, <2>1
  <2>3. QED
    BY <2>1, <2>2 DEF GainInv
<1>10. f # 0 /\ Redundant(f, p) = (f = CheckPower(s.drv, Drive(f, p)).freq)
  <2>1. f # 0
    BY <1>2, BandTyped
  <2>2. QED
    BY <1>3, <2>1 DEF Redundant
<1>11. CASE f = CheckPower(s.drv, Drive(f, p)).freq
  <2>1. r = s
    BY <1>6, <1>11
  <2>2. pending' = <<>>
    BY <1>1, <1>10, <1>11 DEF Tune
  <2>3. QED
    BY <1>4, <1>7, <1>8, <1>9, <2>1, <2>2, GainAfter
<1>12. CASE f # CheckPower(s.drv, Drive(f, p)).freq
  <2>1. r.gain = Gain(Band(f))
    BY <1>2, <1>5, <1>8, <1>12, KeptGain
  <2>2. PICK b : b = Band(f)
    OBVIOUS
  <2>3. PICK q : q = <<b, f>>
    OBVIOUS
  <2>4. pending' = q
    BY <1>1, <1>10, <1>12, <2>2, <2>3 DEF Tune
  <2>5. q # <<>> /\ q[1] = b /\ q[2] = f
    BY <2>3
  <2>6. QED
    BY <1>4, <1>7, <1>9, <2>1, <2>2, <2>4, <2>5, GainAfter
<1>13. QED
  BY <1>11, <1>12

\* the record leaves the band of that gain,
LEMMA TuneDoneKeepsGain ==
  ASSUME DriverInv, GainInv, TuneDone
  PROVE  GainInv'
<1>1. PICK b \in DOMAIN Tables[band_mode], f \in Freqs : pending = <<b, f>>
  BY DEF DriverInv, PendingOK, TuneDone
<1>2. pending[1] = b /\ pending[2] = f /\ pending # <<>>
  BY <1>1
<1>3. gain = Gain(b) /\ b = Band(f)
  BY <1>2 DEF GainInv
<1>4. drv' = Record(drv, b, f)
  BY <1>2 DEF TuneDone
<1>5. drv'.band = b /\ drv'.freq = f
  BY <1>4, StateFields DEF DriverInv, Shaped, Record
<1>6. UNCHANGED <<threshold, band_mode>> /\ pending' = <<>> /\ gain' = gain
  BY DEF TuneDone, config
<1>7. PICK g : g = gain
  OBVIOUS
<1>8. QED
  BY <1>3, <1>5, <1>6, <1>7, GainAfter

\* set_power does both.
LEMMA SetPowerKeepsGain ==
  ASSUME DriverInv, GainInv, NEW p \in Powers, SetPower(p)
  PROVE  GainInv'
<1>1. UNCHANGED <<threshold, band_mode, pending>> /\ pending = <<>>
  BY DEF SetPower
<1>2. CASE State' = State
  <2>1. UNCHANGED <<drv, gain>>
    BY <1>2 DEF State
  <2>2. PICK b, f, g : b = drv.band /\ f = drv.freq /\ g = gain
    OBVIOUS
  <2>3. QED
    BY <1>1, <2>1, <2>2, GainAfter DEF GainInv
<1>3. CASE State' # State
  <2>1. PICK s, r, f :
           /\ s = State /\ f = drv.freq /\ f \in Tuned
           /\ r = SetFrequency(s, f, p) /\ Shaped(s) /\ Shaped(r)
           /\ f = CheckPower(s.drv, Drive(f, p)).freq => State' = r
           /\ f # CheckPower(s.drv, Drive(f, p)).freq =>
                State' = [drv |-> Record(r.drv, Band(f), f), chip |-> r.chip, gain |-> r.gain]
    BY <1>3, SetPowerResult
  <2>2. Configured /\ p \in Drives
    BY DEF DriverInv, TypeOK, Configured, Drives
  <2>3. s.drv = drv /\ s.gain = gain
    BY <2>1, StateFields
  <2>4. f = CheckPower(s.drv, Drive(f, p)).freq => r = s
    BY <2>1, <2>2, KeptShape
  <2>5. f # CheckPower(s.drv, Drive(f, p)).freq
    BY <1>3, <2>1, <2>4
  <2>6. s.drv.band # 0 => s.gain = Gain(s.drv.band)
    BY <1>1, <2>3 DEF GainInv
  <2>7. r = SetFrequency(s, f, p) /\ Shaped(s) /\ f \in Tuned /\ Shaped(r)
    BY <2>1
  <2>8. r.gain = Gain(Band(f))
    BY <2>2, <2>5, <2>6, <2>7, KeptGain
  <2>9. PICK b : b = Band(f)
    OBVIOUS
  <2>10. PICK t : t = [drv |-> Record(r.drv, b, f), chip |-> r.chip, gain |-> r.gain]
    OBVIOUS
  <2>11. t = State'
    BY <2>1, <2>5, <2>9, <2>10
  <2>12. t.drv.band = b /\ t.drv.freq = f /\ t.gain = r.gain
    BY <2>7, <2>10, RecordKeeps
  <2>13. t.drv = drv' /\ t.gain = gain'
    BY <2>11 DEF State
  <2>14. QED
    BY <1>1, <2>8, <2>9, <2>12, <2>13, GainAfter
<1>4. QED
  BY <1>2, <1>3

\* Every step keeps the invariant of the gain.
LEMMA GainStep ==
  ASSUME OneSearch
  PROVE  DriverInv /\ GainInv /\ [Next]_vars => GainInv'
<1> SUFFICES ASSUME DriverInv, GainInv, [Next]_vars PROVE GainInv'
  OBVIOUS
<1>1. ASSUME UNCHANGED <<threshold, band_mode, pending, gain>>, drv' \in {drv, ResetCache(drv)}
      PROVE  GainInv'
  <2>1. PICK b, f, g, q : b = drv'.band /\ f = drv'.freq /\ g = gain /\ q = pending
    OBVIOUS
  <2>2. (b = drv.band /\ f = drv.freq) \/ (b = 0 /\ f = 0)
    BY <1>1, <2>1, ResetFields
  <2>3. QED
    BY <1>1, <2>1, <2>2, GainAfter DEF GainInv
<1>2. ASSUME NEW f \in Freqs, Tune(f) PROVE GainInv'
  BY <1>2, TuneKeepsGain
<1>3. CASE TuneDone
  BY <1>3, TuneDoneKeepsGain
<1>4. ASSUME NEW p \in Powers, SetPower(p) PROVE GainInv'
  BY <1>4, SetPowerKeepsGain
<1>5. ASSUME NEW x \in Xtals, SetTcxo(x) PROVE GainInv'
  BY <1>1, <1>5 DEF SetTcxo
<1>6. ASSUME NEW o \in Offsets, SetOffset(o) PROVE GainInv'
  BY <1>1, <1>6 DEF SetOffset
<1>7. ASSUME NEW h \in Thresholds, SetThreshold(h) PROVE GainInv'
  BY <1>7 DEF SetThreshold, OneSearch, DriverInv, TypeOK
<1>8. ASSUME NEW t \in DOMAIN Tables, SetBandMode(t) PROVE GainInv'
  BY <1>8 DEF SetBandMode, OneSearch
<1>9. CASE Pause
  BY <1>1, <1>9 DEF Pause, config
<1>10. CASE DisableOutput
  BY <1>1, <1>10 DEF DisableOutput, config
<1>11. CASE EnableOutput
  BY <1>1, <1>11 DEF EnableOutput, config
<1>12. CASE UNCHANGED vars
  BY <1>1, <1>12 DEF vars
<1>13. QED
  BY <1>2, <1>3, <1>4, <1>5, <1>6, <1>7, <1>8, <1>9, <1>10, <1>11, <1>12 DEF Next

(***************************************************************************)
(* The codec's gain is the one of the band the frequency belongs to        *)
(* (si5351.c:509), though it is set only when two bands differ in it, for  *)
(* every table.                                                            *)
(***************************************************************************)
THEOREM GainIsCorrect ==
  ASSUME OneSearch
  PROVE  Spec => []GainCorrect
<1>1. DriverInv /\ GainInv => GainCorrect
  <2> SUFFICES ASSUME DriverInv, GainInv, Settled PROVE gain = Gain(Band(drv.freq))
    BY DEF GainCorrect
  <2>1. PICK f, b : f = drv.freq /\ b = drv.band
    OBVIOUS
  <2>2. pending = <<>> /\ f # 0
    BY <2>1 DEF Settled
  <2>3. b = Band(f) /\ f \in Tuned /\ Configured
    BY <2>1, <2>2 DEF GainInv, DriverInv, TypeOK, Tuned, Configured
  <2>4. b # 0
    BY <2>3, BandTyped
  <2>5. QED
    BY <2>1, <2>2, <2>3, <2>4 DEF GainInv
<1>2. DriverInv /\ GainInv /\ [Next]_vars => GainInv'
  BY GainStep
<1>3. QED
  BY <1>1, <1>2, GainInit, DriverInvariance, PTL DEF Spec

(***************************************************************************)
(* No muting, no change of the reference while a call runs, no new table:  *)
(* each of them breaks ToneCorrect in the code (muting:                    *)
(* SynthMuteResume.cfg).                                                   *)
(***************************************************************************)
Undisturbed == Operations \subseteq {"pause"}

(***************************************************************************)
(* No band of mode "pll" has the div of a band of mode "mult" of its       *)
(* table. The dividers of the outputs are written when div changes:        *)
(* between two such bands they would stay. The MS5351 table satisfies it.  *)
(***************************************************************************)
SeparateDividers ==
  \A t \in DOMAIN Tables : \A b, c \in DOMAIN Tables[t] :
    Tables[t][b].mode = "pll" /\ Tables[t][c].mode = "mult" => Tables[t][b].n # Tables[t][c].n

\* Produces of the state a driver call works on, for a reference x.
Makes(s, ch, f, x) ==
  LET c == s.chip.ctrl[ch]
      p == s.chip.pll[c.pll]
      m == s.chip.ms[ch]
  IN  /\ c.on
      /\ p[1] = "var" => p[5] = x
      /\ \/ m[1] = "to" /\ m[2] = p /\ m[3] = f /\ m[4] = x
         \/ m[1] = "div" /\ p[1] = "var" /\ p[3] = m[2] /\ p[2] = f

\* The three outputs make g (the oscillator), f (the tone) and 8 MHz.
MakesAll(s, f, g, x) == Makes(s, 0, g, x) /\ Makes(s, 1, f, x) /\ Makes(s, 2, Clk2Frequency, x)

\* A divider computed for the PLL its output uses makes its frequency,
LEMMA ToMakes ==
  ASSUME NEW s, NEW ch, NEW f, NEW x, NEW c, NEW p, c = s.chip.ctrl[ch], p = s.chip.pll[c.pll],
         c.on, p[1] = "var" => p[5] = x, s.chip.ms[ch] = <<"to", p, f, x>>
  PROVE  Makes(s, ch, f, x)
  BY DEF Makes

\* and so does a constant divider of a PLL computed for it.
LEMMA DivMakes ==
  ASSUME NEW s, NEW ch, NEW f, NEW x, NEW c, NEW n, NEW k, c = s.chip.ctrl[ch],
         s.chip.pll[c.pll] = <<"var", f, n, k, x>>, c.on, s.chip.ms[ch] = <<"div", n>>
  PROVE  Makes(s, ch, f, x)
  BY DEF Makes

\* A band of mode "pll" makes the three frequencies,
LEMMA PllMakes ==
  ASSUME NEW s, Shaped(s), Exact(s), NEW n, NEW x, NEW f, NEW g, NEW d, NEW e,
         PllReady(s, n, x),
         s.chip.ms[0] = <<"to", <<"fixed", n>>, g, x>>,
         s.chip.ms[1] = <<"to", <<"fixed", n>>, f, x>>,
         IsClk(s.drv.cache[0], d, "A"), IsClk(s.drv.cache[1], e, "A")
  PROVE  MakesAll(s, f, g, x)
<1>1. /\ s.chip.ctrl[0] = s.drv.cache[0] /\ s.chip.ctrl[1] = s.drv.cache[1]
      /\ s.chip.ctrl[2] = s.drv.cache[2]
  BY DEF Exact, Clks
<1>a. PICK a : a = <<"fixed", n>>
  OBVIOUS
<1>b. PICK e0, e1, e2 : e0 = s.drv.cache[0] /\ e1 = s.drv.cache[1] /\ e2 = s.drv.cache[2]
  OBVIOUS
<1>c. e0.on /\ e0.pll = "A" /\ e1.on /\ e1.pll = "A" /\ e2.on /\ e2.pll = "B"
  BY <1>b DEF PllReady, IsClk
<1>d. s.chip.pll["A"] = a /\ s.chip.pll["B"] = Codec /\ a[1] # "var" /\ Codec[1] # "var"
  BY <1>a DEF PllReady, Codec
<1>2. Makes(s, 0, g, x)
  BY <1>1, <1>a, <1>b, <1>c, <1>d, ToMakes
<1>3. Makes(s, 1, f, x)
  BY <1>1, <1>a, <1>b, <1>c, <1>d, ToMakes
<1>4. Makes(s, 2, Clk2Frequency, x)
  BY <1>1, <1>b, <1>c, <1>d, ToMakes DEF PllReady
<1>5. QED
  BY <1>2, <1>3, <1>4 DEF MakesAll

\* and so does a band of mode "mult".
LEMMA MultMakes ==
  ASSUME NEW s, Shaped(s), Exact(s), NEW n, NEW x, NEW f, NEW g, NEW j, NEW k,
         MultReady(s, n),
         s.chip.pll["A"] = <<"var", g, n, j, x>>, s.chip.pll["B"] = <<"var", f, n, k, x>>,
         s.chip.ms[2] = <<"to", s.chip.pll["B"], Clk2Frequency, x>>,
         IsClk(s.drv.cache[2], 0, "B")
  PROVE  MakesAll(s, f, g, x)
<1>1. /\ s.chip.ctrl[0] = s.drv.cache[0] /\ s.chip.ctrl[1] = s.drv.cache[1]
      /\ s.chip.ctrl[2] = s.drv.cache[2]
  BY DEF Exact, Clks
<1>b. PICK e0, e1, e2 : e0 = s.drv.cache[0] /\ e1 = s.drv.cache[1] /\ e2 = s.drv.cache[2]
  OBVIOUS
<1>c. e0.on /\ e0.pll = "A" /\ e1.on /\ e1.pll = "B" /\ e2.on /\ e2.pll = "B"
  BY <1>b DEF MultReady, IsClk
<1>2. Makes(s, 0, g, x)
  BY <1>1, <1>b, <1>c, DivMakes DEF MultReady
<1>3. Makes(s, 1, f, x)
  BY <1>1, <1>b, <1>c, DivMakes DEF MultReady
<1>d. PICK a : a = <<"var", f, n, k, x>>
  OBVIOUS
<1>e. s.chip.pll["B"] = a /\ a[5] = x
  BY <1>d
<1>4. Makes(s, 2, Clk2Frequency, x)
  BY <1>1, <1>b, <1>c, <1>e, ToMakes
<1>5. QED
  BY <1>2, <1>3, <1>4 DEF MakesAll

\* A fixed drive current is in the control registers of both generators.
DrivenAt(s) ==
  s.drv.power # AutoPower =>
    s.drv.cache[0].drive = s.drv.power /\ s.drv.cache[1].drive = s.drv.power

\* What the driver relies on in the chip while it stays in band b.
Ready(s, b) ==
  /\ Row(b).mode = "pll" => PllReady(s, Row(b).n, xtal)
  /\ Row(b).mode = "mult" => MultReady(s, Row(b).n)
  /\ DrivenAt(s)

\* A call that programs makes the frequency it was called with and leaves
\* what the next call in its band relies on, whichever writes it skipped.
LEMMA KeptTone ==
  ASSUME Configured, SeparateDividers, NEW s, Shaped(s), Exact(s),
         s.drv.band \in {0} \cup DOMAIN Tables[band_mode],
         s.drv.band # 0 => Ready(s, s.drv.band),
         NEW f \in Tuned, NEW p \in Drives, NEW r, r = SetFrequency(s, f, p),
         f # CheckPower(s.drv, Drive(f, p)).freq
  PROVE  Ready(r, Band(f)) /\ MakesAll(r, f, f + offset, xtal)
<1>1. PICK b, t, u, ds, ods : Computed(r, s, f, p, b, t, u, ds, ods)
  BY Outcome
<1>2. PICK d : d = Drive(f, p)
  OBVIOUS
<1>3. t = Checked(s, d) /\ u = SetGain(t, b) /\ b = Band(f) /\ ds \in 0 .. 3 /\ ods \in 0 .. 3
  BY <1>1, <1>2 DEF Computed
<1>4. /\ Shaped(t) /\ t.chip = s.chip /\ t.drv.cache = s.drv.cache /\ t.drv.power = d
      /\ s.drv.power = d => t = s
      /\ s.drv.power # d => t.drv.band = 0 /\ t.drv.freq = 0
      /\ t.drv.freq = CheckPower(s.drv, d).freq
  BY <1>3, PowerChecked
<1>5. Shaped(u) /\ u.drv = t.drv /\ u.chip = t.chip
  BY <1>3, <1>4, GainSet
<1>6. Exact(u)
  BY <1>4, <1>5 DEF Exact
<1>7. b \in DOMAIN Tables[band_mode]
  BY <1>3, BandTyped
<1>8. Row(b).mode \in {"pll", "mult"} /\ Row(b).n \in Nat \ {0} /\ Div(b) = Row(b).n
  BY <1>7, RowTyped
<1>9. f # t.drv.freq
  BY <1>2, <1>4
<1>10. d # AutoPower => ds = d /\ ods = d
  BY <1>1, <1>2 DEF Computed
<1>11. PICK a : a = u.drv.band
  OBVIOUS
<1>12. /\ a # 0 => /\ a = s.drv.band /\ u.drv = s.drv /\ u.chip = s.chip
                   /\ a \in DOMAIN Tables[band_mode] /\ Ready(s, a)
  BY <1>4, <1>5, <1>11
<1>13. a # 0 => Ready(u, a)
  BY <1>12 DEF Ready, PllReady, MultReady, DrivenAt
<1>14. CASE Row(b).mode = "pll"
  <2>1. PICK rdiv : r = ProgramPLL(u, b, f, rdiv, ds, ods)
    BY <1>1, <1>9, <1>14 DEF Computed
  <2>p. PllResult(r, u, b, f, ds, ods)
    BY <1>3, <1>5, <2>1, ProgrammedPLL
  <2>2. b # 0
    BY <1>7, RowTyped
  <2>3. u.drv.band = b => PllReady(u, Row(b).n, xtal)
    BY <1>11, <1>13, <1>14, <2>2 DEF Ready
  <2>4. Shaped(r) /\ SameDriver(r, u) /\ (Exact(u) => Exact(r))
    BY <2>p DEF PllResult
  <2>5. PllReady(r, Row(b).n, xtal)
    BY <2>p, <2>3 DEF PllResult
  <2>6. /\ r.chip.ms[0] = <<"to", <<"fixed", Row(b).n>>, f + offset, xtal>>
        /\ r.chip.ms[1] = <<"to", <<"fixed", Row(b).n>>, f, xtal>>
    BY <2>p DEF PllResult
  <2>7. IsClk(r.drv.cache[0], ods, "A") /\ IsClk(r.drv.cache[1], ds, "A")
    BY <2>p DEF PllResult
  <2>8. DrivenAt(r)
    BY <1>4, <1>5, <1>10, <2>4, <2>7 DEF DrivenAt, SameDriver, IsClk
  <2>9. PICK n, x, g : n = Row(b).n /\ x = xtal /\ g = f + offset
    OBVIOUS
  <2>10. MakesAll(r, f, g, x)
    BY <1>6, <2>4, <2>5, <2>6, <2>7, <2>9, PllMakes
  <2>11. Ready(r, b)
    BY <1>14, <2>5, <2>8 DEF Ready
  <2>12. QED
    BY <1>3, <2>9, <2>10, <2>11
<1>15. CASE Row(b).mode = "mult"
  <2>1. r = ProgramMult(u, b, f, ds, ods)
    BY <1>1, <1>9, <1>15 DEF Computed
  <2>p. MultResult(r, u, b, f, ds, ods)
    BY <1>3, <1>5, <2>1, ProgrammedMult
  <2>2. Shaped(r) /\ SameDriver(r, u)
    BY <2>p DEF MultResult
  <2>3. Exact(u) => Exact(r)
    BY <2>p DEF MultResult
  <2>4. /\ r.chip.pll["A"] = <<"var", f + offset, Row(b).n, Row(b).omul, xtal>>
        /\ r.chip.pll["B"] = <<"var", f, Row(b).n, Row(b).mul, xtal>>
    BY <2>p DEF MultResult
  <2>5. /\ r.chip.ms[2] = <<"to", r.chip.pll["B"], Clk2Frequency, xtal>>
        /\ IsClk(r.drv.cache[2], 0, "B")
    BY <2>p DEF MultResult
  <2>6. MultReady(r, Row(b).n) /\ DrivenAt(r)
    <3>1. CASE DivChanges(u.drv.band, b)
      <4>1. /\ MultReady(r, Row(b).n)
            /\ r.drv.cache[0].drive = ods /\ r.drv.cache[1].drive = ds
        BY <2>p, <3>1 DEF MultResult
      <4>2. QED
        BY <1>4, <1>5, <1>10, <2>2, <4>1 DEF DrivenAt, SameDriver
    <3>2. CASE ~DivChanges(u.drv.band, b)
      <4>1. /\ r.chip.ms[0] = u.chip.ms[0] /\ r.chip.ms[1] = u.chip.ms[1]
            /\ r.drv.cache[0] = u.drv.cache[0] /\ r.drv.cache[1] = u.drv.cache[1]
        BY <2>p, <3>2 DEF MultResult
      <4>2. Div(a) = Div(b)
        BY <1>11, <3>2 DEF DivChanges
      <4>3. a # 0
        BY <1>8, <4>2 DEF Div
      <4>4. Row(a).n = Row(b).n /\ Row(a).mode \in {"pll", "mult"}
        BY <1>8, <1>12, <4>2, <4>3, RowTyped
      <4>5. Row(a).mode = "mult"
        BY <1>7, <1>12, <1>15, <4>3, <4>4 DEF SeparateDividers, Row, Configured
      <4>6. MultReady(u, Row(b).n) /\ DrivenAt(u)
        BY <1>13, <4>3, <4>4, <4>5 DEF Ready
      <4>7. QED
        BY <2>2, <4>1, <4>6 DEF MultReady, DrivenAt, SameDriver
    <3>3. QED
      BY <3>1, <3>2
  <2>7. PICK n, x, g, j, k : /\ n = Row(b).n /\ x = xtal /\ g = f + offset
                             /\ j = Row(b).omul /\ k = Row(b).mul
    OBVIOUS
  <2>8. MakesAll(r, f, g, x)
    BY <1>6, <2>2, <2>3, <2>4, <2>5, <2>6, <2>7, MultMakes
  <2>9. Ready(r, b)
    BY <1>15, <2>6 DEF Ready
  <2>10. QED
    BY <1>3, <2>7, <2>8, <2>9
<1>16. QED
  BY <1>8, <1>14, <1>15

\* What is true of the chip when the driver believes band b and frequency
\* f.
Believes(s, b, f) ==
  /\ b # 0 => Ready(s, b)
  /\ f # 0 => /\ b # 0 /\ MakesAll(s, f, f + offset, xtal)
              /\ f < Row(1).freq => s.drv.power = 0

(***************************************************************************)
(* What the driver believes is true of the chip: of the recorded band and  *)
(* frequency, or, while a call runs, of those it is about to record.       *)
(***************************************************************************)
ToneInv ==
  /\ Exact(State) /\ sweep # "muted"
  /\ pending = <<>> => Believes(State, drv.band, drv.freq)
  /\ pending # <<>> => Believes(State, pending[1], pending[2])

\* Beliefs do not depend on the threshold or on the power setting.
LEMMA SameBeliefs ==
  ASSUME UNCHANGED <<band_mode, xtal, offset>>
  PROVE  \A s, b, f : Believes(s, b, f)' = Believes(s, b, f)
<1>1. \A b : Row(b)' = Row(b)
  BY DEF Row
<1>2. \A s, b : Ready(s, b)' = Ready(s, b)
  BY <1>1 DEF Ready
<1>3. QED
  BY <1>1, <1>2 DEF Believes

\* A call that programs leaves the beliefs it is about to record true,
LEMMA Programmed ==
  ASSUME Configured, SeparateDividers, NEW s, Shaped(s), Exact(s),
         s.drv.band \in {0} \cup DOMAIN Tables[band_mode],
         Believes(s, s.drv.band, s.drv.freq),
         NEW f \in Tuned, NEW p \in Drives, NEW r, r = SetFrequency(s, f, p),
         f # CheckPower(s.drv, Drive(f, p)).freq
  PROVE  Exact(r) /\ Believes(r, Band(f), f)
<1>1. Exact(r) /\ r.drv.power = Drive(f, p)
  BY KeptShape
<1>2. s.drv.band # 0 => Ready(s, s.drv.band)
  BY DEF Believes
<1>3. Ready(r, Band(f)) /\ MakesAll(r, f, f + offset, xtal)
  BY <1>2, KeptTone
<1>4. Band(f) # 0
  BY BandTyped
<1>5. f < Row(1).freq => r.drv.power = 0
  BY <1>1 DEF Drive
<1>6. QED
  BY <1>1, <1>3, <1>4, <1>5 DEF Believes

\* and recording them changes nothing in the chip.
LEMMA RecordedBelief ==
  ASSUME NEW s, NEW t, NEW b, NEW f, Believes(s, b, f),
         t.drv.power = s.drv.power, t.drv.cache = s.drv.cache, t.chip = s.chip
  PROVE  Believes(t, b, f)
<1>1. \A x, g : MakesAll(s, f, g, x) => MakesAll(t, f, g, x)
  <2>1. ASSUME NEW ch, NEW g, NEW x, Makes(s, ch, g, x)
        PROVE  Makes(t, ch, g, x)
    BY <2>1, ZenonT(30) DEF Makes
  <2>2. QED
    BY <2>1 DEF MakesAll
<1>2. \A n, x : PllReady(s, n, x) => PllReady(t, n, x)
  BY DEF PllReady
<1>3. \A n : MultReady(s, n) => MultReady(t, n)
  BY DEF MultReady
<1>4. DrivenAt(s) => DrivenAt(t)
  BY DEF DrivenAt
<1>5. Ready(s, b) => Ready(t, b)
  BY <1>2, <1>3, <1>4 DEF Ready
<1>6. QED
  BY <1>1, <1>5 DEF Believes

\* si5351_init makes 26 MHz.
LEMMA ToneInit ==
  ASSUME SeparateDividers
  PROVE  Init => ToneInv
<1> SUFFICES ASSUME Init PROVE ToneInv
  OBVIOUS
<1>1. Configured /\ 26000 \in Tuned /\ 0 \in Drives
  BY DEF Init, Configured, Tuned, Drives
<1>2. PICK s : s = PowerUp
  OBVIOUS
<1>3. Shaped(s) /\ Exact(s) /\ s.drv.band = 0 /\ s.drv.power = 0 /\ s.drv.freq = 0
  BY <1>2, PowerUpShaped
<1>4. PICK r : r = SetFrequency(s, 26000, 0)
  OBVIOUS
<1>5. CheckPower(s.drv, Drive(26000, 0)).freq = 0
  BY <1>3 DEF CheckPower, Drive
<1>6. Believes(s, s.drv.band, s.drv.freq)
  BY <1>3 DEF Believes
<1>7. PICK b : b = Band(26000)
  OBVIOUS
<1>8. PICK f : f = 26000
  OBVIOUS
<1>9. Exact(r) /\ Believes(r, b, f) /\ Shaped(r)
  BY <1>1, <1>3, <1>4, <1>5, <1>6, <1>7, <1>8, Programmed, KeptShape
<1>10. drv = Record(r.drv, b, f) /\ chip = r.chip /\ gain = r.gain
  BY <1>2, <1>4, <1>7, <1>8 DEF Init
<1>11. PICK t : t = State
  OBVIOUS
<1>12. t = [drv |-> Record(r.drv, b, f), chip |-> r.chip, gain |-> r.gain]
  BY <1>10, <1>11 DEF State
<1>13. /\ t.drv.band = b /\ t.drv.freq = f /\ Exact(t)
       /\ t.drv.power = r.drv.power /\ t.drv.cache = r.drv.cache /\ t.chip = r.chip
  BY <1>9, <1>12, RecordKeeps
<1>14. Believes(t, b, f)
  BY <1>9, <1>13, RecordedBelief
<1>15. t.drv = drv
  BY <1>11 DEF State
<1>16. QED
  BY <1>11, <1>13, <1>14, <1>15 DEF ToneInv, Init

\* What a step has to show about the tone.
LEMMA ToneAfter ==
  ASSUME NEW t, t = State', Exact(t), sweep' # "muted",
         NEW b, NEW f, Believes(t, b, f)',
         \/ pending' = <<>> /\ b = drv'.band /\ f = drv'.freq
         \/ pending' # <<>> /\ b = pending'[1] /\ f = pending'[2]
  PROVE  ToneInv'
  BY DEF ToneInv

\* Tuning keeps the beliefs true,
LEMMA TuneKeepsTone ==
  ASSUME SeparateDividers, Undisturbed, DriverInv, ToneInv, NEW f \in Freqs, Tune(f)
  PROVE  ToneInv'
<1>1. PICK s, p, r : /\ s = State /\ p = power /\ r = SetFrequency(s, f, p) /\ r = State'
                     /\ Shaped(s) /\ Shaped(r)
  BY TuneResult
<1>2. Configured /\ f \in Tuned /\ p \in Drives
  BY <1>1 DEF DriverInv, TypeOK, Configured, Tuned, Drives
<1>3. s.drv = drv
  BY <1>1, StateFields
<1>4. r.drv = drv'
  BY <1>1 DEF State
<1>5. r = SetFrequency(s, f, p) /\ Shaped(s)
  BY <1>1
<1>6. f = CheckPower(s.drv, Drive(f, p)).freq => r = s
  BY <1>2, <1>5, KeptShape
<1>7. UNCHANGED <<band_mode, xtal, offset, sweep>> /\ pending = <<>>
  BY DEF Tune, config
<1>8. Exact(s) /\ Believes(s, s.drv.band, s.drv.freq) /\ sweep' # "muted"
  BY <1>1, <1>3, <1>7 DEF ToneInv
<1>9. s.drv.band \in {0} \cup DOMAIN Tables[band_mode]
  BY <1>3 DEF DriverInv, TypeOK, Undisturbed
<1>10. f # 0 /\ Redundant(f, p) = (f = CheckPower(s.drv, Drive(f, p)).freq)
  <2>1. f # 0
    BY <1>2, BandTyped
  <2>2. QED
    BY <1>3, <2>1 DEF Redundant
<1>11. CASE f = CheckPower(s.drv, Drive(f, p)).freq
  <2>1. r = s
    BY <1>6, <1>11
  <2>2. pending' = <<>>
    BY <1>1, <1>10, <1>11 DEF Tune
  <2>3. PICK b, g : b = s.drv.band /\ g = s.drv.freq
    OBVIOUS
  <2>4. Believes(r, b, g)'
    BY <1>7, <1>8, <2>1, <2>3, SameBeliefs
  <2>5. b = drv'.band /\ g = drv'.freq /\ r = State' /\ Exact(r)
    BY <1>1, <1>4, <1>8, <2>1, <2>3
  <2>6. QED
    BY <1>8, <2>2, <2>4, <2>5, ToneAfter
<1>12. CASE f # CheckPower(s.drv, Drive(f, p)).freq
  <2>1. PICK b : b = Band(f)
    OBVIOUS
  <2>2. Exact(r) /\ Believes(r, b, f)
    BY <1>2, <1>5, <1>8, <1>9, <1>12, <2>1, Programmed
  <2>3. pending' = <<b, f>>
    BY <1>1, <1>10, <1>12, <2>1 DEF Tune
  <2>4. Believes(r, b, f)'
    BY <1>7, <2>2, SameBeliefs
  <2>5. pending' # <<>> /\ pending'[1] = b /\ pending'[2] = f
    BY <2>3
  <2>6. r = State'
    BY <1>1
  <2>7. QED
    BY <1>8, <2>2, <2>4, <2>5, <2>6, ToneAfter
<1>13. QED
  BY <1>11, <1>12

\* so does the record at the end of the call,
LEMMA TuneDoneKeepsTone ==
  ASSUME DriverInv, ToneInv, TuneDone
  PROVE  ToneInv'
<1>1. PICK b \in DOMAIN Tables[band_mode], f \in Freqs : pending = <<b, f>>
  BY DEF DriverInv, PendingOK, TuneDone
<1>2. pending[1] = b /\ pending[2] = f /\ pending # <<>>
  BY <1>1
<1>3. PICK s : s = State
  OBVIOUS
<1>4. PICK t : t = State'
  OBVIOUS
<1>5. s.drv = drv /\ s.chip = chip /\ s.gain = gain /\ Shaped(s) /\ Exact(s)
  BY <1>3, StateFields DEF DriverInv, ToneInv
<1>6. Believes(s, b, f)
  BY <1>2, <1>3 DEF ToneInv
<1>7. t = [drv |-> Record(s.drv, b, f), chip |-> s.chip, gain |-> s.gain]
  BY <1>2, <1>4, <1>5 DEF TuneDone, State
<1>8. /\ t.drv.band = b /\ t.drv.freq = f /\ Exact(t)
      /\ t.drv.power = s.drv.power /\ t.drv.cache = s.drv.cache /\ t.chip = s.chip
  BY <1>5, <1>7, RecordKeeps
<1>9. Believes(t, b, f)
  BY <1>6, <1>8, RecordedBelief
<1>10. UNCHANGED <<band_mode, xtal, offset, sweep>> /\ pending' = <<>>
  BY DEF TuneDone, config
<1>11. Believes(t, b, f)'
  BY <1>9, <1>10, SameBeliefs
<1>12. t.drv = drv' /\ sweep' # "muted"
  BY <1>4, <1>10 DEF State, ToneInv
<1>13. QED
  BY <1>4, <1>8, <1>10, <1>11, <1>12, ToneAfter

\* so does set_power during a pause,
LEMMA SetPowerKeepsTone ==
  ASSUME SeparateDividers, Undisturbed, DriverInv, ToneInv, NEW p \in Powers, SetPower(p)
  PROVE  ToneInv'
<1>1. UNCHANGED <<band_mode, xtal, offset, sweep, pending>> /\ pending = <<>>
  BY DEF SetPower
<1>2. PICK s : s = State
  OBVIOUS
<1>3. s.drv = drv /\ s.chip = chip /\ s.gain = gain /\ Shaped(s) /\ Exact(s)
  BY <1>2, StateFields DEF DriverInv, ToneInv
<1>4. Believes(s, s.drv.band, s.drv.freq) /\ sweep' # "muted"
  BY <1>1, <1>2, <1>3 DEF ToneInv
<1>5. CASE State' = State
  <2>1. s = State' /\ drv' = drv
    BY <1>2, <1>5 DEF State
  <2>2. PICK b, f : b = s.drv.band /\ f = s.drv.freq
    OBVIOUS
  <2>3. Believes(s, b, f)'
    BY <1>1, <1>4, <2>2, SameBeliefs
  <2>4. QED
    BY <1>1, <1>3, <1>4, <2>1, <2>2, <2>3, ToneAfter
<1>6. CASE State' # State
  <2>1. PICK r, f :
           /\ f = drv.freq /\ f \in Tuned
           /\ r = SetFrequency(s, f, p) /\ Shaped(r)
           /\ f = CheckPower(s.drv, Drive(f, p)).freq => State' = r
           /\ f # CheckPower(s.drv, Drive(f, p)).freq =>
                State' = [drv |-> Record(r.drv, Band(f), f), chip |-> r.chip, gain |-> r.gain]
    BY <1>2, <1>6, SetPowerResult
  <2>2. Configured /\ p \in Drives
    BY DEF DriverInv, TypeOK, Configured, Drives
  <2>3. r = SetFrequency(s, f, p) /\ Shaped(r) /\ f \in Tuned
    BY <2>1
  <2>4. f = CheckPower(s.drv, Drive(f, p)).freq => r = s
    BY <1>3, <2>2, <2>3, KeptShape
  <2>5. f # CheckPower(s.drv, Drive(f, p)).freq
    BY <1>2, <1>6, <2>1, <2>4
  <2>6. s.drv.band \in {0} \cup DOMAIN Tables[band_mode]
    BY <1>3 DEF DriverInv, TypeOK, Undisturbed
  <2>7. PICK b : b = Band(f)
    OBVIOUS
  <2>8. Exact(r) /\ Believes(r, b, f)
    BY <1>3, <1>4, <2>2, <2>3, <2>5, <2>6, <2>7, Programmed
  <2>9. PICK t : t = [drv |-> Record(r.drv, b, f), chip |-> r.chip, gain |-> r.gain]
    OBVIOUS
  <2>10. t = State'
    BY <2>1, <2>5, <2>7, <2>9
  <2>11. /\ t.drv.band = b /\ t.drv.freq = f /\ Exact(t)
         /\ t.drv.power = r.drv.power /\ t.drv.cache = r.drv.cache /\ t.chip = r.chip
    BY <2>3, <2>8, <2>9, RecordKeeps
  <2>12. Believes(t, b, f)
    BY <2>8, <2>11, RecordedBelief
  <2>13. Believes(t, b, f)'
    BY <1>1, <2>12, SameBeliefs
  <2>14. t.drv = drv'
    BY <2>10 DEF State
  <2>15. QED
    BY <1>1, <1>4, <2>10, <2>11, <2>13, <2>14, ToneAfter
<1>7. QED
  BY <1>5, <1>6

\* and so does a reset of the cache, after which nothing is believed.
LEMMA ResetKeepsTone ==
  ASSUME DriverInv, ToneInv, pending = <<>>, drv' = ResetCache(drv),
         UNCHANGED <<chip, gain, pending, sweep>>
  PROVE  ToneInv'
<1>1. PICK s : s = State
  OBVIOUS
<1>2. PICK t : t = State'
  OBVIOUS
<1>3. s.drv = drv /\ s.chip = chip /\ s.gain = gain /\ Shaped(s) /\ Exact(s)
  BY <1>1, StateFields DEF DriverInv, ToneInv
<1>4. t = [drv |-> ResetCache(s.drv), chip |-> s.chip, gain |-> s.gain] /\ t.drv = drv'
  BY <1>2, <1>3 DEF State
<1>5. t.drv.band = 0 /\ t.drv.freq = 0 /\ Exact(t)
  BY <1>3, <1>4, ResetKeeps
<1>6. Believes(t, 0, 0)'
  BY DEF Believes
<1>7. sweep' # "muted"
  BY DEF ToneInv
<1>8. QED
  BY <1>2, <1>4, <1>5, <1>6, <1>7, ToneAfter

\* Every step keeps the beliefs true.
LEMMA ToneStep ==
  ASSUME SeparateDividers, Undisturbed
  PROVE  DriverInv /\ ToneInv /\ [Next]_vars => ToneInv'
<1> SUFFICES ASSUME DriverInv, ToneInv, [Next]_vars PROVE ToneInv'
  OBVIOUS
<1>1. ASSUME UNCHANGED <<drv, chip, gain, pending, band_mode, xtal, offset>>, sweep' # "muted"
      PROVE  ToneInv'
  <2>1. PICK s, q, b, f : s = State /\ q = pending /\ b = drv.band /\ f = drv.freq
    OBVIOUS
  <2>2. s = State' /\ q = pending' /\ b = drv'.band /\ f = drv'.freq
    BY <1>1, <2>1 DEF State
  <2>3. /\ q = <<>> => Believes(s, b, f)
        /\ q # <<>> => Believes(s, q[1], q[2])
    BY <2>1 DEF ToneInv
  <2>4. /\ q = <<>> => Believes(s, b, f)'
        /\ q # <<>> => Believes(s, q[1], q[2])'
    BY <1>1, <2>3, SameBeliefs
  <2>5. Exact(s)
    BY <2>1 DEF ToneInv
  <2>6. QED
    BY <1>1, <2>2, <2>4, <2>5, ToneAfter
<1>2. ASSUME NEW f \in Freqs, Tune(f) PROVE ToneInv'
  BY <1>2, TuneKeepsTone
<1>3. CASE TuneDone
  BY <1>3, TuneDoneKeepsTone
<1>4. ASSUME NEW p \in Powers, SetPower(p) PROVE ToneInv'
  BY <1>4, SetPowerKeepsTone
<1>5. ASSUME NEW x \in Xtals, SetTcxo(x) PROVE ToneInv'
  BY <1>5, ResetKeepsTone DEF SetTcxo, Undisturbed
<1>6. ASSUME NEW o \in Offsets, SetOffset(o) PROVE ToneInv'
  BY <1>6, ResetKeepsTone DEF SetOffset
<1>7. ASSUME NEW h \in Thresholds, SetThreshold(h) PROVE ToneInv'
  BY <1>1, <1>7 DEF SetThreshold, ToneInv
<1>8. ASSUME NEW t \in DOMAIN Tables, SetBandMode(t) PROVE ToneInv'
  BY <1>8 DEF SetBandMode, Undisturbed
<1>9. CASE Pause
  BY <1>1, <1>9 DEF Pause, config
<1>10. CASE DisableOutput
  BY <1>10 DEF DisableOutput, Undisturbed
<1>11. CASE EnableOutput
  BY <1>1, <1>11 DEF EnableOutput, config, ToneInv
<1>12. CASE UNCHANGED vars
  BY <1>1, <1>12 DEF vars, ToneInv
<1>13. QED
  BY <1>2, <1>3, <1>4, <1>5, <1>6, <1>7, <1>8, <1>9, <1>10, <1>11, <1>12 DEF Next

(***************************************************************************)
(* "CLK0: frequency + offset, CLK1: frequency, CLK2: fixed 8MHz"           *)
(* (si5351.c:457): what the driver believes to be tuned is what the        *)
(* outputs make, whichever writes it skipped, for every table with         *)
(* separate dividers and every set of frequencies, references, offsets,    *)
(* powers and thresholds.                                                  *)
(***************************************************************************)
THEOREM ToneIsCorrect ==
  ASSUME SeparateDividers, Undisturbed
  PROVE  Spec => []ToneCorrect
<1>1. DriverInv /\ ToneInv => ToneCorrect
  <2> SUFFICES ASSUME ToneInv, Settled
      PROVE  /\ Produces(0, drv.freq + offset) /\ Produces(1, drv.freq)
             /\ Produces(2, Clk2Frequency)
    BY DEF ToneCorrect
  <2>1. PICK s, f, g, x : s = State /\ f = drv.freq /\ g = f + offset /\ x = xtal
    OBVIOUS
  <2>2. MakesAll(s, f, g, x)
    BY <2>1 DEF Settled, ToneInv, Believes
  <2>3. ASSUME NEW ch, NEW h, Makes(s, ch, h, x)
        PROVE  Produces(ch, h)
    <3>1. s.chip = chip
      BY <2>1, StateFields
    <3>2. QED
      BY <2>1, <2>3, <3>1, ZenonT(30) DEF Makes, Produces
  <2>4. QED
    BY <2>1, <2>2, <2>3 DEF MakesAll
<1>2. DriverInv /\ ToneInv /\ [Next]_vars => ToneInv'
  BY ToneStep
<1>3. Init => ToneInv
  BY ToneInit
<1>4. QED
  BY <1>1, <1>2, <1>3, DriverInvariance, PTL DEF Spec

(***************************************************************************)
(* A fixed drive current is the one both generators are programmed with,   *)
(* although their control registers are cached and, in a band of mode      *)
(* "mult", not written for every frequency.                                *)
(***************************************************************************)
THEOREM DriveIsCorrect ==
  ASSUME SeparateDividers, Undisturbed
  PROVE  Spec => []DriveCorrect
<1>1. DriverInv /\ ToneInv => DriveCorrect
  <2> SUFFICES ASSUME ToneInv, Settled, drv.power # AutoPower
      PROVE  /\ chip.ctrl[0].drive = Drive(drv.freq, drv.power)
             /\ chip.ctrl[1].drive = Drive(drv.freq, drv.power)
    BY DEF DriveCorrect
  <2>1. PICK s, b, f : s = State /\ b = drv.band /\ f = drv.freq
    OBVIOUS
  <2>2. s.drv = drv /\ s.chip = chip /\ Exact(s)
    BY <2>1, StateFields DEF ToneInv
  <2>3. Believes(s, b, f) /\ f # 0
    BY <2>1 DEF ToneInv, Settled
  <2>4. DrivenAt(s) /\ (f < Row(1).freq => drv.power = 0)
    BY <2>2, <2>3 DEF Believes, Ready
  <2>5. Drive(f, drv.power) = drv.power
    BY <2>4 DEF Drive
  <2>6. chip.ctrl[0] = drv.cache[0] /\ chip.ctrl[1] = drv.cache[1]
    BY <2>2 DEF Exact, Clks
  <2>7. QED
    BY <2>1, <2>2, <2>4, <2>5, <2>6 DEF DrivenAt
<1>2. DriverInv /\ ToneInv /\ [Next]_vars => ToneInv'
  BY ToneStep
<1>3. Init => ToneInv
  BY ToneInit
<1>4. QED
  BY <1>1, <1>2, <1>3, DriverInvariance, PTL DEF Spec
=============================================================================
