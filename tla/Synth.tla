------------------------------- MODULE Synth -------------------------------
(***************************************************************************)
(* The driver of the clock generator (si5351.c) and the chip it programs.  *)
(* CLK0 makes the local oscillator (frequency + IF offset), CLK1 the test  *)
(* tone, CLK2 the 8 MHz clock of the audio codec.  The driver keeps what   *)
(* it believes to be in the chip (band, frequency, drive current and the   *)
(* three control registers) and skips the writes it believes redundant.    *)
(*                                                                         *)
(* Frequencies are in kHz.  A register holds what it was computed from: a  *)
(* PLL <<"fixed", n>> (multiplier n) or <<"var", f, d, m, x>> (f * d / m   *)
(* with a reference believed to be x), a multisynth <<"div", d>> or        *)
(* <<"to", pll, f, x>> (divide that PLL down to f).  approximate_fraction  *)
(* is taken to be exact.                                                   *)
(***************************************************************************)
EXTENDS Integers, Sequences

CONSTANTS
  Tables,          \* mode -> the rows 1.. of its band table (row 0 is "no band")
  Freqs,           \* frequencies measured
  Powers,          \* drive settings in use: 0..3 (2, 4, 6, 8 mA), 255 automatic
  Xtals,           \* values given to config._xtal_freq
  Offsets,         \* IF offsets
  Thresholds,      \* values given to config._harmonic_freq_threshold
  Operations       \* {"pause", "mute", "live_tcxo", "mode"}: what may happen

AutoPower == 255
Clk2Frequency == 8000
PllN2 == 32

ASSUME TablesAssumption ==
  \A t \in DOMAIN Tables :
    /\ {1, 2} \subseteq DOMAIN Tables[t] /\ 0 \notin DOMAIN Tables[t]
    /\ \A b \in DOMAIN Tables[t] :
         /\ Tables[t][b].mode \in {"pll", "mult"}
         /\ Tables[t][b].n \in Nat \ {0} /\ Tables[t][b].gain \in Nat
         /\ Tables[t][b].pow \in 0 .. 3 /\ Tables[t][b].opow \in 0 .. 3
ASSUME SetsAssumption == /\ Freqs \subseteq Nat \ {0}
                         /\ Powers \subseteq {0, 1, 2, 3, AutoPower}
                         /\ Operations \subseteq {"pause", "mute", "live_tcxo", "mode"}

VARIABLES
  drv,             \* current_band, current_power, current_freq, clk_cache
  chip,            \* oe, ctrl[0..2], ms[0..2], pll["A", "B"]
  gain,            \* gain set in the codec
  pending,         \* band and frequency the running call will record, or "none"
  power,           \* current_props._power
  xtal, offset, threshold, band_mode,   \* config
  sweep            \* "on", "paused", or "muted"

config == <<power, xtal, offset, threshold, band_mode>>
vars == <<drv, chip, gain, pending, power, xtal, offset, threshold, band_mode, sweep>>

-----------------------------------------------------------------------------
(***************************************************************************)
(* The band table.                                                         *)
(***************************************************************************)
Row(b) == Tables[band_mode][b]

\* Row 0 has div 0 and a gain (-1) no band has
Div(b) == IF b = 0 THEN 0 ELSE Row(b).n
Gain(b) == IF b = 0 THEN -1 ELSE Row(b).gain

\* A limit below 20 is a multiple of the harmonic threshold
LimitOf(row, h) == IF row.freq < 20 THEN row.freq * h ELSE row.freq
Limit(b) == LimitOf(Row(b), threshold)

\* The search in the table, which has no bound, ends: at the frequencies in use,
\* and at the one the driver starts with
ASSUME BandsAssumption ==
  \A t \in DOMAIN Tables, h \in Thresholds, f \in Freqs \cup {26000} :
    f > 1000 => \E b \in DOMAIN Tables[t] :
                  /\ f <= LimitOf(Tables[t][b], h)
                  /\ \A c \in 1 .. b - 1 : f > LimitOf(Tables[t][c], h)

HarmonicLevel(f) ==
  CHOOSE b \in DOMAIN Tables[band_mode] :
    f <= Limit(b) /\ \A c \in 1 .. b - 1 : f > Limit(c)

Band(f) == IF f < Row(1).freq THEN 1
           ELSE IF f <= 1000 THEN 2
           ELSE HarmonicLevel(f)

-----------------------------------------------------------------------------
(***************************************************************************)
(* Register writes.  A driver call works on s = [drv, chip, gain].         *)
(***************************************************************************)
Down == [on |-> FALSE, drive |-> 0, pll |-> "A", int |-> FALSE]
Clk(drive, pll, int) == [on |-> TRUE, drive |-> drive, pll |-> pll, int |-> int]

ResetCache(d) == [d EXCEPT !.band = 0, !.freq = 0]

SetupPLL(s, pll, value) == [s EXCEPT !.chip.pll[pll] = value]

\* A variant that does not keep a copy of what it writes
SetupUncached(s, ch, ms, ctrl) ==
  [s EXCEPT !.chip.ms[ch] = ms, !.chip.ctrl[ch] = ctrl]

\* The control register is written only if the cached copy differs
SetupMultisynth(s, ch, ms, ctrl) ==
  LET t == [s EXCEPT !.chip.ms[ch] = ms]
  IN  IF s.drv.cache[ch] = ctrl THEN t
      ELSE [t EXCEPT !.chip.ctrl[ch] = ctrl, !.drv.cache[ch] = ctrl]

\* si5351_set_frequency_fixedpll: integer mode when the division is exact
FixedPLL(s, ch, pll, reg, khz, f, rdiv, drive) ==
  SetupMultisynth(s, ch, <<"to", reg, f, xtal>>,
                  Clk(drive, pll, (khz * 2^(7 - rdiv)) % f = 0))

ProgramPLL(s, b, f, rdiv, ds, ods) ==
  LET n == Row(b).n
      fixed == <<"fixed", n>>
      codec == <<"fixed", PllN2>>
      s1 == IF s.drv.band = b THEN s
            ELSE FixedPLL(SetupPLL(SetupPLL(s, "A", fixed), "B", codec),
                          2, "B", codec, xtal * PllN2, Clk2Frequency, 0, 0)
      s2 == FixedPLL(s1, 0, "A", fixed, xtal * n, f + offset, rdiv, ods)
  IN  FixedPLL(s2, 1, "A", fixed, xtal * n, f, rdiv, ds)

\* The constant dividers are written when div changes between the bands; a
\* variant writes them only after a reset of the cache
NeverChanges(b, c) == b = 0
DivChanges(b, c) == Div(b) # Div(c)

ProgramMult(s, b, f, ds, ods) ==
  LET r == Row(b)
      pllA == <<"var", f + offset, r.n, r.omul, xtal>>
      pllB == <<"var", f, r.n, r.mul, xtal>>
      s1 == SetupPLL(SetupPLL(s, "A", pllA), "B", pllB)
      s2 == IF DivChanges(s.drv.band, b)
            THEN SetupMultisynth(SetupMultisynth(s1, 0, <<"div", r.n>>, Clk(ods, "A", TRUE)),
                                 1, <<"div", r.n>>, Clk(ds, "B", TRUE))
            ELSE s1
  IN  SetupMultisynth(s2, 2, <<"to", pllB, Clk2Frequency, xtal>>,
                      Clk(0, "B", (f * r.n * 128) % (Clk2Frequency * r.mul) = 0))

\* A variant that skips the first gain after a reset of the cache
SetGainLate(s, b) ==
  IF s.drv.band \notin {0, b} /\ Gain(s.drv.band) # Gain(b) THEN [s EXCEPT !.gain = Gain(b)] ELSE s

\* set_gain is called when the gains of the two bands differ
SetGain(s, b) ==
  IF s.drv.band # b /\ Gain(s.drv.band) # Gain(b) THEN [s EXCEPT !.gain = Gain(b)] ELSE s

(***************************************************************************)
(* si5351_set_frequency: the state when it is about to record the band and *)
(* the frequency, or when it returns early.                                *)
(***************************************************************************)
Drive(f, p) == IF f < Row(1).freq THEN 0 ELSE p

\* The table's current for AUTO; a variant that hands 255 to the register
RawDrive(drive, auto) == drive
DriveOf(drive, auto) == IF drive > 3 THEN auto ELSE drive

\* A new drive current invalidates the cache; a variant that does not
PowerOnly(d, p) == [d EXCEPT !.power = p]
CheckPower(d, p) == IF d.power = p THEN d ELSE [ResetCache(d) EXCEPT !.power = p]

SetFrequency(s, f, p) ==
  LET b == Band(f)
      rdiv == IF f < Row(1).freq THEN 7 ELSE IF f <= 1000 THEN 4 ELSE 0
      drive == Drive(f, p)
      s1 == [s EXCEPT !.drv = CheckPower(s.drv, drive)]
      s2 == SetGain(s1, b)
      ds == DriveOf(drive, Row(b).pow)
      ods == DriveOf(drive, Row(b).opow)
  IN  IF f = 0 THEN s
      ELSE IF f = s1.drv.freq THEN s1
      ELSE IF Row(b).mode = "pll" THEN ProgramPLL(s2, b, f, rdiv, ds, ods)
      ELSE ProgramMult(s2, b, f, ds, ods)

\* The early return: nothing is programmed and nothing is recorded
Redundant(f, p) == f \in {0, CheckPower(drv, Drive(f, p)).freq}

State == [drv |-> drv, chip |-> chip, gain |-> gain]

Becomes(s) == drv' = s.drv /\ chip' = s.chip /\ gain' = s.gain

Record(d, b, f) == [d EXCEPT !.band = b, !.freq = f]

-----------------------------------------------------------------------------
\* After si5351_init: power down, then XTALFREQ (26 MHz) at 2 mA
PowerUp ==
  [drv |-> [band |-> 0, power |-> 0, freq |-> 0, cache |-> [c \in 0 .. 2 |-> Down]],
   chip |-> [oe |-> "on", ctrl |-> [c \in 0 .. 2 |-> Down],
             ms |-> [c \in 0 .. 2 |-> <<"div", 0>>],
             pll |-> [p \in {"A", "B"} |-> <<"fixed", 0>>]],
   gain |-> -1]

Init ==
  /\ power \in Powers /\ xtal \in Xtals /\ offset \in Offsets
  /\ threshold \in Thresholds /\ band_mode \in DOMAIN Tables
  /\ pending = <<>>
  /\ sweep = "on"
  /\ LET s == SetFrequency(PowerUp, 26000, 0)
     IN  /\ drv = Record(s.drv, Band(26000), 26000)
         /\ chip = s.chip /\ gain = s.gain

(***************************************************************************)
(* The sweep thread tunes: a point of a sweep, a scan, or `freq'.  The     *)
(* last thing the call does is to record band and frequency.               *)
(***************************************************************************)
Tune(f) ==
  /\ pending = <<>>
  /\ Becomes(SetFrequency(State, f, power))
  /\ pending' = IF Redundant(f, power) THEN <<>> ELSE <<Band(f), f>>
  /\ UNCHANGED <<config, sweep>>

TuneDone ==
  /\ pending # <<>>
  /\ drv' = Record(drv, pending[1], pending[2])
  /\ pending' = <<>>
  /\ UNCHANGED <<chip, gain, config, sweep>>

\* set_power: programs the chip at once while the sweep is paused
SetPower(p) ==
  /\ pending = <<>>
  /\ p # power
  /\ power' = p
  /\ IF sweep = "on" \/ p = drv.power \/ drv.freq = 0
     THEN UNCHANGED <<drv, chip, gain>>
     ELSE LET s == SetFrequency(State, drv.freq, p)
          IN  Becomes(IF Redundant(drv.freq, p) THEN s
                      ELSE [s EXCEPT !.drv = Record(s.drv, Band(drv.freq), drv.freq)])
  /\ UNCHANGED <<pending, xtal, offset, threshold, band_mode, sweep>>

\* si5351_set_tcxo: from the menu, or from the console thread at any moment
SetTcxo(x) ==
  /\ pending = <<>> \/ "live_tcxo" \in Operations
  /\ x # xtal
  /\ xtal' = x
  /\ drv' = ResetCache(drv)
  /\ UNCHANGED <<chip, gain, pending, power, offset, threshold, band_mode, sweep>>

\* si5351_set_frequency_offset
SetOffset(o) ==
  /\ pending = <<>>
  /\ o # offset
  /\ offset' = o
  /\ drv' = ResetCache(drv)
  /\ UNCHANGED <<chip, gain, pending, power, xtal, threshold, band_mode, sweep>>

\* cmd_threshold, input_harmonic and menu_band_sel_acb change nothing else
SetThreshold(h) ==
  /\ pending = <<>>
  /\ h # threshold
  /\ threshold' = h
  /\ UNCHANGED <<drv, chip, gain, pending, power, xtal, offset, band_mode, sweep>>

SetBandMode(t) ==
  /\ pending = <<>>
  /\ "mode" \in Operations /\ t # band_mode
  /\ band_mode' = t
  /\ UNCHANGED <<drv, chip, gain, pending, power, xtal, offset, threshold, sweep>>

(***************************************************************************)
(* Pause, and Thread1's calls of si5351_disable_output and _enable_output. *)
(***************************************************************************)
Pause ==
  /\ "pause" \in Operations /\ pending = <<>>
  /\ sweep = "on" /\ sweep' = "paused"
  /\ UNCHANGED <<drv, chip, gain, pending, config>>

DisableOutput ==
  /\ "mute" \in Operations /\ pending = <<>>
  /\ sweep = "paused" /\ sweep' = "muted"
  /\ chip' = [chip EXCEPT !.oe = "off", !.ctrl = [c \in 0 .. 2 |-> Down]]
  /\ drv' = ResetCache(drv)
  /\ UNCHANGED <<gain, pending, config>>

EnableOutput ==
  /\ pending = <<>>
  /\ sweep \in {"paused", "muted"} /\ sweep' = "on"
  /\ IF sweep = "muted"
     THEN chip' = [chip EXCEPT !.oe = "on"] /\ drv' = ResetCache(drv)
     ELSE UNCHANGED <<chip, drv>>
  /\ UNCHANGED <<gain, pending, config>>

Next ==
  \/ \E f \in Freqs : Tune(f)
  \/ TuneDone
  \/ \E p \in Powers : SetPower(p)
  \/ \E x \in Xtals : SetTcxo(x)
  \/ \E o \in Offsets : SetOffset(o)
  \/ \E h \in Thresholds : SetThreshold(h)
  \/ \E t \in DOMAIN Tables : SetBandMode(t)
  \/ Pause \/ DisableOutput \/ EnableOutput

Spec == Init /\ [][Next]_vars

-----------------------------------------------------------------------------
\* The driver has nothing under way and believes the chip makes drv.freq
Settled == pending = <<>> /\ drv.freq # 0

\* Output ch makes the frequency f (or a harmonic base of it)
Produces(ch, f) ==
  LET c == chip.ctrl[ch]
      p == chip.pll[c.pll]
      m == chip.ms[ch]
  IN  /\ c.on
      /\ p[1] = "var" => p[5] = xtal
      /\ \/ m[1] = "to" /\ m[2] = p /\ m[3] = f /\ m[4] = xtal
         \/ m[1] = "div" /\ p[1] = "var" /\ p[3] = m[2] /\ p[2] = f

\* The type of every variable.
TypeOK ==
  /\ drv.band \in {0} \cup DOMAIN Tables[band_mode] \/ "mode" \in Operations
  /\ drv.power \in Powers \cup {0} /\ drv.freq \in Freqs \cup {0, 26000}
  /\ chip.oe \in {"on", "off"} /\ \A c \in 0 .. 2 : chip.ctrl[c].drive \in 0 .. 3
  /\ power \in Powers /\ xtal \in Xtals /\ offset \in Offsets
  /\ threshold \in Thresholds /\ band_mode \in DOMAIN Tables
  /\ sweep \in {"on", "paused", "muted"}

(***************************************************************************)
(* "CLK0: frequency + offset, CLK1: frequency, CLK2: fixed 8MHz"           *)
(* (si5351.c:457): with the outputs enabled, what the driver believes to   *)
(* be tuned is what the three outputs make, whatever writes it skipped.    *)
(***************************************************************************)
ToneCorrect ==
  (Settled /\ chip.oe = "on") =>
    /\ Produces(0, drv.freq + offset)
    /\ Produces(1, drv.freq)
    /\ Produces(2, Clk2Frequency)

(***************************************************************************)
(* The codec's gain is the one of the band the frequency belongs to        *)
(* (si5351.c:509), though it is only set when two bands differ in it.      *)
(***************************************************************************)
GainCorrect == Settled => gain = Gain(Band(drv.freq))

(***************************************************************************)
(* "Use cache for this reg, not update if not change" (si5351.c:37): what  *)
(* clk_cache says of a control register is what the chip holds, so that a  *)
(* skipped write was redundant, unless muting powered that output down.    *)
(***************************************************************************)
CacheCoherent ==
  \A c \in 0 .. 2 : chip.ctrl[c] \in {drv.cache[c], Down}

(***************************************************************************)
(* A fixed drive current is the one both generator outputs are programmed  *)
(* with (2 mA below the first band's limit), although their control        *)
(* registers are cached and skipped ("Fixed source drive level",           *)
(* docs/manual/09-menu-map.md).                                            *)
(***************************************************************************)
DriveCorrect ==
  (Settled /\ chip.oe = "on" /\ drv.power # AutoPower) =>
    /\ chip.ctrl[0].drive = Drive(drv.freq, drv.power)
    /\ chip.ctrl[1].drive = Drive(drv.freq, drv.power)
=============================================================================
