---------------------------- MODULE SynthTables ----------------------------
(***************************************************************************)
(* Three band tables of si5351.c, in kHz, without row 0 (the one of the    *)
(* boards H v3.3 differs from the H4's in drive currents only).  `n' is    *)
(* the union of div and pll_n; a freq below 20 is a multiple of the        *)
(* harmonic threshold; the drive fields are register values (0..3); of the *)
(* two gains the left one is kept.                                         *)
(***************************************************************************)
EXTENDS Integers, Sequences

BandRow(freq, mode, n, mul, omul, pow, opow, gain) ==
  [freq |-> freq, mode |-> mode, n |-> n, mul |-> mul, omul |-> omul,
   pow |-> pow, opow |-> opow, gain |-> gain]

H4_SI5351 == <<
  BandRow(26, "pll", 8, 1, 1, 0, 0, 0),
  BandRow(100000, "pll", 32, 1, 1, 0, 0, 0),
  BandRow(130000, "mult", 8, 1, 1, 1, 1, 0),
  BandRow(180000, "mult", 6, 1, 1, 1, 1, 0),
  BandRow(1, "mult", 4, 1, 1, 1, 1, 0),
  BandRow(460000, "mult", 6, 3, 5, 1, 1, 40),
  BandRow(600000, "mult", 4, 3, 5, 1, 1, 40),
  BandRow(3, "mult", 4, 3, 5, 3, 1, 50),
  BandRow(1200000, "mult", 4, 5, 7, 3, 2, 70),
  BandRow(5, "mult", 4, 5, 7, 3, 2, 70),
  BandRow(1800000, "mult", 4, 7, 9, 3, 3, 70),
  BandRow(7, "mult", 4, 7, 9, 3, 3, 70),
  BandRow(2400000, "mult", 4, 9, 11, 3, 3, 85),
  BandRow(9, "mult", 4, 9, 11, 3, 3, 95),
  BandRow(11, "mult", 4, 11, 12, 3, 3, 95) >>

H36_MS5351 == <<
  BandRow(26, "pll", 16, 1, 1, 0, 0, 0),
  BandRow(120000, "pll", 32, 1, 1, 0, 0, 0),
  BandRow(1, "mult", 4, 1, 1, 1, 1, 0),
  BandRow(400000, "mult", 8, 3, 5, 3, 2, 20),
  BandRow(588000, "mult", 6, 3, 5, 3, 2, 20),
  BandRow(3, "mult", 4, 3, 5, 3, 2, 30),
  BandRow(5, "mult", 4, 5, 7, 3, 2, 60),
  BandRow(7, "mult", 4, 7, 9, 3, 3, 75),
  BandRow(9, "mult", 4, 9, 11, 3, 3, 80),
  BandRow(11, "mult", 4, 11, 13, 3, 3, 95) >>

SWC5351 == <<
  BandRow(32, "pll", 6, 1, 1, 3, 1, 0),
  BandRow(130000, "pll", 40, 1, 1, 3, 1, 0),
  BandRow(1, "mult", 4, 1, 1, 3, 1, 0),
  BandRow(588000, "mult", 6, 3, 5, 3, 1, 0),
  BandRow(3, "mult", 4, 3, 5, 3, 1, 0),
  BandRow(5, "mult", 4, 5, 7, 3, 3, 0),
  BandRow(7, "mult", 4, 7, 9, 3, 3, 40),
  BandRow(9, "mult", 4, 9, 11, 3, 3, 40),
  BandRow(11, "mult", 4, 11, 13, 3, 3, 40) >>
=============================================================================
