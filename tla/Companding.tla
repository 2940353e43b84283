----------------------------- MODULE Companding -----------------------------
(***************************************************************************)
(* G.711 as the workers compute it (audiofmt.py), on 16-bit samples, and   *)
(* the decoders of the two recognisers, which must undo it.  x >> n is the *)
(* floor of a division, also for negative x.                               *)
(***************************************************************************)
EXTENDS Integers, FiniteSets, FiniteSetsExt

Shr(x, n) == x \div 2^n
Abs16(x) == IF x < 0 THEN -x ELSE x
Lower(x, y) == IF x < y THEN x ELSE y

\* x ^ mask on bytes: the bits in which the two differ
Xor(x, mask) == MapThenSumSet(LAMBDA k : 2^k * ((Shr(x, k) + Shr(mask, k)) % 2), 0 .. 7)

\* np.searchsorted(ends, p, side="left"), for ends 2^(k+first) - 1
Segment(p, first) == Cardinality({k \in 0 .. 7 : 2^(k + first) - 1 < p})

Lin2Ulaw(pcm) ==
  LET p == Lower(Abs16(Shr(pcm, 2)), 8159) + 33
      seg == Segment(p, 6)
      uval == IF seg >= 8 THEN 127 ELSE seg * 16 + (Shr(p, seg + 1) % 16)
  IN  Xor(uval, IF Shr(pcm, 2) < 0 THEN 127 ELSE 255)

Ulaw2Lin(u8) ==
  LET u == 255 - u8
      t == ((u % 16) * 8 + 132) * 2^(Shr(u, 4) % 8)
  IN  IF u >= 128 THEN 132 - t ELSE t - 132

Lin2Alaw(pcm) ==
  LET x == Shr(pcm, 3)
      p == IF x >= 0 THEN x ELSE -x - 1
      seg == Segment(p, 5)
      aval == IF seg >= 8 THEN 127
              ELSE seg * 16 + (Shr(p, IF seg < 2 THEN 1 ELSE seg) % 16)
  IN  Xor(aval, IF x >= 0 THEN 213 ELSE 85)

Alaw2Lin(a8) ==
  LET a == Xor(a8, 85)
      seg == Shr(a, 4) % 8
      t == IF seg = 0 THEN (a % 16) * 16 + 8 ELSE ((a % 16) * 16 + 264) * 2^(seg - 1)
  IN  IF a >= 128 THEN t ELSE -t

\* the table of worker-stt-realtime
MulawTable(u8) ==
  LET u == 255 - u8
      mag == ((u % 16) * 8 + 132) * 2^(Shr(u, 4) % 8)
  IN  IF Shr(u, 7) # 0 THEN 132 - mag ELSE mag - 132

\* the table of worker-stt
MulawToFloat(u8) ==
  LET u == 255 - u8
      s == ((u % 16) * 8 + 132) * 2^(Shr(u, 4) % 8) - 132
  IN  IF Shr(u, 7) # 0 THEN -s ELSE s

-----------------------------------------------------------------------------
\* What is left of a sample after encoding and decoding.
Heard(law, x) == IF law = "mulaw" THEN Ulaw2Lin(Lin2Ulaw(x)) ELSE Alaw2Lin(Lin2Alaw(x))

\* Every sample survives: the order of two samples is never reversed, the error is
\* within a sixteenth of the sample's size (G.711's step) and a fixed floor, a
\* sample heard once is heard the same again, and all three decoders agree.
Survives(law, x) ==
  /\ x < 32767 => Heard(law, x) <= Heard(law, x + 1)
  /\ Abs16(Heard(law, x) - x) <= 16 + Abs16(x) \div 16
  /\ Heard(law, Heard(law, x)) = Heard(law, x)
  /\ law = "mulaw" => /\ MulawTable(Lin2Ulaw(x)) = Heard(law, x)
                      /\ MulawToFloat(Lin2Ulaw(x)) = Heard(law, x)
=============================================================================
