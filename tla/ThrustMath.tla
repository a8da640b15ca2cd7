----------------------------- MODULE ThrustMath -----------------------------
(* Arithmetic on signed levels and saturating timers, shared by the layers *)
(* of the thrust chain.                                                    *)
EXTENDS Integers

Abs(x) == IF x < 0 THEN -x ELSE x
Sign(x) == IF x < 0 THEN -1 ELSE 1
Clamp(x, lo, hi) == IF x < lo THEN lo ELSE IF x > hi THEN hi ELSE x

(* A timer that stops counting at cap, where no guard tells later values apart. *)
Saturate(x, cap) == IF x > cap THEN cap ELSE x

(* One slew-limited step from a level towards another.                     *)
Towards(from, to, step) == Clamp(to, from - step, from + step)
=============================================================================
