------------------------------- MODULE XPTime -------------------------------
(***************************************************************************)
(* The times of the xpthread library (xpthread.c: xp_subtime, xp_addtime,  *)
(* xp_cmptime): seconds and microseconds, the latter below a million.      *)
(*                                                                         *)
(* Both are 32 bits wide in the code, where an overflow of the seconds is  *)
(* undefined; here they are integers, so what is proved is about times     *)
(* whose sum or difference fits.                                           *)
(***************************************************************************)
EXTENDS Integers

Million == 1000000

Time == {t \in [sec : Int, usec : Int] : 0 <= t.usec /\ t.usec < Million}

Micros(t) == t.sec * Million + t.usec

-----------------------------------------------------------------------------
SubTime(a, b) ==
  IF a.usec < b.usec
    THEN [sec |-> a.sec - b.sec - 1, usec |-> Million - (b.usec - a.usec)]
    ELSE [sec |-> a.sec - b.sec, usec |-> a.usec - b.usec]

AddTime(a, b) ==
  LET sec == a.sec + b.sec
      usec == a.usec + b.usec
  IN  IF usec >= Million
        THEN [sec |-> sec + 1, usec |-> usec - Million]
        ELSE [sec |-> sec, usec |-> usec]

CmpTime(a, b) ==
  IF a.sec < b.sec THEN -1
  ELSE IF a.sec > b.sec THEN 1
  ELSE IF a.usec = b.usec THEN 0
  ELSE IF a.usec > b.usec THEN 1
  ELSE -1
=============================================================================
