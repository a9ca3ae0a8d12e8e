-------------------------------- MODULE MCCron ------------------------------
(***************************************************************************)
(* Cron expressions and times for TLC.                                     *)
(***************************************************************************)
EXTENDS Cron

All == {[form |-> "all"]}
Only(n) == {[form |-> "value", n |-> n]}
Every(n) == {[form |-> "step", n |-> n]}
Span(l, h) == {[form |-> "range", lo |-> l, hi |-> h]}

Fields(minutes, hours, doms, months, dows) ==
    [minutes |-> minutes, hours |-> hours, doms |-> doms, months |-> months, dows |-> dows]

LeapDay == Fields(Only(0), Only(0), Only(29), Only(2), All)

At(y, m, d, half) == 2 * MinutesPerDay * DayOf(y, m, d) + half

=============================================================================
