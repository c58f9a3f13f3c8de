------------------------------ MODULE MCAppLogger ------------------------------
(* Small instances of the event logger for TLC.                             *)
EXTENDS AppLoggerProps

CONSTANTS w1, w2, ft, vt

\* App.h: MZTS_task (8) above the VT100 task (15) above the USB supervisor (17)
\* above the file task (19).
PrioMC == [t \in {w1, w2, ft, vt} |->
             CASE t = w1 -> 8 [] t = vt -> 15 [] t = w2 -> 17
               [] t = ft -> 19]
PrioOf == [t \in Tasks |-> PrioMC[t]]

===============================================================================
