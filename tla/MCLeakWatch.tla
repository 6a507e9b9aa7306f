----------------------------- MODULE MCLeakWatch -----------------------------
(* LeakWatch, stopped and started again while another thread scans. *)
EXTENDS LeakWatch

CONSTANTS t1, t2, app, owner

Asking(creates, hookings, starts, scans, alarms, by) ==
    [creates |-> creates, hooks |-> hookings, starts |-> starts, scans |-> scans,
     alarms |-> alarms, by |-> by]

RestartPlan == {Asking(0, 0, 2, 1, 1, app)}
=============================================================================
