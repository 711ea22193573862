------------------------------ MODULE MCGuard ------------------------------
(***************************************************************************)
(* Instances of Guard for TLC: who takes part, and what each one's preview *)
(* depends on.                                                             *)
(***************************************************************************)
EXTENDS Guard, TLC

CONSTANTS reconcile, reset, browser, pin

\* Two commands, one of them a factory reset, and two requests of the server, one
\* of them a job that asks as it goes.
Everyday == (reconcile :> "recheck") @@ (reset :> "reset")
            @@ (browser :> "change") @@ (pin :> "jobAsks")

\* A preview that everything alters but a pin of host keys.
PinDoesNotMatter == [p \in Actor |-> Actor \ {pin}]
=============================================================================
