---------------------------- MODULE MCResumePlan ----------------------------
(***************************************************************************)
(* One thread, as the stub has, one id that is none of its threads, and    *)
(* vCont packets of up to two actions.                                     *)
(***************************************************************************)
EXTENDS ResumePlan

MCThreads == <<1>>
=============================================================================
