----------------------------- MODULE MCSession ------------------------------
(***************************************************************************)
(* Session with the hooks the stubs and setters of the code amount to: an  *)
(* xxtea setter that finds a key and a signature or the key alone, a       *)
(* vtable setter that finds only a signature, and abort, which logs a call *)
(* and ends the run.  Captures log events as stubs do.                     *)
(***************************************************************************)
EXTENDS Session

Does(logs, captured) ==
  [NoHook EXCEPT !.logs = logs, !.keys = captured]

MCHookKinds ==
  {NoHook, Does(0, <<"xxtea", "signature">>), Does(0, <<"xxtea">>),
   [Does(0, <<"signature">>) EXCEPT !.vtable = TRUE],
   [Does(1, <<>>) EXCEPT !.ends = TRUE]}
=============================================================================
