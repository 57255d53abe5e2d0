----------------------------- MODULE MCDispatch -----------------------------
(* Model values of Dispatch for TLC. *)
EXTENDS Dispatch

\* Every combination of flags, gates and environment, with an executor that
\* can do everything or only `call`, one gated and one bypassing strategy.
MCCalls ==
  { c \in CallSpace :
      /\ c.strategy \in {"none", "standard", "internal"}
      /\ c.caps \in {{}, {"call_with_trace", "stream", "validate"}}
      /\ c.logger \in {"on", "failing"}
      /\ c.streaming => c.stream
      /\ c.stream => c.via = "module" }

MCBodyErrors == {"ModuleError", "AuthenticationError"}
=============================================================================
