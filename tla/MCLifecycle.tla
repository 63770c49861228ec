---------------------------- MODULE MCLifecycle ----------------------------
(* One operator beside the reconciler.                                     *)
EXTENDS AgentLifecycle
=============================================================================
