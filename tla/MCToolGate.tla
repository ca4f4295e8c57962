----------------------------- MODULE MCToolGate -----------------------------
(***************************************************************************)
(* Instances of ToolGate for TLC.                                          *)
(***************************************************************************)
EXTENDS ToolGate, TLC

\* Two bounds, one with a restriction to a role, a kill switch next to an automatic
\* mode, and a raise to an approval.
MCPolicies ==
    {NoOverride,
     [NoOverride EXCEPT !.bound = {1}],
     [NoOverride EXCEPT !.bound = {2}, !.roles = {"admin"}],
     [NoOverride EXCEPT !.enabled = FALSE, !.requires = "no"],
     [NoOverride EXCEPT !.mode = "approval"]}

\* Two calls do not share what they read of the cache: it is in play for the first.
CacheForOne == cached = {} \/ call[2].pc = "idle"

=============================================================================
