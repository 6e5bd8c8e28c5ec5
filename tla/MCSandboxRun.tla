---------------------------- MODULE MCSandboxRun ----------------------------
(* Small instance of SandboxRun: the process the runner starts and two more,  *)
(* on hosts with each primitive, with two, and with none.                      *)
EXTENDS SandboxRun

CONSTANTS child, grandchild

MCProcess == {main, child, grandchild}
MCHosts == {{}, {"docker", "linux-bwrap"}, {"macos-seatbelt"}, {"linux-bwrap"}}
=============================================================================
