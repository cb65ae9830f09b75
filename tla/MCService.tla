----------------------------- MODULE MCService -----------------------------
(***************************************************************************)
(* A configuration that lets the kernel choose the port, as the tests of   *)
(* service.rs do, one with a fixed port, as config.example.toml, and one   *)
(* that does not parse.                                                     *)
(***************************************************************************)
EXTENDS Service

Config(valid, p) == [valid |-> valid, port |-> p]
MCConfigs == {Config(TRUE, 0), Config(TRUE, 1), Config(FALSE, 0)}
MCPorts == {1, 2}
=============================================================================
