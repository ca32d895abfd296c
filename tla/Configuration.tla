---------------------------- MODULE Configuration ---------------------------
(***************************************************************************)
(* AppConfig (src/crates/marsala/src/config.rs), so far as it decides what *)
(* is intercepted: how the sources override each other, what validate      *)
(* accepts, and the action of a CONNECT.                                   *)
(*                                                                         *)
(* A host is [name, upper, marks]: two spellings of a name differ in upper *)
(* only, and marks are the characters in it that matter to validation.     *)
(***************************************************************************)
EXTENDS Naturals, FiniteSets, TLC

Marks == {"colon", "slash", "star", "blank"}
Host(name) == [name |-> name, upper |-> FALSE, marks |-> {}]

\* eq_ignore_ascii_case
SameIgnoringCase(h, i) == [h EXCEPT !.upper = FALSE] = [i EXCEPT !.upper = FALSE]

\* AppConfig::default
Defaults ==
  [proxy |-> FALSE, mitm |-> FALSE, default_action |-> "tunnel", allow_hosts |-> {},
   ca_paths |-> TRUE, max_request_body_bytes |-> 2]

\* AppConfig::load: the environment overrides the file given, that overrides
\* the default file, and a source sets some of the fields only.
Load(file, explicit, environment) == environment @@ explicit @@ file @@ Defaults

\* Mutant: hosts may contain colons.
ValidateNoColon(host) == host.name # "" /\ host.marks \subseteq {"colon"}

\* validate_mitm_allow_host: not empty, no URL, port, wildcard or whitespace.
ValidateAllowHost(host) == host.name # "" /\ host.marks = {}

\* MitmConfig::validate
Validate(config) ==
  /\ config.default_action = "tunnel"
  /\ config.max_request_body_bytes > 0
  /\ \A host \in config.allow_hosts : ValidateAllowHost(host)
  /\ config.mitm => config.proxy /\ config.allow_hosts # {} /\ config.ca_paths

\* connect_action_for_host: an allowed host is spelt as in the configuration.
ConnectAction(config, host) ==
  IF config.proxy /\ config.mitm /\ host \in config.allow_hosts THEN "mitm" ELSE "tunnel"

=============================================================================
