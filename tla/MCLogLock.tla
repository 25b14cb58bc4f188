----------------------------- MODULE MCLogLock ------------------------------
(* Small instances of LogLock: every build, or the default one.             *)
EXTENDS LogLock

AllBuilds == [btrace : BOOLEAN, send_fails : BOOLEAN, close_fails : BOOLEAN]

\* config_default.ini: btrace_on_error=true; a subscriber may vanish.
DefaultBuild == {[btrace |-> TRUE, send_fails |-> TRUE, close_fails |-> FALSE]}
=============================================================================
