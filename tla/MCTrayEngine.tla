---------------------------- MODULE MCTrayEngine ----------------------------
(* Small instances of TrayEngine: the configurations a process starts with *)
EXTENDS TrayEngine

DefaultConfig   == [automatic |-> FALSE, auto_resume |-> TRUE, lockout |-> FALSE]
LockoutConfig   == [DefaultConfig EXCEPT !.lockout = TRUE]
AutomaticConfig == [LockoutConfig EXCEPT !.automatic = TRUE]

OnlyDefault == {DefaultConfig}
LockoutManual == {LockoutConfig}
BothLockout == {LockoutConfig, AutomaticConfig}
=============================================================================
