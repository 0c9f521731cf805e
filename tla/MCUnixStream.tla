---------------------------- MODULE MCUnixStream ----------------------------
(* One connection between two processes.                                   *)
EXTENDS UnixStream, TLC

CONSTANTS dialer, listener

OtherEnd == (dialer :> listener) @@ (listener :> dialer)

=============================================================================
