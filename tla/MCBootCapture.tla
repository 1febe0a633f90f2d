--------------------------- MODULE MCBootCapture ---------------------------
(***************************************************************************)
(* Instances of BootCapture for TLC: the workers of three captures.         *)
(***************************************************************************)
EXTENDS BootCapture

\* The UART, with a marker, and an HTTP endpoint.
ConsoleAndHttp == {"serial", "http"}

\* The worker that holds the lock while it reads, and the one that may outlast
\* run's join.
LinkAndHttp == {"carrier", "http"}

\* The carrier observer alone competes with run for the lock.
LinkOnly == {"carrier"}
=============================================================================
