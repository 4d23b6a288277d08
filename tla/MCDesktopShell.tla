--------------------------- MODULE MCDesktopShell ---------------------------
(* Instance of DesktopShell for TLC: three windows, of which two can exist at once. *)
EXTENDS DesktopShell, TLC

CONSTANTS w1, w2, w3

=============================================================================
