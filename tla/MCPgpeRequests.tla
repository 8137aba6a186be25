--------------------------- MODULE MCPgpeRequests ---------------------------
(* Small instances of PgpeRequests.                                        *)
EXTENDS PgpeRequests

Together == {Requests \union Flags}

(* A suspension and WOF do not come in one behaviour: with both the answer *)
(* to a quad can stay out (MCPgpeRequestsSuspendInterlock.cfg).            *)
WofOrSuspend == {{"START_STOP", "QUADS", "PM_COMPLEX_SUSPEND"},
                 {"START_STOP", "QUADS", "WOF_CTRL", "VFRT"}}
=============================================================================
